------------------------- MODULE FundsInProperties -------------------------
(***************************************************************************)
(* What the ways of paying in promise.                                     *)
(***************************************************************************)
EXTENDS FundsIn, FiniteSetsExt

AmountsOfRows == [j \in Rows |-> journal[j].amount]

Completed(target) ==
    {j \in Rows : journal[j].status = "COMPLETED" /\ journal[j].target = target}

(* The balances are the sums of the COMPLETED rows of the journal, on the   *)
(* target each row names: no notification, delivery or confirmation adds to *)
(* a balance without completing a row, and none completes a row twice.      *)
BalanceExplained ==
    /\ ledger.avail = SumFunctionOnSet(AmountsOfRows, Completed("AVAILABLE"))
    /\ ledger.invest = SumFunctionOnSet(AmountsOfRows, Completed("INVESTMENT"))

(* A row of the journal is put on the ledger at most once, however often    *)
(* its payment is notified (creditTopup) or its declaration confirmed       *)
(* (confirm), and never when it was refused.                                *)
CreditedOnce ==
    \A j \in Rows : credited[j] <= (IF journal[j].status = "FAILED" THEN 0 ELSE 1)

(* A hash of the chain or a payment id puts money on the ledger at most     *)
(* once, whichever of the webhook and the bank is first (referenceTx).      *)
OneCreditPerReference ==
    \A x \in Refs : Cardinality({j \in Rows : credited[j] > 0 /\ journal[j].ref = x}) <= 1

(* A card top-up is credited only when Mollie has the money, even if the    *)
(* notification came before (confirmPayment asks again).                    *)
PaidBeforeCredited ==
    \A j \in Rows : journal[j].type = "CARD_TOPUP" /\ credited[j] > 0
                        => provider[journal[j].ref] = "paid"

(* Money on the main balance is always offered to the approved request: the *)
(* call of tryAutoFulfill follows every credit, unless a restart cuts it.   *)
CreditFollowedUp ==
    \A j \in Rows : credited[j] > 0 /\ journal[j].target = "AVAILABLE" ~> call[j] # "none"

Follows(h, j) == handler[h].pc = "follow" /\ handler[h].row = j

(* Each credit of the main balance hands the request exactly one call of    *)
(* tryAutoFulfill, which is still to come, was made, or was cut, and        *)
(* nothing else causes one: this is what CreditLine takes a deposit to be.  *)
OneCallPerCredit ==
    \A j \in Rows :
        LET following == {h \in Handlers : Follows(h, j)} IN
        /\ credited[j] > 0 /\ journal[j].target = "AVAILABLE"
              <=> call[j] # "none" \/ following # {}
        /\ call[j] # "none" => following = {}
        /\ \A g, h \in following : g = h

Intake == INSTANCE MoneyIntake WITH
    Items    <- Rows,
    main     <- ledger.avail,
    invested <- ledger.invest,
    stage    <- [j \in Rows |-> journal[j].status],
    value    <- [j \in Rows |-> journal[j].amount]

(* All of it together does what MoneyIntake says: each payment announced,   *)
(* credited once or refused, finally.                                       *)
IntakeSpec == Intake!Spec
=============================================================================
