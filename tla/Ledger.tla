------------------------------- MODULE Ledger -------------------------------
(***************************************************************************)
(* The master ledger: one row of balances per client, and the statements   *)
(* LedgerService runs on it.  Each statement is a single guarded UPDATE,   *)
(* so it is an operator from a row to a row together with the condition of *)
(* its WHERE clause; the services that call it decide what a refused       *)
(* statement means.  Amounts are exact decimals in the code: here they are *)
(* integers counted in the smallest unit a configuration needs.            *)
(*                                                                         *)
(* In this module and the others a definition with an underscore in its    *)
(* name (Name_Fault) is a faulty variant of Name, kept beside it to test   *)
(* that the properties notice the fault; no specification uses it.         *)
(***************************************************************************)
EXTENDS Integers

LedgerRow == [avail : Nat, locked : Nat, granted : Nat, used : Nat, invest : Nat]

EmptyLedger == [avail |-> 0, locked |-> 0, granted |-> 0, used |-> 0, invest |-> 0]

\* GREATEST(x, 0) of the SQL.
AtLeastZero(x) == IF x >= 0 THEN x ELSE 0

-----------------------------------------------------------------------------
(* The available balance. *)

CreditAvailable(row, x) == [row EXCEPT !.avail = @ + x]

CanDebitAvailable(row, x) == row.avail >= x

DebitAvailable(row, x) == [row EXCEPT !.avail = @ - x]

-----------------------------------------------------------------------------
(* Collateral and credit. *)

CanLockCollateral(row, collateral) == row.avail >= collateral

LockCollateral(row, collateral, credit) ==
    [row EXCEPT !.avail   = @ - collateral,
                !.locked  = @ + collateral,
                !.granted = @ + credit]

CanRepay(row, x) == row.used >= x

\* The collateral comes back at once, when the last used credit is repaid.  The code
\* tests this twice, before the row is rounded to 6 decimals (the statement) and after
\* (its caller, who closes the positions): on exact amounts the two tests are one.
RepaysAll(row, x) == row.used = x

ApplyRepayment_KeepsCredit(row, x) ==
    IF RepaysAll(row, x)
    THEN [row EXCEPT !.used = 0, !.avail = @ + row.locked, !.locked = 0]
    ELSE [row EXCEPT !.used = @ - x]

ApplyRepayment_KeepsCollateral(row, x) ==
    IF RepaysAll(row, x)
    THEN [row EXCEPT !.used = 0, !.locked = 0, !.granted = 0]
    ELSE [row EXCEPT !.used = @ - x]

ApplyRepayment(row, x) ==
    IF RepaysAll(row, x)
    THEN [row EXCEPT !.used = 0, !.avail = @ + row.locked, !.locked = 0, !.granted = 0]
    ELSE [row EXCEPT !.used = @ - x]

LiquidateCollateral_KeepsCredit(row, collateral, credit) ==
    [row EXCEPT !.locked = AtLeastZero(@ - collateral)]

LiquidateCollateral_ReturnsCollateral(row, collateral, credit) ==
    [row EXCEPT !.avail   = @ + collateral,
                !.locked  = AtLeastZero(@ - collateral),
                !.granted = AtLeastZero(@ - credit)]

LiquidateCollateral(row, collateral, credit) ==
    [row EXCEPT !.locked  = AtLeastZero(@ - collateral),
                !.granted = AtLeastZero(@ - credit)]

-----------------------------------------------------------------------------
(* The investment wallet. *)

CreditInvestment(row, x) == [row EXCEPT !.invest = @ + x]

CanDebitInvestment(row, x) == row.invest >= x

DebitInvestment(row, x) == [row EXCEPT !.invest = @ - x]

TransferToInvestment(row, x) == CreditInvestment(DebitAvailable(row, x), x)

TransferFromInvestment(row, x) == CreditAvailable(DebitInvestment(row, x), x)
=============================================================================
