------------------------ MODULE CreditLineProperties ------------------------
(***************************************************************************)
(* What the credit line promises.                                          *)
(***************************************************************************)
EXTENDS CreditLine, FiniteSetsExt

Exists(p) == positions[p].status # "none"

\* The processes between a successful claim and its outcome.
Holds(f, r) == /\ fulfiller[f].pc \in {"issue", "link", "revert"}
               /\ fulfiller[f].request = r

(* The jobs kept apart in time: while a liquidation pass has rows to treat,  *)
(* nothing is repaid and no other liquidation pass begins.  Nothing in the   *)
(* code arranges it; it is the schedule under which the ledger, the journal  *)
(* and the positions are to agree.                                           *)
Apart ==
    \A l \in Liquidators :
        liquidator[l] # NoRows =>
            /\ ledger'.used >= ledger.used
            /\ \A k \in Liquidators \ {l} : liquidator'[k] = NoRows

ApartSpec == Init /\ [][Next /\ Apart]_vars

-----------------------------------------------------------------------------
(* The ledger against the tables. *)

Collaterals == [p \in Positions |-> positions[p].collateral]
Credits == [p \in Positions |-> positions[p].credit]
OpenPositions == {p \in Positions : Active(p)}

(* The aggregated balances of the ledger row are those of the open          *)
(* positions: lockCollateral, applyRepayment and liquidateCollateral move   *)
(* the sums, other statements move the positions, and nothing in the        *)
(* database ties the two together.                                          *)
PledgeReconciles ==
    /\ ledger.locked = SumFunctionOnSet(Collaterals, OpenPositions)
    /\ ledger.granted = SumFunctionOnSet(Credits, OpenPositions)

(* The money in the account is the money the journal can explain: deposits, *)
(* less withdrawals, fees, interest and liquidated collateral.              *)
BooksBalance == ledger.avail + ledger.locked = booked

(* The account never holds less than the journal says, even when a          *)
(* liquidation finds less collateral than it takes (GREATEST in             *)
(* liquidateCollateral).                                                    *)
JournalCovered == ledger.avail + ledger.locked >= booked

(* Used credit beyond the granted credit is the consequence of a            *)
(* liquidation, which revokes the credit and leaves the debt; no order of   *)
(* repayments, yields and new positions gets there otherwise.               *)
UnsecuredOnlyByLiquidation ==
    ledger.used > ledger.granted => \E p \in Positions : positions[p].status = "LIQUIDATED"

-----------------------------------------------------------------------------
(* Requests. *)

(* A request is honoured once: whatever the interleaving of deposits, no    *)
(* two positions come from the same request (the claim in tryAutoFulfill).  *)
CreditIssuedOnce ==
    \A p, q \in Positions :
        Exists(p) /\ Exists(q) /\ positions[p].request = positions[q].request => p = q

(* While the server runs, a FULFILLED request without a position is in the  *)
(* hands of exactly one tryAutoFulfill, which will link or give it back.    *)
ClaimHasOwner ==
    \A r \in Requests :
        requests[r].status = "FULFILLED" /\ requests[r].position = 0
            => Cardinality({f \in Fulfillers : Holds(f, r)}) = 1

(* A client has at most one request that is PENDING or APPROVED             *)
(* (createRequest: a deposit must know which request it honours).           *)
OneActiveRequest ==
    Cardinality({r \in Requests : requests[r].status \in ActiveStatuses}) <= 1

(* A decision is final, and a claim is given back only when nothing was     *)
(* issued on it (approve, reject, the claim and the catch block).           *)
AllowedRequestStep(r) ==
    LET old == requests[r].status
        new == requests'[r].status
    IN  \/ new = old
        \/ old = "none" /\ new = "PENDING"
        \/ old = "PENDING" /\ new \in {"APPROVED", "REJECTED"}
        \/ old = "APPROVED" /\ new = "FULFILLED"
        \/ old = "FULFILLED" /\ new = "APPROVED" /\ \A p \in Positions : positions[p].request # r

RequestLifecycle == [][\A r \in Requests : AllowedRequestStep(r)]_vars

(* A claimed request does not stay without a position: it gets one, or it   *)
(* waits for a deposit again.                                               *)
ClaimSettles ==
    \A r \in Requests :
        requests[r].status = "FULFILLED" /\ requests[r].position = 0
            ~> requests[r].position # 0 \/ requests[r].status = "APPROVED"

-----------------------------------------------------------------------------
(* Positions. *)

(* A position that was closed or liquidated never changes status again.     *)
ClosedIsFinal ==
    [][\A p \in Positions : positions[p].status \in {"CLOSED", "LIQUIDATED"}
                               => positions'[p].status = positions[p].status]_vars

(* The yield of a collateral repays at most 60% of the credit its position  *)
(* was opened with, counting every repayment that was made; only a          *)
(* repayment whose update failed, or was cut by a restart, comes on top.    *)
YieldWithinCap ==
    \A p \in Positions : yieldPaid[p] <= YieldCap(positions[p].credit) + unmarked[p]

(* No gain is counted twice: what the yield of a position has repaid is     *)
(* covered by the rise from its entry price to the price it is marked at,   *)
(* up to what failed updates left unmarked, which a next pass repays again. *)
YieldCoveredByGain ==
    \A p \in Positions :
        Exists(p) /\ positions[p].entry > 0
            => yieldPaid[p] <= unmarked[p]
                  + (positions[p].applied - positions[p].entry)
                      * (positions[p].collateral \div positions[p].entry)

(* An update marks its own repayment and loses no other: the amount on the  *)
(* position falls short of what was repaid by the repayments whose own      *)
(* update is to come or has failed, and by nothing else.                    *)
YieldRecorded ==
    \A p \in Positions : yieldPaid[p] = positions[p].yielded + unmarked[p]

(* The high-water mark of a position never recedes.                         *)
RatchetHolds ==
    [][\A p \in Positions : Exists(p) => /\ positions'[p].applied >= positions[p].applied
                                         /\ positions'[p].yielded >= positions[p].yielded]_vars

-----------------------------------------------------------------------------
(* The abstract account. *)

LoanStage(r) ==
    LET opened == {p \in Positions : positions[p].request = r}
    IN  IF opened # {}
        THEN IF \E p \in opened : Active(p) THEN "granted" ELSE "ended"
        ELSE CASE requests[r].status = "none"     -> "none"
               [] requests[r].status = "PENDING"  -> "asked"
               [] requests[r].status = "REJECTED" -> "refused"
               [] OTHER                           -> "agreed"

Account == INSTANCE CreditAccount WITH
    Loans   <- Requests,
    Credit  <- CreditFor,
    Fee     <- OriginationFee,
    free    <- ledger.avail,
    pledged <- ledger.locked,
    line    <- ledger.granted,
    debt    <- ledger.used,
    loan    <- [r \in Requests |-> LoanStage(r)],
    pledge  <- [r \in Requests |-> requests[r].amount]

(* All the processes, reads, claims and compensations of the credit line    *)
(* together do nothing a client could not be told in the terms of the       *)
(* abstract account: every step is one of its operations, or none.          *)
AccountSpec == Account!Spec
=============================================================================
