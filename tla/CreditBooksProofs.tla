-------------------------- MODULE CreditBooksProofs --------------------------
(***************************************************************************)
(* The sums of the credit line: the ledger row against the open positions  *)
(* and the journal, the credit line against the abstract account, and what *)
(* the yield job repays against the gain and the cap.                      *)
(***************************************************************************)
EXTENDS CreditLineProofs, FiniteSums

(* Liquidation works from a copy: the sums agree as long as nothing closes  *)
(* or liquidates a position between the copy and the statement.  That is    *)
(* the schedule of ApartSpec, in which repayments, yields and any number of *)
(* liquidation passes all run, each pass to its end before the next and     *)
(* before anything is repaid.                                               *)

OneUnderWay ==
    \A k, l \in Liquidators : liquidator[k] # NoRows /\ liquidator[l] # NoRows => k = l

LEMMA ApartIsSpec == ApartSpec => Spec
<1>1. [Next /\ Apart]_vars => [Next]_vars
    OBVIOUS
<1> QED BY <1>1, PTL DEF ApartSpec, Spec

LEMMA ApartTyped == ApartSpec => []TypeInv
BY ApartIsSpec, TypeInvariant, PTL

LEMMA OneUnderWayKept ==
    ASSUME TypeInv, OneUnderWay, [Next /\ Apart]_vars
    PROVE  OneUnderWay'
<1>0. liquidator \in [Liquidators -> [Positions -> Position]]
    BY DEF TypeInv, TypeOK
<1>1. CASE UNCHANGED liquidator
    BY <1>1 DEF OneUnderWay
<1>2. ASSUME NEW l \in Liquidators, liquidator[l] # NoRows, Apart
      PROVE  OneUnderWay'
    <2>1. \A k \in Liquidators : k # l => liquidator'[k] = NoRows
        BY <1>2 DEF Apart
    <2> QED BY <2>1 DEF OneUnderWay
<1>3. ASSUME NEW l \in Liquidators, LiquidationStep(l), Apart
      PROVE  OneUnderWay'
    <2>1. \A k \in Liquidators : k # l => liquidator'[k] = liquidator[k]
        BY <1>0, <1>3 DEF LiquidationStep, LiquidationStart, Liquidate, UpdateWarning,
                          LiquidationSkips, LiquidationTreated
    <2>2. CASE \E k \in Liquidators : liquidator[k] # NoRows
        BY <1>2, <1>3, <2>2
    <2>3. CASE \A k \in Liquidators : liquidator[k] = NoRows
        BY <2>1, <2>3 DEF OneUnderWay
    <2> QED BY <2>2, <2>3
<1>4. CASE Crash
    BY <1>4 DEF Crash, OneUnderWay
<1>5. CASE RequestStep \/ MoneyStep
    BY <1>1, <1>5 DEF RequestStep, CheckNoActiveRequest, CreateRequest, CheckPledge, FreezePledge,
                      Approve, Reject, MoneyStep, Deposit, Withdraw, CardSpend, Repay, serverState
<1>6. ASSUME NEW f \in Fulfillers, FulfilStep(f)
      PROVE  OneUnderWay'
    BY <1>1, <1>6 DEF FulfilStep, FindApproved, CheckBalance, Claim, Issue, IssueFails, Link,
                      LinkFails, Revert
<1>7. ASSUME NEW y \in YieldRunners, YieldStep(y)
      PROVE  OneUnderWay'
    BY <1>1, <1>7 DEF YieldStep, YieldStart, YieldCheck, YieldRepay, YieldSkips, YieldAdvance,
                      YieldAdvanceFails
<1>8. CASE UNCHANGED vars
    BY <1>1, <1>8 DEF vars, serverState
<1> QED BY <1>3, <1>4, <1>5, <1>6, <1>7, <1>8 DEF Next

-----------------------------------------------------------------------------
(* The balances are those of the open positions, of which there are always  *)
(* finitely many, and a liquidation pass holds true copies of open ones.    *)

CopiesTrue ==
    \A l \in Liquidators, p \in Positions :
        liquidator[l][p].status = "ACTIVE" =>
            /\ Active(p)
            /\ liquidator[l][p].collateral = positions[p].collateral
            /\ liquidator[l][p].credit = positions[p].credit

BooksInv == /\ IsFiniteSet(OpenPositions)
            /\ PledgeReconciles
            /\ BooksBalance
            /\ CopiesTrue

(* What the sums are taken over.                                            *)
SamePledges ==
    \A p \in Positions : /\ Active(p)' = Active(p)
                         /\ positions'[p].collateral = positions[p].collateral
                         /\ positions'[p].credit = positions[p].credit

SameLine == ledger'.locked = ledger.locked /\ ledger'.granted = ledger.granted

(* A pass keeps its copies or drops them.                                   *)
CopiesKept ==
    \A l \in Liquidators, p \in Positions :
        liquidator'[l][p].status = "ACTIVE" => liquidator'[l][p] = liquidator[l][p]

LEMMA PledgesKept ==
    ASSUME BooksInv, SamePledges, SameLine
    PROVE  IsFiniteSet(OpenPositions)' /\ PledgeReconciles'
<1>1. OpenPositions' = OpenPositions
    BY DEF OpenPositions, SamePledges
<1>2. Collaterals' = Collaterals /\ Credits' = Credits
    BY DEF Collaterals, Credits, SamePledges
<1> QED BY <1>1, <1>2 DEF BooksInv, PledgeReconciles, SameLine

LEMMA CopiesStay ==
    ASSUME BooksInv, SamePledges, CopiesKept
    PROVE  CopiesTrue'
BY DEF BooksInv, CopiesTrue, SamePledges, CopiesKept

LEMMA BooksOfSame ==
    ASSUME BooksInv, SamePledges, SameLine, CopiesKept, BooksBalance'
    PROVE  BooksInv'
BY PledgesKept, CopiesStay DEF BooksInv

LEMMA AmountsOfOpen ==
    ASSUME TypeInv
    PROVE  /\ \A p \in Positions : Collaterals[p] \in Nat /\ Credits[p] \in Nat
           /\ OpenPositions \subseteq Positions
BY DEF TypeInv, TypeOK, Position, Collaterals, Credits, OpenPositions

(* A repayment leaves the positions alone, or closes all and empties the    *)
(* line.                                                                    *)
LEMMA PayBackBooks ==
    ASSUME TypeInv, BooksInv, NEW x \in Nat, NEW i \in Nat, PayBack(x, i)
    PROVE  IsFiniteSet(OpenPositions)' /\ PledgeReconciles' /\ BooksBalance'
<1>0. ledger \in LedgerRow /\ booked \in Int
    BY DEF TypeInv, TypeOK
<1>1. ApplyRepayment(ledger, x) \in LedgerRow
    BY <1>0, StatementsKeepRows DEF PayBack, CanPayBack
<1>2. BooksBalance'
    <2>1. Held(ledger') = Held(ledger) - i
        BY <1>0, <1>1, StatementsMoveMoney DEF PayBack
    <2> QED BY <1>0, <2>1 DEF PayBack, BooksInv, BooksBalance, Held, LedgerRow
<1>3. /\ ledger'.locked = ApplyRepayment(ledger, x).locked
      /\ ledger'.granted = ApplyRepayment(ledger, x).granted
    BY <1>1 DEF PayBack, DebitAvailable, LedgerRow
<1>4. CASE ~RepaysAll(ledger, x)
    <2>1. SameLine
        BY <1>0, <1>3, <1>4 DEF ApplyRepayment, SameLine, LedgerRow
    <2>2. \A p \in Positions : positions'[p] = positions[p]
        BY <1>4 DEF PayBack, Closed
    <2>3. SamePledges
        BY <2>2 DEF SamePledges, Active
    <2> QED BY <1>2, <2>1, <2>3, PledgesKept
<1>5. CASE RepaysAll(ledger, x)
    <2>1. ledger'.locked = 0 /\ ledger'.granted = 0
        BY <1>0, <1>3, <1>5 DEF ApplyRepayment, LedgerRow
    <2>2. \A p \in Positions : positions'[p].status # "ACTIVE"
        BY <1>5 DEF PayBack, Closed, Active, TypeInv, TypeOK, Position
    <2>3. OpenPositions' = {}
        BY <2>2 DEF OpenPositions, Active
    <2>4. SumFunctionOnSet(Collaterals', {}) = 0 /\ SumFunctionOnSet(Credits', {}) = 0
        BY SumOfNone
    <2>5. PledgeReconciles'
        BY <2>1, <2>3, <2>4 DEF PledgeReconciles
    <2> QED BY <1>2, <2>3, <2>5, FS_EmptySet
<1> QED BY <1>4, <1>5

(* A repayment finds no liquidation pass under way.                         *)
LEMMA PayBackApart ==
    ASSUME TypeInv, Apart, NEW x \in Nat, NEW i \in Nat, PayBack(x, i), liquidator' = liquidator
    PROVE  CopiesTrue'
<1>0. ledger \in LedgerRow /\ ApplyRepayment(ledger, x) \in LedgerRow /\ x > 0
    BY StatementsKeepRows DEF TypeInv, TypeOK, PayBack, CanPayBack
<1>1. ledger'.used = ApplyRepayment(ledger, x).used
    BY <1>0 DEF PayBack, DebitAvailable, LedgerRow
<1>2. ApplyRepayment(ledger, x).used = ledger.used - x
    BY <1>0 DEF ApplyRepayment, RepaysAll, LedgerRow
<1>3. ledger.used \in Nat
    BY <1>0 DEF LedgerRow
<1>4. ~(ledger'.used >= ledger.used)
    BY <1>0, <1>1, <1>2, <1>3
<1>5. \A l \in Liquidators : liquidator[l] = NoRows
    BY <1>4 DEF Apart
<1>6. \A p \in Positions : NoRows[p].status # "ACTIVE"
    BY DEF NoRows, NoPositionRow
<1> QED BY <1>5, <1>6 DEF CopiesTrue

LEMMA MoneyStepBooks ==
    ASSUME Apart
    PROVE  TypeInv /\ BooksInv /\ MoneyStep => BooksInv'
<1> SUFFICES ASSUME TypeInv, BooksInv, MoneyStep PROVE BooksInv'
    OBVIOUS
<1>0. ledger \in LedgerRow /\ booked \in Int
    BY DEF TypeInv, TypeOK
<1>1. CASE UNCHANGED <<positions, liquidator>> /\ SameLine /\ BooksBalance'
    <2>1. SamePledges /\ CopiesKept
        BY <1>1 DEF SamePledges, Active, CopiesKept
    <2> QED BY <1>1, <2>1, BooksOfSame
<1>2. ASSUME NEW f \in Fulfillers, NEW x \in Deposits, Deposit(f, x)
      PROVE  BooksInv'
    <2>1. x \in Nat
        BY MoneyAssumption
    <2>2. Held(ledger') = Held(ledger) + x
        BY <1>0, <1>2, <2>1, StatementsMoveMoney DEF Deposit
    <2>3. SameLine
        BY <1>0, <1>2 DEF Deposit, CreditAvailable, SameLine, LedgerRow
    <2>4. BooksBalance'
        BY <1>0, <1>2, <2>1, <2>2 DEF Deposit, BooksInv, BooksBalance, Held, LedgerRow
    <2> QED BY <1>1, <1>2, <2>3, <2>4 DEF Deposit
<1>3. ASSUME NEW x \in Withdrawals, Withdraw(x)
      PROVE  BooksInv'
    <2>1. x \in Nat
        BY MoneyAssumption
    <2>2. Held(ledger') = Held(ledger) - x
        BY <1>0, <1>3, <2>1, StatementsMoveMoney DEF Withdraw
    <2>3. SameLine
        BY <1>0, <1>3 DEF Withdraw, DebitAvailable, SameLine, LedgerRow
    <2>4. BooksBalance'
        BY <1>0, <1>3, <2>1, <2>2 DEF Withdraw, BooksInv, BooksBalance, Held, LedgerRow
    <2> QED BY <1>1, <1>3, <2>3, <2>4 DEF Withdraw, serverState
<1>4. ASSUME NEW x \in Spends, CardSpend(x)
      PROVE  BooksInv'
    <2>1. SameLine /\ BooksBalance'
        BY <1>0, <1>4 DEF CardSpend, BooksInv, BooksBalance, SameLine, LedgerRow, history
    <2> QED BY <1>1, <1>4, <2>1 DEF CardSpend, serverState
<1>5. ASSUME NEW x \in Repayments, NEW i \in Interests \cup {0}, Repay(x, i)
      PROVE  BooksInv'
    <2>1. x \in Nat /\ i \in Nat
        BY MoneyAssumption
    <2>2. IsFiniteSet(OpenPositions)' /\ PledgeReconciles' /\ BooksBalance'
        BY <1>5, <2>1, PayBackBooks DEF Repay
    <2>3. CopiesTrue'
        BY <1>5, <2>1, PayBackApart DEF Repay, serverState
    <2> QED BY <2>2, <2>3 DEF BooksInv
<1> QED BY <1>2, <1>3, <1>4, <1>5 DEF MoneyStep

LEMMA IssueBooks ==
    ASSUME TypeInv, BooksInv, NEW f \in Fulfillers, NEW p \in Positions, NEW price \in Prices,
           Issue(f, p, price)
    PROVE  BooksInv'
<1> DEFINE r == fulfiller[f].request
           c == requests[r].amount
           new == OpenPosition(r, fulfiller[f].currency, price)
           locked == LockCollateral(ledger, c, CreditFor(c))
<1>0. ledger \in LedgerRow /\ booked \in Int /\ positions \in [Positions -> Position]
    BY DEF TypeInv, TypeOK
<1>1. c \in Nat /\ CreditFor(c) \in Nat /\ OriginationFee(c) \in Nat
    BY RatesAreAmounts DEF TypeInv, TypeOK, RequestFound, Searched, Issue, Request
<1>2. locked \in LedgerRow /\ Held(locked) = Held(ledger)
    BY <1>0, <1>1, StatementsKeepRows, StatementsMoveMoney DEF Issue, CanIssue
<1>3. /\ ledger' = DebitAvailable(locked, OriginationFee(c))
      /\ booked' = booked - OriginationFee(c)
      /\ positions' = [positions EXCEPT ![p] = new]
      /\ positions[p].status = "none"
      /\ liquidator' = liquidator
    BY DEF Issue, NextPosition
<1>4. new.status = "ACTIVE" /\ new.collateral = c /\ new.credit = CreditFor(c)
    BY DEF OpenPosition, NoPositionRow
<1>5. locked.locked = ledger.locked + c /\ locked.granted = ledger.granted + CreditFor(c)
    BY <1>0 DEF LockCollateral, LedgerRow
<1> HIDE DEF c, new, locked
<1>6. BooksBalance'
    <2>1. Held(ledger') = Held(ledger) - OriginationFee(c)
        BY <1>1, <1>2, <1>3, StatementsMoveMoney
    <2> QED BY <1>0, <1>1, <1>3, <2>1 DEF BooksInv, BooksBalance, Held, LedgerRow
<1>7. ledger'.locked = ledger.locked + c /\ ledger'.granted = ledger.granted + CreditFor(c)
    BY <1>2, <1>3, <1>5 DEF DebitAvailable, LedgerRow
<1>8. /\ positions'[p] = new
      /\ \A q \in Positions : q # p => positions'[q] = positions[q]
    BY <1>0, <1>3
<1>9. p \notin OpenPositions /\ OpenPositions' = OpenPositions \cup {p}
    BY <1>3, <1>4, <1>8 DEF OpenPositions, Active
<1>10. IsFiniteSet(OpenPositions)'
    BY <1>9, FS_AddElement DEF BooksInv
<1>11. /\ Collaterals'[p] = c /\ Credits'[p] = CreditFor(c)
       /\ \A q \in OpenPositions : /\ Collaterals[q] \in Int /\ Collaterals'[q] = Collaterals[q]
                                   /\ Credits[q] \in Int /\ Credits'[q] = Credits[q]
    <2>1. Collaterals'[p] = c /\ Credits'[p] = CreditFor(c)
        BY <1>4, <1>8 DEF Collaterals, Credits
    <2>2. ASSUME NEW q \in OpenPositions
          PROVE  /\ Collaterals[q] \in Int /\ Collaterals'[q] = Collaterals[q]
                 /\ Credits[q] \in Int /\ Credits'[q] = Credits[q]
        <3>1. q \in Positions /\ q # p
            BY <1>9 DEF OpenPositions
        <3> QED BY <1>8, <3>1, AmountsOfOpen DEF Collaterals, Credits
    <2> QED BY <2>1, <2>2
<1>12. SumFunctionOnSet(Collaterals', OpenPositions \cup {p})
         = SumFunctionOnSet(Collaterals, OpenPositions) + Collaterals'[p]
    BY <1>1, <1>9, <1>11, SumOfMore DEF BooksInv
<1>13. SumFunctionOnSet(Credits', OpenPositions \cup {p})
         = SumFunctionOnSet(Credits, OpenPositions) + Credits'[p]
    BY <1>1, <1>9, <1>11, SumOfMore DEF BooksInv
<1>14. PledgeReconciles'
    BY <1>7, <1>9, <1>11, <1>12, <1>13 DEF BooksInv, PledgeReconciles
<1>15. CopiesTrue'
    BY <1>3, <1>8 DEF BooksInv, CopiesTrue, Active
<1> QED BY <1>6, <1>10, <1>14, <1>15 DEF BooksInv

LEMMA LiquidateBooks ==
    ASSUME OneUnderWay, TypeInv, BooksInv, NEW l \in Liquidators, NEW p \in Positions,
           NEW price \in Prices, Liquidate(l, p, price)
    PROVE  /\ BooksInv'
           /\ ledger'.locked = ledger.locked - positions[p].collateral
           /\ ledger'.granted = ledger.granted - positions[p].credit
<1> DEFINE c == positions[p].collateral
           k == positions[p].credit
<1>0. /\ ledger \in LedgerRow /\ booked \in Int /\ positions \in [Positions -> Position]
      /\ liquidator \in [Liquidators -> [Positions -> Position]]
    BY DEF TypeInv, TypeOK
<1>1. c \in Nat /\ k \in Nat
    BY <1>0 DEF Position
<1>2. /\ liquidator[l][p].status = "ACTIVE" /\ Active(p)
      /\ liquidator[l][p].collateral = c /\ liquidator[l][p].credit = k
    BY DEF Liquidate, BooksInv, CopiesTrue
<1>3. /\ ledger' = LiquidateCollateral(ledger, c, k)
      /\ booked' = booked - c
      /\ positions' = [positions EXCEPT ![p] = LiquidatedRow(positions[p])]
      /\ liquidator' = [liquidator EXCEPT ![l][p] = NoPositionRow]
    BY <1>2 DEF Liquidate, LiquidationTreated
<1>4. p \in OpenPositions /\ IsFiniteSet(OpenPositions)
    BY <1>2 DEF OpenPositions, BooksInv
<1>5. Collaterals[p] = c /\ Credits[p] = k
    BY DEF Collaterals, Credits
<1>6. \A q \in OpenPositions : Collaterals[q] \in Nat /\ Credits[q] \in Nat
    BY AmountsOfOpen
<1>7. c <= ledger.locked /\ k <= ledger.granted
    <2>1. /\ Collaterals[p] <= SumFunctionOnSet(Collaterals, OpenPositions)
          /\ Credits[p] <= SumFunctionOnSet(Credits, OpenPositions)
        BY <1>4, <1>6, SumCovers
    <2> QED BY <1>5, <2>1 DEF BooksInv, PledgeReconciles
<1>8. LiquidatedRow(positions[p]).status = "LIQUIDATED"
    BY <1>0 DEF LiquidatedRow, Position
<1> HIDE DEF c, k
<1>9. /\ ledger'.locked = ledger.locked - c /\ ledger'.granted = ledger.granted - k
      /\ ledger'.avail = ledger.avail
    BY <1>0, <1>1, <1>3, <1>7 DEF LiquidateCollateral, AtLeastZero, LedgerRow
<1>10. /\ positions'[p].status = "LIQUIDATED"
       /\ \A q \in Positions : q # p => positions'[q] = positions[q]
    BY <1>0, <1>3, <1>8
<1>11. OpenPositions' = OpenPositions \ {p}
    BY <1>10 DEF OpenPositions, Active
<1>12. IsFiniteSet(OpenPositions)'
    BY <1>4, <1>11, FS_Subset
<1>13. \A q \in OpenPositions \ {p} : /\ Collaterals[q] \in Int /\ Collaterals'[q] = Collaterals[q]
                                      /\ Credits[q] \in Int /\ Credits'[q] = Credits[q]
    <2>1. ASSUME NEW q \in OpenPositions \ {p}
          PROVE  /\ Collaterals[q] \in Int /\ Collaterals'[q] = Collaterals[q]
                 /\ Credits[q] \in Int /\ Credits'[q] = Credits[q]
        <3>1. q \in Positions /\ q # p
            BY DEF OpenPositions
        <3>2. Collaterals[q] \in Int /\ Credits[q] \in Int
            BY <1>6
        <3>3. Collaterals'[q] = Collaterals[q] /\ Credits'[q] = Credits[q]
            BY <1>10, <3>1 DEF Collaterals, Credits
        <3> QED BY <3>2, <3>3
    <2> QED BY <2>1
<1>14. SumFunctionOnSet(Collaterals', OpenPositions \ {p})
         = SumFunctionOnSet(Collaterals, OpenPositions) - Collaterals[p]
    <2>1. Collaterals[p] \in Int
        BY <1>4, <1>6
    <2>2. \A q \in OpenPositions \ {p} :
             Collaterals[q] \in Int /\ Collaterals'[q] = Collaterals[q]
        BY <1>13
    <2> QED BY <1>4, <2>1, <2>2, SumOfLess
<1>15. SumFunctionOnSet(Credits', OpenPositions \ {p})
         = SumFunctionOnSet(Credits, OpenPositions) - Credits[p]
    <2>1. Credits[p] \in Int
        BY <1>4, <1>6
    <2>2. \A q \in OpenPositions \ {p} : Credits[q] \in Int /\ Credits'[q] = Credits[q]
        BY <1>13
    <2> QED BY <1>4, <2>1, <2>2, SumOfLess
<1>16. PledgeReconciles'
    BY <1>5, <1>9, <1>11, <1>14, <1>15 DEF BooksInv, PledgeReconciles
<1>17. BooksBalance'
    <2>1. ledger.avail \in Int /\ ledger.locked \in Int /\ ledger.avail + ledger.locked = booked
        BY <1>0 DEF LedgerRow, BooksInv, BooksBalance
    <2>2. booked' = booked - c /\ ledger'.avail = ledger.avail /\ ledger'.locked = ledger.locked - c
        BY <1>3, <1>9
    <2> QED BY <1>1, <2>1, <2>2 DEF BooksBalance
<1>18. CopiesTrue'
    <2>1. ASSUME NEW m \in Liquidators, NEW q \in Positions, liquidator'[m][q].status = "ACTIVE"
          PROVE  q # p /\ liquidator'[m][q] = liquidator[m][q]
        <3>2. NoPositionRow.status # "ACTIVE" /\ NoRows[p].status # "ACTIVE" /\ NoRows[q].status # "ACTIVE"
            BY DEF NoRows, NoPositionRow
        <3>3. liquidator[l] # NoRows
            BY <1>2, <3>2
        <3>4. m # l => liquidator[m] = liquidator'[m]
            BY <1>0, <1>3
        <3>1. m = l
            BY <2>1, <3>2, <3>3, <3>4 DEF OneUnderWay
        <3> QED BY <1>0, <1>3, <2>1, <3>1, <3>2
    <2> QED BY <1>10, <2>1 DEF BooksInv, CopiesTrue, Active
<1> QED BY <1>9, <1>12, <1>16, <1>17, <1>18 DEF BooksInv, c, k

LEMMA RequestStepBooks == TypeInv /\ BooksInv /\ RequestStep => BooksInv'
<1> SUFFICES ASSUME TypeInv, BooksInv, RequestStep PROVE BooksInv'
    OBVIOUS
<1>1. UNCHANGED <<ledger, positions, liquidator, booked>>
    BY DEF RequestStep, CheckNoActiveRequest, CreateRequest, CheckPledge, FreezePledge,
           Approve, Reject, serverState, history
<1> QED BY <1>1, BooksOfSame DEF SamePledges, Active, SameLine, CopiesKept, BooksInv, BooksBalance

LEMMA FulfilStepBooks ==
    ASSUME NEW f \in Fulfillers
    PROVE  TypeInv /\ BooksInv /\ FulfilStep(f) => BooksInv'
<1> SUFFICES ASSUME TypeInv, BooksInv, FulfilStep(f) PROVE BooksInv'
    OBVIOUS
<1>1. CASE \E p \in Positions, price \in Prices : Issue(f, p, price)
    BY <1>1, IssueBooks
<1>2. CASE ~ \E p \in Positions, price \in Prices : Issue(f, p, price)
    <2>1. UNCHANGED <<ledger, positions, liquidator, booked>>
        BY <1>2 DEF FulfilStep, FindApproved, CheckBalance, Claim, IssueFails, Link, LinkFails,
                    Revert, history
    <2> QED BY <2>1, BooksOfSame
            DEF SamePledges, Active, SameLine, CopiesKept, BooksInv, BooksBalance
<1> QED BY <1>1, <1>2

LEMMA YieldStepBooks ==
    ASSUME Apart, NEW y \in YieldRunners
    PROVE  TypeInv /\ BooksInv /\ YieldStep(y) => BooksInv'
<1> SUFFICES ASSUME TypeInv, BooksInv, YieldStep(y) PROVE BooksInv'
    OBVIOUS
<1>1. CASE \E i \in Interests \cup {0} : YieldRepay(y, i)
    <2>1. PICK i \in Interests \cup {0} : YieldRepay(y, i)
        BY <1>1
    <2>2. yielder[y].due \in Nat /\ i \in Nat
        BY MoneyAssumption DEF TypeInv, TypeOK, Yielder
    <2>3. IsFiniteSet(OpenPositions)' /\ PledgeReconciles' /\ BooksBalance'
        BY <2>1, <2>2, PayBackBooks DEF YieldRepay
    <2>4. CopiesTrue'
        BY <2>1, <2>2, PayBackApart DEF YieldRepay
    <2> QED BY <2>3, <2>4 DEF BooksInv
<1>2. CASE ~ \E i \in Interests \cup {0} : YieldRepay(y, i)
    <2>1. UNCHANGED <<ledger, liquidator, booked>>
        BY <1>2 DEF YieldStep, YieldStart, YieldCheck, YieldSkips, YieldAdvanceFails, YieldAdvance, history
    <2>2. SamePledges
        <3>1. CASE YieldAdvance(y)
            BY <3>1 DEF YieldAdvance, AdvancedRow, TypeInv, TypeOK, Position, SamePledges, Active
        <3>2. CASE ~YieldAdvance(y)
            BY <1>2, <3>2 DEF YieldStep, YieldStart, YieldCheck, YieldSkips, YieldAdvanceFails, SamePledges, Active
        <3> QED BY <3>1, <3>2
    <2> QED BY <2>1, <2>2, BooksOfSame DEF SameLine, CopiesKept, BooksInv, BooksBalance
<1> QED BY <1>1, <1>2

LEMMA LiquidationStepBooks ==
    ASSUME OneUnderWay, NEW l \in Liquidators
    PROVE  TypeInv /\ BooksInv /\ LiquidationStep(l) => BooksInv'
<1> SUFFICES ASSUME TypeInv, BooksInv, LiquidationStep(l) PROVE BooksInv'
    OBVIOUS
<1>0. /\ positions \in [Positions -> Position]
      /\ liquidator \in [Liquidators -> [Positions -> Position]]
    BY DEF TypeInv, TypeOK
<1>1. ASSUME NEW p \in Positions, LiquidationTreated(l, p)
      PROVE  CopiesKept
    <2>1. NoPositionRow.status # "ACTIVE"
        BY DEF NoPositionRow
    <2> QED BY <1>0, <1>1, <2>1 DEF LiquidationTreated, CopiesKept
<1>2. CASE LiquidationStart(l)
    <2>1. UNCHANGED <<ledger, positions, booked>> /\ liquidator' = [liquidator EXCEPT ![l] = Snapshot]
        BY <1>2 DEF LiquidationStart, history
    <2>2. \A p \in Positions : Snapshot[p].status = "ACTIVE" => Snapshot[p] = positions[p]
        BY RowsTyped DEF Snapshot
    <2>3. ASSUME NEW m \in Liquidators, NEW p \in Positions, liquidator'[m][p].status = "ACTIVE"
          PROVE  /\ Active(p)
                 /\ liquidator'[m][p].collateral = positions[p].collateral
                 /\ liquidator'[m][p].credit = positions[p].credit
        <3>1. CASE m = l
            BY <1>0, <2>1, <2>2, <2>3, <3>1 DEF Active
        <3>2. CASE m # l
            BY <1>0, <2>1, <2>3, <3>2 DEF BooksInv, CopiesTrue
        <3> QED BY <3>1, <3>2
    <2>4. CopiesTrue'
        BY <2>1, <2>3 DEF CopiesTrue, Active
    <2>5. IsFiniteSet(OpenPositions)' /\ PledgeReconciles'
        BY <2>1, PledgesKept DEF SamePledges, SameLine, Active
    <2> QED BY <2>1, <2>4, <2>5 DEF BooksInv, BooksBalance
<1>3. ASSUME NEW p \in Positions, NEW price \in Prices, Liquidate(l, p, price)
      PROVE  BooksInv'
    BY <1>3, LiquidateBooks
<1>4. ASSUME NEW p \in Positions, NEW price \in Prices, UpdateWarning(l, p, price)
      PROVE  BooksInv'
    <2>1. UNCHANGED <<ledger, booked>> /\ CopiesKept
        BY <1>1, <1>4 DEF UpdateWarning, history
    <2>2. SamePledges
        BY <1>0, <1>4 DEF UpdateWarning, SamePledges, Active, Position
    <2> QED BY <2>1, <2>2, BooksOfSame DEF SameLine, BooksInv, BooksBalance
<1>5. ASSUME NEW p \in Positions, LiquidationSkips(l, p)
      PROVE  BooksInv'
    <2>1. UNCHANGED <<ledger, positions, booked>> /\ CopiesKept
        BY <1>1, <1>5 DEF LiquidationSkips, history
    <2> QED BY <2>1, BooksOfSame DEF SamePledges, Active, SameLine, BooksInv, BooksBalance
<1> QED BY <1>2, <1>3, <1>4, <1>5 DEF LiquidationStep

LEMMA CrashBooks == TypeInv /\ BooksInv /\ Crash => BooksInv'
<1> SUFFICES ASSUME TypeInv, BooksInv, Crash PROVE BooksInv'
    OBVIOUS
<1>1. UNCHANGED <<ledger, positions, booked>>
    BY DEF Crash, history
<1>2. CopiesKept
    BY RowsTyped DEF Crash, NoRows, CopiesKept
<1> QED BY <1>1, <1>2, BooksOfSame DEF SamePledges, Active, SameLine, BooksInv, BooksBalance

LEMMA BooksInit == Init => BooksInv
<1> SUFFICES ASSUME Init PROVE BooksInv
    OBVIOUS
<1>1. OpenPositions = {}
    BY DEF Init, OpenPositions, Active, NoPositionRow
<1>2. PledgeReconciles
    BY <1>1, SumOfNone DEF Init, EmptyLedger, PledgeReconciles
<1>3. BooksBalance
    BY DEF Init, EmptyLedger, BooksBalance
<1>4. CopiesTrue
    BY DEF Init, CopiesTrue, NoRows, NoPositionRow
<1> QED BY <1>1, <1>2, <1>3, <1>4, FS_EmptySet DEF BooksInv

LEMMA BooksInductive ==
    TypeInv /\ OneUnderWay /\ BooksInv /\ [Next /\ Apart]_vars => BooksInv'
<1>1. TypeInv /\ OneUnderWay /\ BooksInv /\ Next /\ Apart => BooksInv'
    BY RequestStepBooks, MoneyStepBooks, FulfilStepBooks, YieldStepBooks,
       LiquidationStepBooks, CrashBooks DEF Next
<1>2. BooksInv /\ UNCHANGED vars => BooksInv'
    BY BooksOfSame DEF vars, serverState, history, SamePledges, Active, SameLine, CopiesKept,
                       BooksInv, BooksBalance
<1> QED BY <1>1, <1>2

LEMMA BooksInvariant == ApartSpec => [](TypeInv /\ OneUnderWay /\ BooksInv)
<1>1. Init => OneUnderWay
    BY DEF Init, OneUnderWay
<1>2. TypeInv /\ OneUnderWay /\ [Next /\ Apart]_vars => OneUnderWay'
    BY OneUnderWayKept
<1> QED BY <1>1, <1>2, BooksInit, BooksInductive, ApartTyped, PTL DEF ApartSpec

(* The locked collateral and the granted credit of the ledger row are the   *)
(* sums over the ACTIVE positions, however many there are, through any      *)
(* sequence of repayments, yields and liquidation passes that are kept      *)
(* apart in time.                                                           *)
THEOREM PledgesReconciled == ApartSpec => []PledgeReconciles
<1>1. BooksInv => PledgeReconciles
    BY DEF BooksInv
<1> QED BY <1>1, BooksInvariant, PTL

(* Then the money in the account is exactly what the journal explains.      *)
THEOREM BooksBalanced == ApartSpec => []BooksBalance
<1>1. BooksInv => BooksBalance
    BY DEF BooksInv
<1> QED BY <1>1, BooksInvariant, PTL

-----------------------------------------------------------------------------
(* The end of a position.                                                   *)

EndStays == \A p \in Positions : positions[p].status \in {"CLOSED", "LIQUIDATED"}
                                    => positions'[p].status = positions[p].status

(* A step that writes one row of another status, or only other columns.     *)
LEMMA OneRowWritten ==
    ASSUME TypeInv, NEW p, NEW new, positions' = [positions EXCEPT ![p] = new],
           \/ positions[p].status \notin {"CLOSED", "LIQUIDATED"}
           \/ new.status = positions[p].status
    PROVE  EndStays
BY DEF TypeInv, TypeOK, EndStays

LEMMA LiquidationEnds ==
    ASSUME TypeInv, BooksInv, NEW l \in Liquidators, LiquidationStep(l)
    PROVE  EndStays
<1>0. positions \in [Positions -> Position]
    BY DEF TypeInv, TypeOK
<1>1. ASSUME UNCHANGED positions PROVE EndStays
    BY <1>1 DEF EndStays
<1>2. ASSUME NEW p \in Positions, NEW price \in Prices, Liquidate(l, p, price) PROVE EndStays
    <2>1. positions[p].status = "ACTIVE"
        BY <1>2 DEF Liquidate, BooksInv, CopiesTrue, Active
    <2>2. positions' = [positions EXCEPT ![p] = LiquidatedRow(positions[p])]
        BY <1>2 DEF Liquidate
    <2> QED BY <2>1, <2>2, OneRowWritten
<1>3. ASSUME NEW p \in Positions, NEW price \in Prices, UpdateWarning(l, p, price) PROVE EndStays
    <2> DEFINE w   == LiquidationWarned(liquidator[l][p].entry, price)
               new == [positions[p] EXCEPT !.warned = w]
    <2>1. new.status = positions[p].status
        BY <1>0 DEF Position
    <2>2. UNCHANGED positions \/ positions' = [positions EXCEPT ![p] = new]
        BY <1>3 DEF UpdateWarning
    <2> HIDE DEF new
    <2> QED BY <1>1, <2>1, <2>2, OneRowWritten
<1> QED BY <1>1, <1>2, <1>3 DEF LiquidationStep, LiquidationStart, LiquidationSkips

LEMMA StepEnds ==
    ASSUME TypeInv, BooksInv, [Next]_vars
    PROVE  EndStays
<1>0. positions \in [Positions -> Position]
    BY DEF TypeInv, TypeOK
<1>1. ASSUME UNCHANGED positions PROVE EndStays
    BY <1>1 DEF EndStays
<1>2. ASSUME NEW x, NEW i, PayBack(x, i) PROVE EndStays
    <2>1. ASSUME NEW p \in Positions, positions[p].status \in {"CLOSED", "LIQUIDATED"}
          PROVE  positions'[p] = positions[p]
        BY <1>2, <2>1 DEF PayBack, Closed, Active
    <2> QED BY <2>1 DEF EndStays
<1>3. ASSUME NEW f \in Fulfillers, NEW p \in Positions, NEW price \in Prices, Issue(f, p, price)
      PROVE  EndStays
    BY <1>3, OneRowWritten DEF Issue, NextPosition
<1>4. ASSUME NEW y \in YieldRunners, YieldAdvance(y) PROVE EndStays
    <2> DEFINE p   == yielder[y].position
               new == AdvancedRow(positions[p], yielder[y].price,
                                  yielder[y].rows[p].yielded + yielder[y].due)
    <2>1. positions' = [positions EXCEPT ![p] = new]
        BY <1>4 DEF YieldAdvance
    <2>2. CASE p \in Positions
        <3>1. new.status = positions[p].status
            BY <1>0, <2>2 DEF AdvancedRow, Position
        <3> HIDE DEF new, p
        <3> QED BY <2>1, <3>1, OneRowWritten
    <2>3. CASE p \notin Positions
        <3> HIDE DEF new, p
        <3>1. UNCHANGED positions
            BY <1>0, <2>1, <2>3
        <3> QED BY <1>1, <3>1
    <2> QED BY <2>2, <2>3
<1>5. CASE RequestStep \/ Crash \/ UNCHANGED vars
    BY <1>1, <1>5 DEF RequestStep, CheckNoActiveRequest, CreateRequest, CheckPledge, FreezePledge,
                      Approve, Reject, Crash, vars
<1>6. CASE MoneyStep
    BY <1>1, <1>2, <1>6 DEF MoneyStep, Deposit, Withdraw, CardSpend, Repay
<1>7. ASSUME NEW f \in Fulfillers, FulfilStep(f) PROVE EndStays
    BY <1>1, <1>3, <1>7 DEF FulfilStep, FindApproved, CheckBalance, Claim, IssueFails, Link,
                            LinkFails, Revert
<1>8. ASSUME NEW y \in YieldRunners, YieldStep(y) PROVE EndStays
    BY <1>1, <1>2, <1>4, <1>8 DEF YieldStep, YieldStart, YieldCheck, YieldRepay, YieldSkips, YieldAdvanceFails
<1> QED BY <1>5, <1>6, <1>7, <1>8, LiquidationEnds DEF Next

(* A position that was closed or liquidated stays so, as long as no         *)
(* repayment and no other pass comes between the copy of a liquidation pass *)
(* and its end (liquidatePosition updates by id).                           *)
THEOREM EndIsFinal == ApartSpec => ClosedIsFinal
<1>1. TypeInv /\ BooksInv /\ [Next]_vars
        => [\A p \in Positions : positions[p].status \in {"CLOSED", "LIQUIDATED"}
                                   => positions'[p].status = positions[p].status]_vars
    BY StepEnds DEF EndStays
<1> QED BY <1>1, ApartIsSpec, BooksInvariant, PTL DEF Spec, ClosedIsFinal

-----------------------------------------------------------------------------
(* The abstract account.  What a step must know to be one of its            *)
(* operations: a position has the amounts of the request it came from, and  *)
(* what the yield of a position is about to repay is not nothing.           *)

\* The gain of such a row is worth something when its price rises.
Pledged(row) == row.collateral \in Amounts /\ row.entry \in Prices

AmountsAsked ==
    /\ \A t \in Tabs : tab[t].op = "create" => tab[t].amount \in Amounts
    /\ \A r \in Requests : requests[r].status # "none" => requests[r].amount \in Amounts

PositionsAsAsked ==
    \A p \in Positions :
        /\ ~Exists(p) => positions[p].request = 0
        /\ Exists(p) =>
              /\ positions[p].collateral = requests[positions[p].request].amount
              /\ positions[p].credit = CreditFor(positions[p].collateral)
        /\ Tracked(positions[p]) => Pledged(positions[p])

YieldDue ==
    \A y \in YieldRunners :
        /\ \A p \in Positions : yielder[y].rows[p].status = "ACTIVE" => Pledged(yielder[y].rows[p])
        /\ yielder[y].pc = "repay" => yielder[y].due > 0

AmountsInv == AmountsAsked /\ PositionsAsAsked /\ YieldDue

(* A repayment closes positions and changes nothing else in them.           *)
LEMMA PayBackRows ==
    ASSUME TypeInv, NEW x, NEW i, PayBack(x, i), NEW p \in Positions
    PROVE  /\ positions'[p].request = positions[p].request
           /\ positions'[p].collateral = positions[p].collateral
           /\ positions'[p].credit = positions[p].credit
           /\ positions'[p].currency = positions[p].currency
           /\ positions'[p].entry = positions[p].entry
           /\ Exists(p)' = Exists(p)
           /\ Tracked(positions'[p]) => Tracked(positions[p])
           /\ Active(p)' = (Active(p) /\ ~RepaysAll(ledger, x))
<1>1. positions[p] \in Position
    BY DEF TypeInv, TypeOK
<1>2. CASE RepaysAll(ledger, x) /\ Active(p)
    <2>1. positions'[p] = [positions[p] EXCEPT !.status = "CLOSED"]
        BY <1>2, Zenon DEF PayBack, Closed
    <2> QED BY <1>1, <1>2, <2>1 DEF Position, Exists, Tracked, Active
<1>3. CASE ~(RepaysAll(ledger, x) /\ Active(p))
    <2>1. positions'[p] = positions[p]
        BY <1>3, Zenon DEF PayBack, Closed
    <2> QED BY <1>3, <2>1 DEF Exists, Tracked, Active
<1> QED BY <1>2, <1>3

(* The positions of a step that opens none.                                 *)
SameTerms ==
    \A p \in Positions : /\ Exists(p)' = Exists(p)
                         /\ positions'[p].request = positions[p].request
                         /\ positions'[p].collateral = positions[p].collateral
                         /\ positions'[p].credit = positions[p].credit
                         /\ positions'[p].entry = positions[p].entry
                         /\ Tracked(positions'[p]) => Tracked(positions[p])

(* The requests of a step that asks for nothing.                            *)
SameRequests ==
    \A r \in Requests : /\ (requests'[r].status = "none") = (requests[r].status = "none")
                        /\ requests'[r].amount = requests[r].amount

LEMMA TermsKept ==
    ASSUME TypeInv, IssueInv, PositionsAsAsked, SameTerms,
           \A r \in Requests : requests[r].status # "none" => requests'[r].amount = requests[r].amount
    PROVE  PositionsAsAsked'
<1>1. ASSUME NEW p \in Positions, Exists(p)
      PROVE  /\ positions[p].request \in Requests
             /\ requests[positions[p].request].status # "none"
    BY <1>1 DEF TypeInv, TypeOK, Position, IssueInv, OpenedFromRequest, IssuedFulfilled
<1>2. ASSUME NEW p \in Positions
      PROVE  /\ ~Exists(p)' => positions'[p].request = 0
             /\ Exists(p)' => /\ positions'[p].collateral = requests'[positions'[p].request].amount
                             /\ positions'[p].credit = CreditFor(positions'[p].collateral)
             /\ Tracked(positions'[p]) => Pledged(positions'[p])
    <2>1. ~Exists(p)' => positions'[p].request = 0
        BY DEF PositionsAsAsked, SameTerms
    <2>2. Exists(p)' => /\ positions'[p].collateral = requests'[positions'[p].request].amount
                       /\ positions'[p].credit = CreditFor(positions'[p].collateral)
        BY <1>1 DEF PositionsAsAsked, SameTerms
    <2>3. Tracked(positions'[p]) => Pledged(positions'[p])
        BY DEF PositionsAsAsked, SameTerms, Pledged
    <2> QED BY <2>1, <2>2, <2>3
<1> QED BY <1>2 DEF PositionsAsAsked

LEMMA AskedKept ==
    ASSUME AmountsAsked, SameRequests,
           \A t \in Tabs : tab'[t].op = "create" => tab'[t] = tab[t]
    PROVE  AmountsAsked'
BY DEF AmountsAsked, SameRequests

LEMMA RequestStepAmounts == TypeInv /\ IssueInv /\ AmountsInv /\ RequestStep => AmountsInv'
<1> SUFFICES ASSUME TypeInv, IssueInv, AmountsInv, RequestStep PROVE AmountsInv'
    OBVIOUS
<1>0. requests \in [Requests -> Request] /\ tab \in [Tabs -> Tab]
    BY DEF TypeInv, TypeOK
<1>1. UNCHANGED <<positions, yielder>>
    BY DEF RequestStep, CheckNoActiveRequest, CreateRequest, CheckPledge, FreezePledge,
           Approve, Reject, serverState, history
<1>2. SameTerms /\ YieldDue'
    BY <1>1 DEF SameTerms, Exists, AmountsInv, YieldDue
<1>3. ASSUME NEW t \in Tabs, NEW c \in Amounts, CheckNoActiveRequest(t, c)
      PROVE  AmountsInv'
    <2>1. requests' = requests
        BY <1>3 DEF CheckNoActiveRequest
    <2>2. \A s \in Tabs : tab'[s] = tab[s] \/ tab'[s].amount = c
        BY <1>0, <1>3 DEF CheckNoActiveRequest, IdleTab
    <2>3. AmountsAsked'
        BY <2>1, <2>2 DEF AmountsInv, AmountsAsked
    <2> QED BY <1>2, <2>1, <2>3, TermsKept DEF AmountsInv
<1>4. ASSUME NEW t \in Tabs, NEW r \in Requests, CreateRequest(t, r)
      PROVE  AmountsInv'
    <2>1. tab[t].amount \in Amounts /\ requests[r].status = "none"
        BY <1>4 DEF CreateRequest, NextRequest, AmountsInv, AmountsAsked
    <2>2. /\ requests'[r].amount = tab[t].amount
          /\ \A q \in Requests : q # r => requests'[q] = requests[q]
        BY <1>0, <1>4 DEF CreateRequest, NoRequestRow
    <2>3. \A s \in Tabs : tab'[s].op = "create" => tab'[s] = tab[s]
        BY <1>0, <1>4 DEF CreateRequest, IdleTab
    <2>4. AmountsAsked'
        BY <2>1, <2>2, <2>3 DEF AmountsInv, AmountsAsked
    <2>5. \A q \in Requests : requests[q].status # "none" => requests'[q].amount = requests[q].amount
        BY <2>1, <2>2
    <2> QED BY <1>2, <2>4, <2>5, TermsKept DEF AmountsInv
<1>5. ASSUME SameRequests, \A t \in Tabs : tab'[t].op = "create" => tab'[t] = tab[t]
      PROVE  AmountsInv'
    BY <1>2, <1>5, TermsKept, AskedKept DEF AmountsInv, SameRequests
<1>6. ASSUME NEW t \in Tabs, NEW r \in Requests, NEW k \in Currencies, CheckPledge(t, r, k)
      PROVE  AmountsInv'
    <2>1. SameRequests
        BY <1>6 DEF CheckPledge, SameRequests
    <2>2. \A s \in Tabs : tab'[s].op = "create" => tab'[s] = tab[s]
        BY <1>0, <1>6 DEF CheckPledge, IdleTab
    <2> QED BY <1>5, <2>1, <2>2
<1>7. ASSUME NEW t \in Tabs, FreezePledge(t)
      PROVE  AmountsInv'
    <2>1. SameRequests
        BY <1>0, <1>7 DEF FreezePledge, SameRequests, Request
    <2>2. \A s \in Tabs : tab'[s].op = "create" => tab'[s] = tab[s]
        BY <1>0, <1>7 DEF FreezePledge, IdleTab
    <2> QED BY <1>5, <2>1, <2>2
<1>8. ASSUME NEW r \in Requests, Approve(r) \/ Reject(r)
      PROVE  AmountsInv'
    <2>1. SameRequests
        BY <1>0, <1>8 DEF Approve, Reject, SameRequests, Request
    <2>2. tab' = tab
        BY <1>8 DEF Approve, Reject, serverState
    <2> QED BY <1>5, <2>1, <2>2
<1> QED BY <1>3, <1>4, <1>6, <1>7, <1>8 DEF RequestStep

LEMMA MoneyStepAmounts == TypeInv /\ IssueInv /\ AmountsInv /\ MoneyStep => AmountsInv'
<1> SUFFICES ASSUME TypeInv, IssueInv, AmountsInv, MoneyStep PROVE AmountsInv'
    OBVIOUS
<1>1. UNCHANGED <<requests, tab, yielder>>
    BY DEF MoneyStep, Deposit, Withdraw, CardSpend, Repay, serverState
<1>2. SameTerms
    <2>1. CASE UNCHANGED positions
        BY <2>1 DEF SameTerms, Exists
    <2>2. ASSUME NEW x \in Repayments, NEW i \in Interests \cup {0}, Repay(x, i)
          PROVE  SameTerms
        BY <2>2, PayBackRows DEF Repay, SameTerms
    <2> QED BY <2>1, <2>2 DEF MoneyStep, Deposit, Withdraw, CardSpend
<1>3. AmountsAsked' /\ YieldDue'
    BY <1>1 DEF AmountsInv, AmountsAsked, YieldDue
<1> QED BY <1>1, <1>2, <1>3, TermsKept DEF AmountsInv

LEMMA FulfilStepAmounts ==
    ASSUME NEW f \in Fulfillers
    PROVE  TypeInv /\ IssueInv /\ AmountsInv /\ FulfilStep(f) => AmountsInv'
<1> SUFFICES ASSUME TypeInv, IssueInv, AmountsInv, FulfilStep(f) PROVE AmountsInv'
    OBVIOUS
<1>0. requests \in [Requests -> Request] /\ positions \in [Positions -> Position]
    BY DEF TypeInv, TypeOK
<1>1. UNCHANGED <<tab, yielder>>
    BY DEF FulfilStep, FindApproved, CheckBalance, Claim, Issue, IssueFails, Link, LinkFails, Revert
<1>2. YieldDue'
    BY <1>1 DEF AmountsInv, YieldDue
<1>3. SameRequests
    <2>1. CASE UNCHANGED requests
        BY <2>1 DEF SameRequests
    <2>2. CASE Claim(f)
        BY <1>0, <2>1, <2>2 DEF Claim, ClaimGranted, SameRequests, Request
    <2>3. CASE Link(f)
        BY <1>0, <2>3 DEF Link, SameRequests, Request
    <2>4. CASE Revert(f)
        BY <1>0, <2>1, <2>4 DEF Revert, Revertible, SameRequests, Request
    <2> QED BY <2>1, <2>2, <2>3, <2>4
            DEF FulfilStep, FindApproved, CheckBalance, Issue, IssueFails, LinkFails
<1>4. AmountsAsked'
    BY <1>1, <1>3, AskedKept DEF AmountsInv
<1>5. CASE UNCHANGED positions
    <2>1. SameTerms
        BY <1>5 DEF SameTerms, Exists
    <2> QED BY <1>2, <1>3, <1>4, <2>1, TermsKept DEF AmountsInv, SameRequests
<1>6. ASSUME NEW p \in Positions, NEW price \in Prices, Issue(f, p, price)
      PROVE  AmountsInv'
    <2> DEFINE r == fulfiller[f].request
               new == OpenPosition(r, fulfiller[f].currency, price)
    <2>1. /\ positions' = [positions EXCEPT ![p] = new]
          /\ requests' = requests
        BY <1>6 DEF Issue
    <2>2. r \in Requests /\ requests[r].status = "FULFILLED"
        BY <1>6 DEF Issue, TypeInv, RequestFound, Searched, IssueInv, ClaimIsFree, Undecided
    <2>3. requests[r].amount \in Amounts
        BY <2>2 DEF AmountsInv, AmountsAsked
    <2>4. /\ new.status = "ACTIVE" /\ new.request = r
          /\ new.collateral = requests[r].amount /\ new.credit = CreditFor(requests[r].amount)
          /\ new.currency \in Eligible => new.entry = price
        BY DEF OpenPosition, NoPositionRow
    <2>5. Tracked(new) => Pledged(new)
        BY <2>3, <2>4 DEF Tracked, Pledged
    <2> HIDE DEF new, r
    <2>6. /\ positions'[p] = new
          /\ \A q \in Positions : q # p => positions'[q] = positions[q]
        BY <1>0, <2>1
    <2>7. ASSUME NEW q \in Positions
          PROVE  /\ ~Exists(q)' => positions'[q].request = 0
                 /\ Exists(q)' => /\ positions'[q].collateral = requests'[positions'[q].request].amount
                                 /\ positions'[q].credit = CreditFor(positions'[q].collateral)
                 /\ Tracked(positions'[q]) => Pledged(positions'[q])
        <3>1. CASE q = p
            BY <2>1, <2>4, <2>5, <2>6, <3>1 DEF Exists
        <3>2. CASE q # p
            BY <2>1, <2>6, <3>2 DEF AmountsInv, PositionsAsAsked, Exists
        <3> QED BY <3>1, <3>2
    <2>8. PositionsAsAsked'
        BY <2>7 DEF PositionsAsAsked
    <2> QED BY <1>2, <1>4, <2>8 DEF AmountsInv
<1> QED BY <1>5, <1>6 DEF FulfilStep, FindApproved, CheckBalance, Claim, IssueFails, Link,
                          LinkFails, Revert

(* A price above the one last applied makes a gain.                         *)
LEMMA GainIsPositive ==
    ASSUME NEW row \in Position, Pledged(row), NEW price \in Nat, price > row.applied
    PROVE  Gain(row, price) > 0
<1>1. /\ row.collateral \in Nat \ {0} /\ row.entry \in Nat \ {0}
      /\ row.collateral % row.entry = 0 /\ row.applied \in Nat
    BY MoneyAssumption, TokensAssumption DEF Pledged, Position
<1>2. \A c, e \in Nat \ {0} : c % e = 0 => c \div e > 0
    OBVIOUS
<1>3. row.collateral \div row.entry \in Nat /\ row.collateral \div row.entry > 0
    BY <1>1, <1>2
<1>4. price - row.applied \in Nat /\ price - row.applied > 0
    BY <1>1
<1>5. \A a, b \in Nat : a > 0 /\ b > 0 => a * b > 0
    OBVIOUS
<1> QED BY <1>3, <1>4, <1>5, Zenon DEF Gain

LEMMA YieldStepAmounts ==
    ASSUME NEW y \in YieldRunners
    PROVE  TypeInv /\ IssueInv /\ AmountsInv /\ YieldStep(y) => AmountsInv'
<1> SUFFICES ASSUME TypeInv, IssueInv, AmountsInv, YieldStep(y) PROVE AmountsInv'
    OBVIOUS
<1>0. /\ positions \in [Positions -> Position] /\ yielder \in [YieldRunners -> Yielder]
      /\ ledger \in LedgerRow
    BY DEF TypeInv, TypeOK
<1>1. UNCHANGED <<requests, tab>>
    BY DEF YieldStep, YieldStart, YieldCheck, YieldRepay, YieldSkips, YieldAdvanceFails, YieldAdvance
<1>2. AmountsAsked'
    BY <1>1 DEF AmountsInv, AmountsAsked
<1>3. ASSUME SameTerms, YieldDue' PROVE AmountsInv'
    BY <1>1, <1>2, <1>3, TermsKept DEF AmountsInv
<1>4. ASSUME UNCHANGED positions PROVE SameTerms
    BY <1>4 DEF SameTerms, Exists
<1>5. ASSUME NEW q, YieldTreated(y, q) PROVE YieldDue'
    <2> DEFINE rows == [yielder[y].rows EXCEPT ![q] = NoPositionRow]
               new  == [IdleYielder EXCEPT !.rows = rows]
    <2>1. yielder' = [yielder EXCEPT ![y] = new]
        BY <1>5 DEF YieldTreated
    <2>2. new.rows = rows /\ new.pc = "check"
        BY DEF IdleYielder
    <2>3. \A p \in Positions : rows[p].status = "ACTIVE" => rows[p] = yielder[y].rows[p]
        BY <1>0, RowsTyped DEF Yielder
    <2> HIDE DEF new, rows
    <2>4. yielder'[y] = new /\ \A z \in YieldRunners : z # y => yielder'[z] = yielder[z]
        BY <1>0, <2>1
    <2>5. ASSUME NEW z \in YieldRunners
          PROVE  /\ \A p \in Positions : yielder'[z].rows[p].status = "ACTIVE"
                                             => Pledged(yielder'[z].rows[p])
                 /\ yielder'[z].pc = "repay" => yielder'[z].due > 0
        <3>1. CASE z = y
            BY <2>2, <2>3, <2>4, <3>1 DEF AmountsInv, YieldDue
        <3>2. CASE z # y
            BY <2>4, <3>2 DEF AmountsInv, YieldDue
        <3> QED BY <3>1, <3>2
    <2> QED BY <2>5 DEF YieldDue
<1>6. CASE YieldStart(y)
    <2>1. /\ UNCHANGED positions
          /\ \A z \in YieldRunners : z # y => yielder'[z] = yielder[z]
          /\ yielder'[y].rows = Snapshot /\ yielder'[y].pc = "check"
        BY <1>0, <1>6 DEF YieldStart, IdleYielder, Yielder
    <2>2. \A p \in Positions : Snapshot[p].status = "ACTIVE" => Pledged(Snapshot[p])
        BY RowsTyped DEF Snapshot, AmountsInv, PositionsAsAsked
    <2>3. YieldDue'
        BY <2>1, <2>2 DEF AmountsInv, YieldDue
    <2> QED BY <1>3, <1>4, <2>1, <2>3
<1>7. ASSUME NEW p \in Positions, NEW price \in Prices, YieldCheck(y, p, price)
      PROVE  AmountsInv'
    <2> DEFINE row == yielder[y].rows[p]
               due == Least(Least(Gain(row, price), Capacity(row)), ledger.used)
    <2>1. CASE YieldOwed(row, price)
        <3>1. row \in Position /\ row.status = "ACTIVE" /\ row.entry > 0 /\ price \in Nat
            BY <1>0, <1>7, MoneyAssumption DEF YieldCheck, Yielder, TypeInv, EntryPrices
        <3>2. Pledged(row)
            BY <3>1 DEF AmountsInv, YieldDue
        <3>3. price > row.applied /\ price >= row.applied
            BY <2>1, <3>1 DEF YieldOwed, Position
        <3>4. Gain(row, price) \in Nat /\ Gain(row, price) > 0
            BY <3>1, <3>2, <3>3, GainIsPositive, GainIsAmount
        <3>5. Capacity(row) \in Int /\ Capacity(row) > 0
            BY <2>1, <3>1, RatesAreAmounts DEF YieldOwed, Capacity, Position
        <3>6. due > 0
            BY <1>0, <2>1, <3>4, <3>5 DEF YieldOwed, Least, LedgerRow
        <3>7. yielder' = [yielder EXCEPT ![y].pc = "repay", ![y].position = p,
                                         ![y].due = due, ![y].price = price]
            BY <1>7, <2>1 DEF YieldCheck
        <3> HIDE DEF due, row
        <3>8. /\ \A z \in YieldRunners : yielder'[z].rows = yielder[z].rows
              /\ \A z \in YieldRunners : z # y => yielder'[z] = yielder[z]
              /\ yielder'[y].due = due
            BY <1>0, <3>7 DEF Yielder
        <3>9. YieldDue'
            BY <3>6, <3>8 DEF AmountsInv, YieldDue
        <3>10. UNCHANGED positions
            BY <1>7 DEF YieldCheck
        <3> QED BY <1>3, <1>4, <3>9, <3>10
    <2>2. CASE ~YieldOwed(row, price)
        BY <1>3, <1>4, <1>5, <1>7, <2>2 DEF YieldCheck
    <2> QED BY <2>1, <2>2
<1>8. ASSUME NEW i \in Interests \cup {0}, YieldRepay(y, i)
      PROVE  AmountsInv'
    <2>1. SameTerms
        BY <1>8, PayBackRows DEF YieldRepay, SameTerms
    <2>2. /\ \A z \in YieldRunners : yielder'[z].rows = yielder[z].rows
          /\ \A z \in YieldRunners : z # y => yielder'[z] = yielder[z]
          /\ yielder'[y].pc = "advance"
        BY <1>0, <1>8 DEF YieldRepay, Yielder
    <2>3. YieldDue'
        BY <2>2 DEF AmountsInv, YieldDue
    <2> QED BY <1>3, <2>1, <2>3
<1>9. ASSUME NEW p \in Positions, YieldSkips(y, p)
      PROVE  AmountsInv'
    BY <1>3, <1>4, <1>5, <1>9 DEF YieldSkips, YieldAdvanceFails
<1>10. CASE YieldAdvance(y)
    <2>1. SameTerms
        BY <1>0, <1>10 DEF YieldAdvance, AdvancedRow, SameTerms, Exists, Tracked, Position
    <2> QED BY <1>3, <1>5, <1>10, <2>1 DEF YieldAdvance
<1>11. CASE YieldAdvanceFails(y)
    BY <1>3, <1>4, <1>5, <1>11 DEF YieldAdvanceFails
<1> QED BY <1>6, <1>7, <1>8, <1>9, <1>10, <1>11 DEF YieldStep

LEMMA LiquidationStepAmounts ==
    ASSUME NEW l \in Liquidators
    PROVE  TypeInv /\ IssueInv /\ AmountsInv /\ LiquidationStep(l) => AmountsInv'
<1> SUFFICES ASSUME TypeInv, IssueInv, AmountsInv, LiquidationStep(l) PROVE AmountsInv'
    OBVIOUS
<1>0. positions \in [Positions -> Position]
    BY DEF TypeInv, TypeOK
<1>1. UNCHANGED <<requests, tab, yielder>>
    BY DEF LiquidationStep, LiquidationStart, Liquidate, UpdateWarning, LiquidationSkips
<1>2. AmountsAsked' /\ YieldDue'
    BY <1>1 DEF AmountsInv, AmountsAsked, YieldDue
<1>3. SameTerms
    <2>1. CASE UNCHANGED positions
        BY <2>1 DEF SameTerms, Exists
    <2>2. ASSUME NEW p \in Positions, NEW price \in Prices, Liquidate(l, p, price)
          PROVE  SameTerms
        <3>1. Exists(p)
            BY <2>2 DEF Liquidate, IssueInv, SnapshotsExist
        <3> QED BY <1>0, <2>2, <3>1 DEF Liquidate, LiquidatedRow, SameTerms, Exists, Tracked, Position
    <2>3. ASSUME NEW p \in Positions, NEW price \in Prices, UpdateWarning(l, p, price)
          PROVE  SameTerms
        BY <1>0, <2>3 DEF UpdateWarning, SameTerms, Exists, Tracked, Position
    <2> QED BY <2>1, <2>2, <2>3 DEF LiquidationStep, LiquidationStart, LiquidationSkips
<1> QED BY <1>1, <1>2, <1>3, TermsKept DEF AmountsInv

LEMMA CrashAmounts == TypeInv /\ IssueInv /\ AmountsInv /\ Crash => AmountsInv'
<1> SUFFICES ASSUME TypeInv, IssueInv, AmountsInv, Crash PROVE AmountsInv'
    OBVIOUS
<1>1. UNCHANGED <<requests, positions>>
    BY DEF Crash
<1>2. AmountsAsked'
    BY <1>1 DEF Crash, IdleTab, AmountsInv, AmountsAsked
<1>3. YieldDue'
    BY DEF Crash, IdleYielder, NoRows, NoPositionRow, YieldDue
<1>4. SameTerms
    BY <1>1 DEF SameTerms, Exists
<1> QED BY <1>1, <1>2, <1>3, <1>4, TermsKept DEF AmountsInv

LEMMA AmountsInit == Init => AmountsInv
BY DEF Init, AmountsInv, AmountsAsked, PositionsAsAsked, YieldDue, IdleTab, NoRequestRow,
       NoPositionRow, IdleYielder, NoRows, Exists, Tracked

LEMMA AmountsInductive == TypeInv /\ IssueInv /\ AmountsInv /\ [Next]_vars => AmountsInv'
<1>1. TypeInv /\ IssueInv /\ AmountsInv /\ Next => AmountsInv'
    BY RequestStepAmounts, MoneyStepAmounts, FulfilStepAmounts, YieldStepAmounts,
       LiquidationStepAmounts, CrashAmounts DEF Next
<1>2. AmountsInv /\ UNCHANGED vars => AmountsInv'
    BY DEF vars, serverState, AmountsInv, AmountsAsked, PositionsAsAsked, YieldDue, Exists,
           Tracked, Pledged
<1> QED BY <1>1, <1>2

-----------------------------------------------------------------------------
(* Stages of the loans.                                                     *)

From(p, r) == positions[p].request = r

LEMMA StageIs ==
    ASSUME NEW r \in Requests
    PROVE  /\ (\E p \in Positions : From(p, r) /\ Active(p)) => LoanStage(r) = "granted"
           /\ (\E p \in Positions : From(p, r)) /\ (\A p \in Positions : From(p, r) => ~Active(p))
                 => LoanStage(r) = "ended"
           /\ (\A p \in Positions : ~From(p, r)) =>
                 /\ requests[r].status = "none" => LoanStage(r) = "none"
                 /\ requests[r].status = "PENDING" => LoanStage(r) = "asked"
                 /\ requests[r].status = "REJECTED" => LoanStage(r) = "refused"
                 /\ requests[r].status \in {"APPROVED", "FULFILLED"} => LoanStage(r) = "agreed"
BY DEF LoanStage, From

SameOpened == \A p \in Positions : /\ positions'[p].request = positions[p].request
                                   /\ Active(p)' = Active(p)

LEMMA StageStays ==
    ASSUME SameOpened, TypeInv, NEW r \in Requests,
           \/ requests'[r].status = requests[r].status
           \/ /\ requests[r].status \in {"APPROVED", "FULFILLED"}
              /\ requests'[r].status \in {"APPROVED", "FULFILLED"}
    PROVE  LoanStage(r)' = LoanStage(r)
<1>1. {p \in Positions : positions[p].request = r}' = {p \in Positions : positions[p].request = r}
    BY DEF SameOpened
<1>2. (\E p \in {q \in Positions : positions[q].request = r} : Active(p))'
        = (\E p \in {q \in Positions : positions[q].request = r} : Active(p))
    BY <1>1 DEF SameOpened
<1> QED BY <1>1, <1>2 DEF LoanStage

SameStages == \A r \in Requests : LoanStage(r)' = LoanStage(r)
SameAmounts == \A r \in Requests : requests'[r].amount = requests[r].amount

LEMMA LoansStay ==
    ASSUME SameStages, SameAmounts
    PROVE  /\ [r \in Requests |-> LoanStage(r)]' = [r \in Requests |-> LoanStage(r)]
           /\ [r \in Requests |-> requests[r].amount]' = [r \in Requests |-> requests[r].amount]
BY DEF SameStages, SameAmounts

LEMMA AccountStutters ==
    ASSUME SameStages, SameAmounts, ledger' = ledger
    PROVE  UNCHANGED Account!vars
BY LoansStay DEF Account!vars, Account!money

LEMMA LoanMoves ==
    ASSUME NEW n \in Requests, NEW from, NEW to,
           LoanStage(n) = from, LoanStage(n)' = to,
           \A r \in Requests : r # n => LoanStage(r)' = LoanStage(r)
    PROVE  Account!Move(n, from, to)
BY DEF Account!Move

AccountInv == TypeInv /\ IssueInv /\ AmountsInv /\ OneUnderWay /\ BooksInv

(* Nothing was opened on a request that is not FULFILLED.                   *)
LEMMA NothingOpened ==
    ASSUME IssueInv, NEW r \in Requests, requests[r].status # "FULFILLED"
    PROVE  \A p \in Positions : ~From(p, r)
BY IdsAssumption DEF IssueInv, IssuedFulfilled, From

LEMMA CreateIsAsk ==
    ASSUME AccountInv, NEW t \in Tabs, NEW r \in Requests, CreateRequest(t, r)
    PROVE  Account!Ask(r)
<1>0. requests \in [Requests -> Request]
    BY DEF AccountInv, TypeInv, TypeOK
<1>1. tab[t].amount \in Amounts /\ requests[r].status = "none"
    BY DEF CreateRequest, NextRequest, AccountInv, AmountsInv, AmountsAsked
<1>2. /\ requests'[r].amount = tab[t].amount /\ requests'[r].status = "PENDING"
      /\ \A q \in Requests : q # r => requests'[q] = requests[q]
      /\ UNCHANGED <<ledger, positions>>
    BY <1>0 DEF CreateRequest, NoRequestRow
<1>3. \A p \in Positions : ~From(p, r) /\ ~From(p, r)'
    BY <1>1, <1>2, NothingOpened DEF AccountInv, From
<1>4. LoanStage(r) = "none"
    BY <1>1, <1>3, StageIs
<1>5. LoanStage(r)' = "asked"
    BY <1>2, <1>3 DEF LoanStage, From
<1>6. SameOpened
    BY <1>2 DEF SameOpened, Active
<1>7. \A q \in Requests : q # r => LoanStage(q)' = LoanStage(q)
    BY <1>2, <1>6, StageStays DEF AccountInv
<1>8. Account!Move(r, "none", "asked")
    BY <1>4, <1>5, <1>7, LoanMoves
<1>9. tab[t].amount > 0
    BY <1>1, MoneyAssumption
<1>10. [q \in Requests |-> requests'[q].amount]
         = [[q \in Requests |-> requests[q].amount] EXCEPT ![r] = [q \in Requests |-> requests'[q].amount][r]]
    BY <1>2
<1> QED BY <1>2, <1>8, <1>9, <1>10 DEF Account!Ask, Account!money

LEMMA DecisionIsAnswer ==
    ASSUME AccountInv, NEW r \in Requests, Approve(r) \/ Reject(r)
    PROVE  Account!Answer(r)
<1>0. requests \in [Requests -> Request]
    BY DEF AccountInv, TypeInv, TypeOK
<1>1. /\ requests[r].status = "PENDING" /\ requests'[r].status \in {"APPROVED", "REJECTED"}
      /\ \A q \in Requests : q # r => requests'[q] = requests[q]
      /\ UNCHANGED <<ledger, positions>>
    BY <1>0 DEF Approve, Reject, Request
<1>2. \A p \in Positions : ~From(p, r) /\ ~From(p, r)'
    BY <1>1, NothingOpened DEF AccountInv, From
<1>3. LoanStage(r) = "asked"
    BY <1>1, <1>2, StageIs
<1>4. LoanStage(r)' = "agreed" \/ LoanStage(r)' = "refused"
    BY <1>1, <1>2 DEF LoanStage, From
<1>5. SameOpened
    BY <1>1 DEF SameOpened, Active
<1>6. \A q \in Requests : q # r => LoanStage(q)' = LoanStage(q)
    BY <1>1, <1>5, StageStays DEF AccountInv
<1>7. Account!Move(r, "asked", "agreed") \/ Account!Move(r, "asked", "refused")
    BY <1>3, <1>4, <1>6, LoanMoves
<1>8. SameAmounts
    BY <1>0 DEF Approve, Reject, Request, SameAmounts
<1>9. [q \in Requests |-> requests[q].amount]' = [q \in Requests |-> requests[q].amount]
    BY <1>8 DEF SameAmounts
<1> QED BY <1>1, <1>7, <1>9 DEF Account!Answer, Account!money

LEMMA RequestStepMaps == AccountInv /\ RequestStep => [Account!Next]_(Account!vars)
<1> SUFFICES ASSUME AccountInv, RequestStep PROVE [Account!Next]_(Account!vars)
    OBVIOUS
<1>0. requests \in [Requests -> Request]
    BY DEF AccountInv, TypeInv, TypeOK
<1>1. ASSUME UNCHANGED <<ledger, positions>>, SameAmounts,
             \A r \in Requests : requests'[r].status = requests[r].status
      PROVE  UNCHANGED Account!vars
    <2>1. SameOpened
        BY <1>1 DEF SameOpened, Active
    <2>2. SameStages
        BY <1>1, <2>1, StageStays DEF SameStages, AccountInv
    <2> QED BY <1>1, <2>2, AccountStutters
<1>2. ASSUME NEW t \in Tabs, FreezePledge(t)
      PROVE  UNCHANGED Account!vars
    BY <1>0, <1>1, <1>2 DEF FreezePledge, SameAmounts, Request
<1>3. ASSUME UNCHANGED <<ledger, positions, requests>>
      PROVE  UNCHANGED Account!vars
    BY <1>1, <1>3 DEF SameAmounts
<1>4. ASSUME NEW t \in Tabs, NEW r \in Requests, CreateRequest(t, r)
      PROVE  Account!Next
    BY <1>4, CreateIsAsk DEF Account!Next
<1>5. ASSUME NEW r \in Requests, Approve(r) \/ Reject(r)
      PROVE  Account!Next
    BY <1>5, DecisionIsAnswer DEF Account!Next
<1> QED BY <1>2, <1>3, <1>4, <1>5 DEF RequestStep, CheckNoActiveRequest, CheckPledge

LEMMA PayBackMaps ==
    ASSUME AccountInv, NEW x \in Nat \ {0}, NEW i \in Nat, PayBack(x, i), requests' = requests
    PROVE  Account!PayBackPart \/ Account!PayBackAll
<1> DEFINE paid == ApplyRepayment(ledger, x)
<1>0. ledger \in LedgerRow /\ paid \in LedgerRow
    BY StatementsKeepRows DEF AccountInv, TypeInv, TypeOK, PayBack, CanPayBack
<1>1. /\ ledger'.avail = paid.avail - i /\ paid.avail - i >= 0
      /\ ledger'.locked = paid.locked /\ ledger'.granted = paid.granted /\ ledger'.used = paid.used
    BY <1>0 DEF PayBack, CanPayBack, DebitAvailable, CanDebitAvailable, LedgerRow
<1>2. SameAmounts
    BY DEF SameAmounts
<1>3. [r \in Requests |-> requests[r].amount]' = [r \in Requests |-> requests[r].amount]
    BY <1>2 DEF SameAmounts
<1>4. ledger.used >= x
    BY DEF PayBack, CanPayBack, CanRepay
<1>5. CASE ~RepaysAll(ledger, x)
    <2>1. /\ paid.avail = ledger.avail /\ paid.locked = ledger.locked
          /\ paid.granted = ledger.granted /\ paid.used = ledger.used - x
        BY <1>0, <1>5 DEF ApplyRepayment, LedgerRow
    <2>2. SameOpened
        <3>1. ASSUME NEW p \in Positions
              PROVE  positions'[p].request = positions[p].request /\ Active(p)' = Active(p)
            <4>1. positions'[p] = positions[p]
                BY <1>5 DEF PayBack, Closed
            <4> QED BY <4>1 DEF Active
        <3> QED BY <3>1 DEF SameOpened
    <2>3. SameStages
        BY <2>2, StageStays DEF SameStages, AccountInv
    <2>4. 0 < ledger'.used /\ ledger'.used < ledger.used
        BY <1>0, <1>1, <1>4, <1>5, <2>1 DEF RepaysAll, LedgerRow
    <2>5. 0 <= ledger'.avail /\ ledger'.avail <= ledger.avail
        BY <1>0, <1>1, <2>1 DEF LedgerRow
    <2> QED BY <1>1, <1>2, <2>1, <2>3, <2>4, <2>5, LoansStay DEF Account!PayBackPart
<1>6. CASE RepaysAll(ledger, x)
    <2>1. /\ paid.avail = ledger.avail + ledger.locked /\ paid.locked = 0
          /\ paid.granted = 0 /\ paid.used = 0 /\ ledger.used > 0
        BY <1>0, <1>6 DEF ApplyRepayment, RepaysAll, LedgerRow
    <2>2. 0 <= ledger'.avail /\ ledger'.avail <= ledger.avail + ledger.locked
        BY <1>0, <1>1, <2>1 DEF LedgerRow
    <2>3. \A p \in Positions : ~Active(p)' /\ positions'[p].request = positions[p].request
        BY <1>6, PayBackRows DEF AccountInv
    <2>4. ASSUME NEW r \in Requests
          PROVE  LoanStage(r)' = IF LoanStage(r) = "granted" THEN "ended" ELSE LoanStage(r)
        <3>1. CASE \A p \in Positions : ~From(p, r)
            BY <2>3, <3>1 DEF LoanStage, From
        <3>2. CASE \E p \in Positions : From(p, r)
            <4>1. LoanStage(r) = "granted" \/ LoanStage(r) = "ended"
                BY <3>2, StageIs
            <4>2. LoanStage(r)' = "ended"
                BY <2>3, <3>2 DEF LoanStage, From
            <4> QED BY <4>1, <4>2
        <3> QED BY <3>1, <3>2
    <2>5. [r \in Requests |-> LoanStage(r)']
            = [n \in Requests |-> IF [r \in Requests |-> LoanStage(r)][n] = "granted"
                                  THEN "ended" ELSE [r \in Requests |-> LoanStage(r)][n]]
        BY <2>4
    <2> QED BY <1>1, <1>3, <2>1, <2>2, <2>5 DEF Account!PayBackAll
<1> QED BY <1>5, <1>6

LEMMA MoneyStepMaps == AccountInv /\ MoneyStep => [Account!Next]_(Account!vars)
<1> SUFFICES ASSUME AccountInv, MoneyStep PROVE [Account!Next]_(Account!vars)
    OBVIOUS
<1>0. ledger \in LedgerRow
    BY DEF AccountInv, TypeInv, TypeOK
<1>1. ASSUME UNCHANGED <<positions, requests>>
      PROVE  SameStages /\ SameAmounts
    <2>1. SameOpened
        BY <1>1 DEF SameOpened, Active
    <2> QED BY <1>1, <2>1, StageStays DEF SameStages, SameAmounts, AccountInv
<1>2. ASSUME NEW f \in Fulfillers, NEW x \in Deposits, Deposit(f, x)
      PROVE  Account!Transfer
    <2>1. x \in Nat
        BY MoneyAssumption
    <2>2. /\ ledger'.avail >= 0 /\ ledger'.locked = ledger.locked
          /\ ledger'.granted = ledger.granted /\ ledger'.used = ledger.used
        BY <1>0, <1>2, <2>1 DEF Deposit, CreditAvailable, LedgerRow
    <2> QED BY <1>1, <1>2, <2>2, LoansStay DEF Deposit, Account!Transfer
<1>3. ASSUME NEW x \in Withdrawals, Withdraw(x)
      PROVE  Account!Transfer
    <2>1. x \in Nat
        BY MoneyAssumption
    <2>2. /\ ledger'.avail >= 0 /\ ledger'.locked = ledger.locked
          /\ ledger'.granted = ledger.granted /\ ledger'.used = ledger.used
        BY <1>0, <1>3, <2>1 DEF Withdraw, CanDebitAvailable, DebitAvailable, LedgerRow
    <2> QED BY <1>1, <1>3, <2>2, LoansStay DEF Withdraw, Account!Transfer
<1>4. ASSUME NEW x \in Spends, CardSpend(x)
      PROVE  Account!Spend
    <2>1. x \in Nat \ {0}
        BY MoneyAssumption
    <2>2. /\ ledger'.avail = ledger.avail /\ ledger'.locked = ledger.locked
          /\ ledger'.granted = ledger.granted
          /\ ledger'.used > ledger.used /\ ledger'.used <= ledger.granted
        BY <1>0, <1>4, <2>1 DEF CardSpend, LedgerRow
    <2> QED BY <1>1, <1>4, <2>2, LoansStay DEF CardSpend, Account!Spend
<1>5. ASSUME NEW x \in Repayments, NEW i \in Interests \cup {0}, Repay(x, i)
      PROVE  Account!PayBackPart \/ Account!PayBackAll
    BY <1>5, MoneyAssumption, PayBackMaps DEF Repay
<1> QED BY <1>2, <1>3, <1>4, <1>5 DEF MoneyStep, Account!Next

LEMMA IssueIsGrant ==
    ASSUME AccountInv, NEW f \in Fulfillers, NEW p \in Positions, NEW price \in Prices,
           Issue(f, p, price)
    PROVE  \E n \in Requests : Account!Grant(n)
<1> SUFFICES ASSUME NEW r \in Requests, r = fulfiller[f].request
             PROVE  Account!Grant(r)
    BY DEF Issue, AccountInv, TypeInv, RequestFound, Searched
<1> DEFINE c == requests[r].amount
           new == OpenPosition(r, fulfiller[f].currency, price)
           locked == LockCollateral(ledger, c, CreditFor(c))
<1>0. ledger \in LedgerRow /\ positions \in [Positions -> Position]
    BY DEF AccountInv, TypeInv, TypeOK
<1>1. c \in Nat /\ CreditFor(c) \in Nat /\ OriginationFee(c) \in Nat
    BY RatesAreAmounts DEF AccountInv, TypeInv, TypeOK, RequestFound, Searched, Issue, Request
<1>2. /\ r \in Requests /\ requests[r].status = "FULFILLED"
      /\ \A q \in Positions : ~From(q, r)
    BY DEF Issue, AccountInv, TypeInv, RequestFound, Searched, IssueInv, ClaimIsFree, Undecided, From
<1>3. /\ ledger' = DebitAvailable(locked, OriginationFee(c))
      /\ CanDebitAvailable(locked, OriginationFee(c))
      /\ positions' = [positions EXCEPT ![p] = new]
      /\ positions[p].status = "none" /\ requests' = requests
    BY DEF Issue, CanIssue, NextPosition
<1>4. new.status = "ACTIVE" /\ new.request = r
    BY DEF OpenPosition, NoPositionRow
<1>5. /\ locked.locked = ledger.locked + c /\ locked.granted = ledger.granted + CreditFor(c)
      /\ locked.avail = ledger.avail - c /\ locked.used = ledger.used
    BY <1>0 DEF LockCollateral, LedgerRow
<1>6. locked \in LedgerRow
    BY <1>0, <1>1, StatementsKeepRows DEF Issue, CanIssue
<1> HIDE DEF locked, new
<1>7. /\ ledger'.locked = ledger.locked + c /\ ledger'.granted = ledger.granted + CreditFor(c)
      /\ ledger'.avail = ledger.avail - c - OriginationFee(c) /\ ledger'.used = ledger.used
      /\ ledger'.avail >= 0
    BY <1>0, <1>1, <1>3, <1>5, <1>6 DEF DebitAvailable, CanDebitAvailable, LedgerRow
<1>8. /\ positions'[p] = new
      /\ \A q \in Positions : q # p => positions'[q] = positions[q]
    BY <1>0, <1>3
<1>9. LoanStage(r) = "agreed"
    BY <1>2, StageIs
<1>10. LoanStage(r)' = "granted"
    <2>1. positions'[p].request = r /\ positions'[p].status = "ACTIVE"
        BY <1>4, <1>8
    <2> QED BY <2>1 DEF LoanStage, Active
<1>11. ASSUME NEW n \in Requests, n # r
       PROVE  LoanStage(n)' = LoanStage(n)
    <2>1. positions[p].request = 0 /\ n # 0
        BY <1>3, IdsAssumption DEF AccountInv, AmountsInv, PositionsAsAsked, Exists
    <2>2. {q \in Positions : positions[q].request = n}' = {q \in Positions : positions[q].request = n}
        BY <1>4, <1>8, <1>11, <2>1
    <2>3. \A q \in {s \in Positions : positions[s].request = n} : Active(q)' = Active(q)
        BY <1>8, <2>1 DEF Active
    <2>4. (\E q \in {s \in Positions : positions[s].request = n} : Active(q))'
            = (\E q \in {s \in Positions : positions[s].request = n} : Active(q))
        BY <2>2, <2>3
    <2> QED BY <1>3, <2>2, <2>4 DEF LoanStage
<1>12. Account!Move(r, "agreed", "granted")
    BY <1>2, <1>9, <1>10, <1>11, LoanMoves
<1>13. [q \in Requests |-> requests[q].amount][r] = c
    BY <1>2
<1>14. [q \in Requests |-> requests'[q].amount] = [q \in Requests |-> requests[q].amount]
    BY <1>3
<1> HIDE DEF c
<1> QED BY <1>7, <1>12, <1>13, <1>14 DEF Account!Grant

LEMMA FulfilStepMaps ==
    ASSUME NEW f \in Fulfillers
    PROVE  AccountInv /\ FulfilStep(f) => [Account!Next]_(Account!vars)
<1> SUFFICES ASSUME AccountInv, FulfilStep(f) PROVE [Account!Next]_(Account!vars)
    OBVIOUS
<1>0. requests \in [Requests -> Request]
    BY DEF AccountInv, TypeInv, TypeOK
<1>1. ASSUME UNCHANGED <<ledger, positions>>, SameAmounts,
             \A r \in Requests : \/ requests'[r].status = requests[r].status
                                \/ /\ requests[r].status \in {"APPROVED", "FULFILLED"}
                                   /\ requests'[r].status \in {"APPROVED", "FULFILLED"}
      PROVE  UNCHANGED Account!vars
    <2>1. SameOpened
        BY <1>1 DEF SameOpened, Active
    <2>2. SameStages
        BY <1>1, <2>1, StageStays DEF SameStages, AccountInv
    <2> QED BY <1>1, <2>2, AccountStutters
<1>2. ASSUME UNCHANGED <<ledger, positions, requests>>
      PROVE  UNCHANGED Account!vars
    BY <1>1, <1>2 DEF SameAmounts
<1>3. CASE Claim(f)
    <2>1. CASE ClaimGranted(fulfiller[f].request)
        <3>1. /\ requests' = [requests EXCEPT ![fulfiller[f].request].status = "FULFILLED"]
              /\ requests[fulfiller[f].request].status = "APPROVED"
              /\ UNCHANGED <<ledger, positions>>
            BY <1>3, <2>1 DEF Claim, ClaimGranted, history
        <3>2. SameAmounts
            BY <1>0, <3>1 DEF SameAmounts, Request
        <3>3. \A r \in Requests : \/ requests'[r].status = requests[r].status
                                  \/ /\ requests[r].status = "APPROVED"
                                     /\ requests'[r].status = "FULFILLED"
            BY <1>0, <3>1 DEF Request
        <3> QED BY <1>1, <3>1, <3>2, <3>3
    <2>2. CASE ~ClaimGranted(fulfiller[f].request)
        BY <1>2, <1>3, <2>2 DEF Claim
    <2> QED BY <2>1, <2>2
<1>4. CASE Link(f)
    <2>1. SameAmounts /\ \A r \in Requests : requests'[r].status = requests[r].status
        BY <1>0, <1>4 DEF Link, SameAmounts, Request
    <2> QED BY <1>1, <1>4, <2>1 DEF Link
<1>5. CASE Revert(f)
    <2>1. CASE Revertible(fulfiller[f].request)
        <3>1. /\ requests' = [requests EXCEPT ![fulfiller[f].request].status = "APPROVED"]
              /\ requests[fulfiller[f].request].status = "FULFILLED"
              /\ UNCHANGED <<ledger, positions>>
            BY <1>5, <2>1 DEF Revert, Revertible, history
        <3>2. SameAmounts
            BY <1>0, <3>1 DEF SameAmounts, Request
        <3>3. \A r \in Requests : \/ requests'[r].status = requests[r].status
                                  \/ /\ requests[r].status = "FULFILLED"
                                     /\ requests'[r].status = "APPROVED"
            BY <1>0, <3>1 DEF Request
        <3> QED BY <1>1, <3>1, <3>2, <3>3
    <2>2. CASE ~Revertible(fulfiller[f].request)
        BY <1>2, <1>5, <2>2 DEF Revert
    <2> QED BY <2>1, <2>2
<1>6. ASSUME NEW p \in Positions, NEW price \in Prices, Issue(f, p, price)
      PROVE  Account!Next
    BY <1>6, IssueIsGrant DEF Account!Next
<1> QED BY <1>2, <1>3, <1>4, <1>5, <1>6
        DEF FulfilStep, FindApproved, CheckBalance, IssueFails, LinkFails

LEMMA YieldStepMaps ==
    ASSUME NEW y \in YieldRunners
    PROVE  AccountInv /\ YieldStep(y) => [Account!Next]_(Account!vars)
<1> SUFFICES ASSUME AccountInv, YieldStep(y) PROVE [Account!Next]_(Account!vars)
    OBVIOUS
<1>1. requests' = requests
    BY DEF YieldStep, YieldStart, YieldCheck, YieldRepay, YieldSkips, YieldAdvanceFails, YieldAdvance
<1>2. ASSUME NEW i \in Interests \cup {0}, YieldRepay(y, i)
      PROVE  Account!Next
    <2>1. yielder[y].due \in Nat \ {0} /\ i \in Nat
        BY <1>2, MoneyAssumption
           DEF YieldRepay, AccountInv, TypeInv, TypeOK, Yielder, AmountsInv, YieldDue
    <2> QED BY <1>1, <1>2, <2>1, PayBackMaps DEF YieldRepay, Account!Next
<1>3. ASSUME SameOpened, ledger' = ledger
      PROVE  UNCHANGED Account!vars
    <2>1. SameStages /\ SameAmounts
        BY <1>1, <1>3, StageStays DEF SameStages, SameAmounts, AccountInv
    <2> QED BY <1>3, <2>1, AccountStutters
<1>4. CASE YieldAdvance(y)
    <2>1. SameOpened /\ ledger' = ledger
        BY <1>4 DEF YieldAdvance, AdvancedRow, SameOpened, Active, AccountInv, TypeInv, TypeOK,
                    Position
    <2> QED BY <1>3, <2>1
<1>5. ASSUME UNCHANGED <<ledger, positions>>
      PROVE  UNCHANGED Account!vars
    BY <1>3, <1>5 DEF SameOpened, Active
<1> QED BY <1>2, <1>4, <1>5 DEF YieldStep, YieldStart, YieldCheck, YieldSkips, YieldAdvanceFails

LEMMA LiquidateIsDefault ==
    ASSUME AccountInv, NEW l \in Liquidators, NEW p \in Positions,
           NEW price \in Prices, Liquidate(l, p, price)
    PROVE  \E n \in Requests : Account!Default(n)
<1>0. ledger \in LedgerRow /\ positions \in [Positions -> Position]
    BY DEF AccountInv, TypeInv, TypeOK
<1>1. Active(p) /\ Exists(p)
    BY DEF Liquidate, AccountInv, BooksInv, CopiesTrue, Active, Exists
<1> SUFFICES ASSUME NEW r \in Requests, r = positions[p].request
             PROVE  Account!Default(r)
    BY <1>0, <1>1 DEF AccountInv, IssueInv, OpenedFromRequest, Position
<1>2. r # 0
    BY IdsAssumption
<1>3. /\ positions[p].collateral = requests[r].amount
      /\ positions[p].credit = CreditFor(requests[r].amount)
    BY <1>1 DEF AccountInv, AmountsInv, PositionsAsAsked
<1>4. /\ ledger'.locked = ledger.locked - positions[p].collateral
      /\ ledger'.granted = ledger.granted - positions[p].credit
    BY LiquidateBooks DEF AccountInv
<1>5. ledger'.avail = ledger.avail /\ ledger'.used = ledger.used
    BY <1>0 DEF Liquidate, LiquidateCollateral, LedgerRow
<1>6. /\ positions'[p].status = "LIQUIDATED" /\ positions'[p].request = r
      /\ \A q \in Positions : q # p => positions'[q] = positions[q]
      /\ requests' = requests
    BY <1>0 DEF Liquidate, LiquidatedRow, Position
<1>7. \A q \in Positions : positions[q].request = r => q = p
    BY <1>2 DEF AccountInv, IssueInv, OnePositionEach
<1>8. LoanStage(r) = "granted"
    BY <1>1, <1>2, StageIs DEF From
<1>9. LoanStage(r)' = "ended"
    BY <1>6, <1>7 DEF LoanStage, Active
<1>10. ASSUME NEW n \in Requests, n # r
       PROVE  LoanStage(n)' = LoanStage(n)
    <2>2. {q \in Positions : positions[q].request = n}' = {q \in Positions : positions[q].request = n}
        BY <1>6, <1>10
    <2>3. \A q \in {s \in Positions : positions[s].request = n} : Active(q)' = Active(q)
        BY <1>6, <1>10 DEF Active
    <2>4. (\E q \in {s \in Positions : positions[s].request = n} : Active(q))'
            = (\E q \in {s \in Positions : positions[s].request = n} : Active(q))
        BY <2>2, <2>3
    <2> QED BY <1>6, <2>2, <2>4 DEF LoanStage
<1>11. Account!Move(r, "granted", "ended")
    BY <1>2, <1>8, <1>9, <1>10, LoanMoves
<1>12. [q \in Requests |-> requests[q].amount][r] = requests[r].amount
    BY <1>2
<1>13. [q \in Requests |-> requests'[q].amount] = [q \in Requests |-> requests[q].amount]
    BY <1>6
<1> QED BY <1>3, <1>4, <1>5, <1>11, <1>12, <1>13 DEF Account!Default

LEMMA LiquidationStepMaps ==
    ASSUME NEW l \in Liquidators
    PROVE  AccountInv /\ LiquidationStep(l) => [Account!Next]_(Account!vars)
<1> SUFFICES ASSUME AccountInv, LiquidationStep(l) PROVE [Account!Next]_(Account!vars)
    OBVIOUS
<1>1. ASSUME SameOpened, UNCHANGED <<ledger, requests>>
      PROVE  UNCHANGED Account!vars
    <2>1. SameStages /\ SameAmounts
        BY <1>1, StageStays DEF SameStages, SameAmounts, AccountInv
    <2> QED BY <1>1, <2>1, AccountStutters
<1>2. ASSUME NEW p \in Positions, NEW price \in Prices, Liquidate(l, p, price)
      PROVE  Account!Next
    BY <1>2, LiquidateIsDefault DEF Account!Next
<1>3. ASSUME NEW p \in Positions, NEW price \in Prices, UpdateWarning(l, p, price)
      PROVE  UNCHANGED Account!vars
    <2>1. SameOpened
        BY <1>3 DEF UpdateWarning, SameOpened, Active, AccountInv, TypeInv, TypeOK, Position
    <2> QED BY <1>1, <1>3, <2>1 DEF UpdateWarning
<1>4. ASSUME UNCHANGED <<ledger, positions, requests>>
      PROVE  UNCHANGED Account!vars
    BY <1>1, <1>4 DEF SameOpened, Active
<1> QED BY <1>2, <1>3, <1>4 DEF LiquidationStep, LiquidationStart, LiquidationSkips

LEMMA NoStepMaps ==
    ASSUME AccountInv, UNCHANGED <<ledger, positions, requests>>
    PROVE  UNCHANGED Account!vars
<1>1. SameOpened
    BY DEF SameOpened, Active
<1>2. SameStages /\ SameAmounts
    BY <1>1, StageStays DEF SameStages, SameAmounts, AccountInv
<1> QED BY <1>2, AccountStutters

(* The credit line implements the abstract account, for every value of the  *)
(* constants: requests, claims, issues, compensations, repayments, yields,  *)
(* liquidations and restarts do nothing to a client but the operations of   *)
(* CreditAccount, as long as linking a position works and liquidation       *)
(* passes are kept apart in time from repayments and from one another.      *)
THEOREM ImplementsAccount ==
    ASSUME ~LinkFaults
    PROVE  ApartSpec => AccountSpec
<1>1. Init => Account!Init
    <2> SUFFICES ASSUME Init PROVE Account!Init
        OBVIOUS
    <2>1. ASSUME NEW r \in Requests
          PROVE  LoanStage(r) = "none" /\ requests[r].amount = 0
        <3>1. requests[r].status = "none" /\ requests[r].amount = 0
            BY DEF Init, NoRequestRow
        <3>2. \A p \in Positions : ~From(p, r)
            BY IdsAssumption DEF Init, NoPositionRow, From
        <3> QED BY <3>1, <3>2, StageIs
    <2>2. ledger.avail = 0 /\ ledger.locked = 0 /\ ledger.granted = 0 /\ ledger.used = 0
        BY DEF Init, EmptyLedger
    <2> QED BY <2>1, <2>2 DEF Account!Init
<1>2. AccountInv /\ [Next]_vars => [Account!Next]_(Account!vars)
    <2>1. AccountInv /\ Next => [Account!Next]_(Account!vars)
        BY RequestStepMaps, MoneyStepMaps, FulfilStepMaps, YieldStepMaps, LiquidationStepMaps,
           NoStepMaps DEF Next, Crash
    <2>2. AccountInv /\ UNCHANGED vars => UNCHANGED Account!vars
        BY NoStepMaps DEF vars
    <2> QED BY <2>1, <2>2
<1>3. Init => IssueInv /\ AmountsInv
    BY IssueInit, AmountsInit
<1>4. TypeInv /\ IssueInv /\ AmountsInv /\ [Next]_vars => IssueInv' /\ AmountsInv'
    BY IssueInductive, AmountsInductive
<1>5. Spec => [](TypeInv /\ IssueInv /\ AmountsInv)
    BY <1>3, <1>4, TypeInvariant, PTL DEF Spec
<1>6. ApartSpec => []AccountInv
    BY <1>5, ApartIsSpec, BooksInvariant, PTL DEF AccountInv
<1> QED BY <1>1, <1>2, <1>6, ApartIsSpec, PTL DEF Spec, AccountSpec, Account!Spec

-----------------------------------------------------------------------------
(* Debt beyond the line.                                                    *)

LEMMA LiquidatedStays ==
    ASSUME TypeInv, [Next]_vars, NEW p \in Positions, positions[p].status = "LIQUIDATED"
    PROVE  positions'[p].status = "LIQUIDATED"
<1>0. positions \in [Positions -> Position]
    BY DEF TypeInv, TypeOK
<1>1. CASE UNCHANGED positions
    BY <1>1
<1>2. ASSUME NEW x, NEW i, PayBack(x, i)
      PROVE  positions'[p].status = "LIQUIDATED"
    <2>1. positions'[p] = positions[p]
        BY <1>2 DEF PayBack, Closed, Active
    <2> QED BY <2>1
<1>3. ASSUME NEW f \in Fulfillers, NEW q \in Positions, NEW price \in Prices, Issue(f, q, price)
      PROVE  positions'[p].status = "LIQUIDATED"
    <2>1. positions'[p] = positions[p]
        BY <1>0, <1>3 DEF Issue, NextPosition
    <2> QED BY <2>1
<1>4. ASSUME NEW y \in YieldRunners, YieldAdvance(y)
      PROVE  positions'[p].status = "LIQUIDATED"
    BY <1>0, <1>4 DEF YieldAdvance, AdvancedRow, Position
<1>5. ASSUME NEW l \in Liquidators, NEW q \in Positions, NEW price \in Prices, Liquidate(l, q, price)
      PROVE  positions'[p].status = "LIQUIDATED"
    BY <1>0, <1>5 DEF Liquidate, LiquidatedRow, Position
<1>6. ASSUME NEW l \in Liquidators, NEW q \in Positions, NEW price \in Prices, UpdateWarning(l, q, price)
      PROVE  positions'[p].status = "LIQUIDATED"
    BY <1>0, <1>6 DEF UpdateWarning, Position
<1>7. CASE RequestStep \/ Crash \/ UNCHANGED vars
    BY <1>1, <1>7 DEF RequestStep, CheckNoActiveRequest, CreateRequest, CheckPledge, FreezePledge,
                      Approve, Reject, Crash, vars
<1>8. CASE MoneyStep
    BY <1>1, <1>2, <1>8 DEF MoneyStep, Deposit, Withdraw, CardSpend, Repay
<1>9. ASSUME NEW f \in Fulfillers, FulfilStep(f)
      PROVE  positions'[p].status = "LIQUIDATED"
    BY <1>1, <1>3, <1>9 DEF FulfilStep, FindApproved, CheckBalance, Claim, IssueFails, Link,
                            LinkFails, Revert
<1>10. ASSUME NEW y \in YieldRunners, YieldStep(y)
       PROVE  positions'[p].status = "LIQUIDATED"
    BY <1>1, <1>2, <1>4, <1>10 DEF YieldStep, YieldStart, YieldCheck, YieldRepay, YieldSkips, YieldAdvanceFails
<1>11. ASSUME NEW l \in Liquidators, LiquidationStep(l)
       PROVE  positions'[p].status = "LIQUIDATED"
    BY <1>1, <1>5, <1>6, <1>11 DEF LiquidationStep, LiquidationStart, LiquidationSkips
<1> QED BY <1>7, <1>8, <1>9, <1>10, <1>11 DEF Next

LEMMA PayBackWithinLine ==
    ASSUME TypeInv, ledger.used <= ledger.granted, NEW x \in Nat, NEW i \in Nat, PayBack(x, i)
    PROVE  ledger'.used <= ledger'.granted
<1>0. ledger \in LedgerRow /\ ApplyRepayment(ledger, x) \in LedgerRow
    BY StatementsKeepRows DEF TypeInv, TypeOK, PayBack, CanPayBack
<1>1. /\ ledger'.granted = ApplyRepayment(ledger, x).granted
      /\ ledger'.used = ApplyRepayment(ledger, x).used
    BY <1>0 DEF PayBack, DebitAvailable, LedgerRow
<1>2. CASE RepaysAll(ledger, x)
    BY <1>0, <1>1, <1>2 DEF ApplyRepayment, LedgerRow
<1>3. CASE ~RepaysAll(ledger, x)
    <2>1. ledger'.granted = ledger.granted /\ ledger'.used = ledger.used - x
        BY <1>0, <1>1, <1>3 DEF ApplyRepayment, LedgerRow
    <2> QED BY <1>0, <2>1 DEF LedgerRow
<1> QED BY <1>2, <1>3

LEMMA WithinLineUntilLiquidation ==
    ASSUME TypeInv, [Next]_vars, ledger.used <= ledger.granted,
           \A p \in Positions : positions'[p].status # "LIQUIDATED"
    PROVE  ledger'.used <= ledger'.granted
<1>0. ledger \in LedgerRow /\ positions \in [Positions -> Position]
    BY DEF TypeInv, TypeOK
<1>1. CASE UNCHANGED ledger
    BY <1>1
<1>2. ASSUME NEW f \in Fulfillers, NEW x \in Deposits, Deposit(f, x)
      PROVE  ledger'.used <= ledger'.granted
    BY <1>0, <1>2 DEF Deposit, CreditAvailable, LedgerRow
<1>3. ASSUME NEW x \in Withdrawals, Withdraw(x)
      PROVE  ledger'.used <= ledger'.granted
    BY <1>0, <1>3 DEF Withdraw, DebitAvailable, LedgerRow
<1>4. ASSUME NEW x \in Spends, CardSpend(x)
      PROVE  ledger'.used <= ledger'.granted
    BY <1>0, <1>4 DEF CardSpend, LedgerRow
<1>5. ASSUME NEW x \in Repayments, NEW i \in Interests \cup {0}, Repay(x, i)
      PROVE  ledger'.used <= ledger'.granted
    BY <1>5, MoneyAssumption, PayBackWithinLine DEF Repay
<1>6. ASSUME NEW f \in Fulfillers, NEW p \in Positions, NEW price \in Prices, Issue(f, p, price)
      PROVE  ledger'.used <= ledger'.granted
    <2> DEFINE c == requests[fulfiller[f].request].amount
               locked == LockCollateral(ledger, c, CreditFor(c))
    <2>1. CreditFor(c) \in Nat
        BY <1>6, RatesAreAmounts
           DEF TypeInv, TypeOK, RequestFound, Searched, Issue, Request
    <2>2. /\ ledger' = DebitAvailable(locked, OriginationFee(c))
          /\ locked.granted = ledger.granted + CreditFor(c) /\ locked.used = ledger.used
        BY <1>0, <1>6 DEF Issue, LockCollateral, LedgerRow
    <2>3. ledger'.granted = locked.granted /\ ledger'.used = locked.used
        BY <1>0, <2>2 DEF DebitAvailable, LockCollateral, LedgerRow
    <2> HIDE DEF locked, c
    <2> QED BY <1>0, <2>1, <2>2, <2>3 DEF LedgerRow
<1>7. ASSUME NEW y \in YieldRunners, NEW i \in Interests \cup {0}, YieldRepay(y, i)
      PROVE  ledger'.used <= ledger'.granted
    <2>1. yielder[y].due \in Nat /\ i \in Nat
        BY MoneyAssumption DEF TypeInv, TypeOK, Yielder
    <2> QED BY <1>7, <2>1, PayBackWithinLine DEF YieldRepay
<1>8. ASSUME NEW l \in Liquidators, NEW p \in Positions, NEW price \in Prices, Liquidate(l, p, price)
      PROVE  FALSE
    BY <1>0, <1>8 DEF Liquidate, LiquidatedRow, Position
<1>9. CASE RequestStep \/ Crash \/ UNCHANGED vars
    BY <1>1, <1>9 DEF RequestStep, CheckNoActiveRequest, CreateRequest, CheckPledge, FreezePledge,
                      Approve, Reject, Crash, vars
<1>10. CASE MoneyStep
    BY <1>2, <1>3, <1>4, <1>5, <1>10 DEF MoneyStep
<1>11. ASSUME NEW f \in Fulfillers, FulfilStep(f)
       PROVE  ledger'.used <= ledger'.granted
    BY <1>1, <1>6, <1>11 DEF FulfilStep, FindApproved, CheckBalance, Claim, IssueFails, Link,
                             LinkFails, Revert
<1>12. ASSUME NEW y \in YieldRunners, YieldStep(y)
       PROVE  ledger'.used <= ledger'.granted
    BY <1>1, <1>7, <1>12 DEF YieldStep, YieldStart, YieldCheck, YieldSkips, YieldAdvanceFails, YieldAdvance
<1>13. ASSUME NEW l \in Liquidators, LiquidationStep(l)
       PROVE  ledger'.used <= ledger'.granted
    BY <1>1, <1>8, <1>13 DEF LiquidationStep, LiquidationStart, UpdateWarning, LiquidationSkips
<1> QED BY <1>9, <1>10, <1>11, <1>12, <1>13 DEF Next

(* Whatever overlaps or fails, a client owes more than the credit granted   *)
(* only after a liquidation.                                                *)
THEOREM UnsecuredExplained == Spec => []UnsecuredOnlyByLiquidation
<1>1. Init => UnsecuredOnlyByLiquidation
    BY DEF Init, EmptyLedger, UnsecuredOnlyByLiquidation
<1>2. TypeInv /\ UnsecuredOnlyByLiquidation /\ [Next]_vars => UnsecuredOnlyByLiquidation'
    <2> SUFFICES ASSUME TypeInv, UnsecuredOnlyByLiquidation, [Next]_vars,
                        \A p \in Positions : positions'[p].status # "LIQUIDATED"
                 PROVE  ~(ledger'.used > ledger'.granted)
        BY DEF UnsecuredOnlyByLiquidation
    <2>1. \A p \in Positions : positions[p].status # "LIQUIDATED"
        BY LiquidatedStays
    <2>2. ledger.used \in Nat /\ ledger.granted \in Nat /\ ledger'.used \in Nat /\ ledger'.granted \in Nat
        BY TypeInductive DEF TypeInv, TypeOK, LedgerRow
    <2>3. ledger.used <= ledger.granted
        BY <2>1, <2>2 DEF UnsecuredOnlyByLiquidation
    <2>4. ledger'.used <= ledger'.granted
        BY <2>3, WithinLineUntilLiquidation
    <2> QED BY <2>2, <2>4
<1> QED BY <1>1, <1>2, TypeInvariant, PTL DEF Spec

-----------------------------------------------------------------------------
(***************************************************************************)
(* What the yield of a collateral repays, proved for every value of the    *)
(* constants when one pass of the yield job runs at a time, whatever fails *)
(* and through restarts.  Of two passes that overlap the second repays the *)
(* same gain again (see the run yield_rerun); so does the pass that        *)
(* follows one whose update failed or was cut, and `unmarked' is what it   *)
(* may repay twice.                                                        *)
(***************************************************************************)

OnePass == \A x, y \in YieldRunners : x = y

-----------------------------------------------------------------------------
(* The invariant.  The copy that the pass works from still has the terms of *)
(* the position, since nothing else writes them; the amount it is about to  *)
(* repay fits under the cap and in the gain computed from that copy.        *)

SameCopy(row, old) ==
    /\ row.collateral = old.collateral
    /\ row.credit = old.credit
    /\ row.entry = old.entry
    /\ row.applied = old.applied
    /\ row.yielded = old.yielded

\* The gain from the entry price to the price of the mark.
MarkedGain(row) == (row.applied - row.entry) * (row.collateral \div row.entry)

UnopenedIsBlank ==
    \A p \in Positions : ~Exists(p) => /\ positions[p].yielded = 0
                                       /\ positions[p].applied = positions[p].entry

CopyIsFresh ==
    \A y \in YieldRunners, p \in Positions :
        yielder[y].rows[p].status = "ACTIVE"
            => Exists(p) /\ SameCopy(yielder[y].rows[p], positions[p])

DueIsOwed ==
    \A y \in YieldRunners :
        yielder[y].pc # "check" =>
            LET row == yielder[y].rows[yielder[y].position] IN
            /\ yielder[y].position \in Positions
            /\ row.status = "ACTIVE"
            /\ yielder[y].due <= Capacity(row)
            /\ yielder[y].price > row.applied
            /\ yielder[y].due <= Gain(row, yielder[y].price)

RowWithinCap == \A p \in Positions : positions[p].yielded <= YieldCap(positions[p].credit)

RowCovered ==
    \A p \in Positions : Exists(p) /\ positions[p].entry > 0
                            => positions[p].yielded <= MarkedGain(positions[p])

YieldInv == /\ UnopenedIsBlank
            /\ CopyIsFresh
            /\ DueIsOwed
            /\ YieldRecorded
            /\ RowWithinCap
            /\ RowCovered

-----------------------------------------------------------------------------
(* Steps that leave the job and the terms of the positions alone.           *)

\* A position keeps its terms; one that is opened starts with no gain.
CopyTermsKept ==
    \A p \in Positions :
        IF Exists(p)
        THEN Exists(p)' /\ SameCopy(positions'[p], positions[p])
        ELSE positions'[p].yielded = 0 /\ positions'[p].applied = positions'[p].entry

LEMMA NoMarkNoGain ==
    ASSUME NEW row \in Position, row.entry > 0, row.applied = row.entry
    PROVE  MarkedGain(row) = 0
<1>1. row.collateral \div row.entry \in Int
    BY DEF Position
<1>2. row.applied - row.entry = 0
    BY DEF Position
<1>3. \A k \in Int : 0 * k = 0
    OBVIOUS
<1> QED BY <1>1, <1>2, <1>3, Zenon DEF MarkedGain

(* The rows satisfy the part of the invariant that is about them alone.     *)
LEMMA RowsKept ==
    ASSUME TypeInv, TypeInv', YieldInv, CopyTermsKept
    PROVE  UnopenedIsBlank' /\ RowWithinCap' /\ RowCovered'
<1>0. \A p \in Positions : positions[p] \in Position /\ positions'[p] \in Position
    BY DEF TypeInv, TypeOK
<1>1. UnopenedIsBlank'
    BY DEF UnopenedIsBlank, CopyTermsKept
<1>2. ASSUME NEW p \in Positions
      PROVE  positions'[p].yielded <= YieldCap(positions'[p].credit)
    <2>1. CASE Exists(p)
        BY <2>1 DEF CopyTermsKept, SameCopy, YieldInv, RowWithinCap
    <2>2. CASE ~Exists(p)
        <3>1. positions'[p].yielded = 0
            BY <2>2 DEF CopyTermsKept
        <3>2. positions'[p].credit \in Nat
            BY <1>0 DEF Position
        <3>3. YieldCap(positions'[p].credit) \in Nat
            BY <3>2 DEF YieldCap
        <3> QED BY <3>1, <3>3
    <2> QED BY <2>1, <2>2
<1>3. ASSUME NEW p \in Positions, positions'[p].entry > 0
      PROVE  positions'[p].yielded <= MarkedGain(positions'[p])
    <2>1. CASE Exists(p)
        <3>1. SameCopy(positions'[p], positions[p])
            BY <2>1 DEF CopyTermsKept
        <3>2. MarkedGain(positions'[p]) = MarkedGain(positions[p])
            BY <3>1, Zenon DEF MarkedGain, SameCopy
        <3>3. positions[p].yielded <= MarkedGain(positions[p])
            BY <1>3, <2>1, <3>1 DEF SameCopy, YieldInv, RowCovered
        <3> QED BY <3>1, <3>2, <3>3 DEF SameCopy
    <2>2. CASE ~Exists(p)
        <3>1. positions'[p].yielded = 0 /\ positions'[p].applied = positions'[p].entry
            BY <2>2 DEF CopyTermsKept
        <3>2. \A row \in Position :
                 row.entry > 0 /\ row.applied = row.entry => MarkedGain(row) = 0
            BY NoMarkNoGain
        <3>3. MarkedGain(positions'[p]) = 0
            BY <1>0, <1>3, <3>1, <3>2
        <3> QED BY <3>1, <3>3
    <2> QED BY <2>1, <2>2
<1>4. RowWithinCap'
    BY <1>2 DEF RowWithinCap
<1>5. RowCovered'
    BY <1>3 DEF RowCovered
<1> QED BY <1>1, <1>4, <1>5

LEMMA JobAside ==
    ASSUME TypeInv, TypeInv', YieldInv, CopyTermsKept, UNCHANGED <<yielder, yieldPaid, unmarked>>
    PROVE  YieldInv'
<1>1. UnopenedIsBlank' /\ RowWithinCap' /\ RowCovered'
    BY RowsKept
<1>2. CopyIsFresh'
    BY DEF YieldInv, CopyIsFresh, CopyTermsKept, SameCopy
<1>3. DueIsOwed'
    BY DEF YieldInv, DueIsOwed
<1>4. \A p \in Positions : positions'[p].yielded = positions[p].yielded
    BY DEF YieldInv, UnopenedIsBlank, CopyTermsKept, SameCopy
<1>5. YieldRecorded'
    BY <1>4 DEF YieldInv, YieldRecorded
<1> QED BY <1>1, <1>2, <1>3, <1>5 DEF YieldInv

LEMMA PayBackKeepsTerms ==
    ASSUME TypeInv, YieldInv, NEW x, NEW i, PayBack(x, i)
    PROVE  CopyTermsKept
<1> SUFFICES ASSUME NEW p \in Positions
             PROVE  IF Exists(p)
                    THEN Exists(p)' /\ SameCopy(positions'[p], positions[p])
                    ELSE /\ positions'[p].yielded = 0
                         /\ positions'[p].applied = positions'[p].entry
    BY Zenon DEF CopyTermsKept
<1>0. positions[p] \in Position
    BY DEF TypeInv, TypeOK
<1>1. \/ positions'[p] = positions[p]
      \/ positions'[p] = [positions[p] EXCEPT !.status = "CLOSED"] /\ Active(p)
    BY Zenon DEF PayBack, Closed
<1>2. CASE positions'[p] = positions[p]
    BY <1>2 DEF Exists, SameCopy, YieldInv, UnopenedIsBlank
<1>3. CASE positions'[p] = [positions[p] EXCEPT !.status = "CLOSED"] /\ Active(p)
    BY <1>0, <1>3 DEF Position, Exists, Active, SameCopy
<1> QED BY <1>1, <1>2, <1>3

(* A step outside the yield job: movements, issues, liquidations.           *)
LEMMA OthersKeepTerms ==
    ASSUME TypeInv, YieldInv
    PROVE  /\ UNCHANGED positions => CopyTermsKept
           /\ MoneyStep => CopyTermsKept
           /\ \A f \in Fulfillers : FulfilStep(f) => CopyTermsKept
           /\ \A l \in Liquidators : LiquidationStep(l) => CopyTermsKept
<1>0. positions \in [Positions -> Position]
    BY DEF TypeInv, TypeOK
<1>1. ASSUME UNCHANGED positions PROVE CopyTermsKept
    BY <1>1 DEF CopyTermsKept, Exists, SameCopy, YieldInv, UnopenedIsBlank
<1>2. ASSUME MoneyStep PROVE CopyTermsKept
    <2>1. UNCHANGED positions \/ \E x \in Repayments, i \in Interests \cup {0} : PayBack(x, i)
        BY <1>2 DEF MoneyStep, Deposit, Withdraw, CardSpend, Repay
    <2> QED BY <1>1, <2>1, PayBackKeepsTerms
<1>3. ASSUME NEW p \in Positions, NEW new, positions' = [positions EXCEPT ![p] = new],
             \/ SameCopy(new, positions[p]) /\ (Exists(p) => new.status # "none")
             \/ ~Exists(p) /\ new.yielded = 0 /\ new.applied = new.entry
      PROVE  CopyTermsKept
    <2>1. positions'[p] = new /\ \A q \in Positions : q # p => positions'[q] = positions[q]
        BY <1>0, <1>3
    <2>2. ASSUME NEW q \in Positions, q # p
          PROVE  IF Exists(q)
                 THEN Exists(q)' /\ SameCopy(positions'[q], positions[q])
                 ELSE positions'[q].yielded = 0 /\ positions'[q].applied = positions'[q].entry
        BY <2>1, <2>2 DEF Exists, SameCopy, YieldInv, UnopenedIsBlank
    <2>3. IF Exists(p)
          THEN Exists(p)' /\ SameCopy(positions'[p], positions[p])
          ELSE positions'[p].yielded = 0 /\ positions'[p].applied = positions'[p].entry
        BY <1>3, <2>1 DEF Exists, SameCopy, YieldInv, UnopenedIsBlank
    <2> QED BY <2>2, <2>3 DEF CopyTermsKept
<1>4. ASSUME NEW f \in Fulfillers, FulfilStep(f) PROVE CopyTermsKept
    <2>1. ASSUME NEW p \in Positions, NEW price \in Prices, Issue(f, p, price)
          PROVE  CopyTermsKept
        <3> DEFINE new == OpenPosition(fulfiller[f].request, fulfiller[f].currency, price)
        <3>1. positions' = [positions EXCEPT ![p] = new] /\ ~Exists(p)
            BY <2>1 DEF Issue, NextPosition, Exists
        <3>2. new.yielded = 0 /\ new.applied = new.entry
            BY DEF OpenPosition, NoPositionRow
        <3> HIDE DEF new
        <3> QED BY <1>3, <3>1, <3>2
    <2>2. UNCHANGED positions => CopyTermsKept
        BY <1>1
    <2> QED BY <1>4, <2>1, <2>2 DEF FulfilStep, FindApproved, CheckBalance, Claim, IssueFails,
                                    Link, LinkFails, Revert
<1>5. ASSUME NEW l \in Liquidators, LiquidationStep(l) PROVE CopyTermsKept
    <2>1. ASSUME NEW p \in Positions, NEW new,
                 positions' = [positions EXCEPT ![p] = new],
                 \/ new = LiquidatedRow(positions[p])
                 \/ \E w \in BOOLEAN : new = [positions[p] EXCEPT !.warned = w]
          PROVE  CopyTermsKept
        <3>1. SameCopy(new, positions[p]) /\ (Exists(p) => new.status # "none")
            BY <1>0, <2>1 DEF LiquidatedRow, SameCopy, Position, Exists
        <3> QED BY <1>3, <2>1, <3>1 DEF SameCopy
    <2>2. ASSUME NEW p \in Positions, NEW price \in Prices, Liquidate(l, p, price)
          PROVE  CopyTermsKept
        BY <2>1, <2>2 DEF Liquidate
    <2>3. ASSUME NEW p \in Positions, NEW price \in Prices, UpdateWarning(l, p, price)
          PROVE  CopyTermsKept
        <3> DEFINE w == LiquidationWarned(liquidator[l][p].entry, price)
        <3>1. w \in BOOLEAN
            BY DEF LiquidationWarned
        <3>2. \/ UNCHANGED positions
              \/ positions' = [positions EXCEPT ![p].warned = w]
            BY <2>3 DEF UpdateWarning
        <3> HIDE DEF w
        <3> QED BY <1>1, <2>1, <3>1, <3>2
    <2> QED BY <1>1, <1>5, <2>2, <2>3
            DEF LiquidationStep, LiquidationStart, LiquidationSkips
<1> QED BY <1>1, <1>2, <1>4, <1>5

-----------------------------------------------------------------------------
(* Steps of the job itself.                                                 *)

(* What the pass leaves when it is done with the row of p.                  *)
LEMMA TreatedRows ==
    ASSUME TypeInv, NEW y \in YieldRunners, NEW p, YieldTreated(y, p)
    PROVE  /\ yielder'[y].pc = "check"
           /\ \A q \in Positions : yielder'[y].rows[q].status = "ACTIVE" =>
                 q # p /\ yielder'[y].rows[q] = yielder[y].rows[q]
<1>0. yielder \in [YieldRunners -> Yielder] /\ yielder[y].rows \in [Positions -> Position]
    BY DEF TypeInv, TypeOK, Yielder
<1> DEFINE rows == [yielder[y].rows EXCEPT ![p] = NoPositionRow]
<1>1. yielder'[y] = [IdleYielder EXCEPT !.rows = rows]
    BY <1>0 DEF YieldTreated
<1>2. yielder'[y].pc = "check" /\ yielder'[y].rows = rows
    BY <1>1, Zenon DEF IdleYielder
<1>3. \A q \in Positions : rows[q].status = "ACTIVE" => q # p /\ rows[q] = yielder[y].rows[q]
    BY <1>0 DEF NoPositionRow
<1> QED BY <1>2, <1>3

(* When the only pass is at rest, what remains are the rows.                *)
LEMMA PassAtRest ==
    ASSUME OnePass, TypeInv, YieldInv, NEW y \in YieldRunners,
           NEW p \in Positions,
           yielder'[y].pc = "check",
           \A q \in Positions : yielder'[y].rows[q].status = "ACTIVE" =>
               q # p /\ yielder'[y].rows[q] = yielder[y].rows[q],
           \A q \in Positions : q # p => positions'[q] = positions[q]
    PROVE  CopyIsFresh' /\ DueIsOwed'
<1>1. \A x \in YieldRunners : x = y
    BY DEF OnePass
<1>2. CopyIsFresh'
    BY <1>1 DEF CopyIsFresh, YieldInv, Exists
<1>3. DueIsOwed'
    BY <1>1 DEF DueIsOwed
<1> QED BY <1>2, <1>3

LEMMA StartKeeps ==
    ASSUME OnePass, TypeInv, TypeInv', YieldInv, NEW y \in YieldRunners, YieldStart(y)
    PROVE  YieldInv'
<1>0. yielder \in [YieldRunners -> Yielder]
    BY DEF TypeInv, TypeOK
<1>1. /\ yielder[y].pc = "check" /\ yielder'[y].pc = "check"
      /\ yielder'[y].rows = Snapshot
      /\ UNCHANGED <<positions, yieldPaid, unmarked>>
    BY <1>0 DEF YieldStart, IdleYielder, history, Yielder
<1>2. \A x \in YieldRunners : x = y
    BY DEF OnePass
<1>3. ASSUME NEW p \in Positions, Snapshot[p].status = "ACTIVE"
      PROVE  Snapshot[p] = positions[p] /\ Exists(p)
    <2>1. \/ Snapshot[p] = NoPositionRow
          \/ Snapshot[p] = positions[p] /\ Tracked(positions[p])
        BY Zenon DEF Snapshot
    <2> QED BY <1>3, <2>1, RowsTyped DEF Tracked, Exists
<1>4. CopyIsFresh'
    BY <1>1, <1>2, <1>3 DEF CopyIsFresh, SameCopy, Exists
<1>5. DueIsOwed'
    BY <1>1, <1>2 DEF DueIsOwed
<1>6. YieldRecorded'
    BY <1>1, <1>2 DEF YieldInv, YieldRecorded
<1>7. UnopenedIsBlank' /\ RowWithinCap' /\ RowCovered'
    BY <1>1, RowsKept, OthersKeepTerms
<1> QED BY <1>4, <1>5, <1>6, <1>7 DEF YieldInv

LEMMA CheckKeeps ==
    ASSUME OnePass, TypeInv, TypeInv', YieldInv, NEW y \in YieldRunners,
           NEW p \in Positions, NEW price \in Prices, YieldCheck(y, p, price)
    PROVE  YieldInv'
<1> DEFINE row == yielder[y].rows[p]
           due == Least(Least(Gain(row, price), Capacity(row)), ledger.used)
<1>0. yielder \in [YieldRunners -> Yielder] /\ row \in Position /\ price \in Nat
    BY MoneyAssumption DEF TypeInv, TypeOK, Yielder
<1>1. /\ yielder[y].pc = "check" /\ row.status = "ACTIVE"
      /\ UNCHANGED <<positions, yieldPaid, unmarked>>
    BY DEF YieldCheck, history
<1>2. \A x \in YieldRunners : x = y
    BY DEF OnePass
<1>3. UnopenedIsBlank' /\ RowWithinCap' /\ RowCovered'
    BY <1>1, RowsKept, OthersKeepTerms
<1>4. CASE ~YieldOwed(row, price)
    <2>1. YieldTreated(y, p)
        BY <1>4 DEF YieldCheck
    <2>2. /\ yielder'[y].pc = "check"
          /\ \A q \in Positions : yielder'[y].rows[q].status = "ACTIVE" =>
                 q # p /\ yielder'[y].rows[q] = yielder[y].rows[q]
        BY <2>1, TreatedRows
    <2>3. CopyIsFresh' /\ DueIsOwed'
        BY <1>1, <2>2, PassAtRest
    <2>4. YieldRecorded'
        BY <1>1, <1>2, <2>2 DEF YieldInv, YieldRecorded
    <2> QED BY <1>3, <2>3, <2>4 DEF YieldInv
<1>5. CASE YieldOwed(row, price)
    <2>1. yielder' = [yielder EXCEPT ![y].pc = "repay", ![y].position = p,
                                     ![y].due = due, ![y].price = price]
        BY <1>5 DEF YieldCheck
    <2>2. row.entry > 0 /\ price > row.applied
        BY <1>1, <1>5 DEF TypeInv, EntryPrices, YieldOwed
    <2>3. Gain(row, price) \in Int /\ Capacity(row) \in Int /\ ledger.used \in Int
        <3>1. price >= row.applied
            BY <1>0, <2>2 DEF Position
        <3>2. Gain(row, price) \in Nat
            BY <1>0, <2>2, <3>1, GainIsAmount
        <3>3. YieldCap(row.credit) \in Nat /\ row.yielded \in Nat
            BY <1>0, RatesAreAmounts DEF Position
        <3>4. Capacity(row) \in Int
            BY <3>3 DEF Capacity
        <3>5. ledger.used \in Int
            BY DEF TypeInv, TypeOK, LedgerRow
        <3> QED BY <3>2, <3>4, <3>5
    <2>4. \A a, b, c \in Int : /\ Least(Least(a, b), c) <= a
                               /\ Least(Least(a, b), c) <= b
        BY DEF Least
    <2>5. due <= Gain(row, price) /\ due <= Capacity(row)
        BY <2>3, <2>4
    <2> HIDE DEF due
    <2>6. /\ yielder'[y].pc = "repay" /\ yielder'[y].position = p
          /\ yielder'[y].due = due /\ yielder'[y].price = price
          /\ yielder'[y].rows = yielder[y].rows
        BY <1>0, <2>1 DEF Yielder
    <2>7. CopyIsFresh'
        BY <1>1, <1>2, <2>6 DEF YieldInv, CopyIsFresh, Exists
    <2>8. DueIsOwed'
        BY <1>1, <1>2, <2>2, <2>5, <2>6, Zenon DEF DueIsOwed
    <2>10. YieldRecorded'
        BY <1>1, <1>2, <2>6 DEF YieldInv, YieldRecorded
    <2> QED BY <1>3, <2>7, <2>8, <2>10 DEF YieldInv
<1> QED BY <1>4, <1>5

LEMMA RepayKeeps ==
    ASSUME OnePass, TypeInv, TypeInv', YieldInv, NEW y \in YieldRunners,
           NEW i \in Interests \cup {0}, YieldRepay(y, i)
    PROVE  YieldInv'
<1> SUFFICES ASSUME NEW p \in Positions, p = yielder[y].position
             PROVE  YieldInv'
    BY DEF YieldRepay, YieldInv, DueIsOwed
<1>0. /\ yielder \in [YieldRunners -> Yielder]
      /\ yieldPaid \in [Positions -> Nat] /\ unmarked \in [Positions -> Int]
      /\ positions \in [Positions -> Position]
    BY DEF TypeInv, TypeOK
<1>1. /\ yielder[y].pc = "repay"
      /\ PayBack(yielder[y].due, i)
      /\ yieldPaid' = [yieldPaid EXCEPT ![p] = yieldPaid[p] + yielder[y].due]
      /\ unmarked' = [unmarked EXCEPT ![p] = unmarked[p] + yielder[y].due]
      /\ yielder' = [yielder EXCEPT ![y].pc = "advance"]
    BY DEF YieldRepay
<1>2. \A x \in YieldRunners : x = y
    BY DEF OnePass
<1>3. CopyTermsKept
    BY <1>1, PayBackKeepsTerms
<1>4. UnopenedIsBlank' /\ RowWithinCap' /\ RowCovered'
    BY <1>3, RowsKept
<1>5. /\ yielder'[y].pc = "advance" /\ yielder'[y].position = p
      /\ yielder'[y].due = yielder[y].due /\ yielder'[y].price = yielder[y].price
      /\ yielder'[y].rows = yielder[y].rows
    BY <1>0, <1>1 DEF Yielder
<1>6. CopyIsFresh'
    BY <1>2, <1>3, <1>5 DEF YieldInv, CopyIsFresh, CopyTermsKept, SameCopy
<1>7. DueIsOwed'
    BY <1>1, <1>2, <1>5 DEF YieldInv, DueIsOwed
<1>8. \A q \in Positions : positions'[q].yielded = positions[q].yielded
    BY <1>3 DEF YieldInv, UnopenedIsBlank, CopyTermsKept, SameCopy
<1>9. yieldPaid'[p] = yieldPaid[p] + yielder[y].due /\ unmarked'[p] = unmarked[p] + yielder[y].due
    BY <1>0, <1>1
<1>10. \A q \in Positions : q # p => yieldPaid'[q] = yieldPaid[q] /\ unmarked'[q] = unmarked[q]
    BY <1>0, <1>1
<1>11. YieldRecorded'
    <2>1. ASSUME NEW q \in Positions
          PROVE  yieldPaid'[q] = positions'[q].yielded + unmarked'[q]
        <3>1. /\ yieldPaid[q] = positions[q].yielded + unmarked[q]
              /\ yieldPaid[q] \in Nat /\ unmarked[q] \in Int
              /\ positions[q].yielded \in Nat /\ yielder[y].due \in Nat
            BY <1>0 DEF YieldInv, YieldRecorded, Position, Yielder
        <3>2. CASE q = p
            BY <1>8, <1>9, <3>1, <3>2
        <3>3. CASE q # p
            BY <1>8, <1>10, <3>1, <3>3
        <3> QED BY <3>2, <3>3
    <2> QED BY <2>1 DEF YieldRecorded
<1> QED BY <1>4, <1>6, <1>7, <1>11 DEF YieldInv

(* The pass drops a row, before its repayment or when its update fails.      *)
LEMMA SkipKeeps ==
    ASSUME OnePass, TypeInv, TypeInv', YieldInv, NEW y \in YieldRunners,
           NEW p \in Positions, YieldTreated(y, p), UNCHANGED <<positions, yieldPaid, unmarked>>
    PROVE  YieldInv'
<1>1. UNCHANGED <<positions, yieldPaid, unmarked>> /\ YieldTreated(y, p)
    OBVIOUS
<1>2. /\ yielder'[y].pc = "check"
      /\ \A q \in Positions : yielder'[y].rows[q].status = "ACTIVE" =>
             q # p /\ yielder'[y].rows[q] = yielder[y].rows[q]
    BY <1>1, TreatedRows
<1>3. CopyIsFresh' /\ DueIsOwed'
    BY <1>1, <1>2, PassAtRest
<1>4. \A x \in YieldRunners : x = y
    BY DEF OnePass
<1>5. YieldRecorded'
    BY <1>1, <1>2, <1>4 DEF YieldInv, YieldRecorded
<1>6. UnopenedIsBlank' /\ RowWithinCap' /\ RowCovered'
    BY <1>1, RowsKept, OthersKeepTerms
<1> QED BY <1>3, <1>5, <1>6 DEF YieldInv

(* The gain up to the old mark and the gain from it add up to the gain up   *)
(* to the new one.                                                          *)
LEMMA GainsAddUp ==
    ASSUME NEW row \in Position, NEW price \in Nat, row.entry > 0
    PROVE  (price - row.entry) * (row.collateral \div row.entry)
              = MarkedGain(row) + Gain(row, price)
<1> DEFINE k == row.collateral \div row.entry
<1>1. k \in Int /\ row.applied \in Int /\ row.entry \in Int
    BY DEF Position
<1>2. \A a, b, c, m \in Int : (c - a) * m = (b - a) * m + (c - b) * m
    OBVIOUS
<1> HIDE DEF k
<1>3. (price - row.entry) * k = (row.applied - row.entry) * k + (price - row.applied) * k
    BY <1>1, <1>2
<1> QED BY <1>3 DEF k, MarkedGain, Gain

LEMMA AdvanceKeeps ==
    ASSUME OnePass, TypeInv, TypeInv', YieldInv, NEW y \in YieldRunners, YieldAdvance(y)
    PROVE  YieldInv'
<1> SUFFICES ASSUME NEW p \in Positions, p = yielder[y].position
             PROVE  YieldInv'
    BY DEF YieldAdvance, YieldInv, DueIsOwed
<1> DEFINE row == yielder[y].rows[p]
           due == yielder[y].due
           price == yielder[y].price
           old == positions[p]
           new == AdvancedRow(old, price, row.yielded + due)
<1>0. /\ yielder \in [YieldRunners -> Yielder]
      /\ positions \in [Positions -> Position] /\ old \in Position /\ row \in Position
      /\ due \in Nat /\ price \in Nat
    BY DEF TypeInv, TypeOK, Yielder
<1>1. /\ yielder[y].pc = "advance" /\ YieldTreated(y, p) /\ UNCHANGED yieldPaid
      /\ unmarked' = [unmarked EXCEPT ![p] = unmarked[p] - due]
      /\ positions' = [positions EXCEPT ![p] = new]
    BY DEF YieldAdvance, history
<1>2. \A x \in YieldRunners : x = y
    BY DEF OnePass
<1>3. /\ row.status = "ACTIVE" /\ due <= Capacity(row) /\ price > row.applied
      /\ due <= Gain(row, price)
    BY <1>1 DEF YieldInv, DueIsOwed
<1>4. Exists(p) /\ SameCopy(row, old) /\ row.entry > 0
    BY <1>3 DEF YieldInv, CopyIsFresh, TypeInv, EntryPrices
<1>5. /\ new.status = old.status /\ new.collateral = old.collateral
      /\ new.credit = old.credit /\ new.entry = old.entry
      /\ new.applied = price /\ new.yielded = row.yielded + due
    BY <1>0 DEF AdvancedRow, Position
<1>6. positions'[p] = new /\ \A q \in Positions : q # p => positions'[q] = positions[q]
    BY <1>0, <1>1
<1>7. row.yielded \in Nat /\ old.yielded = row.yielded
    BY <1>0, <1>4 DEF Position, SameCopy
<1>8. new.yielded <= YieldCap(new.credit)
    <2>1. YieldCap(row.credit) \in Nat
        BY <1>0, RatesAreAmounts DEF Position
    <2>2. row.yielded + due <= YieldCap(row.credit)
        BY <1>0, <1>3, <1>7, <2>1 DEF Capacity
    <2> QED BY <1>4, <1>5, <2>2 DEF SameCopy
<1>9. new.yielded <= MarkedGain(new)
    <2>1. MarkedGain(old) = MarkedGain(row) /\ Gain(old, price) = Gain(row, price)
        BY <1>4, Zenon DEF MarkedGain, Gain, SameCopy
    <2>2. old.yielded <= MarkedGain(old)
        BY <1>4 DEF YieldInv, RowCovered, SameCopy
    <2>3. MarkedGain(new) = MarkedGain(old) + Gain(old, price)
        <3>1. (price - old.entry) * (old.collateral \div old.entry)
                 = MarkedGain(old) + Gain(old, price)
            BY <1>0, <1>4, GainsAddUp DEF SameCopy
        <3>2. MarkedGain(new) = (price - old.entry) * (old.collateral \div old.entry)
            BY <1>5, Zenon DEF MarkedGain
        <3> QED BY <3>1, <3>2
    <2>4. MarkedGain(old) \in Int /\ Gain(old, price) \in Int
        <3>1. /\ old.applied - old.entry \in Int /\ price - old.applied \in Int
              /\ old.collateral \div old.entry \in Int
            BY <1>0, <1>4 DEF Position, SameCopy
        <3>2. \A a, b \in Int : a * b \in Int
            OBVIOUS
        <3> QED BY <3>1, <3>2, Zenon DEF MarkedGain, Gain
    <2> HIDE DEF new
    <2>5. due <= Gain(old, price)
        BY <1>3, <2>1
    <2> QED BY <1>0, <1>5, <1>7, <2>2, <2>3, <2>4, <2>5
<1> HIDE DEF new
<1>10. /\ yielder'[y].pc = "check"
       /\ \A q \in Positions : yielder'[y].rows[q].status = "ACTIVE" =>
              q # p /\ yielder'[y].rows[q] = yielder[y].rows[q]
    BY <1>1, TreatedRows
<1>11. CopyIsFresh' /\ DueIsOwed'
    BY <1>6, <1>10, PassAtRest
<1>12. UnopenedIsBlank'
    BY <1>4, <1>5, <1>6 DEF YieldInv, UnopenedIsBlank, Exists
<1>13. RowWithinCap'
    BY <1>6, <1>8 DEF YieldInv, RowWithinCap
<1>14. RowCovered'
    BY <1>6, <1>9 DEF YieldInv, RowCovered, Exists
<1>15. YieldRecorded'
    <2>0. /\ yieldPaid \in [Positions -> Nat] /\ unmarked \in [Positions -> Int]
          /\ \A q \in Positions : /\ yieldPaid[q] = positions[q].yielded + unmarked[q]
                                  /\ positions[q].yielded \in Nat
        BY <1>0 DEF TypeInv, TypeOK, YieldInv, YieldRecorded, Position
    <2>1. unmarked'[p] = unmarked[p] - due /\ \A q \in Positions : q # p => unmarked'[q] = unmarked[q]
        BY <1>1, <2>0
    <2>2. yieldPaid'[p] = positions'[p].yielded + unmarked'[p]
        <3>1. positions'[p].yielded = old.yielded + due
            BY <1>5, <1>6, <1>7
        <3>2. /\ yieldPaid'[p] = old.yielded + unmarked[p]
              /\ old.yielded \in Nat /\ unmarked[p] \in Int /\ due \in Nat
            BY <1>0, <1>1, <2>0
        <3> HIDE DEF old, due
        <3> QED BY <2>1, <3>1, <3>2
    <2>3. ASSUME NEW q \in Positions, q # p
          PROVE  yieldPaid'[q] = positions'[q].yielded + unmarked'[q]
        BY <1>1, <1>6, <2>0, <2>1, <2>3
    <2> QED BY <2>2, <2>3 DEF YieldRecorded
<1> QED BY <1>11, <1>12, <1>13, <1>14, <1>15 DEF YieldInv

-----------------------------------------------------------------------------
(* The theorems.                                                            *)

LEMMA YieldInit == Init => YieldInv
<1> SUFFICES ASSUME Init PROVE YieldInv
    OBVIOUS
<1>1. ASSUME NEW p \in Positions
      PROVE  /\ positions[p] = NoPositionRow /\ ~Exists(p) /\ yieldPaid[p] = 0 /\ unmarked[p] = 0
             /\ positions[p].yielded = 0 /\ positions[p].credit = 0
             /\ positions[p].applied = positions[p].entry
    BY DEF Init, Exists, NoPositionRow
<1>2. ASSUME NEW y \in YieldRunners
      PROVE  /\ yielder[y].pc = "check"
             /\ \A p \in Positions : yielder[y].rows[p].status # "ACTIVE"
    BY DEF Init, IdleYielder, NoRows, NoPositionRow
<1>3. YieldCap(0) = 0
    BY DEF YieldCap
<1>4. UnopenedIsBlank /\ YieldRecorded /\ RowCovered
    BY <1>1 DEF UnopenedIsBlank, YieldRecorded, RowCovered
<1>5. RowWithinCap
    BY <1>1, <1>3 DEF RowWithinCap
<1>6. CopyIsFresh /\ DueIsOwed
    BY <1>2 DEF CopyIsFresh, DueIsOwed
<1> QED BY <1>4, <1>5, <1>6 DEF YieldInv

LEMMA YieldInductive ==
    ASSUME OnePass
    PROVE  TypeInv /\ TypeInv' /\ YieldInv /\ [Next]_vars => YieldInv'
<1> SUFFICES ASSUME TypeInv, TypeInv', YieldInv, [Next]_vars PROVE YieldInv'
    OBVIOUS
<1>1. CASE RequestStep
    <2>1. UNCHANGED <<positions, yielder, yieldPaid, unmarked>>
        BY <1>1 DEF RequestStep, CheckNoActiveRequest, CreateRequest, CheckPledge, FreezePledge,
                    Approve, Reject, serverState, history
    <2> QED BY <2>1, OthersKeepTerms, JobAside
<1>2. CASE MoneyStep
    <2>1. UNCHANGED <<yielder, yieldPaid, unmarked>>
        BY <1>2 DEF MoneyStep, Deposit, Withdraw, CardSpend, Repay, serverState, history
    <2> QED BY <1>2, <2>1, OthersKeepTerms, JobAside
<1>3. ASSUME NEW f \in Fulfillers, FulfilStep(f) PROVE YieldInv'
    <2>1. UNCHANGED <<yielder, yieldPaid, unmarked>>
        BY <1>3 DEF FulfilStep, FindApproved, CheckBalance, Claim, Issue, IssueFails,
                    Link, LinkFails, Revert, history
    <2> QED BY <1>3, <2>1, OthersKeepTerms, JobAside
<1>4. ASSUME NEW l \in Liquidators, LiquidationStep(l) PROVE YieldInv'
    <2>1. UNCHANGED <<yielder, yieldPaid, unmarked>>
        BY <1>4 DEF LiquidationStep, LiquidationStart, Liquidate, UpdateWarning,
                    LiquidationSkips, history
    <2> QED BY <1>4, <2>1, OthersKeepTerms, JobAside
<1>5. ASSUME NEW y \in YieldRunners, YieldStep(y) PROVE YieldInv'
    <2>1. ASSUME NEW p \in Positions, YieldSkips(y, p) PROVE YieldInv'
        BY <2>1, SkipKeeps DEF YieldSkips, history
    <2>2. ASSUME YieldAdvanceFails(y) PROVE YieldInv'
        <3>1. yielder[y].position \in Positions
            BY <2>2 DEF YieldAdvanceFails, YieldInv, DueIsOwed
        <3> QED BY <2>2, <3>1, SkipKeeps DEF YieldAdvanceFails, history
    <2> QED BY <1>5, <2>1, <2>2, StartKeeps, CheckKeeps, RepayKeeps, AdvanceKeeps DEF YieldStep
<1>6. CASE Crash
    <2>1. UNCHANGED <<positions, yieldPaid, unmarked>>
        BY <1>6 DEF Crash, history
    <2>2. UnopenedIsBlank' /\ RowWithinCap' /\ RowCovered'
        BY <2>1, RowsKept, OthersKeepTerms
    <2>3. \A y \in YieldRunners :
             /\ yielder'[y].pc = "check"
             /\ \A p \in Positions : yielder'[y].rows[p].status # "ACTIVE"
        BY <1>6 DEF Crash, IdleYielder, NoRows, NoPositionRow
    <2>4. CopyIsFresh' /\ DueIsOwed'
        BY <2>3 DEF CopyIsFresh, DueIsOwed
    <2>5. YieldRecorded'
        BY <2>1 DEF YieldInv, YieldRecorded
    <2> QED BY <2>2, <2>4, <2>5 DEF YieldInv
<1>7. CASE UNCHANGED vars
    <2>1. UNCHANGED <<positions, yielder, yieldPaid, unmarked>>
        BY <1>7 DEF vars, serverState, history
    <2> QED BY <2>1, OthersKeepTerms, JobAside
<1> QED BY <1>1, <1>2, <1>3, <1>4, <1>5, <1>6, <1>7 DEF Next

LEMMA YieldInvariant ==
    ASSUME OnePass
    PROVE  Spec => []YieldInv
BY YieldInit, YieldInductive, TypeInvariant, PTL DEF Spec

(* One pass at a time records every repayment it makes but those whose own  *)
(* update fails or is cut, whatever closes or liquidates the position while *)
(* the repayment is under way.                                              *)
THEOREM RepaymentsRecorded ==
    ASSUME OnePass
    PROVE  Spec => []YieldRecorded
<1>1. YieldInv => YieldRecorded
    BY DEF YieldInv
<1> QED BY <1>1, YieldInvariant, PTL

(* ... repays no more of a credit than the cap allows and failed updates    *)
(* left unmarked, the repayment under way included ...                      *)
THEOREM CapHolds ==
    ASSUME OnePass
    PROVE  Spec => []YieldWithinCap
<1>1. ASSUME TypeInv, YieldInv PROVE YieldWithinCap
    <2> SUFFICES ASSUME NEW p \in Positions
                 PROVE  yieldPaid[p] <= YieldCap(positions[p].credit) + unmarked[p]
        BY DEF YieldWithinCap
    <2>1. /\ yieldPaid[p] = positions[p].yielded + unmarked[p]
          /\ positions[p].yielded <= YieldCap(positions[p].credit)
        BY <1>1 DEF YieldInv, YieldRecorded, RowWithinCap
    <2>2. /\ positions[p].yielded \in Nat /\ unmarked[p] \in Int
          /\ YieldCap(positions[p].credit) \in Nat
        BY <1>1, RatesAreAmounts DEF TypeInv, TypeOK, Position
    <2> QED BY <2>1, <2>2
<1> QED BY <1>1, YieldInvariant, TypeInvariant, PTL

(* ... and repays again no more of a gain than failed updates left          *)
(* unmarked.                                                                *)
THEOREM GainPaidOnce ==
    ASSUME OnePass
    PROVE  Spec => []YieldCoveredByGain
<1>1. ASSUME TypeInv, YieldInv PROVE YieldCoveredByGain
    <2> SUFFICES ASSUME NEW p \in Positions, Exists(p), positions[p].entry > 0
                 PROVE  yieldPaid[p] <= unmarked[p] + MarkedGain(positions[p])
        BY Zenon DEF YieldCoveredByGain, MarkedGain
    <2>1. /\ yieldPaid[p] = positions[p].yielded + unmarked[p]
          /\ positions[p].yielded <= MarkedGain(positions[p])
        BY <1>1 DEF YieldInv, YieldRecorded, RowCovered
    <2>2. positions[p].yielded \in Nat /\ unmarked[p] \in Int
        BY <1>1 DEF TypeInv, TypeOK, Position
    <2>3. MarkedGain(positions[p]) \in Int
        <3>1. /\ positions[p].applied - positions[p].entry \in Int
              /\ positions[p].collateral \div positions[p].entry \in Int
            BY <1>1 DEF TypeInv, TypeOK, Position
        <3>2. \A a, b \in Int : a * b \in Int
            OBVIOUS
        <3> QED BY <3>1, <3>2, Zenon DEF MarkedGain
    <2> QED BY <2>1, <2>2, <2>3
<1> QED BY <1>1, YieldInvariant, TypeInvariant, PTL

-----------------------------------------------------------------------------
(* The mark.                                                                *)

MarksUp == \A p \in Positions : Exists(p) => /\ positions'[p].applied >= positions[p].applied
                                            /\ positions'[p].yielded >= positions[p].yielded

LEMMA AdvanceMarksUp ==
    ASSUME TypeInv, YieldInv, NEW y \in YieldRunners, YieldAdvance(y)
    PROVE  MarksUp
<1> SUFFICES ASSUME NEW p \in Positions, p = yielder[y].position
             PROVE  MarksUp
    BY DEF YieldAdvance, YieldInv, DueIsOwed
<1> DEFINE row == yielder[y].rows[p]
           due == yielder[y].due
           old == positions[p]
           new == AdvancedRow(old, yielder[y].price, row.yielded + due)
<1>1. /\ yielder \in [YieldRunners -> Yielder]
      /\ positions \in [Positions -> Position] /\ row \in Position
      /\ due \in Nat /\ yielder[y].price \in Nat
    BY DEF TypeInv, TypeOK, Yielder
<1>2. row.status = "ACTIVE" /\ yielder[y].price > row.applied
    BY DEF YieldAdvance, YieldInv, DueIsOwed
<1>3. SameCopy(row, old)
    BY <1>2 DEF YieldInv, CopyIsFresh
<1>4. new.applied = yielder[y].price /\ new.yielded = row.yielded + due
    BY <1>1 DEF AdvancedRow, Position
<1>5. positions' = [positions EXCEPT ![p] = new]
    BY DEF YieldAdvance
<1> HIDE DEF new
<1>6. \A q \in Positions : positions'[q] = IF q = p THEN new ELSE positions[q]
    BY <1>1, <1>5
<1>7. \A q \in Positions : positions[q].applied \in Nat /\ positions[q].yielded \in Nat
    BY <1>1 DEF Position
<1>8. new.applied >= old.applied /\ new.yielded >= old.yielded
    BY <1>1, <1>2, <1>3, <1>4, <1>7 DEF SameCopy
<1> QED BY <1>6, <1>7, <1>8 DEF MarksUp

LEMMA StepMarksUp ==
    ASSUME OnePass, TypeInv, YieldInv, [Next]_vars
    PROVE  MarksUp
<1>0. \A p \in Positions : positions[p].applied \in Nat /\ positions[p].yielded \in Nat
    BY DEF TypeInv, TypeOK, Position
<1>1. ASSUME CopyTermsKept PROVE MarksUp
    BY <1>0, <1>1 DEF MarksUp, CopyTermsKept, SameCopy
<1>2. ASSUME UNCHANGED positions PROVE MarksUp
    BY <1>1, <1>2, OthersKeepTerms
<1>3. CASE RequestStep
    BY <1>2, <1>3 DEF RequestStep, CheckNoActiveRequest, CreateRequest, CheckPledge, FreezePledge,
                      Approve, Reject
<1>4. CASE MoneyStep
    BY <1>1, <1>4, OthersKeepTerms
<1>5. ASSUME NEW f \in Fulfillers, FulfilStep(f) PROVE MarksUp
    BY <1>1, <1>5, OthersKeepTerms
<1>6. ASSUME NEW l \in Liquidators, LiquidationStep(l) PROVE MarksUp
    BY <1>1, <1>6, OthersKeepTerms
<1>7. ASSUME NEW y \in YieldRunners, YieldStep(y) PROVE MarksUp
    <2>1. ASSUME NEW i, YieldRepay(y, i) PROVE MarksUp
        BY <1>1, <2>1, PayBackKeepsTerms DEF YieldRepay
    <2> QED BY <1>2, <1>7, <2>1, AdvanceMarksUp DEF YieldStep, YieldStart, YieldCheck, YieldSkips, YieldAdvanceFails
<1>8. CASE Crash
    BY <1>2, <1>8 DEF Crash
<1>9. CASE UNCHANGED vars
    BY <1>2, <1>9 DEF vars
<1> QED BY <1>3, <1>4, <1>5, <1>6, <1>7, <1>8, <1>9 DEF Next

(* The mark of a position and what its yield repaid never go back           *)
(* (accrueYieldForPosition writes both from the copy of the pass), with     *)
(* one pass at a time.                                                      *)
THEOREM RatchetKept ==
    ASSUME OnePass
    PROVE  Spec => RatchetHolds
<1>1. TypeInv /\ YieldInv /\ [Next]_vars
        => [\A p \in Positions : Exists(p) => /\ positions'[p].applied >= positions[p].applied
                                              /\ positions'[p].yielded >= positions[p].yielded]_vars
    BY StepMarksUp DEF MarksUp
<1> QED BY <1>1, YieldInvariant, TypeInvariant, PTL DEF Spec, RatchetHolds
=============================================================================
