-------------------------- MODULE CreditLineProofs --------------------------
(***************************************************************************)
(* Proofs about the credit line, for every value of the constants.         *)
(***************************************************************************)
EXTENDS CreditLineProperties, FiniteSetTheorems, TLAPS

-----------------------------------------------------------------------------
(* Lemmas on amounts and on the statements of the ledger.                   *)

(* Credit, fee and cap of an amount are amounts.                            *)
LEMMA RatesAreAmounts ==
    ASSUME NEW c \in Nat
    PROVE  /\ CreditFor(c) \in Nat
           /\ OriginationFee(c) \in Nat
           /\ YieldCap(c) \in Nat
BY DEF CreditFor, OriginationFee, YieldCap

(* Every statement takes a row of balances to a row of balances when its    *)
(* condition holds: no balance becomes negative (LedgerService).            *)
LEMMA StatementsKeepRows ==
    ASSUME NEW row \in LedgerRow, NEW x \in Nat, NEW c \in Nat
    PROVE  /\ CreditAvailable(row, x) \in LedgerRow
           /\ CanDebitAvailable(row, x) => DebitAvailable(row, x) \in LedgerRow
           /\ CanLockCollateral(row, x) => LockCollateral(row, x, c) \in LedgerRow
           /\ CanRepay(row, x) => ApplyRepayment(row, x) \in LedgerRow
           /\ LiquidateCollateral(row, x, c) \in LedgerRow
<1>1. CreditAvailable(row, x) \in LedgerRow
    BY DEF CreditAvailable, LedgerRow
<1>2. CanDebitAvailable(row, x) => DebitAvailable(row, x) \in LedgerRow
    BY DEF CanDebitAvailable, DebitAvailable, LedgerRow
<1>3. ASSUME CanLockCollateral(row, x)
      PROVE  LockCollateral(row, x, c) \in LedgerRow
    <2>1. row.avail - x \in Nat /\ row.locked + x \in Nat /\ row.granted + c \in Nat
        BY <1>3 DEF CanLockCollateral, LedgerRow
    <2> QED BY <2>1, Zenon DEF LockCollateral, LedgerRow
<1>4. ASSUME CanRepay(row, x)
      PROVE  ApplyRepayment(row, x) \in LedgerRow
    <2>1. row.used - x \in Nat /\ row.avail + row.locked \in Nat /\ 0 \in Nat
        BY <1>4 DEF CanRepay, LedgerRow
    <2> QED BY <2>1, Zenon DEF ApplyRepayment, LedgerRow
<1>5. LiquidateCollateral(row, x, c) \in LedgerRow
    <2>1. AtLeastZero(row.locked - x) \in Nat /\ AtLeastZero(row.granted - c) \in Nat
        BY DEF AtLeastZero, LedgerRow
    <2> QED BY <2>1, Zenon DEF LiquidateCollateral, LedgerRow
<1> QED BY <1>1, <1>2, <1>3, <1>4, <1>5

-----------------------------------------------------------------------------
(* Type correctness.  A pass of the yield job divides by the entry price of *)
(* the row it copied, so the invariant needs that tracked rows have one; a  *)
(* tryAutoFulfill past its search reads the row of the request it found.    *)

EntryPrices ==
    /\ \A p \in Positions : Tracked(positions[p]) => positions[p].entry > 0
    /\ \A y \in YieldRunners, p \in Positions :
          yielder[y].rows[p].status = "ACTIVE" => yielder[y].rows[p].entry > 0

Searched == {"balance", "claim", "issue", "link", "revert"}

RequestFound ==
    \A f \in Fulfillers : fulfiller[f].pc \in Searched => fulfiller[f].request \in Requests

TypeInv == TypeOK /\ EntryPrices /\ RequestFound

LEMMA TypeInit == Init => TypeInv
BY DEF Init, TypeInv, EntryPrices, RequestFound, Searched, TypeOK, EmptyLedger, LedgerRow, NoRequestRow,
       NoPositionRow, IdleTab, IdleFulfiller, IdleYielder, NoRows, Request, Position, Tab,
       Fulfiller, Yielder, AnyCurrency, RequestStatus, PositionStatus, Tracked

LEMMA RequestStepTyped == TypeInv /\ RequestStep => TypeInv'
<1> SUFFICES ASSUME TypeInv, RequestStep PROVE TypeInv'
    OBVIOUS
<1> USE DEF TypeInv, TypeOK
<1>1. ASSUME NEW t \in Tabs, NEW c \in Amounts, CheckNoActiveRequest(t, c)
      PROVE  TypeInv'
    <2>1. [IdleTab EXCEPT !.op = "create", !.amount = c] \in Tab
        BY MoneyAssumption, Zenon DEF IdleTab, Tab, AnyCurrency
    <2>2. tab' \in [Tabs -> Tab]
        BY <1>1, <2>1 DEF CheckNoActiveRequest
    <2> QED BY <1>1, <2>2 DEF CheckNoActiveRequest, EntryPrices, RequestFound, history
<1>2. ASSUME NEW t \in Tabs, NEW r \in Requests, CreateRequest(t, r)
      PROVE  TypeInv'
    <2>1. tab[t].amount \in Nat
        BY DEF Tab
    <2>2. [NoRequestRow EXCEPT !.status = "PENDING", !.amount = tab[t].amount] \in Request
        BY <2>1, Zenon DEF NoRequestRow, Request, AnyCurrency, RequestStatus
    <2>3. requests' \in [Requests -> Request]
        BY <1>2, <2>2 DEF CreateRequest
    <2>4. tab' \in [Tabs -> Tab]
        BY <1>2 DEF CreateRequest, IdleTab, Tab, AnyCurrency
    <2> QED BY <1>2, <2>3, <2>4 DEF CreateRequest, EntryPrices, RequestFound, history
<1>3. ASSUME NEW t \in Tabs, NEW r \in Requests, NEW k \in Currencies, CheckPledge(t, r, k)
      PROVE  TypeInv'
    <2>1. [IdleTab EXCEPT !.op = "pledge", !.request = r, !.currency = k] \in Tab
        BY Zenon DEF IdleTab, Tab, AnyCurrency
    <2>2. tab' \in [Tabs -> Tab]
        BY <1>3, <2>1 DEF CheckPledge
    <2> QED BY <1>3, <2>2 DEF CheckPledge, EntryPrices, RequestFound, history
<1>4. ASSUME NEW t \in Tabs, FreezePledge(t)
      PROVE  TypeInv'
    <2>1. tab[t].currency \in AnyCurrency
        BY DEF Tab
    <2>2. requests' \in [Requests -> Request]
        BY <1>4, <2>1 DEF FreezePledge, Request
    <2>3. tab' \in [Tabs -> Tab]
        BY <1>4 DEF FreezePledge, IdleTab, Tab, AnyCurrency
    <2> QED BY <1>4, <2>2, <2>3 DEF FreezePledge, EntryPrices, RequestFound, history
<1>5. ASSUME NEW r \in Requests, Approve(r) \/ Reject(r)
      PROVE  TypeInv'
    <2>1. requests' = [requests EXCEPT ![r].status = "APPROVED"]
          \/ requests' = [requests EXCEPT ![r].status = "REJECTED"]
        BY <1>5 DEF Approve, Reject
    <2>2. /\ [requests EXCEPT ![r].status = "APPROVED"] \in [Requests -> Request]
          /\ [requests EXCEPT ![r].status = "REJECTED"] \in [Requests -> Request]
        BY DEF Request, RequestStatus
    <2> QED BY <1>5, <2>1, <2>2 DEF Approve, Reject, EntryPrices, RequestFound, serverState, history
<1> QED BY <1>1, <1>2, <1>3, <1>4, <1>5 DEF RequestStep

LEMMA PayBackTyped ==
    ASSUME TypeInv, NEW x \in Nat, NEW i \in Nat, PayBack(x, i)
    PROVE  /\ ledger' \in LedgerRow
           /\ positions' \in [Positions -> Position]
           /\ booked' \in Int
           /\ \A p \in Positions : Tracked(positions'[p]) => positions'[p].entry > 0
<1> USE DEF TypeInv, TypeOK
<1>1. ledger' \in LedgerRow
    <2>1. ApplyRepayment(ledger, x) \in LedgerRow
        BY StatementsKeepRows DEF PayBack, CanPayBack
    <2> QED BY <2>1, StatementsKeepRows DEF PayBack, CanPayBack
<1>2. \A p \in Positions : \/ Closed(x)[p] = positions[p]
                           \/ Closed(x)[p] = [positions[p] EXCEPT !.status = "CLOSED"]
    BY Zenon DEF Closed
<1>3. \A p \in Positions : [positions[p] EXCEPT !.status = "CLOSED"] \in Position
    BY DEF Position, PositionStatus
<1>4. positions' \in [Positions -> Position]
    <2>1. Closed(x) \in [Positions -> Position]
        BY <1>3, Zenon DEF Closed
    <2> QED BY <2>1 DEF PayBack
<1>5. ASSUME NEW p \in Positions, Tracked(positions'[p])
      PROVE  positions'[p].entry > 0
    <2>1. positions'[p] = positions[p] \/ positions'[p].status = "CLOSED"
        BY <1>2 DEF PayBack, Position
    <2> QED BY <1>5, <2>1 DEF EntryPrices, Tracked
<1> QED BY <1>1, <1>4, <1>5 DEF PayBack

LEMMA MoneyStepTyped == TypeInv /\ MoneyStep => TypeInv'
<1> SUFFICES ASSUME TypeInv, MoneyStep PROVE TypeInv'
    OBVIOUS
<1> USE DEF TypeInv, TypeOK
<1>1. ASSUME NEW f \in Fulfillers, NEW x \in Deposits, Deposit(f, x)
      PROVE  TypeInv'
    <2>1. x \in Nat
        BY MoneyAssumption
    <2>2. ledger' \in LedgerRow
        BY <1>1, <2>1, StatementsKeepRows DEF Deposit
    <2>3. fulfiller' \in [Fulfillers -> Fulfiller]
        BY <1>1 DEF Deposit, Goto, Fulfiller
    <2>4. RequestFound'
        BY <1>1 DEF Deposit, Goto, RequestFound, Searched, Fulfiller
    <2> QED BY <1>1, <2>1, <2>2, <2>3, <2>4 DEF Deposit, EntryPrices
<1>2. ASSUME NEW x \in Withdrawals, Withdraw(x)
      PROVE  TypeInv'
    <2>1. x \in Nat
        BY MoneyAssumption
    <2>2. ledger' \in LedgerRow
        BY <1>2, <2>1, StatementsKeepRows DEF Withdraw
    <2> QED BY <1>2, <2>1, <2>2 DEF Withdraw, EntryPrices, RequestFound, serverState
<1>3. ASSUME NEW x \in Spends, CardSpend(x)
      PROVE  TypeInv'
    <2>1. ledger' \in LedgerRow
        BY <1>3, MoneyAssumption DEF CardSpend, LedgerRow
    <2> QED BY <1>3, <2>1 DEF CardSpend, EntryPrices, RequestFound, serverState, history
<1>4. ASSUME NEW x \in Repayments, NEW i \in Interests \cup {0}, Repay(x, i)
      PROVE  TypeInv'
    <2>1. x \in Nat /\ i \in Nat
        BY MoneyAssumption
    <2>2. /\ ledger' \in LedgerRow
          /\ positions' \in [Positions -> Position]
          /\ booked' \in Int
          /\ \A p \in Positions : Tracked(positions'[p]) => positions'[p].entry > 0
        BY <1>4, <2>1, PayBackTyped DEF Repay
    <2> QED BY <1>4, <2>2 DEF Repay, EntryPrices, RequestFound, serverState, Tracked
<1> QED BY <1>1, <1>2, <1>3, <1>4 DEF MoneyStep

(* tryAutoFulfill: it keeps the request it found until it is done.          *)
LEMMA FulfilMovesTyped ==
    ASSUME TypeInv, NEW f \in Fulfillers
    PROVE  /\ Finish(f) => fulfiller' \in [Fulfillers -> Fulfiller] /\ RequestFound'
           /\ \A pc \in Searched :
                 fulfiller[f].pc \in Searched /\ Goto(f, pc)
                   => fulfiller' \in [Fulfillers -> Fulfiller] /\ RequestFound'
<1> USE DEF TypeInv, TypeOK
<1>1. ASSUME Finish(f)
      PROVE  fulfiller' \in [Fulfillers -> Fulfiller] /\ RequestFound'
    <2>1. IdleFulfiller \in Fulfiller /\ IdleFulfiller.pc = "idle"
        BY DEF IdleFulfiller, Fulfiller, AnyCurrency
    <2> QED BY <1>1, <2>1, Zenon DEF Finish, RequestFound, Searched
<1>2. ASSUME NEW pc \in Searched, fulfiller[f].pc \in Searched, Goto(f, pc)
      PROVE  fulfiller' \in [Fulfillers -> Fulfiller] /\ RequestFound'
    <2>1. fulfiller' \in [Fulfillers -> Fulfiller]
        BY <1>2 DEF Goto, Fulfiller, Searched
    <2>2. RequestFound'
        BY <1>2 DEF Goto, RequestFound, Fulfiller
    <2> QED BY <2>1, <2>2
<1> QED BY <1>1, <1>2

LEMMA FulfilStepTyped ==
    ASSUME NEW f \in Fulfillers
    PROVE  TypeInv /\ FulfilStep(f) => TypeInv'
<1> SUFFICES ASSUME TypeInv, FulfilStep(f) PROVE TypeInv'
    OBVIOUS
<1> USE DEF TypeInv, TypeOK
<1>1. CASE FindApproved(f)
    <2>1. ASSUME NEW r \in Requests
          PROVE  [IdleFulfiller EXCEPT !.pc = "balance", !.request = r,
                                       !.currency = requests[r].currency] \in Fulfiller
        <3>1. requests[r].currency \in AnyCurrency
            BY DEF Request
        <3> QED BY <3>1, Zenon DEF IdleFulfiller, Fulfiller
    <2>2. ASSUME NEW r \in Requests,
                 fulfiller' = [fulfiller EXCEPT ![f] =
                                 [IdleFulfiller EXCEPT !.pc = "balance", !.request = r,
                                                       !.currency = requests[r].currency]]
          PROVE  fulfiller' \in [Fulfillers -> Fulfiller] /\ RequestFound'
        BY <2>1, <2>2 DEF RequestFound, IdleFulfiller
    <2>3. fulfiller' \in [Fulfillers -> Fulfiller] /\ RequestFound'
        BY <1>1, <2>2, FulfilMovesTyped DEF FindApproved
    <2> QED BY <1>1, <2>3 DEF FindApproved, EntryPrices, history
<1>2. CASE CheckBalance(f)
    <2>1. fulfiller' \in [Fulfillers -> Fulfiller] /\ RequestFound'
        BY <1>2, FulfilMovesTyped DEF CheckBalance, Searched
    <2> QED BY <1>2, <2>1 DEF CheckBalance, EntryPrices, history
<1>3. CASE Claim(f)
    <2>1. fulfiller' \in [Fulfillers -> Fulfiller] /\ RequestFound'
        BY <1>3, FulfilMovesTyped DEF Claim, Searched
    <2>2. [requests EXCEPT ![fulfiller[f].request].status = "FULFILLED"]
            \in [Requests -> Request]
        BY DEF Request, RequestStatus
    <2>3. requests' \in [Requests -> Request]
        BY <1>3, <2>2 DEF Claim
    <2> QED BY <1>3, <2>1, <2>3 DEF Claim, EntryPrices, history
<1>4. ASSUME NEW p \in Positions, NEW price \in Prices, Issue(f, p, price)
      PROVE  TypeInv'
    <2> DEFINE r == fulfiller[f].request
               c == requests[r].amount
               new == OpenPosition(r, fulfiller[f].currency, price)
               entry == IF fulfiller[f].currency \in Eligible THEN price ELSE 0
    <2>1. /\ r \in Requests
          /\ fulfiller[f].currency \in AnyCurrency
          /\ entry \in Nat
        BY <1>4, MoneyAssumption DEF Issue, RequestFound, Searched, Fulfiller
    <2>2. c \in Nat /\ CreditFor(c) \in Nat /\ OriginationFee(c) \in Nat
        BY <2>1, RatesAreAmounts DEF Request
    <2>3. ledger' \in LedgerRow
        <3>1. LockCollateral(ledger, c, CreditFor(c)) \in LedgerRow
            BY <1>4, <2>2, StatementsKeepRows DEF Issue, CanIssue
        <3> QED BY <1>4, <2>2, <3>1, StatementsKeepRows DEF Issue, CanIssue
    <2>4. new \in Position
        BY <2>1, <2>2, Zenon DEF OpenPosition, NoPositionRow, Position, PositionStatus
    <2>5. positions' \in [Positions -> Position]
        BY <1>4, <2>4 DEF Issue
    <2>6. [fulfiller EXCEPT ![f].pc = "link", ![f].position = p]
            \in [Fulfillers -> Fulfiller]
        BY DEF Fulfiller
    <2>7. fulfiller' \in [Fulfillers -> Fulfiller] /\ RequestFound'
        BY <1>4, <2>1, <2>6 DEF Issue, RequestFound, Fulfiller
    <2>8. new.currency = fulfiller[f].currency /\ new.entry = entry
        BY DEF OpenPosition, NoPositionRow
    <2>9. ASSUME NEW q \in Positions, Tracked(positions'[q])
          PROVE  positions'[q].entry > 0
        <3>1. CASE q = p
            BY <1>4, <2>8, <2>9, <3>1, MoneyAssumption DEF Issue, Tracked
        <3>2. CASE q # p
            BY <1>4, <2>9, <3>2 DEF Issue, EntryPrices
        <3> QED BY <3>1, <3>2
    <2>10. booked' \in Int
        BY <1>4, <2>2 DEF Issue
    <2> QED BY <1>4, <2>3, <2>5, <2>7, <2>9, <2>10 DEF Issue, EntryPrices
<1>5. CASE IssueFails(f)
    <2>1. fulfiller' \in [Fulfillers -> Fulfiller] /\ RequestFound'
        BY <1>5, FulfilMovesTyped DEF IssueFails, Searched
    <2> QED BY <1>5, <2>1 DEF IssueFails, EntryPrices, history
<1>6. CASE Link(f)
    <2>1. fulfiller' \in [Fulfillers -> Fulfiller] /\ RequestFound'
        BY <1>6, FulfilMovesTyped DEF Link
    <2>2. fulfiller[f].position \in Positions \cup {0}
        BY DEF Fulfiller
    <2>3. requests' \in [Requests -> Request]
        BY <1>6, <2>2 DEF Link, Request
    <2> QED BY <1>6, <2>1, <2>3 DEF Link, EntryPrices, history
<1>7. CASE LinkFails(f)
    <2>1. fulfiller' \in [Fulfillers -> Fulfiller] /\ RequestFound'
        BY <1>7, FulfilMovesTyped DEF LinkFails, Searched
    <2> QED BY <1>7, <2>1 DEF LinkFails, EntryPrices, history
<1>8. CASE Revert(f)
    <2>1. fulfiller' \in [Fulfillers -> Fulfiller] /\ RequestFound'
        BY <1>8, FulfilMovesTyped DEF Revert
    <2>2. requests' \in [Requests -> Request]
        BY <1>8 DEF Revert, Request, RequestStatus
    <2> QED BY <1>8, <2>1, <2>2 DEF Revert, EntryPrices, history
<1> QED BY <1>1, <1>2, <1>3, <1>4, <1>5, <1>6, <1>7, <1>8 DEF FulfilStep

(* The two jobs: what a pass holds are rows.                                *)
LEMMA RowsTyped ==
    ASSUME TypeInv
    PROVE  /\ NoPositionRow \in Position /\ NoPositionRow.status = "none"
           /\ NoRows \in [Positions -> Position]
           /\ Snapshot \in [Positions -> Position]
           /\ \A p \in Positions : Snapshot[p].status = "ACTIVE" => Snapshot[p].entry > 0
<1> USE DEF TypeInv, TypeOK
<1>1. NoPositionRow \in Position /\ NoPositionRow.status = "none"
    BY DEF NoPositionRow, Position, PositionStatus, AnyCurrency
<1>2. \A p \in Positions : \/ Snapshot[p] = NoPositionRow
                           \/ Snapshot[p] = positions[p] /\ Tracked(positions[p])
    BY Zenon DEF Snapshot
<1>3. Snapshot \in [Positions -> Position] /\ NoRows \in [Positions -> Position]
    BY <1>1, Zenon DEF Snapshot, NoRows
<1>4. \A p \in Positions : Snapshot[p].status = "ACTIVE" => Snapshot[p].entry > 0
    BY <1>1, <1>2 DEF EntryPrices
<1> QED BY <1>1, <1>3, <1>4

RowPrices == \A y \in YieldRunners, p \in Positions :
                yielder[y].rows[p].status = "ACTIVE" => yielder[y].rows[p].entry > 0

LEMMA YieldTreatedTyped ==
    ASSUME TypeInv, NEW y \in YieldRunners, NEW q, YieldTreated(y, q)
    PROVE  yielder' \in [YieldRunners -> Yielder] /\ RowPrices'
<1> USE DEF TypeInv, TypeOK
<1> DEFINE rows == [yielder[y].rows EXCEPT ![q] = NoPositionRow]
           new  == [IdleYielder EXCEPT !.rows = rows]
<1>1. rows \in [Positions -> Position]
    BY RowsTyped DEF Yielder
<1>2. \A p \in Positions : rows[p].status = "ACTIVE" => rows[p].entry > 0
    BY RowsTyped DEF Yielder, EntryPrices
<1>3. new \in Yielder /\ new.rows = rows
    BY <1>1, Zenon DEF IdleYielder, Yielder
<1>4. yielder' = [yielder EXCEPT ![y] = new]
    BY DEF YieldTreated
<1>5. yielder' \in [YieldRunners -> Yielder]
    BY <1>3, <1>4
<1>6. RowPrices'
    BY <1>2, <1>3, <1>4 DEF RowPrices, EntryPrices
<1> QED BY <1>5, <1>6

(* What a pass repays is an amount.                                         *)
LEMMA GainIsAmount ==
    ASSUME NEW row \in Position, row.entry > 0, NEW price \in Nat, price >= row.applied
    PROVE  Gain(row, price) \in Nat
<1>1. row.collateral \in Nat /\ row.entry \in Nat /\ row.applied \in Nat
    BY DEF Position
<1>2. row.collateral \div row.entry \in Nat
    BY <1>1
<1>3. price - row.applied \in Nat
    BY <1>1
<1>4. \A a, b \in Nat : a * b \in Nat
    OBVIOUS
<1> QED BY <1>2, <1>3, <1>4, Zenon DEF Gain

LEMMA YieldStepTyped ==
    ASSUME NEW y \in YieldRunners
    PROVE  TypeInv /\ YieldStep(y) => TypeInv'
<1> SUFFICES ASSUME TypeInv, YieldStep(y) PROVE TypeInv'
    OBVIOUS
<1> USE DEF TypeInv, TypeOK
<1>1. CASE YieldStart(y)
    <2>1. yielder' \in [YieldRunners -> Yielder]
        BY <1>1, RowsTyped DEF YieldStart, Yielder
    <2>2. RowPrices'
        BY <1>1, RowsTyped DEF YieldStart, Yielder, RowPrices, EntryPrices
    <2> QED BY <1>1, <2>1, <2>2 DEF YieldStart, EntryPrices, RowPrices, RequestFound, history
<1>2. ASSUME NEW p \in Positions, NEW price \in Prices, YieldCheck(y, p, price)
      PROVE  TypeInv'
    <2> DEFINE row == yielder[y].rows[p]
               due == Least(Least(Gain(row, price), Capacity(row)), ledger.used)
    <2>1. yielder' \in [YieldRunners -> Yielder] /\ RowPrices'
        <3>1. CASE YieldOwed(row, price)
            <4>1. row \in Position /\ row.entry > 0 /\ price \in Nat
                BY <1>2, MoneyAssumption DEF YieldCheck, EntryPrices, Yielder
            <4>2. Gain(row, price) \in Nat
                BY <3>1, <4>1, GainIsAmount DEF YieldOwed, Position
            <4>3. Capacity(row) \in Nat
                BY <3>1, <4>1, RatesAreAmounts DEF YieldOwed, Capacity, Position
            <4>4. due \in Nat
                BY <4>2, <4>3 DEF Least, LedgerRow
            <4>5. yielder' = [yielder EXCEPT ![y].pc = "repay", ![y].position = p,
                                             ![y].due = due, ![y].price = price]
                BY <1>2, <3>1 DEF YieldCheck
            <4> HIDE DEF due
            <4>6. yielder' \in [YieldRunners -> Yielder]
                <5> DEFINE moved == [yielder[y] EXCEPT !.pc = "repay", !.position = p,
                                                       !.due = due, !.price = price]
                <5>1. moved \in Yielder
                    BY <4>1, <4>4, Zenon DEF Yielder
                <5>2. yielder' = [yielder EXCEPT ![y] = moved]
                    BY <4>5
                <5> HIDE DEF moved
                <5> QED BY <5>1, <5>2
            <4>7. \A z \in YieldRunners : yielder'[z].rows = yielder[z].rows
                BY <4>5 DEF Yielder
            <4> QED BY <4>6, <4>7 DEF RowPrices, EntryPrices
        <3>2. CASE ~YieldOwed(row, price)
            BY <1>2, <3>2, YieldTreatedTyped DEF YieldCheck
        <3> QED BY <3>1, <3>2
    <2> QED BY <1>2, <2>1 DEF YieldCheck, EntryPrices, RowPrices, RequestFound, history
<1>3. ASSUME NEW i \in Interests \cup {0}, YieldRepay(y, i)
      PROVE  TypeInv'
    <2>1. yielder[y].due \in Nat /\ i \in Nat
        BY MoneyAssumption DEF Yielder
    <2>2. /\ ledger' \in LedgerRow
          /\ positions' \in [Positions -> Position]
          /\ booked' \in Int
          /\ \A p \in Positions : Tracked(positions'[p]) => positions'[p].entry > 0
        BY <1>3, <2>1, PayBackTyped DEF YieldRepay
    <2>3. yieldPaid' \in [Positions -> Nat]
        <3> DEFINE p == yielder[y].position
                   sum == yieldPaid[p] + yielder[y].due
        <3>1. p \in Positions => sum \in Nat
            BY <2>1
        <3>2. yieldPaid' = [yieldPaid EXCEPT ![p] = sum]
            BY <1>3 DEF YieldRepay
        <3> HIDE DEF sum
        <3> QED BY <3>1, <3>2
    <2>6. unmarked' \in [Positions -> Int]
        <3> DEFINE p == yielder[y].position
                   sum == unmarked[p] + yielder[y].due
        <3>1. p \in Positions => sum \in Int
            BY <2>1
        <3>2. unmarked' = [unmarked EXCEPT ![p] = sum]
            BY <1>3 DEF YieldRepay
        <3> HIDE DEF sum
        <3> QED BY <3>1, <3>2
    <2>4. yielder' \in [YieldRunners -> Yielder]
        BY <1>3 DEF YieldRepay, Yielder
    <2>5. RowPrices'
        BY <1>3 DEF YieldRepay, Yielder, RowPrices, EntryPrices
    <2> QED BY <1>3, <2>2, <2>3, <2>4, <2>5, <2>6
            DEF YieldRepay, EntryPrices, RowPrices, RequestFound, Tracked
<1>4. ASSUME NEW p \in Positions, YieldSkips(y, p)
      PROVE  TypeInv'
    <2>1. yielder' \in [YieldRunners -> Yielder] /\ RowPrices'
        BY <1>4, YieldTreatedTyped DEF YieldSkips
    <2> QED BY <1>4, <2>1 DEF YieldSkips, EntryPrices, RowPrices, RequestFound, history
<1>5. CASE YieldAdvance(y)
    <2> DEFINE p == yielder[y].position
               repaid == yielder[y].rows[p].yielded + yielder[y].due
               new == AdvancedRow(positions[p], yielder[y].price, repaid)
    <2>1. yielder' \in [YieldRunners -> Yielder] /\ RowPrices'
        BY <1>5, YieldTreatedTyped DEF YieldAdvance
    <2>2. positions' = [positions EXCEPT ![p] = new]
        BY <1>5 DEF YieldAdvance
    <2>3. ASSUME p \in Positions
          PROVE  /\ new \in Position
                 /\ new.status = positions[p].status
                 /\ new.currency = positions[p].currency
                 /\ new.entry = positions[p].entry
        <3>1. repaid \in Nat /\ yielder[y].price \in Nat /\ positions[p] \in Position
            BY <2>3 DEF Yielder, Position
        <3> HIDE DEF repaid
        <3> QED BY <3>1 DEF AdvancedRow, Position
    <2> HIDE DEF new
    <2>4. positions' \in [Positions -> Position]
        BY <2>2, <2>3
    <2>5. \A q \in Positions : Tracked(positions'[q]) => positions'[q].entry > 0
        BY <2>2, <2>3 DEF Tracked, EntryPrices
    <2>6. unmarked' \in [Positions -> Int]
        <3> DEFINE rest == unmarked[p] - yielder[y].due
        <3>1. p \in Positions => rest \in Int
            BY DEF Yielder
        <3>2. unmarked' = [unmarked EXCEPT ![p] = rest]
            BY <1>5 DEF YieldAdvance
        <3> HIDE DEF rest
        <3> QED BY <3>1, <3>2
    <2> QED BY <1>5, <2>1, <2>4, <2>5, <2>6
            DEF YieldAdvance, EntryPrices, RowPrices, RequestFound
<1>6. CASE YieldAdvanceFails(y)
    <2>1. yielder' \in [YieldRunners -> Yielder] /\ RowPrices'
        BY <1>6, YieldTreatedTyped DEF YieldAdvanceFails
    <2> QED BY <1>6, <2>1 DEF YieldAdvanceFails, EntryPrices, RowPrices, RequestFound, history
<1> QED BY <1>1, <1>2, <1>3, <1>4, <1>5, <1>6 DEF YieldStep

LEMMA LiquidationStepTyped ==
    ASSUME NEW l \in Liquidators
    PROVE  TypeInv /\ LiquidationStep(l) => TypeInv'
<1> SUFFICES ASSUME TypeInv, LiquidationStep(l) PROVE TypeInv'
    OBVIOUS
<1> USE DEF TypeInv, TypeOK
<1>0. ASSUME NEW p \in Positions, LiquidationTreated(l, p)
      PROVE  liquidator' \in [Liquidators -> [Positions -> Position]]
    BY <1>0, RowsTyped DEF LiquidationTreated
<1>1. CASE LiquidationStart(l)
    <2>1. liquidator' \in [Liquidators -> [Positions -> Position]]
        BY <1>1, RowsTyped DEF LiquidationStart
    <2> QED BY <1>1, <2>1 DEF LiquidationStart, EntryPrices, RequestFound, history
<1>2. ASSUME NEW p \in Positions, NEW price \in Prices, Liquidate(l, p, price)
      PROVE  TypeInv'
    <2> DEFINE row == liquidator[l][p]
               new == LiquidatedRow(positions[p])
    <2>1. row.collateral \in Nat /\ row.credit \in Nat
        BY DEF Position
    <2>2. ledger' \in LedgerRow
        BY <1>2, <2>1, StatementsKeepRows DEF Liquidate
    <2>3. liquidator' \in [Liquidators -> [Positions -> Position]]
        BY <1>0, <1>2 DEF Liquidate
    <2>4. new \in Position /\ new.status = "LIQUIDATED"
        BY DEF LiquidatedRow, Position, PositionStatus
    <2>5. positions' = [positions EXCEPT ![p] = new]
        BY <1>2 DEF Liquidate
    <2> HIDE DEF new
    <2>6. positions' \in [Positions -> Position]
        BY <2>4, <2>5
    <2>7. \A q \in Positions : Tracked(positions'[q]) => positions'[q].entry > 0
        BY <2>4, <2>5 DEF Tracked, EntryPrices
    <2>8. booked' \in Int
        BY <1>2, <2>1 DEF Liquidate
    <2> QED BY <1>2, <2>2, <2>3, <2>6, <2>7, <2>8 DEF Liquidate, EntryPrices, RequestFound
<1>3. ASSUME NEW p \in Positions, NEW price \in Prices, UpdateWarning(l, p, price)
      PROVE  TypeInv'
    <2>1. liquidator' \in [Liquidators -> [Positions -> Position]]
        BY <1>0, <1>3 DEF UpdateWarning
    <2> DEFINE warned == LiquidationWarned(liquidator[l][p].entry, price)
               new == [positions[p] EXCEPT !.warned = warned]
    <2>2. /\ new \in Position
          /\ new.status = positions[p].status
          /\ new.currency = positions[p].currency
          /\ new.entry = positions[p].entry
        <3>0. warned \in BOOLEAN
            BY DEF LiquidationWarned
        <3>1. warned \in BOOLEAN /\ positions[p] \in Position
            BY <3>0
        <3> HIDE DEF warned
        <3>2. new \in Position
            BY <3>1, Zenon DEF Position
        <3>3. /\ new.status = positions[p].status
              /\ new.currency = positions[p].currency
              /\ new.entry = positions[p].entry
            BY <3>1, Zenon DEF Position
        <3> QED BY <3>2, <3>3
    <2>3. positions' = positions \/ positions' = [positions EXCEPT ![p] = new]
        BY <1>3, Zenon DEF UpdateWarning
    <2> HIDE DEF new
    <2>4. positions' \in [Positions -> Position]
        BY <2>2, <2>3
    <2>5. \A q \in Positions : Tracked(positions'[q]) => positions'[q].entry > 0
        BY <2>2, <2>3 DEF Tracked, EntryPrices
    <2> QED BY <1>3, <2>1, <2>4, <2>5
            DEF UpdateWarning, EntryPrices, RequestFound, history
<1>4. ASSUME NEW p \in Positions, LiquidationSkips(l, p)
      PROVE  TypeInv'
    <2>1. liquidator' \in [Liquidators -> [Positions -> Position]]
        BY <1>0, <1>4 DEF LiquidationSkips
    <2> QED BY <1>4, <2>1 DEF LiquidationSkips, EntryPrices, RequestFound, history
<1> QED BY <1>1, <1>2, <1>3, <1>4 DEF LiquidationStep

LEMMA CrashTyped == TypeInv /\ Crash => TypeInv'
<1> SUFFICES ASSUME TypeInv, Crash PROVE TypeInv'
    OBVIOUS
<1> USE DEF TypeInv, TypeOK
<1>1. tab' \in [Tabs -> Tab]
    BY Zenon DEF Crash, IdleTab, Tab, AnyCurrency
<1>2. fulfiller' \in [Fulfillers -> Fulfiller]
    BY Zenon DEF Crash, IdleFulfiller, Fulfiller, AnyCurrency
<1>3. RequestFound'
    BY DEF Crash, RequestFound, IdleFulfiller, Searched
<1>4. IdleYielder \in Yielder /\ IdleYielder.rows = NoRows
    BY RowsTyped DEF IdleYielder, Yielder
<1>5. yielder' \in [YieldRunners -> Yielder]
    BY <1>4, Zenon DEF Crash
<1>6. RowPrices'
    BY <1>4, RowsTyped DEF Crash, RowPrices, NoRows
<1>7. liquidator' \in [Liquidators -> [Positions -> Position]]
    BY RowsTyped, Zenon DEF Crash
<1> QED BY <1>1, <1>2, <1>3, <1>5, <1>6, <1>7 DEF Crash, EntryPrices, RowPrices, history

LEMMA TypeInductive == TypeInv /\ [Next]_vars => TypeInv'
<1>1. TypeInv /\ Next => TypeInv'
    BY RequestStepTyped, MoneyStepTyped, FulfilStepTyped, YieldStepTyped,
       LiquidationStepTyped, CrashTyped DEF Next
<1>2. TypeInv /\ UNCHANGED vars => TypeInv'
    BY DEF vars, serverState, history, TypeInv, TypeOK, EntryPrices, RequestFound, Tracked
<1> QED BY <1>1, <1>2

LEMMA TypeInvariant == Spec => []TypeInv
BY TypeInit, TypeInductive, PTL DEF Spec

(* No interleaving of requests, deposits, repayments, yields, liquidations  *)
(* and crashes drives a balance of the client below zero: the WHERE clauses *)
(* of LedgerService and the order of the statements are enough.             *)
THEOREM TypeCorrect == Spec => []TypeOK
<1>1. TypeInv => TypeOK
    BY DEF TypeInv
<1> QED BY <1>1, TypeInvariant, PTL

-----------------------------------------------------------------------------
(* The books.  Every statement moves the money in the account exactly as    *)
(* the journal says, except a liquidation that finds less collateral than   *)
(* it takes, and that one leaves more money than the journal explains.      *)

Held(row) == row.avail + row.locked

LEMMA StatementsMoveMoney ==
    ASSUME NEW row \in LedgerRow, NEW x \in Nat, NEW c \in Nat
    PROVE  /\ Held(CreditAvailable(row, x)) = Held(row) + x
           /\ Held(DebitAvailable(row, x)) = Held(row) - x
           /\ Held(LockCollateral(row, x, c)) = Held(row)
           /\ Held(ApplyRepayment(row, x)) = Held(row)
           /\ Held(LiquidateCollateral(row, x, c)) >= Held(row) - x
<1>1. Held(CreditAvailable(row, x)) = Held(row) + x
    BY DEF Held, CreditAvailable, LedgerRow
<1>2. Held(DebitAvailable(row, x)) = Held(row) - x
    BY DEF Held, DebitAvailable, LedgerRow
<1>3. Held(LockCollateral(row, x, c)) = Held(row)
    BY DEF Held, LockCollateral, LedgerRow
<1>4. Held(ApplyRepayment(row, x)) = Held(row)
    BY DEF Held, ApplyRepayment, LedgerRow
<1>5. Held(LiquidateCollateral(row, x, c)) >= Held(row) - x
    BY DEF Held, LiquidateCollateral, AtLeastZero, LedgerRow
<1> QED BY <1>1, <1>2, <1>3, <1>4, <1>5

LEMMA PayBackCovered ==
    ASSUME TypeInv, JournalCovered, NEW x \in Nat, NEW i \in Nat, PayBack(x, i)
    PROVE  JournalCovered'
<1>1. ledger \in LedgerRow /\ booked \in Int
    BY DEF TypeInv, TypeOK
<1>2. ApplyRepayment(ledger, x) \in LedgerRow
    BY <1>1, StatementsKeepRows DEF PayBack, CanPayBack
<1>3. Held(ledger') = Held(ledger) - i
    BY <1>1, <1>2, StatementsMoveMoney DEF PayBack
<1> QED BY <1>1, <1>3 DEF PayBack, JournalCovered, Held, LedgerRow

LEMMA CoveredInductive == TypeInv /\ JournalCovered /\ [Next]_vars => JournalCovered'
<1> SUFFICES ASSUME TypeInv, JournalCovered, [Next]_vars PROVE JournalCovered'
    OBVIOUS
<1>0. ledger \in LedgerRow /\ booked \in Int /\ Held(ledger) >= booked
    BY DEF TypeInv, TypeOK, JournalCovered, Held
<1>1. CASE UNCHANGED <<ledger, booked>>
    BY <1>1 DEF JournalCovered
<1>2. CASE RequestStep
    BY <1>1, <1>2 DEF RequestStep, CheckNoActiveRequest, CreateRequest, CheckPledge,
                      FreezePledge, Approve, Reject, history
<1>3. ASSUME NEW f \in Fulfillers, NEW x \in Deposits, Deposit(f, x)
      PROVE  JournalCovered'
    <2>1. x \in Nat
        BY MoneyAssumption
    <2>2. Held(ledger') = Held(ledger) + x
        BY <1>0, <1>3, <2>1, StatementsMoveMoney DEF Deposit
    <2> QED BY <1>0, <1>3, <2>1, <2>2 DEF Deposit, JournalCovered, Held, LedgerRow
<1>4. ASSUME NEW x \in Withdrawals, Withdraw(x)
      PROVE  JournalCovered'
    <2>1. x \in Nat
        BY MoneyAssumption
    <2>2. Held(ledger') = Held(ledger) - x
        BY <1>0, <1>4, <2>1, StatementsMoveMoney DEF Withdraw
    <2> QED BY <1>0, <1>4, <2>1, <2>2 DEF Withdraw, JournalCovered, Held, LedgerRow
<1>5. ASSUME NEW x \in Spends, CardSpend(x)
      PROVE  JournalCovered'
    BY <1>0, <1>5 DEF CardSpend, JournalCovered, Held, LedgerRow, history
<1>6. ASSUME NEW x \in Repayments, NEW i \in Interests \cup {0}, Repay(x, i)
      PROVE  JournalCovered'
    BY <1>6, MoneyAssumption, PayBackCovered DEF Repay
<1>7. CASE MoneyStep
    BY <1>3, <1>4, <1>5, <1>6, <1>7 DEF MoneyStep
<1>8. ASSUME NEW f \in Fulfillers, NEW p \in Positions, NEW price \in Prices,
             Issue(f, p, price)
      PROVE  JournalCovered'
    <2> DEFINE c == requests[fulfiller[f].request].amount
               locked == LockCollateral(ledger, c, CreditFor(c))
    <2>1. c \in Nat /\ CreditFor(c) \in Nat /\ OriginationFee(c) \in Nat
        BY <1>8, RatesAreAmounts
           DEF TypeInv, TypeOK, RequestFound, Searched, Issue, Request
    <2>2. locked \in LedgerRow /\ Held(locked) = Held(ledger)
        BY <1>0, <1>8, <2>1, StatementsKeepRows, StatementsMoveMoney DEF Issue, CanIssue
    <2>3. ledger' = DebitAvailable(locked, OriginationFee(c)) /\ booked' = booked - OriginationFee(c)
        BY <1>8 DEF Issue
    <2> HIDE DEF c, locked
    <2>4. Held(ledger') = Held(ledger) - OriginationFee(c)
        BY <2>1, <2>2, <2>3, StatementsMoveMoney
    <2> QED BY <1>0, <2>1, <2>3, <2>4 DEF JournalCovered, Held, LedgerRow
<1>9. ASSUME NEW f \in Fulfillers, FulfilStep(f)
      PROVE  JournalCovered'
    BY <1>1, <1>8, <1>9 DEF FulfilStep, FindApproved, CheckBalance, Claim, IssueFails, Link,
                            LinkFails, Revert, history
<1>10. ASSUME NEW y \in YieldRunners, NEW i \in Interests \cup {0}, YieldRepay(y, i)
       PROVE  JournalCovered'
    <2>1. yielder[y].due \in Nat /\ i \in Nat
        BY MoneyAssumption DEF TypeInv, TypeOK, Yielder
    <2> QED BY <1>10, <2>1, PayBackCovered DEF YieldRepay
<1>11. ASSUME NEW y \in YieldRunners, YieldStep(y)
       PROVE  JournalCovered'
    BY <1>1, <1>10, <1>11 DEF YieldStep, YieldStart, YieldCheck, YieldSkips, YieldAdvanceFails, YieldAdvance, history
<1>12. ASSUME NEW l \in Liquidators, NEW p \in Positions, NEW price \in Prices,
              Liquidate(l, p, price)
       PROVE  JournalCovered'
    <2> DEFINE row == liquidator[l][p]
    <2>1. row.collateral \in Nat /\ row.credit \in Nat
        BY DEF TypeInv, TypeOK, Position
    <2>2. Held(ledger') >= Held(ledger) - row.collateral
        BY <1>0, <1>12, <2>1, StatementsMoveMoney DEF Liquidate
    <2>3. ledger' \in LedgerRow
        BY <1>0, <1>12, <2>1, StatementsKeepRows DEF Liquidate
    <2> QED BY <1>0, <1>12, <2>1, <2>2, <2>3 DEF Liquidate, JournalCovered, Held, LedgerRow
<1>13. ASSUME NEW l \in Liquidators, LiquidationStep(l)
       PROVE  JournalCovered'
    BY <1>1, <1>12, <1>13 DEF LiquidationStep, LiquidationStart, UpdateWarning,
                              LiquidationSkips, history
<1>14. CASE Crash \/ UNCHANGED vars
    BY <1>1, <1>14 DEF Crash, vars, history
<1> QED BY <1>2, <1>7, <1>9, <1>11, <1>13, <1>14 DEF Next

(* The account never holds less than the journal explains, for any number   *)
(* of requests, positions and overlapping passes, and whatever crashes.     *)
THEOREM NothingUnexplained == Spec => []JournalCovered
<1>1. Init => JournalCovered
    BY DEF Init, JournalCovered, EmptyLedger
<1> QED BY <1>1, CoveredInductive, TypeInvariant, PTL DEF Spec

-----------------------------------------------------------------------------
(* One position for each request.  While a tryAutoFulfill is about to issue *)
(* or to give its claim back, the request is FULFILLED, no position comes   *)
(* from it and no other process is at that point with it; a claim needs an  *)
(* APPROVED request, so there is none before.  This needs that the update   *)
(* that links the position does not fail: its catch block would give back a *)
(* claim on which credit was issued.                                        *)

IssuedFulfilled ==
    \A p \in Positions : positions[p].request # 0
                            => requests[positions[p].request].status = "FULFILLED"

OpenedFromRequest == \A p \in Positions : Exists(p) => positions[p].request # 0

OnePositionEach ==
    \A p, q \in Positions :
        positions[p].request # 0 /\ positions[p].request = positions[q].request => p = q

Undecided == {"issue", "revert"}

ClaimIsFree ==
    \A f \in Fulfillers : fulfiller[f].pc \in Undecided =>
        /\ requests[fulfiller[f].request].status = "FULFILLED"
        /\ \A p \in Positions : positions[p].request # fulfiller[f].request

ClaimIsExclusive ==
    \A f, g \in Fulfillers :
        fulfiller[f].pc \in Undecided /\ fulfiller[g].pc \in Undecided
            /\ fulfiller[f].request = fulfiller[g].request => f = g

SnapshotsExist ==
    \A l \in Liquidators, p \in Positions : liquidator[l][p].status = "ACTIVE" => Exists(p)

IssueInv == /\ IssuedFulfilled
            /\ OpenedFromRequest
            /\ OnePositionEach
            /\ ClaimIsFree
            /\ ClaimIsExclusive
            /\ SnapshotsExist

(* What the invariant speaks of, when a step leaves it alone.               *)
SameStatuses == \A r \in Requests : requests'[r].status = requests[r].status
SameOrigins == \A p \in Positions : /\ positions'[p].request = positions[p].request
                                    /\ Exists(p)' = Exists(p)
NoNewClaims == \A f \in Fulfillers : fulfiller'[f].pc \in Undecided =>
                  /\ fulfiller[f].pc \in Undecided
                  /\ fulfiller'[f].request = fulfiller[f].request

LEMMA StatusesAndOrigins ==
    ASSUME TypeInv, IssueInv, SameStatuses, SameOrigins, NoNewClaims,
           \A l \in Liquidators, p \in Positions :
               liquidator'[l][p].status = "ACTIVE" => Exists(p)
    PROVE  IssueInv'
<1>1. \A p \in Positions : positions[p].request # 0 => positions[p].request \in Requests
    BY DEF TypeInv, TypeOK, Position
<1>2. \A f \in Fulfillers : fulfiller[f].pc \in Undecided => fulfiller[f].request \in Requests
    BY DEF TypeInv, RequestFound, Searched, Undecided
<1>3. IssuedFulfilled'
    BY <1>1 DEF IssueInv, IssuedFulfilled, SameStatuses, SameOrigins
<1>4. OpenedFromRequest' /\ OnePositionEach' /\ SnapshotsExist'
    BY DEF IssueInv, OpenedFromRequest, OnePositionEach, SnapshotsExist, SameOrigins
<1>5. ClaimIsFree'
    BY <1>2 DEF IssueInv, ClaimIsFree, SameStatuses, SameOrigins, NoNewClaims
<1>6. ClaimIsExclusive'
    BY DEF IssueInv, ClaimIsExclusive, NoNewClaims
<1> QED BY <1>3, <1>4, <1>5, <1>6 DEF IssueInv

(* A repayment only closes positions.                                       *)
LEMMA PayBackKeepsOrigins ==
    ASSUME TypeInv, NEW x, NEW i, PayBack(x, i)
    PROVE  SameOrigins
<1>1. ASSUME NEW p \in Positions
      PROVE  \/ positions'[p] = positions[p]
             \/ positions'[p] = [positions[p] EXCEPT !.status = "CLOSED"] /\ Active(p)
    BY Zenon DEF PayBack, Closed
<1>2. ASSUME NEW p \in Positions
      PROVE  /\ positions'[p].request = positions[p].request
             /\ Exists(p)' = Exists(p)
    <2>1. positions[p] \in Position
        BY DEF TypeInv, TypeOK
    <2>2. CASE positions'[p] = positions[p]
        BY <2>2 DEF Exists
    <2>3. CASE positions'[p] = [positions[p] EXCEPT !.status = "CLOSED"] /\ Active(p)
        <3>1. positions'[p].request = positions[p].request /\ positions'[p].status = "CLOSED"
            BY <2>1, <2>3 DEF Position
        <3> QED BY <2>3, <3>1 DEF Exists, Active
    <2> QED BY <1>1, <2>2, <2>3
<1> QED BY <1>2 DEF SameOrigins

LEMMA RequestStepIssues == TypeInv /\ IssueInv /\ RequestStep => IssueInv'
<1> SUFFICES ASSUME TypeInv, IssueInv, RequestStep PROVE IssueInv'
    OBVIOUS
<1>1. UNCHANGED <<positions, fulfiller, liquidator>>
    BY DEF RequestStep, CheckNoActiveRequest, CreateRequest, CheckPledge, FreezePledge,
           Approve, Reject, serverState
<1>2. \A r \in Requests : requests[r].status = "FULFILLED" => requests'[r].status = "FULFILLED"
    <2>0. requests \in [Requests -> Request]
        BY DEF TypeInv, TypeOK
    <2>1. ASSUME NEW r \in Requests, NEW q \in Requests, requests[q].status = "FULFILLED",
                 Approve(r) \/ Reject(r)
          PROVE  requests'[q].status = "FULFILLED"
        <3>1. q # r /\ requests'[q] = requests[q]
            BY <2>0, <2>1 DEF Approve, Reject
        <3> QED BY <2>1, <3>1
    <2>2. ASSUME NEW t \in Tabs, NEW r \in Requests, NEW q \in Requests,
                 requests[q].status = "FULFILLED", CreateRequest(t, r)
          PROVE  requests'[q].status = "FULFILLED"
        <3>1. q # r /\ requests'[q] = requests[q]
            BY <2>0, <2>2 DEF CreateRequest, NextRequest
        <3> QED BY <2>2, <3>1
    <2>3. ASSUME NEW t \in Tabs, FreezePledge(t), NEW q \in Requests
          PROVE  requests'[q].status = requests[q].status
        BY <2>0, <2>3 DEF FreezePledge, Request
    <2> QED BY <2>1, <2>2, <2>3 DEF RequestStep, CheckNoActiveRequest, CheckPledge
<1>3. \A p \in Positions : positions[p].request # 0 => positions[p].request \in Requests
    BY DEF TypeInv, TypeOK, Position
<1>4. \A f \in Fulfillers : fulfiller[f].pc \in Undecided => fulfiller[f].request \in Requests
    BY DEF TypeInv, RequestFound, Searched, Undecided
<1>5. IssuedFulfilled' /\ ClaimIsFree'
    BY <1>1, <1>2, <1>3, <1>4 DEF IssueInv, IssuedFulfilled, ClaimIsFree
<1> QED BY <1>1, <1>5 DEF IssueInv, OpenedFromRequest, Exists, OnePositionEach,
                          ClaimIsExclusive, SnapshotsExist

LEMMA MoneyStepIssues == TypeInv /\ IssueInv /\ MoneyStep => IssueInv'
<1> SUFFICES ASSUME TypeInv, IssueInv, MoneyStep PROVE IssueInv'
    OBVIOUS
<1>1. UNCHANGED <<requests, liquidator>>
    BY DEF MoneyStep, Deposit, Withdraw, CardSpend, Repay, serverState
<1>2. SameOrigins
    BY PayBackKeepsOrigins DEF MoneyStep, Deposit, Withdraw, CardSpend, Repay, SameOrigins, Exists
<1>3. NoNewClaims
    BY DEF MoneyStep, Deposit, Withdraw, CardSpend, Repay, serverState, NoNewClaims, Goto,
           Undecided, TypeInv, TypeOK, Fulfiller
<1> QED BY <1>1, <1>2, <1>3, StatusesAndOrigins DEF SameStatuses, IssueInv, SnapshotsExist

LEMMA FulfilStepIssues ==
    ASSUME ~LinkFaults, NEW f \in Fulfillers
    PROVE  TypeInv /\ IssueInv /\ FulfilStep(f) => IssueInv'
<1> SUFFICES ASSUME TypeInv, IssueInv, FulfilStep(f) PROVE IssueInv'
    OBVIOUS
<1>0. /\ requests \in [Requests -> Request]
      /\ positions \in [Positions -> Position]
      /\ fulfiller \in [Fulfillers -> Fulfiller]
    BY DEF TypeInv, TypeOK
<1>1. CASE FindApproved(f) \/ CheckBalance(f) \/ Link(f)
    <2>1. UNCHANGED <<positions, liquidator>>
        BY <1>1 DEF FindApproved, CheckBalance, Link
    <2>2. SameStatuses
        <3>1. CASE Link(f)
            BY <1>0, <3>1 DEF Link, SameStatuses, Request
        <3>2. CASE ~Link(f)
            BY <1>1, <3>2 DEF FindApproved, CheckBalance, SameStatuses
        <3> QED BY <3>1, <3>2
    <2>3. /\ \A g \in Fulfillers : g # f => fulfiller'[g] = fulfiller[g]
          /\ fulfiller'[f].pc \notin Undecided
        <3>1. CASE Finish(f)
            BY <1>0, <3>1 DEF Finish, IdleFulfiller, Undecided
        <3>2. CASE FindApproved(f) /\ ~Finish(f)
            <4>1. PICK r \in Requests :
                     fulfiller' = [fulfiller EXCEPT ![f] =
                                     [IdleFulfiller EXCEPT !.pc = "balance", !.request = r,
                                                           !.currency = requests[r].currency]]
                BY <3>2, Zenon DEF FindApproved
            <4> QED BY <1>0, <4>1 DEF IdleFulfiller, Undecided
        <3>3. CASE Goto(f, "claim")
            BY <1>0, <3>3 DEF Goto, Undecided, Fulfiller
        <3> QED BY <1>1, <3>1, <3>2, <3>3 DEF CheckBalance, Link
    <2>4. NoNewClaims
        BY <2>3 DEF NoNewClaims
    <2> QED BY <2>1, <2>2, <2>4, StatusesAndOrigins
            DEF SameOrigins, Exists, IssueInv, SnapshotsExist
<1>2. CASE Claim(f)
    <2> DEFINE r == fulfiller[f].request
    <2>1. CASE ~ClaimGranted(r)
        <3>1. NoNewClaims /\ UNCHANGED <<requests, positions, liquidator>>
            BY <1>0, <1>2, <2>1 DEF Claim, Finish, IdleFulfiller, NoNewClaims, Undecided
        <3> QED BY <3>1, StatusesAndOrigins
                DEF SameStatuses, SameOrigins, Exists, IssueInv, SnapshotsExist
    <2>2. CASE ClaimGranted(r)
        <3>1. /\ requests' = [requests EXCEPT ![r].status = "FULFILLED"]
              /\ fulfiller' = [fulfiller EXCEPT ![f].pc = "issue"]
              /\ UNCHANGED <<positions, liquidator>>
            BY <1>2, <2>2 DEF Claim, Goto
        <3>2. r \in Requests /\ requests[r].status = "APPROVED"
            BY <1>2, <2>2 DEF Claim, ClaimGranted, TypeInv, RequestFound, Searched
        <3>3. \A q \in Requests : \/ requests'[q].status = requests[q].status
                                  \/ requests'[q].status = "FULFILLED"
            BY <1>0, <3>1 DEF Request
        <3>4. requests'[r].status = "FULFILLED"
            BY <1>0, <3>1, <3>2 DEF Request
        <3>5. \A p \in Positions : positions[p].request # r
            BY <3>2, IdsAssumption DEF IssueInv, IssuedFulfilled
        <3>6. \A g \in Fulfillers : /\ fulfiller'[g].request = fulfiller[g].request
                                    /\ g # f => fulfiller'[g].pc = fulfiller[g].pc
            BY <1>0, <3>1 DEF Fulfiller
        <3>7. \A g \in Fulfillers : fulfiller[g].pc \in Undecided =>
                 /\ fulfiller[g].request \in Requests
                 /\ fulfiller[g].request # r
            BY <3>2 DEF IssueInv, ClaimIsFree, TypeInv, RequestFound, Searched, Undecided
        <3>8. IssuedFulfilled'
            BY <1>0, <3>1, <3>3 DEF IssueInv, IssuedFulfilled, Position
        <3>9. ClaimIsFree'
            BY <3>1, <3>3, <3>4, <3>5, <3>6, <3>7 DEF IssueInv, ClaimIsFree
        <3>10. ClaimIsExclusive'
            BY <3>6, <3>7 DEF IssueInv, ClaimIsExclusive
        <3> QED BY <3>1, <3>8, <3>9, <3>10
                DEF IssueInv, OpenedFromRequest, Exists, OnePositionEach, SnapshotsExist
    <2> QED BY <2>1, <2>2
<1>3. ASSUME NEW p \in Positions, NEW price \in Prices, Issue(f, p, price)
      PROVE  IssueInv'
    <2> DEFINE r == fulfiller[f].request
               new == OpenPosition(r, fulfiller[f].currency, price)
    <2>1. /\ positions' = [positions EXCEPT ![p] = new]
          /\ fulfiller' = [fulfiller EXCEPT ![f].pc = "link", ![f].position = p]
          /\ positions[p].status = "none" /\ fulfiller[f].pc = "issue"
          /\ UNCHANGED <<requests, liquidator>>
        BY <1>3 DEF Issue, NextPosition
    <2>2. r \in Requests /\ r # 0
        BY <2>1, IdsAssumption DEF TypeInv, RequestFound, Searched
    <2>3. new.request = r /\ new.status = "ACTIVE"
        BY DEF OpenPosition, NoPositionRow
    <2>4. /\ requests[r].status = "FULFILLED"
          /\ \A q \in Positions : positions[q].request # r
          /\ \A g \in Fulfillers : fulfiller[g].pc \in Undecided /\ fulfiller[g].request = r => g = f
        BY <2>1 DEF IssueInv, ClaimIsFree, ClaimIsExclusive, Undecided
    <2> HIDE DEF new
    <2>5. /\ positions'[p].request = r /\ positions'[p].status = "ACTIVE"
          /\ \A q \in Positions : q # p => positions'[q] = positions[q]
        BY <1>0, <2>1, <2>3
    <2>6. /\ fulfiller'[f].pc = "link"
          /\ \A g \in Fulfillers : g # f => fulfiller'[g] = fulfiller[g]
        BY <1>0, <2>1 DEF Fulfiller
    <2>7. IssuedFulfilled' /\ OpenedFromRequest' /\ OnePositionEach'
        BY <2>1, <2>2, <2>4, <2>5
           DEF IssueInv, IssuedFulfilled, OpenedFromRequest, OnePositionEach, Exists
    <2>8. ClaimIsFree'
        <3>1. ASSUME NEW g \in Fulfillers, fulfiller'[g].pc \in Undecided
              PROVE  /\ requests[fulfiller'[g].request].status = "FULFILLED"
                     /\ \A q \in Positions : positions'[q].request # fulfiller'[g].request
            <4>1. g # f /\ fulfiller'[g] = fulfiller[g]
                BY <2>6, <3>1 DEF Undecided
            <4>2. fulfiller[g].request # r
                BY <2>4, <3>1, <4>1
            <4> QED BY <2>5, <3>1, <4>1, <4>2 DEF IssueInv, ClaimIsFree
        <3> QED BY <2>1, <3>1 DEF ClaimIsFree
    <2>9. ClaimIsExclusive'
        BY <2>6 DEF IssueInv, ClaimIsExclusive, Undecided
    <2>10. SnapshotsExist'
        BY <2>1, <2>5 DEF IssueInv, SnapshotsExist, Exists
    <2> QED BY <2>7, <2>8, <2>9, <2>10 DEF IssueInv
<1>4. CASE IssueFails(f)
    <2>1. NoNewClaims /\ UNCHANGED <<requests, positions, liquidator>>
        BY <1>0, <1>4 DEF IssueFails, Goto, NoNewClaims, Undecided, Fulfiller
    <2> QED BY <2>1, StatusesAndOrigins
            DEF SameStatuses, SameOrigins, Exists, IssueInv, SnapshotsExist
<1>5. CASE LinkFails(f)
    BY <1>5 DEF LinkFails
<1>6. CASE Revert(f)
    <2> DEFINE r == fulfiller[f].request
    <2>1. /\ fulfiller[f].pc = "revert" /\ UNCHANGED <<positions, liquidator>>
          /\ fulfiller' = [fulfiller EXCEPT ![f] = IdleFulfiller]
        BY <1>6 DEF Revert, Finish
    <2>2. \A q \in Requests : q # r => requests'[q].status = requests[q].status
        BY <1>0, <1>6 DEF Revert, Request
    <2>3. /\ \A p \in Positions : positions[p].request # r
          /\ \A g \in Fulfillers : g # f /\ fulfiller[g].pc \in Undecided
                                      => fulfiller[g].request # r
        BY <2>1 DEF IssueInv, ClaimIsFree, ClaimIsExclusive, Undecided
    <2>4. /\ fulfiller'[f].pc \notin Undecided
          /\ \A g \in Fulfillers : g # f => fulfiller'[g] = fulfiller[g]
        BY <1>0, <2>1 DEF IdleFulfiller, Undecided
    <2>5. IssuedFulfilled'
        BY <1>0, <2>1, <2>2, <2>3 DEF IssueInv, IssuedFulfilled, Position
    <2>6. \A g \in Fulfillers : fulfiller[g].pc \in Undecided => fulfiller[g].request \in Requests
        BY DEF TypeInv, RequestFound, Searched, Undecided
    <2>7. ClaimIsFree' /\ ClaimIsExclusive'
        BY <2>1, <2>2, <2>3, <2>4, <2>6 DEF IssueInv, ClaimIsFree, ClaimIsExclusive
    <2> QED BY <2>1, <2>5, <2>7
            DEF IssueInv, OpenedFromRequest, Exists, OnePositionEach, SnapshotsExist
<1> QED BY <1>1, <1>2, <1>3, <1>4, <1>5, <1>6 DEF FulfilStep

LEMMA YieldStepIssues ==
    ASSUME NEW y \in YieldRunners
    PROVE  TypeInv /\ IssueInv /\ YieldStep(y) => IssueInv'
<1> SUFFICES ASSUME TypeInv, IssueInv, YieldStep(y) PROVE IssueInv'
    OBVIOUS
<1>1. UNCHANGED <<requests, fulfiller, liquidator>>
    BY DEF YieldStep, YieldStart, YieldCheck, YieldRepay, YieldSkips, YieldAdvanceFails, YieldAdvance
<1>2. CASE YieldAdvance(y)
    <2>1. \A p \in Positions :
             /\ positions'[p].request = positions[p].request
             /\ positions'[p].status = positions[p].status
        BY <1>2 DEF YieldAdvance, AdvancedRow, TypeInv, TypeOK, Position
    <2> QED BY <1>1, <2>1, StatusesAndOrigins
            DEF SameStatuses, SameOrigins, Exists, NoNewClaims, IssueInv, SnapshotsExist
<1>3. CASE ~YieldAdvance(y)
    <2>1. SameOrigins
        BY <1>3, PayBackKeepsOrigins DEF YieldStep, YieldStart, YieldCheck, YieldRepay,
                                         YieldSkips, YieldAdvanceFails, SameOrigins, Exists
    <2> QED BY <1>1, <2>1, StatusesAndOrigins
            DEF SameStatuses, NoNewClaims, IssueInv, SnapshotsExist
<1> QED BY <1>2, <1>3

LEMMA LiquidationStepIssues ==
    ASSUME NEW l \in Liquidators
    PROVE  TypeInv /\ IssueInv /\ LiquidationStep(l) => IssueInv'
<1> SUFFICES ASSUME TypeInv, IssueInv, LiquidationStep(l) PROVE IssueInv'
    OBVIOUS
<1>0. /\ positions \in [Positions -> Position]
      /\ liquidator \in [Liquidators -> [Positions -> Position]]
    BY DEF TypeInv, TypeOK
<1>1. UNCHANGED <<requests, fulfiller>>
    BY DEF LiquidationStep, LiquidationStart, Liquidate, UpdateWarning, LiquidationSkips
<1>2. ASSUME NEW p \in Positions, LiquidationTreated(l, p), NEW m \in Liquidators,
             NEW q \in Positions, liquidator'[m][q].status = "ACTIVE"
      PROVE  Exists(q)
    BY <1>0, <1>2, RowsTyped DEF LiquidationTreated, IssueInv, SnapshotsExist
<1>3. CASE LiquidationStart(l)
    <2>1. \A q \in Positions : Snapshot[q].status = "ACTIVE" => Exists(q)
        BY RowsTyped DEF Snapshot, Tracked, Exists
    <2>2. \A m \in Liquidators, q \in Positions :
             liquidator'[m][q].status = "ACTIVE" => Exists(q)
        BY <1>0, <1>3, <2>1 DEF LiquidationStart, IssueInv, SnapshotsExist
    <2> QED BY <1>1, <1>3, <2>2, StatusesAndOrigins
            DEF LiquidationStart, SameStatuses, SameOrigins, Exists, NoNewClaims
<1>4. ASSUME NEW p \in Positions, NEW price \in Prices, Liquidate(l, p, price)
      PROVE  IssueInv'
    <2>1. Exists(p)
        BY <1>4 DEF Liquidate, IssueInv, SnapshotsExist
    <2>2. SameOrigins
        BY <1>0, <1>4, <2>1 DEF Liquidate, LiquidatedRow, SameOrigins, Exists, Position
    <2> QED BY <1>1, <1>2, <1>4, <2>2, StatusesAndOrigins
            DEF Liquidate, SameStatuses, NoNewClaims
<1>5. ASSUME NEW p \in Positions, NEW price \in Prices, UpdateWarning(l, p, price)
      PROVE  IssueInv'
    <2>1. SameOrigins
        BY <1>0, <1>5 DEF UpdateWarning, SameOrigins, Exists, Position
    <2> QED BY <1>1, <1>2, <1>5, <2>1, StatusesAndOrigins
            DEF UpdateWarning, SameStatuses, NoNewClaims
<1>6. ASSUME NEW p \in Positions, LiquidationSkips(l, p)
      PROVE  IssueInv'
    BY <1>1, <1>2, <1>6, StatusesAndOrigins
       DEF LiquidationSkips, SameStatuses, SameOrigins, Exists, NoNewClaims
<1> QED BY <1>3, <1>4, <1>5, <1>6 DEF LiquidationStep

LEMMA CrashIssues == TypeInv /\ IssueInv /\ Crash => IssueInv'
<1> SUFFICES ASSUME TypeInv, IssueInv, Crash PROVE IssueInv'
    OBVIOUS
<1>1. SameStatuses /\ SameOrigins
    BY DEF Crash, SameStatuses, SameOrigins, Exists
<1>2. NoNewClaims
    BY DEF Crash, NoNewClaims, IdleFulfiller, Undecided
<1>3. \A l \in Liquidators, p \in Positions : liquidator'[l][p].status # "ACTIVE"
    BY RowsTyped DEF Crash, NoRows
<1> QED BY <1>1, <1>2, <1>3, StatusesAndOrigins

LEMMA IssueInit == Init => IssueInv
BY DEF Init, IssueInv, IssuedFulfilled, OpenedFromRequest, Exists, OnePositionEach,
       ClaimIsFree, ClaimIsExclusive, SnapshotsExist, Undecided, NoPositionRow,
       IdleFulfiller, NoRows

LEMMA IssueInductive ==
    ASSUME ~LinkFaults
    PROVE  TypeInv /\ IssueInv /\ [Next]_vars => IssueInv'
<1>1. TypeInv /\ IssueInv /\ Next => IssueInv'
    BY RequestStepIssues, MoneyStepIssues, FulfilStepIssues, YieldStepIssues,
       LiquidationStepIssues, CrashIssues DEF Next
<1>2. IssueInv /\ UNCHANGED vars => IssueInv'
    BY DEF vars, serverState, IssueInv, IssuedFulfilled, OpenedFromRequest, Exists,
           OnePositionEach, ClaimIsFree, ClaimIsExclusive, SnapshotsExist
<1> QED BY <1>1, <1>2

(* Whatever the deposits, crashes and failed issues in between, a request   *)
(* yields at most one position, as long as linking the position works.      *)
THEOREM IssuedOnce ==
    ASSUME ~LinkFaults
    PROVE  Spec => []CreditIssuedOnce
<1>1. IssueInv => CreditIssuedOnce
    BY DEF IssueInv, OnePositionEach, OpenedFromRequest, CreditIssuedOnce
<1> QED BY <1>1, IssueInit, IssueInductive, TypeInvariant, PTL DEF Spec

(* From the same invariant: which status changes a step may make.           *)
LEMMA StepsAllowed ==
    ASSUME ~LinkFaults, TypeInv, IssueInv, [Next]_vars, NEW q \in Requests
    PROVE  AllowedRequestStep(q)
<1>0. requests \in [Requests -> Request]
    BY DEF TypeInv, TypeOK
<1>1. CASE requests'[q].status = requests[q].status
    BY <1>1 DEF AllowedRequestStep
<1>2. ASSUME NEW t \in Tabs, NEW r \in Requests, CreateRequest(t, r)
      PROVE  AllowedRequestStep(q)
    <2>1. CASE q = r
        BY <1>0, <1>2, <2>1 DEF CreateRequest, NextRequest, NoRequestRow, AllowedRequestStep
    <2>2. CASE q # r
        BY <1>0, <1>1, <1>2, <2>2 DEF CreateRequest
    <2> QED BY <2>1, <2>2
<1>3. ASSUME NEW r \in Requests, Approve(r) \/ Reject(r)
      PROVE  AllowedRequestStep(q)
    <2>1. CASE q = r
        <3>1. requests[q].status = "PENDING"
            BY <1>3, <2>1 DEF Approve, Reject
        <3>2. CASE Approve(r)
            BY <1>0, <2>1, <3>1, <3>2 DEF Approve, AllowedRequestStep, Request
        <3>3. CASE Reject(r)
            BY <1>0, <2>1, <3>1, <3>3 DEF Reject, AllowedRequestStep, Request
        <3> QED BY <1>3, <3>2, <3>3
    <2>2. CASE q # r
        BY <1>0, <1>1, <1>3, <2>2 DEF Approve, Reject
    <2> QED BY <2>1, <2>2
<1>4. ASSUME NEW t \in Tabs, FreezePledge(t)
      PROVE  AllowedRequestStep(q)
    BY <1>0, <1>1, <1>4 DEF FreezePledge, Request
<1>5. CASE RequestStep
    BY <1>1, <1>2, <1>3, <1>4, <1>5 DEF RequestStep, CheckNoActiveRequest, CheckPledge
<1>6. ASSUME NEW f \in Fulfillers, Claim(f)
      PROVE  AllowedRequestStep(q)
    <2>1. CASE q = fulfiller[f].request /\ ClaimGranted(q)
        BY <1>0, <1>6, <2>1 DEF Claim, ClaimGranted, AllowedRequestStep, Request
    <2>2. CASE ~(q = fulfiller[f].request /\ ClaimGranted(q))
        BY <1>0, <1>1, <1>6, <2>2 DEF Claim
    <2> QED BY <2>1, <2>2
<1>7. ASSUME NEW f \in Fulfillers, Link(f)
      PROVE  AllowedRequestStep(q)
    BY <1>0, <1>1, <1>7 DEF Link, Request
<1>8. ASSUME NEW f \in Fulfillers, Revert(f)
      PROVE  AllowedRequestStep(q)
    <2>1. CASE q = fulfiller[f].request /\ Revertible(q)
        <3>1. requests[q].status = "FULFILLED" /\ requests'[q].status = "APPROVED"
            BY <1>0, <1>8, <2>1 DEF Revert, Revertible, Request
        <3>2. \A p \in Positions : positions[p].request # q
            BY <1>8, <2>1 DEF Revert, IssueInv, ClaimIsFree, Undecided
        <3> QED BY <3>1, <3>2 DEF AllowedRequestStep
    <2>2. CASE ~(q = fulfiller[f].request /\ Revertible(q))
        BY <1>0, <1>1, <1>8, <2>2 DEF Revert
    <2> QED BY <2>1, <2>2
<1>9. ASSUME NEW f \in Fulfillers, FulfilStep(f)
      PROVE  AllowedRequestStep(q)
    BY <1>1, <1>6, <1>7, <1>8, <1>9
       DEF FulfilStep, FindApproved, CheckBalance, Issue, IssueFails, LinkFails
<1>10. CASE UNCHANGED requests
    BY <1>1, <1>10
<1>11. CASE MoneyStep
    BY <1>10, <1>11 DEF MoneyStep, Deposit, Withdraw, CardSpend, Repay
<1>12. ASSUME NEW y \in YieldRunners, YieldStep(y)
       PROVE  AllowedRequestStep(q)
    BY <1>10, <1>12 DEF YieldStep, YieldStart, YieldCheck, YieldRepay, YieldSkips, YieldAdvance,
                        YieldAdvanceFails
<1>13. ASSUME NEW l \in Liquidators, LiquidationStep(l)
       PROVE  AllowedRequestStep(q)
    BY <1>10, <1>13 DEF LiquidationStep, LiquidationStart, Liquidate, UpdateWarning,
                        LiquidationSkips
<1>14. CASE Crash \/ UNCHANGED vars
    BY <1>10, <1>14 DEF Crash, vars
<1> QED BY <1>5, <1>9, <1>11, <1>12, <1>13, <1>14 DEF Next

(* A request goes through its statuses in the order of the code, and the    *)
(* catch block never gives back a claim on which credit was issued.         *)
THEOREM LifecycleKept ==
    ASSUME ~LinkFaults
    PROVE  Spec => RequestLifecycle
<1>1. TypeInv /\ IssueInv /\ [Next]_vars => [\A r \in Requests : AllowedRequestStep(r)]_vars
    BY StepsAllowed
<1> QED BY <1>1, IssueInit, IssueInductive, TypeInvariant, PTL DEF Spec, RequestLifecycle

-----------------------------------------------------------------------------
(* Claims.  A request that is FULFILLED without a position is held by the   *)
(* process that claimed it, and by no other: a claim needs an APPROVED      *)
(* request, and the process leaves it linked or APPROVED again.  Only a     *)
(* restart makes it leave the claim behind.                                 *)

Claimed(r) == requests[r].status = "FULFILLED" /\ requests[r].position = 0

ClaimedIsHeld == \A r \in Requests : Claimed(r) => \E f \in Fulfillers : Holds(f, r)
HeldIsClaimed == \A r \in Requests, f \in Fulfillers : Holds(f, r) => Claimed(r)
HeldOnce == \A r \in Requests, f, g \in Fulfillers : Holds(f, r) /\ Holds(g, r) => f = g
LinkedFulfilled ==
    \A r \in Requests : requests[r].position # 0 => requests[r].status = "FULFILLED"
LinkKnown == \A f \in Fulfillers : fulfiller[f].pc = "link" => fulfiller[f].position # 0

OwnerInv == ClaimedIsHeld /\ HeldIsClaimed /\ HeldOnce /\ LinkedFulfilled /\ LinkKnown

(* What the invariant speaks of, when a step leaves it alone.               *)
SameClaims == \A r \in Requests : requests'[r].status = requests[r].status
                                  /\ requests'[r].position = requests[r].position
SameHolders == \A f \in Fulfillers :
    /\ \A r \in Requests : Holds(f, r)' <=> Holds(f, r)
    /\ fulfiller'[f].pc = "link" => fulfiller'[f].position # 0

LEMMA ClaimsAndHolders ==
    ASSUME OwnerInv, SameClaims, SameHolders
    PROVE  OwnerInv'
<1>1. \A r \in Requests : Claimed(r)' = Claimed(r)
    BY DEF SameClaims, Claimed
<1>2. ClaimedIsHeld' /\ HeldIsClaimed' /\ HeldOnce'
    BY <1>1 DEF OwnerInv, ClaimedIsHeld, HeldIsClaimed, HeldOnce, SameHolders
<1>3. LinkedFulfilled' /\ LinkKnown'
    BY DEF OwnerInv, LinkedFulfilled, LinkKnown, SameClaims, SameHolders
<1> QED BY <1>2, <1>3 DEF OwnerInv

LEMMA HoldersStay ==
    ASSUME OwnerInv, UNCHANGED fulfiller
    PROVE  SameHolders
BY DEF OwnerInv, LinkKnown, SameHolders, Holds

LEMMA RequestStepOwned == TypeInv /\ OwnerInv /\ RequestStep => OwnerInv'
<1> SUFFICES ASSUME TypeInv, OwnerInv, RequestStep PROVE OwnerInv'
    OBVIOUS
<1>0. requests \in [Requests -> Request]
    BY DEF TypeInv, TypeOK
<1>1. UNCHANGED fulfiller
    BY DEF RequestStep, CheckNoActiveRequest, CreateRequest, CheckPledge, FreezePledge,
           Approve, Reject, serverState
<1>2. \A q \in Requests :
         \/ /\ requests'[q].status = requests[q].status
            /\ requests'[q].position = requests[q].position
         \/ /\ requests[q].status \in {"none", "PENDING"}
            /\ requests'[q].status # "FULFILLED"
            /\ requests'[q].position \in {0, requests[q].position}
    <2>1. ASSUME NEW r \in Requests, NEW q \in Requests, Approve(r)
          PROVE  \/ requests'[q] = requests[q]
                 \/ /\ requests[q].status = "PENDING" /\ requests'[q].status = "APPROVED"
                    /\ requests'[q].position = requests[q].position
        BY <1>0, <2>1 DEF Approve, Request
    <2>2. ASSUME NEW r \in Requests, NEW q \in Requests, Reject(r)
          PROVE  \/ requests'[q] = requests[q]
                 \/ /\ requests[q].status = "PENDING" /\ requests'[q].status = "REJECTED"
                    /\ requests'[q].position = requests[q].position
        BY <1>0, <2>2 DEF Reject, Request
    <2>3. ASSUME NEW t \in Tabs, NEW r \in Requests, NEW q \in Requests, CreateRequest(t, r)
          PROVE  \/ requests'[q] = requests[q]
                 \/ /\ requests[q].status = "none" /\ requests'[q].status = "PENDING"
                    /\ requests'[q].position = 0
        BY <1>0, <2>3 DEF CreateRequest, NextRequest, NoRequestRow
    <2>4. ASSUME NEW t \in Tabs, FreezePledge(t), NEW q \in Requests
          PROVE  /\ requests'[q].status = requests[q].status
                 /\ requests'[q].position = requests[q].position
        BY <1>0, <2>4 DEF FreezePledge, Request
    <2> QED BY <2>1, <2>2, <2>3, <2>4 DEF RequestStep, CheckNoActiveRequest, CheckPledge
<1>3. \A r \in Requests, f \in Fulfillers : Holds(f, r)' <=> Holds(f, r)
    BY <1>1 DEF Holds
<1>4. \A r \in Requests : Claimed(r)' = Claimed(r)
    BY <1>2 DEF Claimed
<1>5. ClaimedIsHeld' /\ HeldIsClaimed' /\ HeldOnce'
    BY <1>3, <1>4 DEF OwnerInv, ClaimedIsHeld, HeldIsClaimed, HeldOnce
<1>6. LinkedFulfilled'
    BY <1>2 DEF OwnerInv, LinkedFulfilled
<1>7. LinkKnown'
    BY <1>1 DEF OwnerInv, LinkKnown
<1> QED BY <1>5, <1>6, <1>7 DEF OwnerInv

LEMMA MoneyStepOwned == TypeInv /\ OwnerInv /\ MoneyStep => OwnerInv'
<1> SUFFICES ASSUME TypeInv, OwnerInv, MoneyStep PROVE OwnerInv'
    OBVIOUS
<1>1. SameClaims
    BY DEF MoneyStep, Deposit, Withdraw, CardSpend, Repay, SameClaims
<1>2. SameHolders
    <2>1. ASSUME NEW f \in Fulfillers, NEW x \in Deposits, Deposit(f, x)
          PROVE  SameHolders
        BY <2>1 DEF Deposit, Goto, SameHolders, Holds, TypeInv, TypeOK, Fulfiller,
                    OwnerInv, LinkKnown
    <2>2. UNCHANGED fulfiller => SameHolders
        BY HoldersStay
    <2> QED BY <2>1, <2>2 DEF MoneyStep, Withdraw, CardSpend, Repay, serverState
<1> QED BY <1>1, <1>2, ClaimsAndHolders

LEMMA FulfilStepOwned ==
    ASSUME NEW f \in Fulfillers
    PROVE  TypeInv /\ OwnerInv /\ FulfilStep(f) => OwnerInv'
<1> SUFFICES ASSUME TypeInv, OwnerInv, FulfilStep(f) PROVE OwnerInv'
    OBVIOUS
<1>0. /\ requests \in [Requests -> Request]
      /\ fulfiller \in [Fulfillers -> Fulfiller]
      /\ \A g \in Fulfillers : fulfiller[g].pc \in Searched => fulfiller[g].request \in Requests
    BY DEF TypeInv, TypeOK, RequestFound
<1> DEFINE r == fulfiller[f].request
<1>1. ASSUME UNCHANGED requests, fulfiller[f].pc \notin {"issue", "link", "revert"},
             fulfiller'[f].pc \notin {"issue", "link", "revert"},
             \A g \in Fulfillers : g # f => fulfiller'[g] = fulfiller[g]
      PROVE  OwnerInv'
    <2>1. SameClaims
        BY <1>1 DEF SameClaims
    <2>2. SameHolders
        BY <1>1 DEF SameHolders, Holds, OwnerInv, LinkKnown
    <2> QED BY <2>1, <2>2, ClaimsAndHolders
<1>2. CASE FindApproved(f)
    <2>1. CASE Finish(f)
        <3>1. /\ fulfiller'[f].pc = "idle"
              /\ \A g \in Fulfillers : g # f => fulfiller'[g] = fulfiller[g]
            BY <1>0, <2>1 DEF Finish, IdleFulfiller
        <3> QED BY <1>1, <1>2, <3>1 DEF FindApproved
    <2>2. CASE ~Finish(f)
        <3>1. PICK q \in Requests :
                 fulfiller' = [fulfiller EXCEPT ![f] =
                                 [IdleFulfiller EXCEPT !.pc = "balance", !.request = q,
                                                       !.currency = requests[q].currency]]
            BY <1>2, <2>2, Zenon DEF FindApproved
        <3>2. /\ fulfiller'[f].pc = "balance"
              /\ \A g \in Fulfillers : g # f => fulfiller'[g] = fulfiller[g]
            BY <1>0, <3>1 DEF IdleFulfiller
        <3> QED BY <1>1, <1>2, <3>2 DEF FindApproved
    <2> QED BY <2>1, <2>2
<1>3. CASE CheckBalance(f) \/ (Claim(f) /\ ~ClaimGranted(r))
    <2>1. /\ fulfiller'[f].pc \in {"idle", "claim"}
          /\ \A g \in Fulfillers : g # f => fulfiller'[g] = fulfiller[g]
        <3>1. CASE Finish(f)
            BY <1>0, <3>1 DEF Finish, IdleFulfiller
        <3>2. CASE Goto(f, "claim")
            BY <1>0, <3>2 DEF Goto, Fulfiller
        <3> QED BY <1>3, <3>1, <3>2 DEF CheckBalance, Claim
    <2>2. fulfiller[f].pc \in {"balance", "claim"} /\ UNCHANGED requests
        BY <1>3 DEF CheckBalance, Claim
    <2> QED BY <1>1, <2>1, <2>2
<1>4. CASE Claim(f) /\ ClaimGranted(r)
    <2>1. /\ requests' = [requests EXCEPT ![r].status = "FULFILLED"]
          /\ fulfiller' = [fulfiller EXCEPT ![f].pc = "issue"]
          /\ fulfiller[f].pc = "claim"
        BY <1>4 DEF Claim, Goto
    <2>2. r \in Requests /\ requests[r].status = "APPROVED"
        BY <1>0, <1>4, <2>1 DEF ClaimGranted, Searched
    <2>3. requests[r].position = 0 /\ ~Claimed(r)
        BY <2>2 DEF OwnerInv, LinkedFulfilled, Claimed
    <2>4. \A g \in Fulfillers : ~Holds(g, r)
        BY <2>2, <2>3 DEF OwnerInv, HeldIsClaimed
    <2>5. /\ requests'[r].status = "FULFILLED" /\ requests'[r].position = 0
          /\ \A q \in Requests : q # r => requests'[q] = requests[q]
        BY <1>0, <2>1, <2>2, <2>3 DEF Request
    <2>6. /\ fulfiller'[f].pc = "issue" /\ fulfiller'[f].request = r
          /\ \A g \in Fulfillers : g # f => fulfiller'[g] = fulfiller[g]
        BY <1>0, <2>1 DEF Fulfiller
    <2>7. \A q \in Requests, g \in Fulfillers :
             Holds(g, q)' <=> Holds(g, q) \/ (g = f /\ q = r)
        BY <2>1, <2>6 DEF Holds
    <2>8. \A q \in Requests : Claimed(q)' <=> Claimed(q) \/ q = r
        BY <2>5 DEF Claimed
    <2>9. ClaimedIsHeld' /\ HeldIsClaimed' /\ HeldOnce'
        BY <2>4, <2>7, <2>8 DEF OwnerInv, ClaimedIsHeld, HeldIsClaimed, HeldOnce
    <2>10. LinkedFulfilled' /\ LinkKnown'
        BY <2>5, <2>6 DEF OwnerInv, LinkedFulfilled, LinkKnown
    <2> QED BY <2>9, <2>10 DEF OwnerInv
<1>5. CASE (\E p \in Positions, price \in Prices : Issue(f, p, price)) \/ IssueFails(f) \/ LinkFails(f)
    <2>1. SameClaims
        BY <1>5 DEF Issue, IssueFails, LinkFails, SameClaims
    <2>2. ASSUME NEW p \in Positions, NEW price \in Prices, Issue(f, p, price)
          PROVE  SameHolders
        <3>1. p # 0
            BY IdsAssumption
        <3>2. /\ fulfiller[f].pc = "issue" /\ fulfiller'[f].pc = "link"
              /\ fulfiller'[f].request = fulfiller[f].request /\ fulfiller'[f].position = p
              /\ \A g \in Fulfillers : g # f => fulfiller'[g] = fulfiller[g]
            BY <1>0, <2>2 DEF Issue, Fulfiller
        <3> QED BY <3>1, <3>2 DEF SameHolders, Holds, OwnerInv, LinkKnown
    <2>3. ASSUME IssueFails(f) \/ LinkFails(f)
          PROVE  SameHolders
        <3>1. /\ fulfiller[f].pc \in {"issue", "link"}
              /\ fulfiller' = [fulfiller EXCEPT ![f].pc = "revert"]
            BY <2>3, Zenon DEF IssueFails, LinkFails, Goto
        <3>2. /\ fulfiller'[f].pc = "revert"
              /\ fulfiller'[f].request = fulfiller[f].request
              /\ \A g \in Fulfillers : g # f => fulfiller'[g] = fulfiller[g]
            BY <1>0, <3>1 DEF Fulfiller
        <3>3. \A q \in Requests : Holds(f, q)' <=> Holds(f, q)
            BY <3>1, <3>2 DEF Holds
        <3>4. \A g \in Fulfillers, q \in Requests : Holds(g, q)' <=> Holds(g, q)
            BY <3>2, <3>3 DEF Holds
        <3>5. ASSUME NEW g \in Fulfillers, fulfiller'[g].pc = "link"
              PROVE  fulfiller'[g].position # 0
            <4>1. g # f /\ fulfiller'[g] = fulfiller[g]
                BY <3>2, <3>5
            <4>2. fulfiller[g].pc = "link" => fulfiller[g].position # 0
                BY DEF OwnerInv, LinkKnown
            <4> QED BY <3>5, <4>1, <4>2
        <3> QED BY <3>4, <3>5 DEF SameHolders
    <2> QED BY <1>5, <2>1, <2>2, <2>3, ClaimsAndHolders
<1>6. ASSUME r \in Requests, Holds(f, r),
             fulfiller' = [fulfiller EXCEPT ![f] = IdleFulfiller],
             \A q \in Requests : q # r => requests'[q] = requests[q],
             \/ requests'[r].status = "FULFILLED" /\ requests'[r].position # 0
             \/ requests'[r].status = "APPROVED" /\ requests'[r].position = 0
      PROVE  OwnerInv'
    <2>1. /\ fulfiller'[f].pc = "idle"
          /\ \A g \in Fulfillers : g # f => fulfiller'[g] = fulfiller[g]
        BY <1>0, <1>6 DEF IdleFulfiller
    <2>2. \A q \in Requests, g \in Fulfillers : Holds(g, q)' <=> Holds(g, q) /\ g # f
        BY <2>1 DEF Holds
    <2>3. \A g \in Fulfillers : Holds(g, r) => g = f
        BY <1>6 DEF OwnerInv, HeldOnce
    <2>4. \A q \in Requests : Claimed(q)' <=> Claimed(q) /\ q # r
        BY <1>6 DEF Claimed
    <2>5. \A q \in Requests : Holds(f, q) => q = r
        BY DEF Holds
    <2>6. ClaimedIsHeld' /\ HeldIsClaimed' /\ HeldOnce'
        BY <2>2, <2>3, <2>4, <2>5 DEF OwnerInv, ClaimedIsHeld, HeldIsClaimed, HeldOnce
    <2>7. LinkedFulfilled' /\ LinkKnown'
        BY <1>6, <2>1 DEF OwnerInv, LinkedFulfilled, LinkKnown
    <2> QED BY <2>6, <2>7 DEF OwnerInv
<1>7. CASE Link(f)
    <2>1. r \in Requests /\ Holds(f, r)
        BY <1>0, <1>7 DEF Link, Holds, Searched
    <2>2. Claimed(r) /\ fulfiller[f].position # 0
        BY <1>7, <2>1 DEF OwnerInv, HeldIsClaimed, LinkKnown, Link
    <2>3. /\ requests'[r].status = "FULFILLED" /\ requests'[r].position # 0
          /\ \A q \in Requests : q # r => requests'[q] = requests[q]
        BY <1>0, <1>7, <2>1, <2>2 DEF Link, Claimed, Request
    <2> QED BY <1>6, <1>7, <2>1, <2>3 DEF Link, Finish
<1>8. CASE Revert(f)
    <2>1. r \in Requests /\ Holds(f, r)
        BY <1>0, <1>8 DEF Revert, Holds, Searched
    <2>2. Claimed(r)
        BY <2>1 DEF OwnerInv, HeldIsClaimed
    <2>3. requests' = [requests EXCEPT ![r].status = "APPROVED"]
        BY <1>8, <2>2 DEF Revert, Revertible, Claimed
    <2>4. /\ requests'[r].status = "APPROVED" /\ requests'[r].position = 0
          /\ \A q \in Requests : q # r => requests'[q] = requests[q]
        BY <1>0, <2>1, <2>2, <2>3 DEF Claimed, Request
    <2> QED BY <1>6, <1>8, <2>1, <2>4 DEF Revert, Finish
<1> QED BY <1>2, <1>3, <1>4, <1>5, <1>7, <1>8 DEF FulfilStep

LEMMA OwnerInit == Init => OwnerInv
BY DEF Init, OwnerInv, ClaimedIsHeld, HeldIsClaimed, HeldOnce, LinkedFulfilled, LinkKnown,
       Claimed, Holds, NoRequestRow, IdleFulfiller

LEMMA OwnerInductive ==
    ASSUME ~Crashes
    PROVE  TypeInv /\ OwnerInv /\ [Next]_vars => OwnerInv'
<1> SUFFICES ASSUME TypeInv, OwnerInv, [Next]_vars PROVE OwnerInv'
    OBVIOUS
<1>1. UNCHANGED <<requests, fulfiller>> => OwnerInv'
    BY HoldersStay, ClaimsAndHolders DEF SameClaims
<1>2. ASSUME NEW y \in YieldRunners, YieldStep(y)
      PROVE  UNCHANGED <<requests, fulfiller>>
    BY <1>2 DEF YieldStep, YieldStart, YieldCheck, YieldRepay, YieldSkips, YieldAdvanceFails, YieldAdvance
<1>3. ASSUME NEW l \in Liquidators, LiquidationStep(l)
      PROVE  UNCHANGED <<requests, fulfiller>>
    BY <1>3 DEF LiquidationStep, LiquidationStart, Liquidate, UpdateWarning, LiquidationSkips
<1>4. UNCHANGED vars => UNCHANGED <<requests, fulfiller>>
    BY DEF vars, serverState
<1>5. ~Crash
    BY DEF Crash
<1> QED BY <1>1, <1>2, <1>3, <1>4, <1>5, RequestStepOwned, MoneyStepOwned, FulfilStepOwned
        DEF Next

(* As long as the server runs, a claimed request is in the hands of exactly *)
(* one tryAutoFulfill, whatever fails on the way.                           *)
THEOREM ClaimOwned ==
    ASSUME ~Crashes
    PROVE  Spec => []ClaimHasOwner
<1>1. ASSUME OwnerInv PROVE ClaimHasOwner
    <2> SUFFICES ASSUME NEW r \in Requests, Claimed(r)
                 PROVE  Cardinality({f \in Fulfillers : Holds(f, r)}) = 1
        BY DEF ClaimHasOwner, Claimed
    <2>1. PICK f \in Fulfillers : Holds(f, r)
        BY <1>1 DEF OwnerInv, ClaimedIsHeld
    <2>2. {g \in Fulfillers : Holds(g, r)} = {f}
        BY <1>1, <2>1 DEF OwnerInv, HeldOnce
    <2>3. Cardinality({f}) = 1
        BY FS_Singleton
    <2> QED BY <2>2, <2>3
<1> QED BY <1>1, OwnerInit, OwnerInductive, TypeInvariant, PTL DEF Spec

=============================================================================
