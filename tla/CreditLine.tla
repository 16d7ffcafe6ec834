----------------------------- MODULE CreditLine -----------------------------
(***************************************************************************)
(* The credit line of one client: the ledger row, the credit requests, the *)
(* positions opened against collateral, and everything that runs on them   *)
(* at the same time.  All statements are keyed by the client, so clients   *)
(* do not interact and one is enough.                                      *)
(*                                                                         *)
(* Postgres runs at READ COMMITTED.  A transaction whose first statement   *)
(* updates the ledger row holds that row until it commits, so it is one    *)
(* action here; what a handler reads before, and what it does after the    *)
(* transaction, are actions of their own, and a process remembers what it  *)
(* has read.  Prices are external: a process that asks for one may get any *)
(* price, or none.                                                         *)
(***************************************************************************)
EXTENDS Ledger, FiniteSets

CONSTANTS
    Requests,      \* ids of credit requests, in order of creation
    Positions,     \* ids of credit positions, in order of creation
    Amounts,       \* collateral a client may ask to pledge
    Deposits, Withdrawals, Spends, Repayments,  \* amounts of the movements
    Interests,     \* interest a repayment may cost
    Prices,        \* spot prices of the pledged asset
    Currencies,    \* assets a request may be frozen on
    Eligible,      \* those whose price moves: YIELD_ELIGIBLE_CURRENCIES
    NoCurrency,    \* the null of the column
    Tabs,          \* concurrent calls of the client
    Fulfillers,    \* concurrent deposits, each followed by tryAutoFulfill
    YieldRunners,  \* passes of the yield job that may overlap
    Liquidators,   \* passes of the liquidation job that may overlap
    MaxFunds,      \* bound: a deposit stops at this much money in the account
    MaxUnmarked,   \* bound: no further update of the yield job fails beyond this
    Crashes,       \* whether the server process may restart
    LinkFaults     \* whether recording the position on the request may fail

ASSUME IdsAssumption ==
    /\ Requests \subseteq Nat \ {0}
    /\ Positions \subseteq Nat \ {0}

\* Credit and fee are exact when the collateral is a number of hundreds.
ASSUME MoneyAssumption ==
    /\ \A c \in Amounts : c \in Nat \ {0} /\ c % 100 = 0
    /\ Deposits \cup Withdrawals \cup Spends \cup Repayments \cup Prices \subseteq Nat \ {0}
    /\ Interests \subseteq Nat
    /\ MaxFunds \in Nat
    /\ MaxUnmarked \in Nat

\* So is the number of tokens a collateral buys.
ASSUME TokensAssumption == \A c \in Amounts, price \in Prices : c % price = 0

ASSUME SettingAssumption ==
    /\ Eligible \subseteq Currencies
    /\ NoCurrency \notin Currencies
    /\ Crashes \in BOOLEAN
    /\ LinkFaults \in BOOLEAN

VARIABLES
    ledger,     \* the client's row of ledger_balances
    requests,   \* credit_requests
    positions,  \* credit_positions
    tab,        \* what each concurrent call of the client has read
    fulfiller,  \* what each tryAutoFulfill has read and done
    yielder,    \* what each yield pass has read and done
    liquidator, \* the snapshot each liquidation pass works from
    booked,     \* history: money in, less money out, according to the journal
    yieldPaid,  \* history: YIELD_REPAYMENT rows written for each position
    unmarked    \* history: those that no update, or none yet, marked on the row

serverState == <<tab, fulfiller, yielder, liquidator>>
history == <<booked, yieldPaid, unmarked>>
vars == <<ledger, requests, positions, serverState, history>>

-----------------------------------------------------------------------------
(* Rates (rate.constants.ts, ledger.constants.ts): the credit is 350% of    *)
(* the collateral, the origination fee 2% of the credit, and the yield of a *)
(* collateral repays at most 60% of the credit of its position.             *)

CreditFor(collateral) == (7 * collateral) \div 2
OriginationFee(collateral) == (2 * CreditFor(collateral)) \div 100
YieldCap(credit) == (60 * credit) \div 100

\* Depreciation thresholds of the liquidation engine, 50% and 30% of the
\* value at entry.  The collateral divides out of both sides.
LiquidationTriggered(entry, price) == 2 * price <= entry
LiquidationWarned(entry, price) == 10 * price <= 7 * entry

Least(a, b) == IF a <= b THEN a ELSE b

-----------------------------------------------------------------------------
(* Rows and processes. *)

RequestStatus == {"none", "PENDING", "APPROVED", "REJECTED", "FULFILLED"}
PositionStatus == {"none", "ACTIVE", "CLOSED", "LIQUIDATED"}

AnyCurrency == Currencies \cup {NoCurrency}

Request == [status : RequestStatus, amount : Nat, currency : AnyCurrency,
            position : Positions \cup {0}]

\* `request' is history: the row of the code has no such column.
Position == [status : PositionStatus, collateral : Nat, credit : Nat,
             currency : AnyCurrency, entry : Nat, applied : Nat, yielded : Nat,
             warned : BOOLEAN, request : Requests \cup {0}]

NoRequestRow == [status |-> "none", amount |-> 0, currency |-> NoCurrency, position |-> 0]

NoPositionRow == [status |-> "none", collateral |-> 0, credit |-> 0,
                  currency |-> NoCurrency, entry |-> 0, applied |-> 0, yielded |-> 0,
                  warned |-> FALSE, request |-> 0]

Tab == [op : {"idle", "create", "pledge"}, amount : Nat,
        request : Requests \cup {0}, currency : AnyCurrency]

IdleTab == [op |-> "idle", amount |-> 0, request |-> 0, currency |-> NoCurrency]

Fulfiller == [pc : {"idle", "find", "balance", "claim", "issue", "link", "revert"},
              request : Requests \cup {0}, currency : AnyCurrency,
              position : Positions \cup {0}]

IdleFulfiller == [pc |-> "idle", request |-> 0, currency |-> NoCurrency, position |-> 0]

\* A pass of a job walks through a copy of rows; a treated row becomes blank.
Yielder == [pc : {"check", "repay", "advance"}, rows : [Positions -> Position],
            position : Positions \cup {0}, due : Nat, price : Nat]

NoRows == [p \in Positions |-> NoPositionRow]

IdleYielder == [pc |-> "check", rows |-> NoRows, position |-> 0, due |-> 0, price |-> 0]

(* Type correctness; the balances are natural numbers, so this also says    *)
(* that no statement ever overdraws the client's row (LedgerService).       *)
TypeOK ==
    /\ ledger \in LedgerRow
    /\ requests \in [Requests -> Request]
    /\ positions \in [Positions -> Position]
    /\ tab \in [Tabs -> Tab]
    /\ fulfiller \in [Fulfillers -> Fulfiller]
    /\ yielder \in [YieldRunners -> Yielder]
    /\ liquidator \in [Liquidators -> [Positions -> Position]]
    /\ booked \in Int
    /\ yieldPaid \in [Positions -> Nat]
    /\ unmarked \in [Positions -> Int]

Init ==
    /\ ledger = EmptyLedger
    /\ requests = [r \in Requests |-> NoRequestRow]
    /\ positions = [p \in Positions |-> NoPositionRow]
    /\ tab = [t \in Tabs |-> IdleTab]
    /\ fulfiller = [f \in Fulfillers |-> IdleFulfiller]
    /\ yielder = [y \in YieldRunners |-> IdleYielder]
    /\ liquidator = [l \in Liquidators |-> NoRows]
    /\ booked = 0
    /\ yieldPaid = [p \in Positions |-> 0]
    /\ unmarked = [p \in Positions |-> 0]

-----------------------------------------------------------------------------
(* Helpers on the tables. *)

ActiveStatuses == {"PENDING", "APPROVED"}

\* Ids are handed out in order.
NextRequest(r) == /\ requests[r].status = "none"
                  /\ \A q \in Requests : q < r => requests[q].status # "none"

NextPosition(p) == /\ positions[p].status = "none"
                   /\ \A q \in Positions : q < p => positions[q].status # "none"

Active(p) == positions[p].status = "ACTIVE"

\* What both jobs select: ACTIVE positions on an asset whose price moves.
Tracked(row) == row.status = "ACTIVE" /\ row.currency \in Eligible

Snapshot == [p \in Positions |-> IF Tracked(positions[p]) THEN positions[p] ELSE NoPositionRow]

-----------------------------------------------------------------------------
(* Credit requests: the client's and the bank's side. *)

\* At most one request may be PENDING or APPROVED.
MayCreate == \A r \in Requests : requests[r].status \notin ActiveStatuses

\* Bound: as many creations under way as there are ids left.
RoomForRequest ==
    \E r \in Requests : /\ requests[r].status = "none"
                        /\ Cardinality({t \in Tabs : tab[t].op = "create"})
                             < Cardinality({q \in Requests : requests[q].status = "none"})

CheckNoActiveRequest(t, c) ==
    /\ tab[t].op = "idle"
    /\ MayCreate
    /\ RoomForRequest
    /\ tab' = [tab EXCEPT ![t] = [IdleTab EXCEPT !.op = "create", !.amount = c]]
    /\ UNCHANGED <<ledger, requests, positions, fulfiller, yielder, liquidator, history>>

CreateRequest(t, r) ==
    /\ tab[t].op = "create"
    /\ NextRequest(r)
    /\ requests' = [requests EXCEPT ![r] =
                      [NoRequestRow EXCEPT !.status = "PENDING", !.amount = tab[t].amount]]
    /\ tab' = [tab EXCEPT ![t] = IdleTab]
    /\ UNCHANGED <<ledger, positions, fulfiller, yielder, liquidator, history>>

Approve(r) ==
    /\ requests[r].status = "PENDING"
    /\ requests' = [requests EXCEPT ![r].status = "APPROVED"]
    /\ UNCHANGED <<ledger, positions, serverState, history>>

Reject(r) ==
    /\ requests[r].status = "PENDING"
    /\ requests' = [requests EXCEPT ![r].status = "REJECTED"]
    /\ UNCHANGED <<ledger, positions, serverState, history>>

MayPledge(r) == requests[r].status = "APPROVED" /\ requests[r].currency = NoCurrency

\* generateDepositAddress, up to its check of the frozen asset.
CheckPledge(t, r, k) ==
    /\ tab[t].op = "idle"
    /\ MayPledge(r)
    /\ tab' = [tab EXCEPT ![t] = [IdleTab EXCEPT !.op = "pledge", !.request = r, !.currency = k]]
    /\ UNCHANGED <<ledger, requests, positions, fulfiller, yielder, liquidator, history>>

\* ... and its update by id, which looks at nothing again.
FreezePledge(t) ==
    /\ tab[t].op = "pledge"
    /\ requests' = [requests EXCEPT ![tab[t].request].currency = tab[t].currency]
    /\ tab' = [tab EXCEPT ![t] = IdleTab]
    /\ UNCHANGED <<ledger, positions, fulfiller, yielder, liquidator, history>>

-----------------------------------------------------------------------------
(* A deposit and tryAutoFulfill, which runs after the deposit committed.    *)

Finish(f) == fulfiller' = [fulfiller EXCEPT ![f] = IdleFulfiller]
Goto(f, pc) == fulfiller' = [fulfiller EXCEPT ![f].pc = pc]

Deposit(f, x) ==
    /\ fulfiller[f].pc = "idle"
    /\ ledger.avail + ledger.locked + x <= MaxFunds
    /\ ledger' = CreditAvailable(ledger, x)
    /\ booked' = booked + x
    /\ Goto(f, "find")
    /\ UNCHANGED <<requests, positions, tab, yielder, liquidator, yieldPaid, unmarked>>

FindApproved(f) ==
    /\ fulfiller[f].pc = "find"
    /\ \/ \E r \in Requests :
            /\ requests[r].status = "APPROVED"
            /\ fulfiller' = [fulfiller EXCEPT ![f] =
                               [IdleFulfiller EXCEPT !.pc = "balance", !.request = r,
                                                     !.currency = requests[r].currency]]
       \/ /\ \A r \in Requests : requests[r].status # "APPROVED"
          /\ Finish(f)
    /\ UNCHANGED <<ledger, requests, positions, tab, yielder, liquidator, history>>

RequiredBalance(r) == requests[r].amount + OriginationFee(requests[r].amount)

CheckBalance(f) ==
    /\ fulfiller[f].pc = "balance"
    /\ IF ledger.avail >= RequiredBalance(fulfiller[f].request)
       THEN Goto(f, "claim")
       ELSE Finish(f)
    /\ UNCHANGED <<ledger, requests, positions, tab, yielder, liquidator, history>>

ClaimGranted_Unguarded(r) == requests[r].status \in {"APPROVED", "FULFILLED"}

ClaimGranted(r) == requests[r].status = "APPROVED"

Claim(f) ==
    LET r == fulfiller[f].request IN
    /\ fulfiller[f].pc = "claim"
    /\ IF ClaimGranted(r)
       THEN /\ requests' = [requests EXCEPT ![r].status = "FULFILLED"]
            /\ Goto(f, "issue")
       ELSE Finish(f) /\ UNCHANGED requests
    /\ UNCHANGED <<ledger, positions, tab, yielder, liquidator, history>>

CanIssue_IgnoresFee(c) == CanLockCollateral(ledger, c)

\* The lock, then the fee on what the lock leaves.
CanIssue(c) ==
    /\ CanLockCollateral(ledger, c)
    /\ CanDebitAvailable(LockCollateral(ledger, c, CreditFor(c)), OriginationFee(c))

OpenPosition(r, currency, price) ==
    LET entry == IF currency \in Eligible THEN price ELSE 0 IN
    [NoPositionRow EXCEPT !.status = "ACTIVE",
                          !.collateral = requests[r].amount,
                          !.credit = CreditFor(requests[r].amount),
                          !.currency = currency,
                          !.entry = entry,
                          !.applied = entry,
                          !.request = r]

\* lockCollateralAndIssueCredit: all or nothing.
Issue(f, p, price) ==
    LET r == fulfiller[f].request
        c == requests[r].amount
    IN
    /\ fulfiller[f].pc = "issue"
    /\ CanIssue(c)
    /\ NextPosition(p)
    /\ ledger' = DebitAvailable(LockCollateral(ledger, c, CreditFor(c)), OriginationFee(c))
    /\ positions' = [positions EXCEPT ![p] = OpenPosition(r, fulfiller[f].currency, price)]
    /\ booked' = booked - OriginationFee(c)
    /\ fulfiller' = [fulfiller EXCEPT ![f].pc = "link", ![f].position = p]
    /\ UNCHANGED <<requests, tab, yielder, liquidator, yieldPaid, unmarked>>

\* No price, no exchange rate, no longer enough money, or a failed statement:
\* nothing of the transaction remains.
IssueFails(f) ==
    /\ fulfiller[f].pc = "issue"
    /\ Goto(f, "revert")
    /\ UNCHANGED <<ledger, requests, positions, tab, yielder, liquidator, history>>

Link(f) ==
    /\ fulfiller[f].pc = "link"
    /\ requests' = [requests EXCEPT ![fulfiller[f].request].position = fulfiller[f].position]
    /\ Finish(f)
    /\ UNCHANGED <<ledger, positions, tab, yielder, liquidator, history>>

\* The update that links the position fails inside the try block.
LinkFails(f) ==
    /\ LinkFaults
    /\ fulfiller[f].pc = "link"
    /\ Goto(f, "revert")
    /\ UNCHANGED <<ledger, requests, positions, tab, yielder, liquidator, history>>

Revertible_Never(r) == requests[r].status = "FULFILLED" /\ requests[r].position # 0

Revertible(r) == requests[r].status = "FULFILLED" /\ requests[r].position = 0

\* The catch block: the claim is given back for a next deposit.
Revert(f) ==
    LET r == fulfiller[f].request IN
    /\ fulfiller[f].pc = "revert"
    /\ requests' = IF Revertible(r) THEN [requests EXCEPT ![r].status = "APPROVED"]
                                    ELSE requests
    /\ Finish(f)
    /\ UNCHANGED <<ledger, positions, tab, yielder, liquidator, history>>

-----------------------------------------------------------------------------
(* Movements of the client's money. *)

Withdraw(x) ==
    /\ CanDebitAvailable(ledger, x)
    /\ ledger' = DebitAvailable(ledger, x)
    /\ booked' = booked - x
    /\ UNCHANGED <<requests, positions, serverState, yieldPaid, unmarked>>

\* External: no code increments usedCredit yet, the repayment code and its
\* tests take it as drawn by card payments within the granted credit.
CardSpend(x) ==
    /\ ledger.used + x <= ledger.granted
    /\ ledger' = [ledger EXCEPT !.used = @ + x]
    /\ UNCHANGED <<requests, positions, serverState, history>>

\* The interest is computed on the oldest ACTIVE position.  The transaction
\* reads it before it takes the row of the ledger: the position may have been
\* opened, closed or liquidated in between.
InterestDue == IF \E p \in Positions : positions[p].status # "none"
               THEN Interests \cup {0}
               ELSE {0}

\* Repayment, then interest on what the repayment may have released.
CanPayBack(x, i) ==
    /\ x > 0
    /\ CanRepay(ledger, x)
    /\ CanDebitAvailable(ApplyRepayment(ledger, x), i)

Closed_OldestOnly(x) ==
    [p \in Positions |->
        IF RepaysAll(ledger, x) /\ Active(p) /\ (\A q \in Positions : Active(q) => p <= q)
        THEN [positions[p] EXCEPT !.status = "CLOSED"]
        ELSE positions[p]]

Closed_AnyStatus(x) ==
    [p \in Positions |-> IF RepaysAll(ledger, x) /\ positions[p].status # "none"
                         THEN [positions[p] EXCEPT !.status = "CLOSED"]
                         ELSE positions[p]]

\* The positions after a repayment of x.
Closed(x) ==
    [p \in Positions |-> IF RepaysAll(ledger, x) /\ Active(p)
                         THEN [positions[p] EXCEPT !.status = "CLOSED"]
                         ELSE positions[p]]

\* repayCreditAndUnlockCollateral: all or nothing.
PayBack(x, i) ==
    /\ CanPayBack(x, i)
    /\ ledger' = DebitAvailable(ApplyRepayment(ledger, x), i)
    /\ positions' = Closed(x)
    /\ booked' = booked - i

Repay(x, i) ==
    /\ i \in InterestDue
    /\ PayBack(x, i)
    /\ UNCHANGED <<requests, serverState, yieldPaid, unmarked>>

-----------------------------------------------------------------------------
(* The yield job: the gain of a pledged asset since the price last applied  *)
(* repays used credit.  The repayment commits before the row advances.      *)

\* The pass is done with the row of p.
YieldTreated(y, p) ==
    yielder' = [yielder EXCEPT ![y] =
                  [IdleYielder EXCEPT !.rows = [yielder[y].rows EXCEPT ![p] = NoPositionRow]]]

YieldStart(y) ==
    /\ yielder[y] = IdleYielder
    /\ Snapshot # NoRows
    /\ yielder' = [yielder EXCEPT ![y].rows = Snapshot]
    /\ UNCHANGED <<ledger, requests, positions, tab, fulfiller, liquidator, history>>

Gain(row, price) == (price - row.applied) * (row.collateral \div row.entry)

Capacity_Uncapped(row) == row.credit

Capacity(row) == YieldCap(row.credit) - row.yielded

YieldOwed(row, price) == Capacity(row) > 0 /\ price > row.applied /\ ledger.used > 0

YieldCheck(y, p, price) ==
    LET row == yielder[y].rows[p] IN
    /\ yielder[y].pc = "check"
    /\ row.status = "ACTIVE"
    /\ IF YieldOwed(row, price)
       THEN yielder' = [yielder EXCEPT
              ![y].pc       = "repay",
              ![y].position = p,
              ![y].due      = Least(Least(Gain(row, price), Capacity(row)), ledger.used),
              ![y].price    = price]
       ELSE YieldTreated(y, p)
    /\ UNCHANGED <<ledger, requests, positions, tab, fulfiller, liquidator, history>>

YieldRepay(y, i) ==
    /\ yielder[y].pc = "repay"
    /\ i \in InterestDue
    /\ PayBack(yielder[y].due, i)
    /\ yieldPaid' = [yieldPaid EXCEPT ![yielder[y].position] = @ + yielder[y].due]
    /\ unmarked' = [unmarked EXCEPT ![yielder[y].position] = @ + yielder[y].due]
    /\ yielder' = [yielder EXCEPT ![y].pc = "advance"]
    /\ UNCHANGED <<requests, tab, fulfiller, liquidator>>

\* No price, or a refused repayment: left for the next pass.
YieldSkips(y, p) ==
    /\ \/ yielder[y].pc = "check" /\ yielder[y].rows[p].status = "ACTIVE"
       \/ yielder[y].pc = "repay" /\ yielder[y].position = p
    /\ YieldTreated(y, p)
    /\ UNCHANGED <<ledger, requests, positions, tab, fulfiller, liquidator, history>>

\* The row takes the values computed from the snapshot.
AdvancedRow_ForgetsAmount(row, price, repaid) == [row EXCEPT !.applied = price]

AdvancedRow_ForgetsPrice(row, price, repaid) == [row EXCEPT !.yielded = repaid]

AdvancedRow_LastAmount(row, price, repaid) ==
    [row EXCEPT !.applied = price, !.yielded = repaid - row.yielded]

AdvancedRow(row, price, repaid) == [row EXCEPT !.applied = price, !.yielded = repaid]

YieldAdvance(y) ==
    LET p == yielder[y].position IN
    /\ yielder[y].pc = "advance"
    /\ positions' = [positions EXCEPT ![p] =
                       AdvancedRow(@, yielder[y].price, yielder[y].rows[p].yielded + yielder[y].due)]
    /\ unmarked' = [unmarked EXCEPT ![p] = @ - yielder[y].due]
    /\ YieldTreated(y, p)
    /\ UNCHANGED <<ledger, requests, tab, fulfiller, liquidator, booked, yieldPaid>>

\* The update fails; the repayment stays, and the pass goes on.
YieldAdvanceFails(y) ==
    LET p == yielder[y].position IN
    /\ yielder[y].pc = "advance"
    /\ unmarked[p] <= MaxUnmarked
    /\ YieldTreated(y, p)
    /\ UNCHANGED <<ledger, requests, positions, tab, fulfiller, liquidator, history>>

-----------------------------------------------------------------------------
(* The liquidation job. *)

LiquidationStart(l) ==
    /\ liquidator[l] = NoRows
    /\ Snapshot # NoRows
    /\ liquidator' = [liquidator EXCEPT ![l] = Snapshot]
    /\ UNCHANGED <<ledger, requests, positions, tab, fulfiller, yielder, history>>

LiquidationTreated(l, p) == liquidator' = [liquidator EXCEPT ![l][p] = NoPositionRow]

LiquidatedRow_Closed(row) == [row EXCEPT !.status = "CLOSED", !.warned = FALSE]

LiquidatedRow(row) == [row EXCEPT !.status = "LIQUIDATED", !.warned = FALSE]

\* liquidatePosition updates by id: it does not look at the status again.
Liquidate(l, p, price) ==
    LET row == liquidator[l][p] IN
    /\ row.status = "ACTIVE"
    /\ LiquidationTriggered(row.entry, price)
    /\ ledger' = LiquidateCollateral(ledger, row.collateral, row.credit)
    /\ positions' = [positions EXCEPT ![p] = LiquidatedRow(@)]
    /\ booked' = booked - row.collateral
    /\ LiquidationTreated(l, p)
    /\ UNCHANGED <<requests, tab, fulfiller, yielder, yieldPaid, unmarked>>

UpdateWarning(l, p, price) ==
    LET row == liquidator[l][p]
        warned == LiquidationWarned(row.entry, price)
    IN
    /\ row.status = "ACTIVE"
    /\ ~LiquidationTriggered(row.entry, price)
    /\ positions' = IF warned = row.warned THEN positions
                                           ELSE [positions EXCEPT ![p].warned = warned]
    /\ LiquidationTreated(l, p)
    /\ UNCHANGED <<ledger, requests, tab, fulfiller, yielder, history>>

\* No price, or a failed statement: the next row of the pass goes on.
LiquidationSkips(l, p) ==
    /\ liquidator[l][p].status = "ACTIVE"
    /\ LiquidationTreated(l, p)
    /\ UNCHANGED <<ledger, requests, positions, tab, fulfiller, yielder, history>>

-----------------------------------------------------------------------------
\* The server restarts: what its processes had read is gone.
Crash ==
    /\ Crashes
    /\ tab' = [t \in Tabs |-> IdleTab]
    /\ fulfiller' = [f \in Fulfillers |-> IdleFulfiller]
    /\ yielder' = [y \in YieldRunners |-> IdleYielder]
    /\ liquidator' = [l \in Liquidators |-> NoRows]
    /\ UNCHANGED <<ledger, requests, positions, history>>

RequestStep ==
    \/ \E t \in Tabs, c \in Amounts : CheckNoActiveRequest(t, c)
    \/ \E t \in Tabs, r \in Requests : CreateRequest(t, r)
    \/ \E t \in Tabs, r \in Requests, k \in Currencies : CheckPledge(t, r, k)
    \/ \E t \in Tabs : FreezePledge(t)
    \/ \E r \in Requests : Approve(r)
    \/ \E r \in Requests : Reject(r)

\* One step of the tryAutoFulfill that process f runs.
FulfilStep(f) ==
    \/ FindApproved(f)
    \/ CheckBalance(f)
    \/ Claim(f)
    \/ \E p \in Positions, price \in Prices : Issue(f, p, price)
    \/ IssueFails(f)
    \/ Link(f)
    \/ LinkFails(f)
    \/ Revert(f)

MoneyStep ==
    \/ \E f \in Fulfillers, x \in Deposits : Deposit(f, x)
    \/ \E x \in Withdrawals : Withdraw(x)
    \/ \E x \in Spends : CardSpend(x)
    \/ \E x \in Repayments, i \in Interests \cup {0} : Repay(x, i)

YieldStep(y) ==
    \/ YieldStart(y)
    \/ \E p \in Positions, price \in Prices : YieldCheck(y, p, price)
    \/ \E i \in Interests \cup {0} : YieldRepay(y, i)
    \/ \E p \in Positions : YieldSkips(y, p)
    \/ YieldAdvance(y)
    \/ YieldAdvanceFails(y)

LiquidationStep(l) ==
    \/ LiquidationStart(l)
    \/ \E p \in Positions, price \in Prices : Liquidate(l, p, price)
    \/ \E p \in Positions, price \in Prices : UpdateWarning(l, p, price)
    \/ \E p \in Positions : LiquidationSkips(l, p)

Next ==
    \/ RequestStep
    \/ MoneyStep
    \/ \E f \in Fulfillers : FulfilStep(f)
    \/ \E y \in YieldRunners : YieldStep(y)
    \/ \E l \in Liquidators : LiquidationStep(l)
    \/ Crash

Spec == Init /\ [][Next]_vars

\* A started tryAutoFulfill runs on: it waits for nothing but the database.
FairSpec == Spec /\ \A f \in Fulfillers : WF_vars(FulfilStep(f))
=============================================================================
