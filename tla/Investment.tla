----------------------------- MODULE Investment -----------------------------
(***************************************************************************)
(* The investment wallet of one client, its placements and the daily jobs. *)
(* A placement is in a basket, open-ended and cumulative, or in a plan     *)
(* that ends on a date.  Every day a pass over each kind records the       *)
(* return of the day of each product and adds it to the active positions;  *)
(* the pass over plans then pays the positions whose date has come.        *)
(*                                                                         *)
(* A pass works from rows it read at its start, and updates them by id;    *)
(* the bank may start another by hand while one runs.  The increment of a  *)
(* position and its row of the journal are two statements.  A transaction  *)
(* that writes the ledger row first is one action; withdraw reads the      *)
(* position before, so that is an action of its own.                       *)
(*                                                                         *)
(* Returns are counted in multiples of 100%, so that amounts stay integer. *)
(***************************************************************************)
EXTENDS Ledger, Sequences

CONSTANTS
    Baskets,      \* open-ended products
    Plans,        \* products with a date
    Rwa,          \* the basket that follows the treasury bot
    Ids,          \* ids of positions, in order of creation
    Passes,       \* concurrent passes
    Withdrawers,  \* concurrent withdrawals of the client
    Rates,        \* returns of a day of stocks and plans
    BotRates,     \* returns of a day of the treasury bot
    NoRate,       \* no return known
    Receipts,     \* amounts received from outside
    Amounts,      \* amounts the client moves
    Term,         \* days from deposit to maturity
    MaxDay,       \* bound on days
    MaxRows,      \* the client moves nothing more once the journal has so many rows
    MaxPasses     \* bound on passes

Products == Baskets \cup Plans
Kinds == {"basket", "plan"}
Days == 1 .. MaxDay
AnyRate == Rates \cup BotRates

ASSUME ProductsAssumption == Rwa \in Baskets /\ Baskets \cap Plans = {}
ASSUME InvestIdsAssumption == Ids \subseteq Nat \ {0}
ASSUME RatesAssumption == AnyRate \subseteq Int /\ NoRate \notin AnyRate
ASSUME SumsAssumption == Receipts \subseteq Nat \ {0} /\ Amounts \subseteq Nat \ {0}
ASSUME InvestBoundsAssumption ==
    /\ Term \in Nat /\ MaxDay \in Nat \ {0} /\ MaxRows \in Nat
    /\ MaxPasses \in Nat

VARIABLES
    day,         \* today
    ledger,      \* the client's row of ledger_balances
    positions,   \* investment_positions and fixed_term_positions
    journal,     \* transactions, in order of creation
    runs,        \* the returns recorded of each day and product
    pass,        \* what each pass has read and where it stands
    withdrawal,  \* what each withdrawal has read
    started,     \* how many passes have started
    strays       \* history: the ways in which payments and yields went astray

vars == <<day, ledger, positions, journal, runs, pass, withdrawal, started, strays>>

\* A withdrawal of a position worth less than nothing would debit the wallet.
Wallet == [avail : Nat, locked : Nat, granted : Nat, used : Nat, invest : Int]

JournalTypes == {"DEPOSIT", "INVESTMENT_WALLET_TRANSFER_IN", "INVESTMENT_WALLET_TRANSFER_OUT",
                 "INVESTMENT_DEPOSIT", "INVESTMENT_WITHDRAWAL", "INVESTMENT_YIELD_ACCRUAL",
                 "FIXED_TERM_DEPOSIT", "FIXED_TERM_MATURITY_PAYOUT", "FIXED_TERM_YIELD_ACCRUAL"}

Target == {"AVAILABLE", "INVESTMENT"}

Entry == [type : JournalTypes, amount : Int, target : Target, day : Nat]

Position == [product : Products, status : {"none", "ACTIVE", "CLOSED", "MATURED"},
             principal : Nat, accrued : Int, matures : Nat]

NoPosition == [product |-> Rwa, status |-> "none", principal |-> 0, accrued |-> 0, matures |-> 0]

Task == [id : Ids, value : Int, product : Products]

NoTask == [id |-> 0, value |-> 0, product |-> Rwa]

Pass == [pc : {"idle", "runs", "record", "accrue", "journal", "settle"}, kind : Kinds, day : Nat,
         product : Products, rates : [Products -> AnyRate \cup {NoRate}],
         todo : SUBSET Task, yield : Int]

Unknown == [x \in Products |-> NoRate]

IdlePass == [pc |-> "idle", kind |-> "basket", day |-> 0, product |-> Rwa,
             rates |-> Unknown, todo |-> {}, yield |-> 0]

Withdrawal == [pc : {"idle", "pay"}, task : Task \cup {NoTask}]

IdleWithdrawal == [pc |-> "idle", task |-> NoTask]

Stray == {"stale payment", "floored payment", "late yield", "cut yield"}

TypeOK ==
    /\ day \in Days
    /\ ledger \in Wallet
    /\ positions \in [Ids -> Position]
    /\ journal \in Seq(Entry)
    /\ runs \in [Days -> [Products -> AnyRate \cup {NoRate}]]
    /\ pass \in [Passes -> Pass]
    /\ withdrawal \in [Withdrawers -> Withdrawal]
    /\ started \in Nat
    /\ strays \in SUBSET Stray

Init ==
    /\ day = 1
    /\ ledger = EmptyLedger
    /\ positions = [i \in Ids |-> NoPosition]
    /\ journal = <<>>
    /\ runs = [d \in Days |-> Unknown]
    /\ pass = [p \in Passes |-> IdlePass]
    /\ withdrawal = [w \in Withdrawers |-> IdleWithdrawal]
    /\ started = 0
    /\ strays = {}

-----------------------------------------------------------------------------
Value(i) == positions[i].principal + positions[i].accrued

IsActive(i) == positions[i].status = "ACTIVE"

TaskOf(i) == [id |-> i, value |-> Value(i), product |-> positions[i].product]

Record(type, a, target) ==
    journal' = Append(journal, [type |-> type, amount |-> a, target |-> target, day |-> day])

JobsUnchanged == UNCHANGED <<day, runs, pass, started, strays>>

\* Bound: the client stops.
HasRoom == Len(journal) < MaxRows

NextId(i) == /\ positions[i].status = "none"
             /\ \A k \in Ids : k < i => positions[k].status # "none"

-----------------------------------------------------------------------------
(* The client. *)

\* Module FundsIn: money received, on the balance the client chose.
Receive(a, target) ==
    /\ HasRoom
    /\ ledger' = IF target = "INVESTMENT" THEN CreditInvestment(ledger, a)
                                          ELSE CreditAvailable(ledger, a)
    /\ Record("DEPOSIT", a, target)
    /\ JobsUnchanged /\ UNCHANGED <<positions, withdrawal>>

TransferToWallet(a) ==
    /\ HasRoom
    /\ CanDebitAvailable(ledger, a)
    /\ ledger' = TransferToInvestment(ledger, a)
    /\ Record("INVESTMENT_WALLET_TRANSFER_IN", a, "AVAILABLE")
    /\ JobsUnchanged /\ UNCHANGED <<positions, withdrawal>>

TransferFromWallet(a) ==
    /\ HasRoom
    /\ CanDebitInvestment(ledger, a)
    /\ ledger' = TransferFromInvestment(ledger, a)
    /\ Record("INVESTMENT_WALLET_TRANSFER_OUT", a, "AVAILABLE")
    /\ JobsUnchanged /\ UNCHANGED <<positions, withdrawal>>

ToppedUp(i, a) == [positions[i] EXCEPT !.principal = @ + a]

Opened(x, a, matures) == [product |-> x, status |-> "ACTIVE", principal |-> a,
                          accrued |-> 0, matures |-> matures]

\* The position of the basket that a deposit adds to, or else the next row.
DepositRow(b, i) ==
    IF \E k \in Ids : IsActive(k) /\ positions[k].product = b
    THEN IsActive(i) /\ positions[i].product = b
    ELSE NextId(i)

\* InvestmentService.deposit
DepositBasket(b, i, a) ==
    /\ HasRoom
    /\ CanDebitInvestment(ledger, a)
    /\ DepositRow(b, i)
    /\ ledger' = DebitInvestment(ledger, a)
    /\ positions' = [positions EXCEPT ![i] = IF positions[i].status = "none" THEN Opened(b, a, 0)
                                                                             ELSE ToppedUp(i, a)]
    /\ Record("INVESTMENT_DEPOSIT", a, "AVAILABLE")
    /\ JobsUnchanged /\ UNCHANGED withdrawal

\* FixedTermPlanService.deposit: a position of its own, with a date of its own.
DepositPlan(x, i, a) ==
    /\ HasRoom
    /\ CanDebitInvestment(ledger, a)
    /\ NextId(i)
    /\ ledger' = DebitInvestment(ledger, a)
    /\ positions' = [positions EXCEPT ![i] = Opened(x, a, day + Term)]
    /\ Record("FIXED_TERM_DEPOSIT", a, "AVAILABLE")
    /\ JobsUnchanged /\ UNCHANGED withdrawal

\* The first statement of withdraw takes no lock.
FindActive(w, i) ==
    /\ HasRoom
    /\ withdrawal[w].pc = "idle"
    /\ IsActive(i)
    /\ positions[i].product \in Baskets
    /\ withdrawal' = [withdrawal EXCEPT ![w] = [pc |-> "pay", task |-> TaskOf(i)]]
    /\ JobsUnchanged /\ UNCHANGED <<ledger, positions, journal>>

\* The value paid is the one that was read: it may no longer be due.
Stale(t) == ~ IsActive(t.id) \/ Value(t.id) # t.value

Ended(i, status) == [positions EXCEPT ![i].status = status]

WithdrawnAmount_Principal(t) == positions[t.id].principal

WithdrawnAmount(t) == t.value

Withdraw(w) ==
    LET t == withdrawal[w].task IN
    /\ withdrawal[w].pc = "pay"
    /\ ledger' = CreditInvestment(ledger, WithdrawnAmount(t))
    /\ positions' = Ended(t.id, "CLOSED")
    /\ Record("INVESTMENT_WITHDRAWAL", WithdrawnAmount(t), "AVAILABLE")
    /\ strays' = IF Stale(t) THEN strays \cup {"stale payment"} ELSE strays
    /\ withdrawal' = [withdrawal EXCEPT ![w] = IdleWithdrawal]
    /\ UNCHANGED <<day, runs, pass, started>>

-----------------------------------------------------------------------------
(* The daily passes. *)

ClientUnchanged == UNCHANGED <<day, withdrawal>>

ProductsOf(k) == IF k = "basket" THEN Baskets ELSE Plans

\* Both kinds of pass also run the treasury bot.
NeededRates(k) == {Rwa} \cup ProductsOf(k)

EndPass(p) == pass' = [pass EXCEPT ![p] = IdlePass]

\* runDailyAccrual, of either service: by schedule or by hand.
StartPass(p, k) ==
    /\ pass[p].pc = "idle"
    /\ started < MaxPasses
    /\ pass' = [pass EXCEPT ![p] = [IdlePass EXCEPT !.pc = "runs", !.kind = k, !.day = day]]
    /\ started' = started + 1
    /\ ClientUnchanged /\ UNCHANGED <<ledger, positions, journal, runs, strays>>

\* runDailySimulation rewrites the run of the day.
RunTreasury(p, r) ==
    /\ pass[p].pc = "runs"
    /\ pass[p].rates[Rwa] = NoRate
    /\ runs' = [runs EXCEPT ![pass[p].day][Rwa] = r]
    /\ pass' = [pass EXCEPT ![p].rates[Rwa] = r]
    /\ ClientUnchanged /\ UNCHANGED <<ledger, positions, journal, started, strays>>

\* recordStockBasketRun, recordFixedTermPlanRun: the look-up.
FindRun(p, x) ==
    /\ pass[p].pc = "runs"
    /\ pass[p].rates[Rwa] # NoRate
    /\ x \in NeededRates(pass[p].kind)
    /\ pass[p].rates[x] = NoRate
    /\ IF runs[pass[p].day][x] # NoRate
       THEN pass' = [pass EXCEPT ![p].rates[x] = runs[pass[p].day][x]]
       ELSE pass' = [pass EXCEPT ![p].pc = "record", ![p].product = x]
    /\ ClientUnchanged /\ UNCHANGED <<ledger, positions, journal, runs, started, strays>>

RunIsNew_Overwrites(d, x) == TRUE

\* The day and the product are a unique key.
RunIsNew(d, x) == runs[d][x] = NoRate

\* The signal of the market is asked in between, and may be missing: a neutral day.
CreateRun(p, r) ==
    LET d == pass[p].day
        x == pass[p].product IN
    /\ pass[p].pc = "record"
    /\ RunIsNew(d, x)
    /\ runs' = [runs EXCEPT ![d][x] = r]
    /\ pass' = [pass EXCEPT ![p].pc = "runs", ![p].rates[x] = r]
    /\ ClientUnchanged /\ UNCHANGED <<ledger, positions, journal, started, strays>>

\* The refused creation ends the pass before any position.
CreateRunRefused(p) ==
    /\ pass[p].pc = "record"
    /\ ~ RunIsNew(pass[p].day, pass[p].product)
    /\ EndPass(p)
    /\ ClientUnchanged /\ UNCHANGED <<ledger, positions, journal, runs, started, strays>>

ActiveOf(k) == {i \in Ids : IsActive(i) /\ positions[i].product \in ProductsOf(k)}

ReadPositions(p) ==
    /\ pass[p].pc = "runs"
    /\ \A x \in NeededRates(pass[p].kind) : pass[p].rates[x] # NoRate
    /\ pass' = [pass EXCEPT ![p].pc = "accrue", ![p].todo = {TaskOf(i) : i \in ActiveOf(pass[p].kind)}]
    /\ ClientUnchanged /\ UNCHANGED <<ledger, positions, journal, runs, started, strays>>

\* The value is the one the pass read, however long ago.
DailyYield(t, r) == t.value * r

Accrued_FromRead(t, y) == t.value - positions[t.id].principal + y

Accrued(t, y) == positions[t.id].accrued + y

\* accrueYieldForPosition, accrueFixedTermPosition: the increment.
Accrue(p, t) ==
    LET y == DailyYield(t, pass[p].rates[t.product]) IN
    /\ pass[p].pc = "accrue"
    /\ t \in pass[p].todo
    /\ positions' = [positions EXCEPT ![t.id].accrued = Accrued(t, y)]
    /\ pass' = [pass EXCEPT ![p].todo = @ \ {t}, ![p].yield = y,
                            ![p].pc = IF y = 0 THEN "accrue" ELSE "journal"]
    /\ strays' = IF y # 0 /\ ~ IsActive(t.id) THEN strays \cup {"late yield"} ELSE strays
    /\ ClientUnchanged /\ UNCHANGED <<ledger, journal, runs, started>>

YieldType(k) == IF k = "basket" THEN "INVESTMENT_YIELD_ACCRUAL" ELSE "FIXED_TERM_YIELD_ACCRUAL"

JournalYield(p) ==
    /\ pass[p].pc = "journal"
    /\ Record(YieldType(pass[p].kind), pass[p].yield, "AVAILABLE")
    /\ pass' = [pass EXCEPT ![p].pc = "accrue", ![p].yield = 0]
    /\ ClientUnchanged /\ UNCHANGED <<ledger, positions, runs, started, strays>>

\* A row that fails is left for the next pass, its increment not undone.
RowFails(p) ==
    /\ \/ /\ pass[p].pc = "journal"
          /\ pass' = [pass EXCEPT ![p].pc = "accrue", ![p].yield = 0]
          /\ strays' = strays \cup {"cut yield"}
       \/ /\ pass[p].pc \in {"accrue", "settle"}
          /\ \E t \in pass[p].todo : pass' = [pass EXCEPT ![p].todo = @ \ {t}]
          /\ UNCHANGED strays
    /\ ClientUnchanged /\ UNCHANGED <<ledger, positions, journal, runs, started>>

MaturedBy(i, d) == positions[i].matures <= d

\* settleMaturedPositions
ReadMatured(p) ==
    /\ pass[p].pc = "accrue" /\ pass[p].todo = {} /\ pass[p].kind = "plan"
    /\ pass' = [pass EXCEPT ![p].pc = "settle",
                            ![p].todo = {TaskOf(i) : i \in {k \in ActiveOf("plan") : MaturedBy(k, pass[p].day)}}]
    /\ ClientUnchanged /\ UNCHANGED <<ledger, positions, journal, runs, started, strays>>

PayoutAmount(t) == AtLeastZero(t.value)

\* settlePosition
Settle(p, t) ==
    /\ pass[p].pc = "settle"
    /\ t \in pass[p].todo
    /\ ledger' = CreditInvestment(ledger, PayoutAmount(t))
    /\ positions' = Ended(t.id, "MATURED")
    /\ Record("FIXED_TERM_MATURITY_PAYOUT", PayoutAmount(t), "AVAILABLE")
    /\ pass' = [pass EXCEPT ![p].todo = @ \ {t}]
    /\ strays' = strays \cup (IF Stale(t) THEN {"stale payment"} ELSE {})
                        \cup (IF PayoutAmount(t) # t.value THEN {"floored payment"} ELSE {})
    /\ ClientUnchanged /\ UNCHANGED <<runs, started>>

PassDone(p) ==
    /\ pass[p].todo = {}
    /\ \/ pass[p].pc = "accrue" /\ pass[p].kind = "basket"
       \/ pass[p].pc = "settle"
    /\ EndPass(p)
    /\ ClientUnchanged /\ UNCHANGED <<ledger, positions, journal, runs, started, strays>>

-----------------------------------------------------------------------------
\* Bound: no pass runs over midnight (they are scheduled at 03:15 and 03:30).
NextDay ==
    /\ day < MaxDay
    /\ \A p \in Passes : pass[p].pc = "idle"
    /\ day' = day + 1
    /\ UNCHANGED <<ledger, positions, journal, runs, pass, withdrawal, started, strays>>

\* The server restarts: passes and withdrawals under way are gone.
Restart ==
    /\ strays' = IF \E p \in Passes : pass[p].pc = "journal" THEN strays \cup {"cut yield"} ELSE strays
    /\ pass' = [p \in Passes |-> IdlePass]
    /\ withdrawal' = [w \in Withdrawers |-> IdleWithdrawal]
    /\ UNCHANGED <<day, ledger, positions, journal, runs, started>>

ClientStep ==
    \/ \E a \in Receipts, target \in Target : Receive(a, target)
    \/ \E a \in Amounts : TransferToWallet(a)
    \/ \E a \in Amounts : TransferFromWallet(a)
    \/ \E b \in Baskets, i \in Ids, a \in Amounts : DepositBasket(b, i, a)
    \/ \E x \in Plans, i \in Ids, a \in Amounts : DepositPlan(x, i, a)
    \/ \E w \in Withdrawers, i \in Ids : FindActive(w, i)
    \/ \E w \in Withdrawers : Withdraw(w)

\* What a pass does when nothing fails.
PassAdvances(p) ==
    \/ \E r \in BotRates : RunTreasury(p, r)
    \/ \E x \in Products : FindRun(p, x)
    \/ \E r \in Rates : CreateRun(p, r)
    \/ CreateRunRefused(p)
    \/ ReadPositions(p)
    \/ \E t \in pass[p].todo : Accrue(p, t)
    \/ JournalYield(p)
    \/ ReadMatured(p)
    \/ \E t \in pass[p].todo : Settle(p, t)
    \/ PassDone(p)

Next ==
    \/ ClientStep
    \/ \E p \in Passes, k \in Kinds : StartPass(p, k)
    \/ \E p \in Passes : PassAdvances(p)
    \/ \E p \in Passes : RowFails(p)
    \/ NextDay
    \/ Restart

Spec == Init /\ [][Next]_vars
=============================================================================
