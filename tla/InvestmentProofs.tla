-------------------------- MODULE InvestmentProofs --------------------------
(***************************************************************************)
(* Proofs about the investments, for every value of the constants, with    *)
(* passes that overlap, fail and are cut anywhere.                         *)
(***************************************************************************)
EXTENDS InvestmentProperties, FiniteSums, TLAPS

-----------------------------------------------------------------------------
(* The invariant.  A pass has the rate of every product it accrues, and the *)
(* rates it has are those of its day.                                       *)

Works(p) == pass[p].pc \in {"accrue", "journal", "settle"}

PassSound(p) ==
    /\ pass[p].pc = "idle" => pass[p].rates = Unknown
    /\ pass[p].pc # "idle" => pass[p].day \in Days
    /\ Works(p) => \A x \in ProductsOf(pass[p].kind) : pass[p].rates[x] \in AnyRate
    /\ \A t \in pass[p].todo : t.product \in ProductsOf(pass[p].kind)

RatesAgree(p) ==
    \A x \in Products \ {Rwa} :
        pass[p].rates[x] # NoRate => pass[p].rates[x] = runs[pass[p].day][x]

InvestInv ==
    /\ TypeOK
    /\ \A p \in Passes : PassSound(p)
    /\ \A p \in Passes : RatesAgree(p)

LEMMA InvestInit == Init => InvestInv
<1> SUFFICES ASSUME Init PROVE InvestInv
    OBVIOUS
<1> USE ProductsAssumption, RatesAssumption, InvestBoundsAssumption DEF Init
<1>1. NoPosition \in Position
    BY DEF NoPosition, Position, Products
<1>2. Unknown \in [Products -> AnyRate \cup {NoRate}]
    BY DEF Unknown
<1>3. IdlePass \in Pass
    BY <1>2 DEF IdlePass, Pass, Kinds, Products
<1>4. IdleWithdrawal \in Withdrawal
    BY DEF IdleWithdrawal, Withdrawal
<1>5. EmptyLedger \in Wallet
    BY DEF EmptyLedger, Wallet
<1>6. TypeOK
    BY <1>1, <1>2, <1>3, <1>4, <1>5 DEF TypeOK, Days
<1>7. ASSUME NEW p \in Passes PROVE PassSound(p) /\ RatesAgree(p)
    BY DEF PassSound, RatesAgree, IdlePass, Works, Unknown
<1> QED BY <1>6, <1>7 DEF InvestInv

-----------------------------------------------------------------------------
(* The journal, the positions and the tasks stay typed.                     *)

LEMMA RecordTyped ==
    ASSUME TypeOK, NEW type \in JournalTypes, NEW a \in Int, NEW target \in Target,
           Record(type, a, target)
    PROVE  journal' \in Seq(Entry)
<1>1. [type |-> type, amount |-> a, target |-> target, day |-> day] \in Entry
    BY DEF TypeOK, Entry, Days
<1> QED BY <1>1 DEF TypeOK, Record

LEMMA ValueTyped ==
    ASSUME TypeOK, NEW i \in Ids
    PROVE  Value(i) \in Int /\ TaskOf(i) \in Task
BY DEF TypeOK, Value, TaskOf, Task, Position

LEMMA ReadTyped ==
    ASSUME TypeOK, NEW w \in Withdrawers
    PROVE  withdrawal[w].task.value \in Int
<1>1. withdrawal[w].task \in Task \cup {NoTask}
    BY DEF TypeOK, Withdrawal
<1>2. \A t \in Task \cup {NoTask} : t.value \in Int
    BY DEF Task, NoTask
<1> QED BY <1>1, <1>2

LEMMA TasksTyped ==
    ASSUME TypeOK, NEW p \in Passes
    PROVE  /\ pass[p] \in Pass /\ pass[p].todo \in SUBSET Task
           /\ \A t \in pass[p].todo : t.value \in Int /\ t.id \in Ids
BY DEF TypeOK, Pass, Task

LEMMA YieldTyped ==
    \A t, r : t.value \in Int /\ r \in Int => DailyYield(t, r) \in Int
BY DEF DailyYield

LEMMA PayoutTyped ==
    \A t : t.value \in Int => PayoutAmount(t) \in Int
BY DEF PayoutAmount, AtLeastZero

LEMMA EndedTyped ==
    ASSUME TypeOK, NEW i, NEW status \in {"CLOSED", "MATURED"}, positions' = Ended(i, status)
    PROVE  positions' \in [Ids -> Position]
BY DEF TypeOK, Ended, Position

LEMMA CreditTyped ==
    ASSUME TypeOK, NEW x \in Int
    PROVE  CreditInvestment(ledger, x) \in Wallet
<1>1. ledger \in Wallet /\ ledger.invest + x \in Int
    BY DEF TypeOK, Wallet
<1> QED BY <1>1, Zenon DEF CreditInvestment, Wallet

(* A step of the client leaves the passes and the runs alone.               *)
LEMMA JobsStay ==
    ASSUME InvestInv, UNCHANGED <<pass, runs>>
    PROVE  /\ pass' \in [Passes -> Pass]
           /\ runs' \in [Days -> [Products -> AnyRate \cup {NoRate}]]
           /\ \A p \in Passes : PassSound(p)' /\ RatesAgree(p)'
BY DEF InvestInv, TypeOK, PassSound, RatesAgree, Works

(* A step of one pass leaves the others alone.                              *)
LEMMA OnePass ==
    ASSUME InvestInv, NEW p \in Passes, NEW new \in Pass,
           pass' = [pass EXCEPT ![p] = new], UNCHANGED runs,
           PassSound(p)', RatesAgree(p)'
    PROVE  /\ pass' \in [Passes -> Pass]
           /\ \A q \in Passes : PassSound(q)' /\ RatesAgree(q)'
<1>1. ASSUME NEW q \in Passes, q # p PROVE PassSound(q)' /\ RatesAgree(q)'
    BY <1>1 DEF InvestInv, TypeOK, PassSound, RatesAgree, Works
<1> QED BY <1>1 DEF InvestInv, TypeOK

-----------------------------------------------------------------------------
(* The client.  A guarded debit keeps the balances of the main account from *)
(* going negative.                                                          *)

(* A step of the client that keeps its rows typed keeps the invariant.      *)
LEMMA ClientTyped ==
    ASSUME InvestInv, UNCHANGED <<day, runs, pass, started>>,
           ledger' \in Wallet, positions' \in [Ids -> Position], journal' \in Seq(Entry),
           withdrawal' \in [Withdrawers -> Withdrawal], strays' \in SUBSET Stray
    PROVE  InvestInv'
<1>1. /\ pass' \in [Passes -> Pass]
      /\ runs' \in [Days -> [Products -> AnyRate \cup {NoRate}]]
      /\ \A p \in Passes : PassSound(p)' /\ RatesAgree(p)'
    BY JobsStay
<1> QED BY <1>1 DEF InvestInv, TypeOK

LEMMA WalletMoved ==
    ASSUME InvestInv, NEW a \in Nat,
           CanDebitAvailable(ledger, a)
    PROVE  TransferToInvestment(ledger, a) \in Wallet
<1>1. ledger \in Wallet /\ ledger.avail - a \in Nat /\ ledger.invest + a \in Int
    BY DEF InvestInv, TypeOK, Wallet, CanDebitAvailable
<1>2. DebitAvailable(ledger, a) \in Wallet /\ DebitAvailable(ledger, a).invest = ledger.invest
    BY <1>1, Zenon DEF DebitAvailable, Wallet
<1> QED BY <1>1, <1>2, Zenon DEF TransferToInvestment, CreditInvestment, Wallet

LEMMA WalletDebited ==
    ASSUME InvestInv, NEW a \in Nat
    PROVE  /\ DebitInvestment(ledger, a) \in Wallet
           /\ TransferFromInvestment(ledger, a) \in Wallet
<1>1. ledger \in Wallet /\ ledger.avail + a \in Nat /\ ledger.invest - a \in Int
    BY DEF InvestInv, TypeOK, Wallet
<1>2. DebitInvestment(ledger, a) \in Wallet /\ DebitInvestment(ledger, a).avail = ledger.avail
    BY <1>1, Zenon DEF DebitInvestment, Wallet
<1> QED BY <1>1, <1>2, Zenon DEF TransferFromInvestment, CreditAvailable, Wallet

LEMMA ReceiveKeeps ==
    ASSUME InvestInv, NEW a \in Receipts, NEW target \in Target, Receive(a, target)
    PROVE  InvestInv'
<1> USE SumsAssumption DEF Receive, JobsUnchanged
<1>1. CreditInvestment(ledger, a) \in Wallet
    BY CreditTyped DEF InvestInv
<1>2. ledger \in Wallet /\ ledger.avail + a \in Nat
    BY DEF InvestInv, TypeOK, Wallet
<1>3. CreditAvailable(ledger, a) \in Wallet
    BY <1>2, Zenon DEF CreditAvailable, Wallet
<1>4. ledger' \in Wallet
    BY <1>1, <1>3
<1>5. journal' \in Seq(Entry)
    BY RecordTyped DEF InvestInv, JournalTypes
<1> QED BY <1>4, <1>5, ClientTyped DEF InvestInv, TypeOK

LEMMA TransferToKeeps ==
    ASSUME InvestInv, NEW a \in Amounts, TransferToWallet(a)
    PROVE  InvestInv'
<1> USE SumsAssumption DEF TransferToWallet, JobsUnchanged
<1>1. ledger' \in Wallet
    BY WalletMoved
<1>2. journal' \in Seq(Entry)
    BY RecordTyped DEF InvestInv, JournalTypes, Target
<1> QED BY <1>1, <1>2, ClientTyped DEF InvestInv, TypeOK

LEMMA TransferFromKeeps ==
    ASSUME InvestInv, NEW a \in Amounts, TransferFromWallet(a)
    PROVE  InvestInv'
<1> USE SumsAssumption DEF TransferFromWallet, JobsUnchanged
<1>1. ledger' \in Wallet
    BY WalletDebited
<1>2. journal' \in Seq(Entry)
    BY RecordTyped DEF InvestInv, JournalTypes, Target
<1> QED BY <1>1, <1>2, ClientTyped DEF InvestInv, TypeOK

LEMMA DepositBasketKeeps ==
    ASSUME InvestInv, NEW b \in Baskets, NEW i \in Ids, NEW a \in Amounts, DepositBasket(b, i, a)
    PROVE  InvestInv'
<1> USE SumsAssumption DEF DepositBasket, JobsUnchanged
<1>1. ledger' \in Wallet
    BY WalletDebited
<1>2. journal' \in Seq(Entry)
    BY RecordTyped DEF InvestInv, JournalTypes, Target
<1>3. positions[i] \in Position /\ positions[i].principal + a \in Nat
    BY DEF InvestInv, TypeOK, Position
<1>4. ToppedUp(i, a) \in Position
    BY <1>3, Zenon DEF ToppedUp, Position
<1>5. Opened(b, a, 0) \in Position
    BY DEF Opened, Position, Products
<1>6. positions' \in [Ids -> Position]
    BY <1>4, <1>5, Zenon DEF InvestInv, TypeOK
<1> QED BY <1>1, <1>2, <1>6, ClientTyped DEF InvestInv, TypeOK

LEMMA DepositPlanKeeps ==
    ASSUME InvestInv, NEW x \in Plans, NEW i \in Ids, NEW a \in Amounts, DepositPlan(x, i, a)
    PROVE  InvestInv'
<1> USE SumsAssumption DEF DepositPlan, JobsUnchanged
<1>1. ledger' \in Wallet
    BY WalletDebited
<1>2. journal' \in Seq(Entry)
    BY RecordTyped DEF InvestInv, JournalTypes, Target
<1>3. Opened(x, a, day + Term) \in Position
    BY InvestBoundsAssumption DEF InvestInv, TypeOK, Days, Opened, Position, Products
<1>4. positions' \in [Ids -> Position]
    BY <1>3, Zenon DEF InvestInv, TypeOK
<1> QED BY <1>1, <1>2, <1>4, ClientTyped DEF InvestInv, TypeOK

LEMMA FindActiveKeeps ==
    ASSUME InvestInv, NEW w \in Withdrawers, NEW i \in Ids, FindActive(w, i)
    PROVE  InvestInv'
<1> USE DEF FindActive, JobsUnchanged
<1>1. [pc |-> "pay", task |-> TaskOf(i)] \in Withdrawal
    BY ValueTyped DEF InvestInv, Withdrawal
<1>2. withdrawal' \in [Withdrawers -> Withdrawal]
    BY <1>1, Zenon DEF InvestInv, TypeOK
<1> QED BY <1>2, ClientTyped DEF InvestInv, TypeOK

LEMMA WithdrawKeeps ==
    ASSUME InvestInv, NEW w \in Withdrawers, Withdraw(w)
    PROVE  InvestInv'
<1> DEFINE t == withdrawal[w].task
<1> USE DEF Withdraw
<1>1. WithdrawnAmount(t) \in Int
    BY ReadTyped DEF InvestInv, WithdrawnAmount
<1>2. ledger' \in Wallet
    BY <1>1, CreditTyped DEF InvestInv
<1>3. positions' \in [Ids -> Position]
    BY EndedTyped DEF InvestInv
<1>4. journal' \in Seq(Entry)
    BY <1>1, RecordTyped DEF InvestInv, JournalTypes, Target
<1>5. withdrawal' \in [Withdrawers -> Withdrawal]
    BY DEF InvestInv, TypeOK, Withdrawal, IdleWithdrawal
<1>6. strays' \in SUBSET Stray
    BY DEF InvestInv, TypeOK, Stray
<1> QED BY <1>2, <1>3, <1>4, <1>5, <1>6, ClientTyped

-----------------------------------------------------------------------------
(* The passes.                                                              *)

(* A step of a pass that keeps its rows typed keeps the invariant.          *)
LEMMA PassTyped ==
    ASSUME InvestInv, NEW p \in Passes, NEW new \in Pass,
           pass' = [pass EXCEPT ![p] = new], UNCHANGED <<day, withdrawal, runs>>,
           PassSound(p)', RatesAgree(p)',
           ledger' \in Wallet, positions' \in [Ids -> Position], journal' \in Seq(Entry),
           started' \in Nat, strays' \in SUBSET Stray
    PROVE  InvestInv'
<1>1. /\ pass' \in [Passes -> Pass]
      /\ \A q \in Passes : PassSound(q)' /\ RatesAgree(q)'
    BY OnePass
<1> QED BY <1>1 DEF InvestInv, TypeOK

LEMMA IdleTyped ==
    IdlePass \in Pass /\ Unknown \in [Products -> AnyRate \cup {NoRate}]
<1>1. Unknown \in [Products -> AnyRate \cup {NoRate}]
    BY DEF Unknown
<1> QED BY <1>1, ProductsAssumption DEF IdlePass, Pass, Kinds, Products

(* A pass that ends, for whatever reason.                                   *)
LEMMA EndKeeps ==
    ASSUME InvestInv, NEW p \in Passes, EndPass(p),
           UNCHANGED <<day, withdrawal, ledger, positions, journal, runs, started, strays>>
    PROVE  InvestInv'
<1>1. pass' = [pass EXCEPT ![p] = IdlePass] /\ IdlePass \in Pass
    BY IdleTyped DEF EndPass
<1>2. pass'[p] = IdlePass
    BY <1>1 DEF InvestInv, TypeOK
<1>3. PassSound(p)' /\ RatesAgree(p)'
    BY <1>2 DEF PassSound, RatesAgree, Works, IdlePass, Unknown
<1> QED BY <1>1, <1>3, PassTyped DEF InvestInv, TypeOK

LEMMA StartKeeps ==
    ASSUME InvestInv, NEW p \in Passes, NEW k \in Kinds, StartPass(p, k)
    PROVE  InvestInv'
<1> DEFINE new == [IdlePass EXCEPT !.pc = "runs", !.kind = k, !.day = day]
<1> USE DEF StartPass, ClientUnchanged
<1>1. /\ new \in Pass /\ new.pc = "runs" /\ new.day = day
      /\ new.rates = Unknown /\ new.todo = {}
    <2>1. day \in Nat
        BY InvestBoundsAssumption DEF InvestInv, TypeOK, Days
    <2> QED BY <2>1, IdleTyped, Zenon DEF Pass, IdlePass
<1>2. pass' = [pass EXCEPT ![p] = new]
    OBVIOUS
<1> HIDE DEF new
<1>3. pass'[p] = new
    BY <1>2 DEF InvestInv, TypeOK
<1>4. PassSound(p)' /\ RatesAgree(p)'
    <2>1. day \in Days /\ \A x \in Products : new.rates[x] = NoRate
        BY <1>1 DEF InvestInv, TypeOK, Unknown
    <2>2. PassSound(p)'
        BY <1>1, <1>3, <2>1 DEF PassSound, Works
    <2>3. RatesAgree(p)'
        BY <1>3, <2>1 DEF RatesAgree
    <2> QED BY <2>2, <2>3
<1>5. /\ started' \in Nat
      /\ UNCHANGED <<day, withdrawal, runs, ledger, positions, journal, strays>>
    BY DEF InvestInv, TypeOK
<1> HIDE DEF StartPass
<1> QED BY <1>1, <1>2, <1>4, <1>5, PassTyped DEF InvestInv, TypeOK

(* A pass that writes the return of a day and takes it.                     *)
LEMMA RunWritten ==
    ASSUME InvestInv, NEW p \in Passes, NEW x \in Products, NEW r \in AnyRate,
           NEW new \in Pass,
           pass[p].pc # "idle", new.pc = "runs",
           new.day = pass[p].day, new.kind = pass[p].kind, new.todo = pass[p].todo,
           new.rates = [pass[p].rates EXCEPT ![x] = r],
           pass' = [pass EXCEPT ![p] = new],
           runs' = [runs EXCEPT ![pass[p].day][x] = r],
           x = Rwa \/ runs[pass[p].day][x] = NoRate,
           UNCHANGED <<day, withdrawal, ledger, positions, journal, started, strays>>
    PROVE  InvestInv'
<1>1. pass[p].day \in Days
    BY DEF InvestInv, PassSound
<1>2. /\ runs' \in [Days -> [Products -> AnyRate \cup {NoRate}]]
      /\ \A d \in Days, y \in Products :
            runs'[d][y] = IF d = pass[p].day /\ y = x THEN r ELSE runs[d][y]
    BY <1>1 DEF InvestInv, TypeOK
<1>3. pass' \in [Passes -> Pass] /\ pass'[p] = new /\ \A q \in Passes \ {p} : pass'[q] = pass[q]
    BY DEF InvestInv, TypeOK
<1>4. PassSound(p)'
    BY <1>1, <1>3 DEF InvestInv, PassSound, Works
<1>5. ASSUME NEW q \in Passes \ {p} PROVE PassSound(q)'
    BY <1>3, <1>5 DEF InvestInv, PassSound, Works
<1>6. ASSUME NEW y \in Products \ {Rwa}, new.rates[y] # NoRate
      PROVE  new.rates[y] = runs'[new.day][y]
    <2>1. pass[p].rates \in [Products -> AnyRate \cup {NoRate}]
        BY DEF InvestInv, TypeOK, Pass
    <2>2. CASE y = x
        BY <1>1, <1>2, <2>1, <2>2
    <2>3. CASE y # x
        BY <1>1, <1>2, <1>6, <2>1, <2>3 DEF InvestInv, RatesAgree
    <2> QED BY <2>2, <2>3
<1>7. ASSUME NEW q \in Passes \ {p}, NEW y \in Products \ {Rwa}, pass[q].rates[y] # NoRate
      PROVE  pass[q].rates[y] = runs'[pass[q].day][y]
    <2>1. pass[q].rates[y] = runs[pass[q].day][y]
        BY <1>7 DEF InvestInv, RatesAgree
    <2>2. pass[q].day \in Days
        BY <1>7 DEF InvestInv, PassSound, Unknown
    <2>3. ~ (pass[q].day = pass[p].day /\ y = x)
        BY <1>7, <2>1
    <2> QED BY <1>2, <2>1, <2>2, <2>3
<1>8. ASSUME NEW q \in Passes PROVE RatesAgree(q)'
    <2>1. CASE q = p
        BY <1>3, <1>6, <2>1 DEF RatesAgree
    <2>2. CASE q # p
        BY <1>3, <1>7, <2>2 DEF RatesAgree
    <2> QED BY <2>1, <2>2
<1> QED BY <1>2, <1>3, <1>4, <1>5, <1>8 DEF InvestInv, TypeOK

LEMMA RunTreasuryKeeps ==
    ASSUME InvestInv, NEW p \in Passes, NEW r \in BotRates, RunTreasury(p, r)
    PROVE  InvestInv'
<1> DEFINE new == [pass[p] EXCEPT !.rates[Rwa] = r]
<1> USE DEF RunTreasury, ClientUnchanged
<1>1. pass[p] \in Pass /\ pass[p].rates \in [Products -> AnyRate \cup {NoRate}]
    BY DEF InvestInv, TypeOK, Pass
<1>2. [pass[p].rates EXCEPT ![Rwa] = r] \in [Products -> AnyRate \cup {NoRate}]
    BY <1>1 DEF AnyRate
<1>3. /\ new \in Pass /\ new.pc = "runs" /\ new.day = pass[p].day /\ new.kind = pass[p].kind
      /\ new.todo = pass[p].todo /\ new.rates = [pass[p].rates EXCEPT ![Rwa] = r]
    BY <1>1, <1>2, Zenon DEF Pass
<1>4. pass' = [pass EXCEPT ![p] = new]
    OBVIOUS
<1> HIDE DEF new
<1>5. r \in AnyRate /\ Rwa \in Products
    BY ProductsAssumption DEF AnyRate, Products
<1>6. /\ pass[p].pc # "idle" /\ runs' = [runs EXCEPT ![pass[p].day][Rwa] = r]
      /\ UNCHANGED <<day, withdrawal, ledger, positions, journal, started, strays>>
    OBVIOUS
<1> HIDE DEF RunTreasury, ClientUnchanged
<1> QED BY <1>3, <1>4, <1>5, <1>6, RunWritten, ZenonT(60)

LEMMA CreateRunKeeps ==
    ASSUME InvestInv, NEW p \in Passes, NEW r \in Rates, CreateRun(p, r)
    PROVE  InvestInv'
<1> DEFINE x   == pass[p].product
           new == [pass[p] EXCEPT !.pc = "runs", !.rates[x] = r]
<1> USE DEF CreateRun, ClientUnchanged, RunIsNew
<1>1. pass[p] \in Pass /\ pass[p].rates \in [Products -> AnyRate \cup {NoRate}] /\ x \in Products
    BY DEF InvestInv, TypeOK, Pass
<1>2. [pass[p].rates EXCEPT ![x] = r] \in [Products -> AnyRate \cup {NoRate}]
    BY <1>1 DEF AnyRate
<1>3. /\ new \in Pass /\ new.pc = "runs" /\ new.day = pass[p].day /\ new.kind = pass[p].kind
      /\ new.todo = pass[p].todo /\ new.rates = [pass[p].rates EXCEPT ![x] = r]
    BY <1>1, <1>2, Zenon DEF Pass
<1>4. pass' = [pass EXCEPT ![p] = new]
    OBVIOUS
<1> HIDE DEF new
<1>5. r \in AnyRate
    BY DEF AnyRate
<1>6. /\ pass[p].pc # "idle" /\ runs' = [runs EXCEPT ![pass[p].day][x] = r]
      /\ runs[pass[p].day][x] = NoRate
      /\ UNCHANGED <<day, withdrawal, ledger, positions, journal, started, strays>>
    OBVIOUS
<1> HIDE DEF CreateRun, ClientUnchanged, RunIsNew, x
<1>7. x \in Products /\ (x = Rwa \/ runs[pass[p].day][x] = NoRate)
    BY <1>1, <1>6
<1> QED BY <1>3, <1>4, <1>5, <1>6, <1>7, RunWritten, ZenonT(60)

LEMMA FindRunKeeps ==
    ASSUME InvestInv, NEW p \in Passes, NEW x \in Products, FindRun(p, x)
    PROVE  InvestInv'
<1> USE DEF FindRun, ClientUnchanged
<1> DEFINE d     == pass[p].day
           taken == [pass[p] EXCEPT !.rates[x] = runs[d][x]]
           asks  == [pass[p] EXCEPT !.pc = "record", !.product = x]
<1>1. /\ pass[p] \in Pass /\ pass[p].rates \in [Products -> AnyRate \cup {NoRate}]
      /\ d \in Days /\ runs[d] \in [Products -> AnyRate \cup {NoRate}]
    BY DEF InvestInv, TypeOK, Pass, PassSound
<1>2. CASE runs[d][x] # NoRate
    <2>1. [pass[p].rates EXCEPT ![x] = runs[d][x]] \in [Products -> AnyRate \cup {NoRate}]
        BY <1>1
    <2>2. /\ taken \in Pass /\ taken.pc = "runs" /\ taken.day = d /\ taken.kind = pass[p].kind
          /\ taken.todo = pass[p].todo /\ taken.rates = [pass[p].rates EXCEPT ![x] = runs[d][x]]
        BY <1>1, <2>1, Zenon DEF Pass
    <2>3. pass' = [pass EXCEPT ![p] = taken]
        BY <1>2
    <2> HIDE DEF taken
    <2>4. pass'[p] = taken
        BY <2>3 DEF InvestInv, TypeOK
    <2>5. PassSound(p)' /\ RatesAgree(p)'
        BY <1>1, <2>2, <2>4 DEF InvestInv, PassSound, RatesAgree, Works
    <2> QED BY <2>2, <2>3, <2>5, PassTyped DEF InvestInv, TypeOK
<1>3. CASE runs[d][x] = NoRate
    <2>1. /\ asks \in Pass /\ asks.pc = "record" /\ asks.day = d /\ asks.kind = pass[p].kind
          /\ asks.todo = pass[p].todo /\ asks.rates = pass[p].rates
        BY <1>1, Zenon DEF Pass
    <2>2. pass' = [pass EXCEPT ![p] = asks]
        BY <1>3
    <2> HIDE DEF asks
    <2>3. pass'[p] = asks
        BY <2>2 DEF InvestInv, TypeOK
    <2>4. PassSound(p)' /\ RatesAgree(p)'
        BY <1>1, <2>1, <2>3 DEF InvestInv, PassSound, RatesAgree, Works
    <2> QED BY <2>1, <2>2, <2>4, PassTyped DEF InvestInv, TypeOK
<1> QED BY <1>2, <1>3

(* A pass that moves on in its list, and may pay and journal on the way.    *)
LEMMA PassMoves ==
    ASSUME InvestInv, NEW p \in Passes, NEW new \in Pass,
           pass' = [pass EXCEPT ![p] = new], UNCHANGED <<day, withdrawal, runs, started>>,
           pass[p].pc # "idle", new.pc # "idle",
           new.day = pass[p].day, new.kind = pass[p].kind, new.rates = pass[p].rates,
           \A t \in new.todo : t.product \in ProductsOf(pass[p].kind),
           Works(p) \/ \A x \in ProductsOf(pass[p].kind) : pass[p].rates[x] \in AnyRate,
           ledger' \in Wallet, positions' \in [Ids -> Position], journal' \in Seq(Entry),
           strays' \in SUBSET Stray
    PROVE  InvestInv'
<1>1. pass'[p] = new
    BY DEF InvestInv, TypeOK
<1>2. PassSound(p)'
    BY <1>1 DEF InvestInv, PassSound, Works
<1>3. RatesAgree(p)'
    BY <1>1 DEF InvestInv, RatesAgree
<1> QED BY <1>2, <1>3, PassTyped DEF InvestInv, TypeOK

LEMMA ReadPositionsKeeps ==
    ASSUME InvestInv, NEW p \in Passes, ReadPositions(p)
    PROVE  InvestInv'
<1> DEFINE k   == pass[p].kind
           new == [pass[p] EXCEPT !.pc = "accrue", !.todo = {TaskOf(i) : i \in ActiveOf(k)}]
<1> USE DEF ReadPositions, ClientUnchanged
<1>1. /\ pass[p] \in Pass /\ k \in Kinds
      /\ pass[p].rates \in [Products -> AnyRate \cup {NoRate}]
    BY DEF InvestInv, TypeOK, Pass
<1>2. {TaskOf(i) : i \in ActiveOf(k)} \in SUBSET Task
    BY ValueTyped DEF InvestInv, ActiveOf
<1>3. /\ new \in Pass /\ new.pc = "accrue" /\ new.day = pass[p].day /\ new.kind = k
      /\ new.rates = pass[p].rates /\ new.todo = {TaskOf(i) : i \in ActiveOf(k)}
    BY <1>1, <1>2, Zenon DEF Pass
<1>4. pass' = [pass EXCEPT ![p] = new] /\ pass[p].pc # "idle"
    OBVIOUS
<1>5. \A x \in ProductsOf(k) : pass[p].rates[x] \in AnyRate
    BY <1>1 DEF NeededRates, ProductsOf, Products
<1> HIDE DEF new
<1>6. \A t \in new.todo : t.product \in ProductsOf(k)
    BY <1>3 DEF ActiveOf, TaskOf
<1>7. UNCHANGED <<day, withdrawal, runs, started, ledger, positions, journal, strays>>
    OBVIOUS
<1> HIDE DEF ReadPositions, ClientUnchanged
<1> QED BY <1>3, <1>4, <1>5, <1>6, <1>7, PassMoves DEF InvestInv, TypeOK

LEMMA AccrueKeeps ==
    ASSUME InvestInv, NEW p \in Passes, NEW t \in pass[p].todo, Accrue(p, t)
    PROVE  InvestInv'
<1> DEFINE y   == DailyYield(t, pass[p].rates[t.product])
           new == [pass[p] EXCEPT !.todo = @ \ {t}, !.yield = y,
                                  !.pc = IF y = 0 THEN "accrue" ELSE "journal"]
<1> USE DEF Accrue, ClientUnchanged
<1>1. pass[p] \in Pass /\ t \in Task /\ t.value \in Int /\ t.id \in Ids
    BY DEF InvestInv, TypeOK, Pass, Task
<1>2. pass[p].rates[t.product] \in Int
    BY RatesAssumption DEF InvestInv, PassSound, Works
<1>3. y \in Int
    BY <1>1, <1>2, YieldTyped, Zenon
<1>4. pass' = [pass EXCEPT ![p] = new] /\ pass[p].pc = "accrue"
    OBVIOUS
<1>5. /\ positions' = [positions EXCEPT ![t.id].accrued = Accrued(t, y)]
      /\ strays' \in {strays, strays \cup {"late yield"}}
      /\ UNCHANGED <<day, withdrawal, runs, started, ledger, journal>>
    OBVIOUS
<1> HIDE DEF y, Accrue, ClientUnchanged
<1>6. Accrued(t, y) \in Int
    BY <1>1, <1>3 DEF Accrued, InvestInv, TypeOK, Position
<1>7. positions' \in [Ids -> Position]
    BY <1>1, <1>5, <1>6 DEF InvestInv, TypeOK, Position
<1>8. /\ new \in Pass /\ new.pc \in {"accrue", "journal"} /\ new.day = pass[p].day
      /\ new.kind = pass[p].kind /\ new.rates = pass[p].rates /\ new.todo \subseteq pass[p].todo
    <2>1. pass[p].todo \ {t} \in SUBSET Task
        BY <1>1 DEF Pass
    <2>2. CASE y = 0
        BY <1>1, <1>3, <2>1, <2>2, Zenon DEF Pass
    <2>3. CASE y # 0
        BY <1>1, <1>3, <2>1, <2>3, Zenon DEF Pass
    <2> QED BY <2>2, <2>3
<1> HIDE DEF new
<1>9. /\ strays' \in SUBSET Stray /\ Works(p)
      /\ \A u \in new.todo : u.product \in ProductsOf(pass[p].kind)
    BY <1>4, <1>5, <1>8 DEF InvestInv, TypeOK, PassSound, Works, Stray
<1> QED BY <1>4, <1>5, <1>7, <1>8, <1>9, PassMoves DEF InvestInv, TypeOK

LEMMA JournalYieldKeeps ==
    ASSUME InvestInv, NEW p \in Passes, JournalYield(p)
    PROVE  InvestInv'
<1> DEFINE new == [pass[p] EXCEPT !.pc = "accrue", !.yield = 0]
<1> USE DEF JournalYield, ClientUnchanged
<1>1. pass[p] \in Pass /\ pass[p].yield \in Int /\ 0 \in Int
    BY DEF InvestInv, TypeOK, Pass
<1>2. journal' \in Seq(Entry)
    BY <1>1, RecordTyped DEF InvestInv, YieldType, JournalTypes, Target
<1>3. /\ new \in Pass /\ new.pc = "accrue" /\ new.day = pass[p].day /\ new.kind = pass[p].kind
      /\ new.rates = pass[p].rates /\ new.todo = pass[p].todo
    BY <1>1, Zenon DEF Pass
<1>4. pass' = [pass EXCEPT ![p] = new] /\ pass[p].pc = "journal"
    OBVIOUS
<1>5. UNCHANGED <<day, withdrawal, runs, started, ledger, positions, strays>>
    OBVIOUS
<1> HIDE DEF new, JournalYield, ClientUnchanged
<1>6. Works(p) /\ \A u \in new.todo : u.product \in ProductsOf(pass[p].kind)
    BY <1>3, <1>4 DEF InvestInv, PassSound, Works
<1> QED BY <1>2, <1>3, <1>4, <1>5, <1>6, PassMoves DEF InvestInv, TypeOK

LEMMA RowFailsKeeps ==
    ASSUME InvestInv, NEW p \in Passes, RowFails(p)
    PROVE  InvestInv'
<1>1. pass[p] \in Pass /\ pass[p].todo \in SUBSET Task /\ 0 \in Int
    BY TasksTyped DEF InvestInv
<1> USE DEF RowFails, ClientUnchanged
<1>2. UNCHANGED <<day, withdrawal, runs, started, ledger, positions, journal>>
    OBVIOUS
<1>3. CASE pass[p].pc = "journal" /\ pass' = [pass EXCEPT ![p].pc = "accrue", ![p].yield = 0]
                                  /\ strays' = strays \cup {"cut yield"}
    <2> DEFINE new == [pass[p] EXCEPT !.pc = "accrue", !.yield = 0]
    <2>1. /\ new \in Pass /\ new.pc = "accrue" /\ new.day = pass[p].day
          /\ new.kind = pass[p].kind /\ new.rates = pass[p].rates /\ new.todo = pass[p].todo
        BY <1>1, Zenon DEF Pass
    <2>2. pass' = [pass EXCEPT ![p] = new]
        BY <1>3
    <2> HIDE DEF new, RowFails, ClientUnchanged
    <2>3. /\ strays' \in SUBSET Stray /\ Works(p)
          /\ \A u \in new.todo : u.product \in ProductsOf(pass[p].kind)
        BY <1>3, <2>1 DEF InvestInv, TypeOK, PassSound, Works, Stray
    <2> QED BY <1>2, <1>3, <2>1, <2>2, <2>3, PassMoves DEF InvestInv, TypeOK
<1>4. ASSUME pass[p].pc \in {"accrue", "settle"}, UNCHANGED strays,
             NEW t \in pass[p].todo, pass' = [pass EXCEPT ![p].todo = @ \ {t}]
      PROVE  InvestInv'
    <2> DEFINE new == [pass[p] EXCEPT !.todo = @ \ {t}]
    <2>1. pass[p].todo \ {t} \in SUBSET Task
        BY <1>1
    <2>2. /\ new \in Pass /\ new.pc = pass[p].pc /\ new.day = pass[p].day
          /\ new.kind = pass[p].kind /\ new.rates = pass[p].rates
          /\ new.todo = pass[p].todo \ {t}
        BY <1>1, <2>1, Zenon DEF Pass
    <2>3. pass' = [pass EXCEPT ![p] = new]
        BY <1>4
    <2> HIDE DEF new, RowFails, ClientUnchanged
    <2>4. /\ strays' \in SUBSET Stray /\ Works(p) /\ pass[p].pc # "idle"
          /\ \A u \in new.todo : u.product \in ProductsOf(pass[p].kind)
        BY <1>4, <2>2 DEF InvestInv, TypeOK, PassSound, Works
    <2> QED BY <1>2, <2>2, <2>3, <2>4, PassMoves DEF InvestInv, TypeOK
<1> QED BY <1>3, <1>4

LEMMA ReadMaturedKeeps ==
    ASSUME InvestInv, NEW p \in Passes, ReadMatured(p)
    PROVE  InvestInv'
<1> DEFINE due == {TaskOf(i) : i \in {j \in ActiveOf("plan") : MaturedBy(j, pass[p].day)}}
           new == [pass[p] EXCEPT !.pc = "settle", !.todo = due]
<1> USE DEF ReadMatured, ClientUnchanged
<1>1. pass[p] \in Pass
    BY DEF InvestInv, TypeOK
<1>2. due \in SUBSET Task /\ \A t \in due : t.product \in ProductsOf("plan")
    BY ValueTyped DEF InvestInv, ActiveOf, TaskOf
<1>3. pass' = [pass EXCEPT ![p] = new] /\ pass[p].pc = "accrue" /\ pass[p].kind = "plan"
    OBVIOUS
<1>4. UNCHANGED <<day, withdrawal, runs, started, ledger, positions, journal, strays>>
    OBVIOUS
<1> HIDE DEF due, ReadMatured, ClientUnchanged
<1>5. /\ new \in Pass /\ new.pc = "settle" /\ new.day = pass[p].day /\ new.kind = pass[p].kind
      /\ new.rates = pass[p].rates /\ new.todo = due
    BY <1>1, <1>2, Zenon DEF Pass
<1> HIDE DEF new
<1>6. Works(p) /\ \A t \in new.todo : t.product \in ProductsOf(pass[p].kind)
    BY <1>2, <1>3, <1>5 DEF Works
<1> QED BY <1>3, <1>4, <1>5, <1>6, PassMoves DEF InvestInv, TypeOK

LEMMA SettleKeeps ==
    ASSUME InvestInv, NEW p \in Passes, NEW t \in pass[p].todo, Settle(p, t)
    PROVE  InvestInv'
<1> DEFINE new == [pass[p] EXCEPT !.todo = @ \ {t}]
<1> USE DEF Settle, ClientUnchanged
<1>1. pass[p] \in Pass /\ t.value \in Int /\ pass[p].todo \ {t} \in SUBSET Task
    BY TasksTyped DEF InvestInv
<1>2. PayoutAmount(t) \in Int
    BY <1>1, PayoutTyped, Zenon
<1>3. ledger' \in Wallet
    BY <1>2, CreditTyped DEF InvestInv
<1>4. positions' \in [Ids -> Position]
    BY EndedTyped DEF InvestInv
<1>5. journal' \in Seq(Entry)
    BY <1>2, RecordTyped DEF InvestInv, JournalTypes, Target
<1>6. pass' = [pass EXCEPT ![p] = new] /\ pass[p].pc = "settle"
    OBVIOUS
<1>7. strays' \in SUBSET Stray
    BY DEF InvestInv, TypeOK, Stray
<1>8. UNCHANGED <<day, withdrawal, runs, started>>
    OBVIOUS
<1> HIDE DEF Settle, ClientUnchanged
<1>9. /\ new \in Pass /\ new.pc = pass[p].pc /\ new.day = pass[p].day
      /\ new.kind = pass[p].kind /\ new.rates = pass[p].rates
      /\ new.todo = pass[p].todo \ {t}
    BY <1>1, Zenon DEF Pass
<1> HIDE DEF new
<1>10. Works(p) /\ \A u \in new.todo : u.product \in ProductsOf(pass[p].kind)
    BY <1>6, <1>9 DEF Works, InvestInv, PassSound
<1> QED BY <1>3, <1>4, <1>5, <1>6, <1>7, <1>8, <1>9, <1>10, PassMoves

LEMMA PassKeeps ==
    ASSUME InvestInv, NEW p \in Passes, PassAdvances(p)
    PROVE  InvestInv'
<1>1. CASE CreateRunRefused(p) \/ PassDone(p)
    BY <1>1, EndKeeps DEF CreateRunRefused, PassDone, ClientUnchanged
<1> QED BY <1>1, RunTreasuryKeeps, FindRunKeeps, CreateRunKeeps, ReadPositionsKeeps, AccrueKeeps,
           JournalYieldKeeps, ReadMaturedKeeps, SettleKeeps DEF PassAdvances

-----------------------------------------------------------------------------
LEMMA NextDayKeeps ==
    ASSUME InvestInv, NextDay
    PROVE  InvestInv'
<1>1. day' \in Days
    BY InvestBoundsAssumption DEF InvestInv, TypeOK, NextDay, Days
<1> QED BY <1>1, JobsStay DEF InvestInv, TypeOK, NextDay

LEMMA RestartKeeps ==
    ASSUME InvestInv, Restart
    PROVE  InvestInv'
<1> USE DEF Restart
<1>1. pass' \in [Passes -> Pass] /\ withdrawal' \in [Withdrawers -> Withdrawal]
    BY IdleTyped DEF IdleWithdrawal, Withdrawal
<1>2. ASSUME NEW p \in Passes PROVE PassSound(p)' /\ RatesAgree(p)'
    BY DEF PassSound, RatesAgree, Works, IdlePass, Unknown
<1>3. strays' \in SUBSET Stray
    BY DEF InvestInv, TypeOK, Stray
<1> QED BY <1>1, <1>2, <1>3 DEF InvestInv, TypeOK

LEMMA InvestStep == InvestInv /\ [Next]_vars => InvestInv'
<1> SUFFICES ASSUME InvestInv, [Next]_vars PROVE InvestInv'
    OBVIOUS
<1>1. CASE ClientStep
    BY <1>1, ReceiveKeeps, TransferToKeeps, TransferFromKeeps, DepositBasketKeeps,
       DepositPlanKeeps, FindActiveKeeps, WithdrawKeeps DEF ClientStep
<1>2. ASSUME NEW p \in Passes, PassAdvances(p) \/ RowFails(p) \/ \E k \in Kinds : StartPass(p, k)
      PROVE  InvestInv'
    BY <1>2, PassKeeps, RowFailsKeeps, StartKeeps
<1>3. CASE UNCHANGED vars
    BY <1>3, JobsStay DEF vars, InvestInv, TypeOK
<1> QED BY <1>1, <1>2, <1>3, NextDayKeeps, RestartKeeps DEF Next

LEMMA InvestInvariant == Spec => []InvestInv
BY InvestInit, InvestStep, PTL DEF Spec

(* However passes overlap, fail, or are cut, and whatever the client does   *)
(* meanwhile, no step debits the available balance below zero, pays an      *)
(* amount that is not a number, or uses a rate it does not have.            *)
THEOREM TypeCorrect == Spec => []TypeOK
BY InvestInvariant, PTL DEF InvestInv

(* The return of a day is written once: two passes of a day, by schedule    *)
(* and by hand, never accrue different returns of the same product, save    *)
(* for the basket that follows the treasury bot (recordStockBasketRun and   *)
(* recordFixedTermPlanRun, whose unique key refuses the second creation).   *)
THEOREM RateWrittenOnce == Spec => []DayRateFinal
<1>1. InvestInv => DayRateFinal
    BY DEF InvestInv, RatesAgree, DayRateFinal
<1> QED BY <1>1, InvestInvariant, PTL

-----------------------------------------------------------------------------
(* One step of WalletExplained: the balance of the wallet moves with a row  *)
(* of the journal, by what the statement says of that row, or not at all.   *)

Journalled ==
    \/ journal' = journal /\ ledger'.invest = ledger.invest
    \/ \E row \in Entry : /\ journal' = Append(journal, row)
                          /\ ledger'.invest = ledger.invest + WalletEffect(row)

RowNow(type, a, target) == [type |-> type, amount |-> a, target |-> target, day |-> day]

(* A row of which the effect is known.                                      *)
LEMMA RowJournalled ==
    ASSUME InvestInv, NEW type \in JournalTypes, NEW a \in Int, NEW target \in Target,
           NEW effect \in Int, Record(type, a, target),
           WalletEffect(RowNow(type, a, target)) = effect,
           ledger'.invest = ledger.invest + effect
    PROVE  Journalled
<1>1. day \in Nat
    BY InvestBoundsAssumption DEF InvestInv, TypeOK, Days
<1>2. RowNow(type, a, target) \in Entry
    BY <1>1, Zenon DEF RowNow, Entry
<1>3. journal' = Append(journal, RowNow(type, a, target))
    BY DEF Record, RowNow
<1> QED BY <1>2, <1>3 DEF Journalled

(* What the statement says of each row.                                     *)
LEMMA Effects ==
    ASSUME NEW a \in Int, NEW target \in Target
    PROVE  /\ WalletEffect(RowNow("DEPOSIT", a, target)) = IF target = "INVESTMENT" THEN a ELSE 0
           /\ WalletEffect(RowNow("INVESTMENT_WALLET_TRANSFER_IN", a, target)) = a
           /\ WalletEffect(RowNow("INVESTMENT_WALLET_TRANSFER_OUT", a, target)) = - a
           /\ WalletEffect(RowNow("INVESTMENT_DEPOSIT", a, target)) = - a
           /\ WalletEffect(RowNow("FIXED_TERM_DEPOSIT", a, target)) = - a
           /\ WalletEffect(RowNow("INVESTMENT_WITHDRAWAL", a, target)) = a
           /\ WalletEffect(RowNow("FIXED_TERM_MATURITY_PAYOUT", a, target)) = a
           /\ WalletEffect(RowNow("INVESTMENT_YIELD_ACCRUAL", a, target)) = 0
           /\ WalletEffect(RowNow("FIXED_TERM_YIELD_ACCRUAL", a, target)) = 0
BY DEF WalletEffect, RowNow, DepositTypes, WithdrawalTypes

(* What the statements of the ledger do to the balance of the wallet.       *)
LEMMA WalletStatements ==
    ASSUME InvestInv, NEW a \in Int
    PROVE  /\ ledger.invest \in Int
           /\ CreditInvestment(ledger, a).invest = ledger.invest + a
           /\ CreditAvailable(ledger, a).invest = ledger.invest
           /\ DebitInvestment(ledger, a).invest = ledger.invest - a
           /\ TransferToInvestment(ledger, a).invest = ledger.invest + a
           /\ TransferFromInvestment(ledger, a).invest = ledger.invest - a
<1>1. ledger \in Wallet
    BY DEF InvestInv, TypeOK
<1> QED BY <1>1 DEF Wallet, CreditInvestment, CreditAvailable, DebitInvestment, DebitAvailable,
           TransferToInvestment, TransferFromInvestment

LEMMA ClientJournalled ==
    ASSUME InvestInv, ClientStep
    PROVE  Journalled
<1> USE SumsAssumption DEF JournalTypes, Target
<1>1. ASSUME NEW a \in Receipts, NEW target \in Target, Receive(a, target) PROVE Journalled
    <2>1. a \in Int /\ Record("DEPOSIT", a, target)
        BY <1>1 DEF Receive
    <2>2. CASE target = "INVESTMENT"
        BY <1>1, <2>1, <2>2, Effects, WalletStatements, RowJournalled DEF Receive
    <2>3. CASE target # "INVESTMENT"
        <3>1. ledger'.invest = ledger.invest + 0
            BY <1>1, <2>1, <2>3, WalletStatements DEF Receive
        <3> QED BY <2>1, <2>3, <3>1, Effects, RowJournalled
    <2> QED BY <2>2, <2>3
<1>2. ASSUME NEW a \in Amounts, TransferToWallet(a) PROVE Journalled
    BY <1>2, Effects, WalletStatements, RowJournalled DEF TransferToWallet
<1>3. ASSUME NEW a \in Amounts, TransferFromWallet(a) PROVE Journalled
    <2>1. ledger'.invest = ledger.invest + (- a)
        BY <1>3, WalletStatements DEF TransferFromWallet
    <2> QED BY <1>3, <2>1, Effects, RowJournalled DEF TransferFromWallet
<1>4. ASSUME NEW b \in Baskets, NEW i \in Ids, NEW a \in Amounts, DepositBasket(b, i, a)
      PROVE  Journalled
    <2>1. ledger'.invest = ledger.invest + (- a)
        BY <1>4, WalletStatements DEF DepositBasket
    <2> QED BY <1>4, <2>1, Effects, RowJournalled DEF DepositBasket
<1>5. ASSUME NEW x \in Plans, NEW i \in Ids, NEW a \in Amounts, DepositPlan(x, i, a)
      PROVE  Journalled
    <2>1. ledger'.invest = ledger.invest + (- a)
        BY <1>5, WalletStatements DEF DepositPlan
    <2> QED BY <1>5, <2>1, Effects, RowJournalled DEF DepositPlan
<1>6. ASSUME NEW w \in Withdrawers, NEW i \in Ids, FindActive(w, i) PROVE Journalled
    BY <1>6 DEF FindActive, Journalled
<1>7. ASSUME NEW w \in Withdrawers, Withdraw(w) PROVE Journalled
    <2> DEFINE a == WithdrawnAmount(withdrawal[w].task)
    <2>1. a \in Int
        BY ReadTyped DEF InvestInv, WithdrawnAmount
    <2>2. ledger' = CreditInvestment(ledger, a) /\ Record("INVESTMENT_WITHDRAWAL", a, "AVAILABLE")
        BY <1>7 DEF Withdraw
    <2> HIDE DEF a
    <2> QED BY <2>1, <2>2, Effects, WalletStatements, RowJournalled
<1> QED BY <1>1, <1>2, <1>3, <1>4, <1>5, <1>6, <1>7 DEF ClientStep

LEMMA PassJournalled ==
    ASSUME InvestInv, NEW p \in Passes, PassAdvances(p)
    PROVE  Journalled
<1>1. ASSUME UNCHANGED <<ledger, journal>> PROVE Journalled
    BY <1>1 DEF Journalled
<1>2. ASSUME JournalYield(p) PROVE Journalled
    <2>1. pass[p].yield \in Int
        BY DEF InvestInv, TypeOK, Pass
    <2>2. YieldType(pass[p].kind) \in AccrualTypes
        BY DEF YieldType, AccrualTypes
    <2>3. /\ Record(YieldType(pass[p].kind), pass[p].yield, "AVAILABLE")
          /\ ledger'.invest = ledger.invest + 0
        BY <1>2, WalletStatements DEF JournalYield
    <2> QED BY <2>1, <2>2, <2>3, Effects, RowJournalled DEF AccrualTypes, JournalTypes, Target
<1>3. ASSUME NEW t \in pass[p].todo, Settle(p, t) PROVE Journalled
    <2> DEFINE a == PayoutAmount(t)
    <2>1. a \in Int
        BY TasksTyped, PayoutTyped, Zenon DEF InvestInv
    <2>2. ledger' = CreditInvestment(ledger, a) /\ Record("FIXED_TERM_MATURITY_PAYOUT", a, "AVAILABLE")
        BY <1>3 DEF Settle
    <2> HIDE DEF a
    <2> QED BY <2>1, <2>2, Effects, WalletStatements, RowJournalled DEF JournalTypes, Target
<1> QED BY <1>1, <1>2, <1>3 DEF PassAdvances, RunTreasury, FindRun, CreateRun, CreateRunRefused,
           ReadPositions, Accrue, ReadMatured, PassDone

(* The balance of the investment wallet never moves without the row of the  *)
(* journal that explains it, whatever passes, payments and restarts         *)
(* interleave: the step by which WalletExplained, which the runs check,     *)
(* stays true.                                                              *)
THEOREM WalletFollowsJournal == Spec => [][Journalled]_vars
<1>1. InvestInv /\ [Next]_vars => [Journalled]_vars
    <2> SUFFICES ASSUME InvestInv, Next PROVE Journalled
        OBVIOUS
    <2>1. ASSUME UNCHANGED <<ledger, journal>> PROVE Journalled
        BY <2>1 DEF Journalled
    <2> QED BY <2>1, ClientJournalled, PassJournalled DEF Next, StartPass, RowFails, NextDay, Restart
<1> QED BY <1>1, InvestInvariant, PTL DEF Spec

-----------------------------------------------------------------------------
(* The sums over the journal.  A step writes at most one row, at the end,   *)
(* and a sum gains what that row adds to it.                                *)

WalletEffects == [n \in DOMAIN journal |-> WalletEffect(journal[n])]

LEMMA EffectIsInteger == \A row \in Entry : WalletEffect(row) \in Int
BY DEF WalletEffect, Entry

(* The balance of the statement is the sum of the effects of all rows.      *)
LEMMA ClosingIsSum ==
    ASSUME journal \in Seq(Entry)
    PROVE  WalletSection(journal, 1, Len(journal)).closing
              = SumFunctionOnSet(WalletEffects, 1 .. Len(journal))
<1>1. {n \in DOMAIN journal : n <= Len(journal)} = 1 .. Len(journal)
    OBVIOUS
<1>2. WalletSection(journal, 1, Len(journal)).closing = WalletAfter(journal, Len(journal))
    BY DEF WalletSection
<1>3. WalletAfter(journal, Len(journal))
         = SumFunctionOnSet(WalletEffects, {n \in DOMAIN journal : n <= Len(journal)})
    BY DEF WalletAfter, SumRows, WalletEffects
<1> QED BY <1>1, <1>2, <1>3

LEMMA NextRow ==
    ASSUME NEW n \in Nat
    PROVE  /\ IsFiniteSet(1 .. n) /\ n + 1 \notin 1 .. n
           /\ 1 .. n + 1 = (1 .. n) \cup {n + 1}
BY FS_Interval

BalanceIsSum == ledger.invest = SumFunctionOnSet(WalletEffects, 1 .. Len(journal))

(* The balance of the wallet is the one that the statement works out from   *)
(* the rows of the journal, for any history of passes, payments, failures   *)
(* and restarts (buildStatementData).                                       *)
THEOREM WalletIsExplained == Spec => []WalletExplained
<1>1. Init => BalanceIsSum
    <2> SUFFICES ASSUME Init PROVE BalanceIsSum
        OBVIOUS
    <2>1. journal = <<>> /\ journal \in Seq(Entry) /\ ledger.invest = 0
        BY DEF Init, EmptyLedger
    <2>2. 1 .. Len(journal) = {}
        BY <2>1
    <2>3. SumFunctionOnSet(WalletEffects, {}) = 0
        BY SumOfNone
    <2> QED BY <2>1, <2>2, <2>3 DEF BalanceIsSum
<1>2. InvestInv /\ InvestInv' /\ BalanceIsSum /\ [Journalled]_vars => BalanceIsSum'
    <2> SUFFICES ASSUME InvestInv, InvestInv', BalanceIsSum, [Journalled]_vars
                 PROVE  BalanceIsSum'
        OBVIOUS
    <2> DEFINE n == Len(journal)
    <2>1. journal \in Seq(Entry) /\ journal' \in Seq(Entry) /\ ledger.invest \in Int
        BY DEF InvestInv, TypeOK, Wallet
    <2>2. CASE journal' = journal /\ ledger'.invest = ledger.invest
        BY <2>2 DEF BalanceIsSum, WalletEffects
    <2>3. ASSUME NEW row \in Entry, journal' = Append(journal, row),
                 ledger'.invest = ledger.invest + WalletEffect(row)
          PROVE  BalanceIsSum'
        <3>1. n \in Nat /\ Len(journal') = n + 1 /\ journal'[n + 1] = row
            BY <2>1, <2>3
        <3>2. \A k \in 1 .. n : /\ WalletEffects[k] = WalletEffect(journal[k])
                                /\ journal[k] \in Entry /\ journal'[k] = journal[k]
            BY <2>1, <2>3 DEF WalletEffects
        <3>3. \A k \in 1 .. n + 1 : WalletEffects'[k] = WalletEffect(journal'[k])
            BY <2>1, <3>1 DEF WalletEffects
        <3>4. \A k \in 1 .. n : k \in 1 .. n + 1
            BY <3>1
        <3>5. \A k \in 1 .. n : WalletEffects[k] \in Int /\ WalletEffects'[k] = WalletEffects[k]
            BY <3>2, <3>3, <3>4, EffectIsInteger, Zenon
        <3>6. WalletEffects'[n + 1] = WalletEffect(row) /\ WalletEffect(row) \in Int
            BY <3>1, <3>3, EffectIsInteger
        <3> DEFINE f == WalletEffects
                   g == WalletEffects'
                   S == 1 .. n
        <3>7. IsFiniteSet(S) /\ n + 1 \notin S /\ 1 .. n + 1 = S \cup {n + 1}
            BY <3>1, NextRow
        <3>8. /\ \A k \in S : f[k] \in Int /\ g[k] = f[k]
              /\ g[n + 1] \in Int
            BY <3>5, <3>6
        <3>9. ledger.invest = SumFunctionOnSet(f, S)
            BY DEF BalanceIsSum
        <3> HIDE DEF f, g, S
        <3>10. SumFunctionOnSet(g, S \cup {n + 1}) = SumFunctionOnSet(f, S) + g[n + 1]
            BY <3>7, <3>8, SumOfMore
        <3>11. ledger'.invest = SumFunctionOnSet(g, 1 .. n + 1)
            BY <2>3, <3>6, <3>7, <3>9, <3>10 DEF g
        <3> QED BY <3>1, <3>11 DEF BalanceIsSum, g
    <2>4. CASE UNCHANGED vars
        BY <2>2, <2>4 DEF vars
    <2> QED BY <2>2, <2>3, <2>4 DEF Journalled
<1>3. InvestInv /\ BalanceIsSum => WalletExplained
    BY ClosingIsSum DEF InvestInv, TypeOK, BalanceIsSum, WalletExplained
<1> QED BY <1>1, <1>2, <1>3, InvestInvariant, WalletFollowsJournal, PTL DEF Spec

-----------------------------------------------------------------------------
(* The yield of the positions against the journal.  The sums agree as long  *)
(* as no pass was cut between its two statements; that a new position       *)
(* starts with no yield needs that a pass never increments a row that was   *)
(* not opened yet.                                                          *)

YieldAmounts == [n \in DOMAIN journal |-> Amount(journal[n])]

YieldsAgree ==
    SumFunctionOnSet(Accrueds, Ids)
        = SumFunctionOnSet(YieldAmounts, YieldRows) + SumFunctionOnSet(YieldsInFlight, Passes)

OpenedOnce ==
    /\ \A i \in Ids : positions[i].status = "none" => positions[i].accrued = 0
    /\ \A p \in Passes : \A t \in pass[p].todo : positions[t.id].status # "none"

OneYieldAtWork == \A p \in Passes : pass[p].pc # "journal" => pass[p].yield = 0

YieldBooks == OpenedOnce /\ OneYieldAtWork /\ ("cut yield" \notin strays => YieldsAgree)

LEMMA SumsTyped ==
    ASSUME InvestInv
    PROVE  /\ \A i \in Ids : Accrueds[i] \in Int /\ Accrueds[i] = positions[i].accrued
           /\ \A p \in Passes : YieldsInFlight[p] \in Int /\ YieldsInFlight[p] = pass[p].yield
           /\ IsFiniteSet(YieldRows) /\ YieldRows \subseteq 1 .. Len(journal)
           /\ \A n \in YieldRows : YieldAmounts[n] \in Int
<1>1. journal \in Seq(Entry)
    BY DEF InvestInv, TypeOK
<1>2. YieldRows \subseteq 1 .. Len(journal) /\ Len(journal) \in Nat
    BY <1>1 DEF YieldRows
<1>3. IsFiniteSet(YieldRows)
    <2>1. IsFiniteSet(1 .. Len(journal))
        BY <1>2, FS_Interval
    <2> QED BY <1>2, <2>1, FS_Subset
<1>4. ASSUME NEW n \in YieldRows PROVE YieldAmounts[n] \in Int
    <2>1. n \in DOMAIN journal /\ journal[n] \in Entry
        BY <1>1 DEF YieldRows
    <2>2. YieldAmounts[n] = journal[n].amount
        BY <2>1 DEF YieldAmounts, Amount
    <2> QED BY <2>1, <2>2 DEF Entry
<1>5. \A i \in Ids : Accrueds[i] = positions[i].accrued /\ positions[i].accrued \in Int
    BY DEF InvestInv, TypeOK, Position, Accrueds
<1>6. \A p \in Passes : YieldsInFlight[p] = pass[p].yield /\ pass[p].yield \in Int
    BY DEF InvestInv, TypeOK, Pass, YieldsInFlight
<1> QED BY <1>2, <1>3, <1>4, <1>5, <1>6

(* What a step does to the sum over the journal.                            *)
LEMMA OtherRows ==
    ASSUME InvestInv, NEW row \in Entry, row.type \notin AccrualTypes,
           journal' = Append(journal, row)
    PROVE  SumFunctionOnSet(YieldAmounts, YieldRows)'
              = SumFunctionOnSet(YieldAmounts, YieldRows)
<1> DEFINE n == Len(journal)
<1>1. journal \in Seq(Entry) /\ n \in Nat
    BY DEF InvestInv, TypeOK
<1>2. /\ DOMAIN journal = 1 .. n /\ DOMAIN journal' = 1 .. n + 1
      /\ journal'[n + 1] = row /\ \A k \in 1 .. n : journal'[k] = journal[k]
    BY <1>1
<1>3. YieldRows' = YieldRows
    BY <1>1, <1>2 DEF YieldRows
<1>4. \A k \in YieldRows : YieldAmounts[k] = YieldAmounts'[k]
    BY <1>1, <1>2 DEF YieldRows, YieldAmounts
<1> DEFINE f == YieldAmounts
           g == YieldAmounts'
           S == YieldRows
<1>5. IsFiniteSet(S) /\ \A k \in S : f[k] = g[k]
    BY <1>4, SumsTyped
<1> HIDE DEF f, g, S
<1>6. SumFunctionOnSet(f, S) = SumFunctionOnSet(g, S)
    BY <1>5, SumOfEquals
<1> QED BY <1>3, <1>6 DEF f, g, S

LEMMA YieldRow ==
    ASSUME InvestInv, InvestInv', NEW row \in Entry, row.type \in AccrualTypes,
           journal' = Append(journal, row)
    PROVE  SumFunctionOnSet(YieldAmounts, YieldRows)'
              = SumFunctionOnSet(YieldAmounts, YieldRows) + row.amount
<1> DEFINE n == Len(journal)
<1>1. journal \in Seq(Entry) /\ n \in Nat
    BY DEF InvestInv, TypeOK
<1>2. /\ DOMAIN journal = 1 .. n /\ DOMAIN journal' = 1 .. n + 1
      /\ journal'[n + 1] = row /\ \A k \in 1 .. n : journal'[k] = journal[k]
    BY <1>1
<1>3. YieldRows' = YieldRows \cup {n + 1} /\ n + 1 \notin YieldRows
    BY <1>1, <1>2 DEF YieldRows
<1>4. \A k \in YieldRows : YieldAmounts'[k] = YieldAmounts[k]
    BY <1>1, <1>2 DEF YieldRows, YieldAmounts
<1>5. YieldAmounts'[n + 1] = row.amount /\ row.amount \in Int
    BY <1>1, <1>2 DEF YieldAmounts, Amount, Entry
<1> DEFINE f == YieldAmounts
           g == YieldAmounts'
           S == YieldRows
<1>6. /\ IsFiniteSet(S) /\ n + 1 \notin S
      /\ \A k \in S : f[k] \in Int /\ g[k] = f[k]
      /\ g[n + 1] \in Int
    BY <1>3, <1>4, <1>5, SumsTyped
<1> HIDE DEF f, g, S
<1>7. SumFunctionOnSet(g, S \cup {n + 1}) = SumFunctionOnSet(f, S) + g[n + 1]
    BY <1>6, SumOfMore
<1> QED BY <1>3, <1>5, <1>7 DEF f, g, S

\* No yield is added, journalled or cut.
NoYield ==
    /\ \A i \in Ids : positions'[i].accrued = positions[i].accrued
    /\ \A i \in Ids : positions'[i].status = "none" => positions[i].status = "none"
    /\ \/ journal' = journal
       \/ \E row \in Entry : row.type \notin AccrualTypes /\ journal' = Append(journal, row)
    /\ "cut yield" \in strays => "cut yield" \in strays'

PassesQuiet ==
    \A p \in Passes :
        /\ pass'[p].yield = pass[p].yield
        /\ pass'[p].pc # "journal" => pass[p].pc # "journal"
        /\ \A t \in pass'[p].todo : t.id \in Ids /\ positions[t.id].status # "none"

LEMMA QuietKeeps ==
    ASSUME InvestInv, YieldBooks, NoYield, PassesQuiet
    PROVE  YieldBooks'
<1>1. OpenedOnce'
    BY DEF YieldBooks, OpenedOnce, NoYield, PassesQuiet
<1>2. OneYieldAtWork'
    BY DEF YieldBooks, OneYieldAtWork, PassesQuiet
<1>3. Accrueds' = Accrueds
    BY DEF Accrueds, NoYield
<1>4. YieldsInFlight' = YieldsInFlight
    BY DEF YieldsInFlight, PassesQuiet
<1>5. SumFunctionOnSet(YieldAmounts, YieldRows)' = SumFunctionOnSet(YieldAmounts, YieldRows)
    <2>1. CASE journal' = journal
        BY <2>1 DEF YieldAmounts, YieldRows
    <2> QED BY <2>1, OtherRows DEF NoYield
<1>6. YieldsAgree => YieldsAgree'
    BY <1>3, <1>4, <1>5 DEF YieldsAgree
<1> QED BY <1>1, <1>2, <1>6 DEF YieldBooks, NoYield

LEMMA RowOf ==
    ASSUME InvestInv, NEW type \in JournalTypes, NEW a \in Int, NEW target \in Target,
           Record(type, a, target)
    PROVE  \E row \in Entry : /\ row.type = type /\ row.amount = a
                              /\ journal' = Append(journal, row)
<1>1. day \in Nat
    BY InvestBoundsAssumption DEF InvestInv, TypeOK, Days
<1>2. RowNow(type, a, target) \in Entry
    BY <1>1, Zenon DEF RowNow, Entry
<1>3. RowNow(type, a, target).type = type /\ RowNow(type, a, target).amount = a
    BY DEF RowNow
<1>4. journal' = Append(journal, RowNow(type, a, target))
    BY DEF Record, RowNow
<1> QED BY <1>2, <1>3, <1>4

LEMMA OtherRecord ==
    ASSUME InvestInv, NEW type \in JournalTypes \ AccrualTypes, NEW a \in Int,
           NEW target \in Target, Record(type, a, target)
    PROVE  \E row \in Entry : row.type \notin AccrualTypes /\ journal' = Append(journal, row)
BY RowOf

LEMMA PassesStay ==
    ASSUME InvestInv, YieldBooks, UNCHANGED pass
    PROVE  PassesQuiet
<1>1. \A p \in Passes : \A t \in pass[p].todo : t.id \in Ids
    BY TasksTyped DEF InvestInv
<1> QED BY <1>1 DEF PassesQuiet, YieldBooks, OpenedOnce

(* Ending positions is no yield.                                            *)
LEMMA EndedQuiet ==
    ASSUME InvestInv, NEW i, NEW status \in {"CLOSED", "MATURED"}, positions' = Ended(i, status)
    PROVE  \A k \in Ids : /\ positions'[k].accrued = positions[k].accrued
                          /\ positions'[k].status = "none" => positions[k].status = "none"
<1>1. positions \in [Ids -> Position]
    BY DEF InvestInv, TypeOK
<1> QED BY <1>1 DEF Ended, Position

LEMMA ClientYields == InvestInv /\ YieldBooks /\ ClientStep => YieldBooks'
<1> SUFFICES ASSUME InvestInv, YieldBooks, ClientStep PROVE YieldBooks'
    OBVIOUS
<1>0. positions \in [Ids -> Position]
    BY DEF InvestInv, TypeOK
<1>1. PassesQuiet
    <2>1. UNCHANGED pass
        BY DEF ClientStep, Receive, TransferToWallet, TransferFromWallet, DepositBasket,
               DepositPlan, FindActive, Withdraw, JobsUnchanged
    <2> QED BY <2>1, PassesStay
<1>2. "cut yield" \in strays => "cut yield" \in strays'
    BY DEF ClientStep, Receive, TransferToWallet, TransferFromWallet, DepositBasket,
           DepositPlan, FindActive, Withdraw, JobsUnchanged
<1>3. \/ journal' = journal
      \/ \E row \in Entry : row.type \notin AccrualTypes /\ journal' = Append(journal, row)
    <2> USE SumsAssumption DEF JournalTypes, AccrualTypes, Target
    <2>1. ASSUME NEW a \in Receipts, NEW target \in Target, Receive(a, target)
          PROVE  \E row \in Entry : row.type \notin AccrualTypes /\ journal' = Append(journal, row)
        BY <2>1, OtherRecord DEF Receive
    <2>2. ASSUME NEW a \in Amounts, TransferToWallet(a) \/ TransferFromWallet(a)
          PROVE  \E row \in Entry : row.type \notin AccrualTypes /\ journal' = Append(journal, row)
        BY <2>2, OtherRecord DEF TransferToWallet, TransferFromWallet
    <2>3. ASSUME NEW x, NEW i \in Ids, NEW a \in Amounts, DepositBasket(x, i, a) \/ DepositPlan(x, i, a)
          PROVE  \E row \in Entry : row.type \notin AccrualTypes /\ journal' = Append(journal, row)
        BY <2>3, OtherRecord DEF DepositBasket, DepositPlan
    <2>4. ASSUME NEW w \in Withdrawers, Withdraw(w)
          PROVE  \E row \in Entry : row.type \notin AccrualTypes /\ journal' = Append(journal, row)
        <3> DEFINE a == WithdrawnAmount(withdrawal[w].task)
        <3>1. a \in Int
            BY ReadTyped DEF InvestInv, WithdrawnAmount
        <3>2. Record("INVESTMENT_WITHDRAWAL", a, "AVAILABLE")
            BY <2>4 DEF Withdraw
        <3> HIDE DEF a
        <3> QED BY <3>1, <3>2, OtherRecord
    <2>5. ASSUME NEW w \in Withdrawers, NEW i \in Ids, FindActive(w, i)
          PROVE  journal' = journal
        BY <2>5 DEF FindActive
    <2> QED BY <2>1, <2>2, <2>3, <2>4, <2>5, Zenon DEF ClientStep
<1>4. \A k \in Ids : /\ positions'[k].accrued = positions[k].accrued
                     /\ positions'[k].status = "none" => positions[k].status = "none"
    <2> DEFINE Same == \A k \in Ids : /\ positions'[k].accrued = positions[k].accrued
                                      /\ positions'[k].status = "none" => positions[k].status = "none"
    <2>1. ASSUME UNCHANGED positions PROVE Same
        BY <2>1
    <2>2. ASSUME NEW x, NEW i \in Ids, NEW a, NEW until, positions[i].status = "none",
                 positions' = [positions EXCEPT ![i] = Opened(x, a, until)]
          PROVE  Same
        BY <1>0, <2>2 DEF YieldBooks, OpenedOnce, Opened
    <2>3. ASSUME NEW i \in Ids, NEW a, positions' = [positions EXCEPT ![i] = ToppedUp(i, a)]
          PROVE  Same
        <3>1. ToppedUp(i, a).accrued = positions[i].accrued /\ ToppedUp(i, a).status = positions[i].status
            BY <1>0, Zenon DEF ToppedUp, Position
        <3> QED BY <1>0, <2>3, <3>1
    <2>4. ASSUME NEW w \in Withdrawers, Withdraw(w) PROVE Same
        BY <2>4, EndedQuiet DEF Withdraw
    <2> HIDE DEF Same
    <2>5. ASSUME NEW b \in Baskets, NEW i \in Ids, NEW a \in Amounts, DepositBasket(b, i, a)
          PROVE  Same
        BY <2>2, <2>3, <2>5 DEF DepositBasket
    <2>6. ASSUME NEW x \in Plans, NEW i \in Ids, NEW a \in Amounts, DepositPlan(x, i, a)
          PROVE  Same
        BY <2>2, <2>6 DEF DepositPlan, NextId
    <2>7. Same
        BY <2>1, <2>4, <2>5, <2>6 DEF ClientStep, Receive, TransferToWallet, TransferFromWallet, FindActive
    <2> QED BY <2>7 DEF Same
<1>5. NoYield
    BY <1>2, <1>3, <1>4 DEF NoYield
<1> QED BY <1>1, <1>5, QuietKeeps

(* A pass moves on without a yield: its rows are those it had, or rows that *)
(* are ACTIVE now.                                                          *)
LEMMA PassQuiet ==
    ASSUME InvestInv, YieldBooks, NEW p \in Passes, NEW new,
           pass' = [pass EXCEPT ![p] = new], new.yield = pass[p].yield,
           new.pc # "journal" => pass[p].pc # "journal",
           \A t \in new.todo : t \in pass[p].todo \/ \E i \in Ids : t = TaskOf(i) /\ IsActive(i)
    PROVE  PassesQuiet
<1>0. pass \in [Passes -> Pass]
    BY DEF InvestInv, TypeOK
<1>1. pass'[p] = new /\ \A q \in Passes : q # p => pass'[q] = pass[q]
    BY <1>0
<1>2. \A q \in Passes : \A t \in pass[q].todo : t.id \in Ids /\ positions[t.id].status # "none"
    BY TasksTyped DEF InvestInv, YieldBooks, OpenedOnce
<1>3. \A i \in Ids : IsActive(i) => TaskOf(i).id = i /\ positions[i].status # "none"
    BY DEF IsActive, TaskOf
<1>4. \A t \in new.todo : t.id \in Ids /\ positions[t.id].status # "none"
    BY <1>2, <1>3
<1> QED BY <1>1, <1>2, <1>4 DEF PassesQuiet

LEMMA StillsKeep ==
    ASSUME InvestInv, YieldBooks, PassesQuiet, UNCHANGED <<positions, journal, strays>>
    PROVE  YieldBooks'
BY QuietKeeps DEF NoYield

(* The steps that find the returns, read the rows or end the pass.          *)
LEMMA SearchYields ==
    ASSUME InvestInv, YieldBooks, NEW p \in Passes,
           \/ \E k \in Kinds : StartPass(p, k)
           \/ \E r \in BotRates : RunTreasury(p, r)
           \/ \E x \in Products : FindRun(p, x)
           \/ \E r \in Rates : CreateRun(p, r)
           \/ CreateRunRefused(p) \/ ReadPositions(p) \/ ReadMatured(p) \/ PassDone(p)
    PROVE  YieldBooks'
<1>0. pass[p] \in Pass /\ pass \in [Passes -> Pass]
    BY DEF InvestInv, TypeOK
<1>1. UNCHANGED <<positions, journal, strays>>
    BY DEF StartPass, RunTreasury, FindRun, CreateRun, CreateRunRefused, ReadPositions,
           ReadMatured, PassDone
<1>2. pass[p].pc # "journal" /\ pass[p].yield = 0
    BY DEF StartPass, RunTreasury, FindRun, CreateRun, CreateRunRefused, ReadPositions,
           ReadMatured, PassDone, YieldBooks, OneYieldAtWork
<1>3. ASSUME NEW new, pass' = [pass EXCEPT ![p] = new], new.yield = 0,
             \A t \in new.todo : t \in pass[p].todo \/ \E i \in Ids : t = TaskOf(i) /\ IsActive(i)
      PROVE  YieldBooks'
    BY <1>1, <1>2, <1>3, PassQuiet, StillsKeep
<1>4. IdlePass.yield = 0 /\ IdlePass.todo = {}
    BY DEF IdlePass
<1>5. CASE CreateRunRefused(p) \/ PassDone(p)
    BY <1>3, <1>4, <1>5 DEF CreateRunRefused, PassDone, EndPass
<1>6. ASSUME NEW k \in Kinds, StartPass(p, k) PROVE YieldBooks'
    <2> DEFINE new == [IdlePass EXCEPT !.pc = "runs", !.kind = k, !.day = day]
    <2>1. new.yield = 0 /\ new.todo = {}
        BY DEF IdlePass
    <2>2. pass' = [pass EXCEPT ![p] = new]
        BY <1>6 DEF StartPass
    <2> HIDE DEF new
    <2> QED BY <1>3, <2>1, <2>2
<1>7. ASSUME NEW rates, pass' = [pass EXCEPT ![p].rates = rates] PROVE YieldBooks'
    <2> DEFINE new == [pass[p] EXCEPT !.rates = rates]
    <2>1. new.yield = 0 /\ new.todo = pass[p].todo
        BY <1>0, <1>2, Zenon DEF Pass
    <2>2. pass' = [pass EXCEPT ![p] = new]
        BY <1>7
    <2> HIDE DEF new
    <2> QED BY <1>3, <2>1, <2>2
<1>8. ASSUME NEW r, RunTreasury(p, r) PROVE YieldBooks'
    <2>1. pass' = [pass EXCEPT ![p].rates = [pass[p].rates EXCEPT ![Rwa] = r]]
        BY <1>8 DEF RunTreasury
    <2> QED BY <1>7, <2>1
<1>9. ASSUME NEW x, FindRun(p, x) PROVE YieldBooks'
    <2>1. CASE runs[pass[p].day][x] # NoRate
        <3>1. pass' = [pass EXCEPT ![p].rates = [pass[p].rates EXCEPT ![x] = runs[pass[p].day][x]]]
            BY <1>9, <2>1 DEF FindRun
        <3> QED BY <1>7, <3>1
    <2>2. CASE ~ (runs[pass[p].day][x] # NoRate)
        <3> DEFINE new == [pass[p] EXCEPT !.pc = "record", !.product = x]
        <3>1. new.yield = 0 /\ new.todo = pass[p].todo
            BY <1>0, <1>2, Zenon DEF Pass
        <3>2. pass' = [pass EXCEPT ![p] = new]
            BY <1>9, <2>2 DEF FindRun
        <3> HIDE DEF new
        <3> QED BY <1>3, <3>1, <3>2
    <2> QED BY <2>1, <2>2
<1>10. ASSUME NEW r, CreateRun(p, r) PROVE YieldBooks'
    <2> DEFINE rates == [pass[p].rates EXCEPT ![pass[p].product] = r]
               new == [pass[p] EXCEPT !.pc = "runs", !.rates = rates]
    <2>1. new.yield = 0 /\ new.todo = pass[p].todo
        BY <1>0, <1>2, Zenon DEF Pass
    <2>2. pass' = [pass EXCEPT ![p] = new]
        BY <1>10 DEF CreateRun
    <2> HIDE DEF new
    <2> QED BY <1>3, <2>1, <2>2
<1>11. ASSUME NEW pc, NEW I \in SUBSET Ids, \A i \in I : IsActive(i),
              pass' = [pass EXCEPT ![p].pc = pc, ![p].todo = {TaskOf(i) : i \in I}]
       PROVE  YieldBooks'
    <2> DEFINE todo == {TaskOf(i) : i \in I}
               new == [pass[p] EXCEPT !.pc = pc, !.todo = todo]
    <2>1. \A t \in todo : \E i \in Ids : t = TaskOf(i) /\ IsActive(i)
        BY <1>11
    <2>2. pass' = [pass EXCEPT ![p] = new]
        BY <1>11
    <2> HIDE DEF todo
    <2>3. new.yield = 0 /\ new.todo = todo
        BY <1>0, <1>2, Zenon DEF Pass
    <2> HIDE DEF new
    <2> QED BY <1>3, <2>1, <2>2, <2>3
<1>12. ASSUME ReadPositions(p) PROVE YieldBooks'
    <2> DEFINE I == ActiveOf(pass[p].kind)
    <2>1. I \in SUBSET Ids /\ \A i \in I : IsActive(i)
        BY DEF ActiveOf
    <2>2. pass' = [pass EXCEPT ![p].pc = "accrue", ![p].todo = {TaskOf(i) : i \in I}]
        BY <1>12 DEF ReadPositions
    <2> HIDE DEF I
    <2> QED BY <1>11, <2>1, <2>2
<1>13. ASSUME ReadMatured(p) PROVE YieldBooks'
    <2> DEFINE I == {k \in ActiveOf("plan") : MaturedBy(k, pass[p].day)}
    <2>1. I \in SUBSET Ids /\ \A i \in I : IsActive(i)
        BY DEF ActiveOf
    <2>2. pass' = [pass EXCEPT ![p].pc = "settle", ![p].todo = {TaskOf(i) : i \in I}]
        BY <1>13 DEF ReadMatured
    <2> HIDE DEF I
    <2> QED BY <1>11, <2>1, <2>2
<1> QED BY <1>5, <1>6, <1>8, <1>9, <1>10, <1>12, <1>13

LEMMA SumsAreIntegers ==
    ASSUME InvestInv, IsFiniteSet(Ids), IsFiniteSet(Passes)
    PROVE  /\ SumFunctionOnSet(Accrueds, Ids) \in Int
           /\ SumFunctionOnSet(YieldAmounts, YieldRows) \in Int
           /\ SumFunctionOnSet(YieldsInFlight, Passes) \in Int
<1>1. /\ \A i \in Ids : Accrueds[i] \in Int
      /\ \A p \in Passes : YieldsInFlight[p] \in Int
      /\ IsFiniteSet(YieldRows) /\ \A n \in YieldRows : YieldAmounts[n] \in Int
    BY SumsTyped
<1> HIDE DEF Accrueds, YieldAmounts, YieldRows, YieldsInFlight
<1> QED BY <1>1, SumIsInteger

(* What a step does to the other two sums.                                  *)
LEMMA AccruedChange ==
    ASSUME InvestInv, InvestInv', IsFiniteSet(Ids), NEW i \in Ids, NEW a \in Int,
           positions' = [positions EXCEPT ![i].accrued = a]
    PROVE  SumFunctionOnSet(Accrueds, Ids)'
              = SumFunctionOnSet(Accrueds, Ids) - positions[i].accrued + a
<1>1. positions \in [Ids -> Position]
    BY DEF InvestInv, TypeOK
<1> DEFINE f == Accrueds
           g == Accrueds'
<1>2. f[i] = positions[i].accrued
    BY DEF Accrueds
<1>3. g[i] = a
    BY <1>1 DEF Accrueds, Position
<1>4. \A k \in Ids : f[k] \in Int
    BY SumsTyped
<1>5. \A k \in Ids \ {i} : g[k] = f[k]
    BY <1>1 DEF Accrueds
<1>6. \A k \in Ids : f[k] \in Int /\ g[k] \in Int
    BY <1>3, <1>4, <1>5
<1> HIDE DEF f, g
<1>7. SumFunctionOnSet(g, Ids) = SumFunctionOnSet(f, Ids) - f[i] + g[i]
    BY <1>5, <1>6, SumOfChange
<1> QED BY <1>2, <1>3, <1>7 DEF f, g

LEMMA FlightChange ==
    ASSUME InvestInv, IsFiniteSet(Passes), NEW p \in Passes, NEW new,
           new.yield \in Int, pass' = [pass EXCEPT ![p] = new]
    PROVE  SumFunctionOnSet(YieldsInFlight, Passes)'
              = SumFunctionOnSet(YieldsInFlight, Passes) - pass[p].yield + new.yield
<1>1. pass \in [Passes -> Pass]
    BY DEF InvestInv, TypeOK
<1> DEFINE f == YieldsInFlight
           g == YieldsInFlight'
<1>2. f[p] = pass[p].yield
    BY DEF YieldsInFlight
<1>3. g[p] = new.yield
    BY <1>1 DEF YieldsInFlight
<1>4. \A k \in Passes : f[k] \in Int
    BY SumsTyped
<1>5. \A k \in Passes \ {p} : g[k] = f[k]
    BY <1>1 DEF YieldsInFlight
<1>6. \A k \in Passes : f[k] \in Int /\ g[k] \in Int
    BY <1>3, <1>4, <1>5
<1> HIDE DEF f, g
<1>7. SumFunctionOnSet(g, Passes) = SumFunctionOnSet(f, Passes) - f[p] + g[p]
    BY <1>5, <1>6, SumOfChange
<1> QED BY <1>2, <1>3, <1>7 DEF f, g

(* The increment is in flight until its row is written.                     *)
LEMMA AccrueYields ==
    ASSUME InvestInv, InvestInv', YieldBooks, IsFiniteSet(Ids), IsFiniteSet(Passes),
           NEW p \in Passes, NEW t \in pass[p].todo, Accrue(p, t)
    PROVE  YieldBooks'
<1> DEFINE y   == DailyYield(t, pass[p].rates[t.product])
           new == [pass[p] EXCEPT !.todo = @ \ {t}, !.yield = y,
                                  !.pc = IF y = 0 THEN "accrue" ELSE "journal"]
           a   == positions[t.id].accrued
<1>1. /\ pass[p] \in Pass /\ pass \in [Passes -> Pass] /\ positions \in [Ids -> Position]
      /\ t.value \in Int /\ t.id \in Ids /\ a \in Int
    BY TasksTyped DEF InvestInv, TypeOK, Position
<1>2. pass[p].pc = "accrue" /\ pass[p].yield = 0
    BY DEF Accrue, YieldBooks, OneYieldAtWork
<1>3. y \in Int
    <2>1. pass[p].rates[t.product] \in Int
        BY <1>2, RatesAssumption DEF InvestInv, PassSound, Works
    <2> QED BY <1>1, <2>1, YieldTyped, Zenon
<1>4. /\ pass' = [pass EXCEPT ![p] = new]
      /\ positions' = [positions EXCEPT ![t.id].accrued = a + y]
      /\ journal' = journal
      /\ "cut yield" \in strays' => "cut yield" \in strays
    BY DEF Accrue, Accrued
<1>5. new.yield = y /\ new.todo = pass[p].todo \ {t} /\ (new.pc # "journal" => y = 0)
    BY <1>1, Zenon DEF Pass
<1>5a. "cut yield" \in strays => "cut yield" \in strays'
    BY DEF Accrue
<1> HIDE DEF y, new, a
<1>6. OpenedOnce'
    <2>1. \A i \in Ids : positions'[i].status = positions[i].status
        BY <1>1, <1>4 DEF Position
    <2>2. \A i \in Ids \ {t.id} : positions'[i].accrued = positions[i].accrued
        BY <1>1, <1>4
    <2>3. positions[t.id].status # "none"
        BY DEF YieldBooks, OpenedOnce
    <2>4. \A q \in Passes : pass'[q].todo \subseteq pass[q].todo
        BY <1>1, <1>4, <1>5
    <2>5. \A q \in Passes : \A u \in pass[q].todo : u.id \in Ids
        BY TasksTyped DEF InvestInv
    <2> QED BY <2>1, <2>2, <2>3, <2>4, <2>5 DEF YieldBooks, OpenedOnce
<1>7. OneYieldAtWork'
    BY <1>1, <1>4, <1>5 DEF YieldBooks, OneYieldAtWork
<1>8. YieldsAgree => YieldsAgree'
    <2>1. SumFunctionOnSet(Accrueds, Ids)' = SumFunctionOnSet(Accrueds, Ids) - a + (a + y)
        <3>1. a + y \in Int
            BY <1>1, <1>3
        <3> QED BY <1>1, <1>4, <3>1, AccruedChange DEF a
    <2>2. SumFunctionOnSet(YieldsInFlight, Passes)' = SumFunctionOnSet(YieldsInFlight, Passes) - 0 + y
        BY <1>2, <1>3, <1>4, <1>5, FlightChange
    <2>3. SumFunctionOnSet(YieldAmounts, YieldRows)' = SumFunctionOnSet(YieldAmounts, YieldRows)
        BY <1>4 DEF YieldAmounts, YieldRows
    <2> DEFINE A == SumFunctionOnSet(Accrueds, Ids)
               F == SumFunctionOnSet(YieldsInFlight, Passes)
               J == SumFunctionOnSet(YieldAmounts, YieldRows)
    <2>4. A \in Int /\ F \in Int /\ J \in Int
        BY SumsAreIntegers
    <2>5. A' = A - a + (a + y) /\ F' = F - 0 + y /\ J' = J
        BY <2>1, <2>2, <2>3
    <2>6. ASSUME A = J + F PROVE A' = J' + F'
        <3> HIDE DEF A, F, J
        <3> QED BY <1>1, <1>3, <2>4, <2>5, <2>6
    <2> QED BY <2>6 DEF YieldsAgree
<1> QED BY <1>4, <1>5a, <1>6, <1>7, <1>8 DEF YieldBooks

LEMMA JournalYields ==
    ASSUME InvestInv, InvestInv', YieldBooks, IsFiniteSet(Ids), IsFiniteSet(Passes),
           NEW p \in Passes, JournalYield(p)
    PROVE  YieldBooks'
<1> DEFINE y   == pass[p].yield
           new == [pass[p] EXCEPT !.pc = "accrue", !.yield = 0]
<1>1. pass[p] \in Pass /\ pass \in [Passes -> Pass] /\ y \in Int
    BY DEF InvestInv, TypeOK, Pass
<1>2. pass' = [pass EXCEPT ![p] = new] /\ UNCHANGED <<positions, strays>>
    BY DEF JournalYield
<1>3. new.yield = 0 /\ new.todo = pass[p].todo /\ new.pc = "accrue"
    BY <1>1, Zenon DEF Pass
<1>4. /\ Record(YieldType(pass[p].kind), y, "AVAILABLE")
      /\ YieldType(pass[p].kind) \in AccrualTypes
      /\ YieldType(pass[p].kind) \in JournalTypes
    BY DEF JournalYield, YieldType, AccrualTypes, JournalTypes
<1> HIDE DEF y, new
<1>5. OpenedOnce' /\ OneYieldAtWork'
    BY <1>1, <1>2, <1>3 DEF YieldBooks, OpenedOnce, OneYieldAtWork
<1>6. YieldsAgree => YieldsAgree'
    <2>1. \E row \in Entry : /\ row.type \in AccrualTypes /\ row.amount = y
                             /\ journal' = Append(journal, row)
        BY <1>1, <1>4, RowOf DEF Target
    <2>2. SumFunctionOnSet(YieldAmounts, YieldRows)' = SumFunctionOnSet(YieldAmounts, YieldRows) + y
        BY <2>1, YieldRow
    <2>3. SumFunctionOnSet(YieldsInFlight, Passes)' = SumFunctionOnSet(YieldsInFlight, Passes) - y + 0
        <3>1. new.yield \in Int /\ y = pass[p].yield /\ new.yield = 0
            BY <1>3 DEF y
        <3>2. pass' = [pass EXCEPT ![p] = new]
            BY <1>2
        <3>3. SumFunctionOnSet(YieldsInFlight, Passes)'
                 = SumFunctionOnSet(YieldsInFlight, Passes) - pass[p].yield + new.yield
            BY <3>1, <3>2, FlightChange
        <3> QED BY <3>1, <3>3
    <2>4. SumFunctionOnSet(Accrueds, Ids)' = SumFunctionOnSet(Accrueds, Ids)
        BY <1>2 DEF Accrueds
    <2> DEFINE A == SumFunctionOnSet(Accrueds, Ids)
               F == SumFunctionOnSet(YieldsInFlight, Passes)
               J == SumFunctionOnSet(YieldAmounts, YieldRows)
    <2>5. A \in Int /\ F \in Int /\ J \in Int
        BY SumsAreIntegers
    <2>6. A' = A /\ F' = F - y + 0 /\ J' = J + y
        BY <2>2, <2>3, <2>4
    <2>7. ASSUME A = J + F PROVE A' = J' + F'
        <3> HIDE DEF A, F, J
        <3> QED BY <1>1, <2>5, <2>6, <2>7
    <2> QED BY <2>7 DEF YieldsAgree
<1> QED BY <1>2, <1>5, <1>6 DEF YieldBooks

LEMMA SettleYields ==
    ASSUME InvestInv, YieldBooks, NEW p \in Passes, NEW t \in pass[p].todo, Settle(p, t)
    PROVE  YieldBooks'
<1> DEFINE new == [pass[p] EXCEPT !.todo = @ \ {t}]
<1>1. pass[p] \in Pass /\ t.value \in Int
    BY TasksTyped DEF InvestInv
<1>2. pass' = [pass EXCEPT ![p] = new] /\ pass[p].pc = "settle"
    BY DEF Settle
<1>3. new.yield = pass[p].yield /\ new.pc = pass[p].pc /\ new.todo = pass[p].todo \ {t}
    BY <1>1, Zenon DEF Pass
<1> HIDE DEF new
<1>4. PassesQuiet
    BY <1>2, <1>3, PassQuiet
<1>5. PayoutAmount(t) \in Int
    BY <1>1, PayoutTyped, Zenon
<1>6. \E row \in Entry : row.type \notin AccrualTypes /\ journal' = Append(journal, row)
    <2>1. /\ Record("FIXED_TERM_MATURITY_PAYOUT", PayoutAmount(t), "AVAILABLE")
          /\ "FIXED_TERM_MATURITY_PAYOUT" \in JournalTypes \ AccrualTypes
          /\ "AVAILABLE" \in Target
        BY DEF Settle, JournalTypes, AccrualTypes, Target
    <2> QED BY <1>5, <2>1, OtherRecord
<1>7. /\ positions' = Ended(t.id, "MATURED")
      /\ "cut yield" \in strays => "cut yield" \in strays'
    BY DEF Settle
<1>8. NoYield
    BY <1>6, <1>7, EndedQuiet DEF NoYield
<1> QED BY <1>4, <1>8, QuietKeeps

(* A pass cut in the journal leaves its increment: the sums part, and the   *)
(* history says so.                                                         *)
LEMMA CutYields ==
    ASSUME InvestInv, YieldBooks, "cut yield" \in strays', UNCHANGED positions,
           \A p \in Passes : /\ pass'[p].todo \subseteq pass[p].todo
                             /\ pass'[p].pc # "journal" => pass'[p].yield = 0
    PROVE  YieldBooks'
<1>1. \A p \in Passes : \A t \in pass[p].todo : t.id \in Ids
    BY TasksTyped DEF InvestInv
<1>2. OpenedOnce'
    BY <1>1 DEF YieldBooks, OpenedOnce
<1> QED BY <1>2 DEF YieldBooks, OneYieldAtWork

LEMMA FailYields ==
    ASSUME InvestInv, YieldBooks, NEW p \in Passes, RowFails(p)
    PROVE  YieldBooks'
<1>1. pass[p] \in Pass /\ pass \in [Passes -> Pass]
    BY DEF InvestInv, TypeOK
<1>2. UNCHANGED <<positions, journal>>
    BY DEF RowFails
<1>3. CASE pass[p].pc = "journal" /\ pass' = [pass EXCEPT ![p].pc = "accrue", ![p].yield = 0]
                                  /\ strays' = strays \cup {"cut yield"}
    <2>1. pass'[p].yield = 0 /\ pass'[p].todo = pass[p].todo
        BY <1>1, <1>3, Zenon DEF Pass
    <2>2. \A q \in Passes \ {p} : pass'[q] = pass[q]
        BY <1>1, <1>3
    <2>3. \A q \in Passes : /\ pass'[q].todo \subseteq pass[q].todo
                            /\ pass'[q].pc # "journal" => pass'[q].yield = 0
        BY <2>1, <2>2 DEF YieldBooks, OneYieldAtWork
    <2> QED BY <1>2, <1>3, <2>3, CutYields
<1>4. ASSUME pass[p].pc \in {"accrue", "settle"}, UNCHANGED strays,
             NEW t \in pass[p].todo, pass' = [pass EXCEPT ![p].todo = @ \ {t}]
      PROVE  YieldBooks'
    <2> DEFINE new == [pass[p] EXCEPT !.todo = @ \ {t}]
    <2>1. new.yield = pass[p].yield /\ new.pc = pass[p].pc /\ new.todo = pass[p].todo \ {t}
        BY <1>1, Zenon DEF Pass
    <2>2. pass' = [pass EXCEPT ![p] = new]
        BY <1>4
    <2> HIDE DEF new
    <2>3. PassesQuiet
        BY <1>4, <2>1, <2>2, PassQuiet
    <2> QED BY <1>2, <1>4, <2>3, StillsKeep
<1> QED BY <1>3, <1>4 DEF RowFails

LEMMA RestartYields ==
    ASSUME InvestInv, YieldBooks, Restart
    PROVE  YieldBooks'
<1>1. \A p \in Passes : pass'[p].yield = 0 /\ pass'[p].todo = {} /\ pass'[p].pc = "idle"
    BY DEF Restart, IdlePass
<1>2. UNCHANGED <<positions, journal>>
    BY DEF Restart
<1>3. CASE \E p \in Passes : pass[p].pc = "journal"
    BY <1>1, <1>2, <1>3, CutYields DEF Restart
<1>4. CASE \A p \in Passes : pass[p].pc # "journal"
    <2>1. PassesQuiet
        BY <1>1, <1>4 DEF PassesQuiet, YieldBooks, OneYieldAtWork
    <2> QED BY <1>2, <1>4, <2>1, StillsKeep DEF Restart
<1> QED BY <1>3, <1>4

LEMMA YieldsInit ==
    ASSUME Init, IsFiniteSet(Ids), IsFiniteSet(Passes)
    PROVE  YieldBooks
<1>1. OpenedOnce /\ OneYieldAtWork
    BY DEF Init, OpenedOnce, OneYieldAtWork, NoPosition, IdlePass
<1>2. /\ \A i \in Ids : Accrueds[i] = 0
      /\ \A p \in Passes : YieldsInFlight[p] = 0
      /\ YieldRows = {}
    BY DEF Init, Accrueds, YieldsInFlight, YieldRows, NoPosition, IdlePass
<1>3. YieldsAgree
    <2>1. SumFunctionOnSet(YieldAmounts, YieldRows) = 0
        BY <1>2, SumOfNone
    <2> HIDE DEF Accrueds, YieldsInFlight
    <2>2. SumFunctionOnSet(Accrueds, Ids) = 0
        BY <1>2, SumOfZeros
    <2>3. SumFunctionOnSet(YieldsInFlight, Passes) = 0
        BY <1>2, SumOfZeros
    <2> QED BY <2>1, <2>2, <2>3 DEF YieldsAgree
<1> QED BY <1>1, <1>3 DEF YieldBooks

LEMMA YieldsStep ==
    ASSUME IsFiniteSet(Ids), IsFiniteSet(Passes),
           InvestInv, InvestInv', YieldBooks, [Next]_vars
    PROVE  YieldBooks'
<1>1. CASE ClientStep
    BY <1>1, ClientYields
<1>2. ASSUME NEW p \in Passes, NEW k \in Kinds, StartPass(p, k) PROVE YieldBooks'
    BY <1>2, SearchYields
<1>3. ASSUME NEW p \in Passes, PassAdvances(p) PROVE YieldBooks'
    BY <1>3, SearchYields, AccrueYields, JournalYields, SettleYields DEF PassAdvances
<1>4. ASSUME NEW p \in Passes, RowFails(p) PROVE YieldBooks'
    BY <1>4, FailYields
<1>5. CASE NextDay
    BY <1>5, PassesStay, StillsKeep DEF NextDay
<1>6. CASE Restart
    BY <1>6, RestartYields
<1>7. CASE UNCHANGED vars
    BY <1>7, PassesStay, StillsKeep DEF vars
<1> QED BY <1>1, <1>2, <1>3, <1>4, <1>5, <1>6, <1>7 DEF Next

(* The yield accrued on the positions is the yield the journal tells of,    *)
(* plus that of the passes between their two statements                     *)
(* (accrueYieldForPosition, accrueFixedTermPosition), however passes        *)
(* overlap, until one is cut there.                                         *)
THEOREM YieldsJournalled ==
    ASSUME IsFiniteSet(Ids), IsFiniteSet(Passes)
    PROVE  Spec => []YieldJournalled
<1>1. Init => YieldBooks
    BY YieldsInit
<1>2. InvestInv /\ InvestInv' /\ YieldBooks /\ [Next]_vars => YieldBooks'
    BY YieldsStep
<1>3. YieldBooks => YieldJournalled
    BY DEF YieldBooks, YieldsAgree, YieldJournalled, SumRows, YieldAmounts
<1> QED BY <1>1, <1>2, <1>3, InvestInvariant, PTL DEF Spec

-----------------------------------------------------------------------------
(* The payment of the plans, when the passes do not overlap.  A list of     *)
(* tasks then stays true of its positions until it is worked off, although  *)
(* it was read long before: nothing else ends a plan, and the client can    *)
(* only add to a basket.  A day may lose everything, but no more.           *)

PassesAlone == (\A p, q \in Passes : p = q) /\ \A r \in AnyRate : -1 <= r

TaskDue(p, t) ==
    LET i == t.id IN
    /\ positions[i].status # "none"
    /\ positions[i].product \in ProductsOf(pass[p].kind)
    /\ 0 <= t.value
    /\ pass[p].kind = "plan" => IsActive(i) /\ Value(i) = t.value
    /\ IsActive(i) => t.value <= Value(i)
    /\ pass[p].pc = "settle" => pass[p].kind = "plan" /\ positions[i].matures <= pass[p].day

ListDue(p) ==
    /\ \A t \in pass[p].todo : TaskDue(p, t)
    /\ \A t, u \in pass[p].todo : t.id = u.id => t = u
    /\ pass[p].day <= day
    /\ pass[p].pc = "settle" => pass[p].kind = "plan"

WorthSomething == \A i \in Ids : IsActive(i) => 0 <= Value(i)

PaysABasket ==
    \A w \in Withdrawers : withdrawal[w].pc = "pay" =>
        LET i == withdrawal[w].task.id IN
        i \in Ids /\ positions[i].status # "none" /\ positions[i].product \in Baskets

DueInv == WorthSomething /\ PaysABasket /\ \A p \in Passes : ListDue(p)

\* What a step may do to a position that a pass or a withdrawal has read.
Harmless(i) ==
    /\ positions[i].status # "none" =>
          /\ positions'[i].status # "none"
          /\ positions'[i].product = positions[i].product
          /\ positions'[i].matures = positions[i].matures
          /\ IsActive(i)' => IsActive(i) /\ Value(i) <= Value(i)'
          /\ positions[i].product \in Plans /\ IsActive(i) => IsActive(i)' /\ Value(i)' = Value(i)
    /\ IsActive(i)' => 0 <= Value(i)'

LEMMA DueTyped ==
    ASSUME InvestInv
    PROVE  /\ \A i \in Ids : /\ positions[i] \in Position /\ Value(i) \in Int
                             /\ positions[i].principal \in Nat /\ positions[i].accrued \in Int
                             /\ positions[i].matures \in Nat
           /\ \A p \in Passes : /\ pass[p] \in Pass /\ pass[p].day \in Nat
                                /\ \A t \in pass[p].todo : t.id \in Ids /\ t.value \in Int
           /\ day \in Nat
BY DEF InvestInv, TypeOK, Position, Value, Pass, Task, Days

(* A list stays true while its positions are not harmed.                    *)
LEMMA ListStays ==
    ASSUME InvestInv, InvestInv', NEW p \in Passes, ListDue(p), day <= day',
           pass'[p].kind = pass[p].kind, pass'[p].day = pass[p].day,
           pass'[p].pc = "settle" => pass[p].pc = "settle",
           pass'[p].todo \subseteq pass[p].todo,
           \A t \in pass'[p].todo : Harmless(t.id)
    PROVE  ListDue(p)'
<1>1. ASSUME NEW t \in pass'[p].todo PROVE TaskDue(p, t)'
    <2> DEFINE i == t.id
    <2>1. t \in pass[p].todo /\ i \in Ids /\ TaskDue(p, t) /\ Harmless(i)
        BY DueTyped DEF ListDue
    <2>2. Value(i) \in Int /\ Value(i)' \in Int /\ t.value \in Int
        <3>1. Value(i)' = positions'[i].principal + positions'[i].accrued
            BY DEF Value
        <3>2. positions'[i].principal \in Nat /\ positions'[i].accrued \in Int
            BY <2>1 DEF InvestInv, TypeOK, Position
        <3> QED BY <2>1, <3>1, <3>2, DueTyped
    <2>3. pass[p].kind = "plan" => positions[i].product \in Plans
        BY <2>1 DEF TaskDue, ProductsOf
    <2>4. pass'[p].kind = "plan" => IsActive(i)' /\ Value(i)' = t.value
        BY <2>1, <2>3 DEF TaskDue, Harmless
    <2>5. IsActive(i)' => t.value <= Value(i)'
        BY <2>1, <2>2 DEF TaskDue, Harmless
    <2>6. pass'[p].pc = "settle" => pass'[p].kind = "plan" /\ positions'[i].matures <= pass'[p].day
        BY <2>1 DEF TaskDue, Harmless
    <2>7. positions'[i].status # "none" /\ positions'[i].product \in ProductsOf(pass'[p].kind) /\ 0 <= t.value
        BY <2>1 DEF TaskDue, Harmless
    <2> QED BY <2>4, <2>5, <2>6, <2>7 DEF TaskDue
<1>2. pass'[p].day <= day'
    <2>1. pass[p].day \in Nat /\ day \in Nat /\ day' \in Nat
        BY DueTyped DEF InvestInv, TypeOK, Days
    <2> QED BY <2>1 DEF ListDue
<1> QED BY <1>1, <1>2 DEF ListDue

(* A step that leaves the passes alone.                                     *)
LEMMA OthersStay ==
    ASSUME InvestInv, InvestInv', DueInv, UNCHANGED pass, day <= day',
           \A i \in Ids : Harmless(i), PaysABasket'
    PROVE  DueInv'
<1>1. WorthSomething'
    BY DEF WorthSomething, Harmless
<1>2. ASSUME NEW p \in Passes PROVE ListDue(p)'
    <2>1. \A t \in pass[p].todo : Harmless(t.id)
        BY DueTyped
    <2> QED BY <2>1, ListStays DEF DueInv
<1> QED BY <1>1, <1>2 DEF DueInv

LEMMA UnchangedHarmless ==
    ASSUME InvestInv, WorthSomething, NEW i \in Ids, positions'[i] = positions[i]
    PROVE  Harmless(i)
<1>1. Value(i) \in Int /\ Value(i)' = Value(i) /\ (IsActive(i)' <=> IsActive(i))
    BY DueTyped DEF Value, IsActive
<1> QED BY <1>1 DEF Harmless, WorthSomething

(* The withdrawals keep their baskets while no product changes.             *)
LEMMA BasketsStay ==
    ASSUME PaysABasket, \A i \in Ids : Harmless(i),
           \A w \in Withdrawers : withdrawal'[w].pc = "pay" => withdrawal'[w] = withdrawal[w]
    PROVE  PaysABasket'
BY DEF PaysABasket, Harmless

LEMMA ClientDue ==
    ASSUME InvestInv, InvestInv', DueInv, ClientStep
    PROVE  DueInv'
<1> USE SumsAssumption
<1>0. /\ positions \in [Ids -> Position] /\ withdrawal \in [Withdrawers -> Withdrawal]
      /\ UNCHANGED pass /\ day' = day /\ day \in Nat
    BY DueTyped DEF InvestInv, TypeOK, ClientStep, Receive, TransferToWallet, TransferFromWallet,
       DepositBasket, DepositPlan, FindActive, Withdraw, JobsUnchanged
<1>1. ASSUME \A i \in Ids : Harmless(i), UNCHANGED withdrawal PROVE DueInv'
    <2>1. PaysABasket'
        BY <1>1, BasketsStay DEF DueInv
    <2> QED BY <1>0, <1>1, <2>1, OthersStay
<1>2. ASSUME UNCHANGED positions PROVE \A i \in Ids : Harmless(i)
    BY <1>2, UnchangedHarmless DEF DueInv
<1>3. ASSUME NEW a, (\E target \in Target : Receive(a, target)) \/ TransferToWallet(a) \/ TransferFromWallet(a)
      PROVE  DueInv'
    BY <1>1, <1>2, <1>3 DEF Receive, TransferToWallet, TransferFromWallet
<1>4. ASSUME NEW i \in Ids, NEW new, positions' = [positions EXCEPT ![i] = new],
             UNCHANGED withdrawal, Harmless(i)
      PROVE  DueInv'
    <2>1. \A k \in Ids \ {i} : positions'[k] = positions[k]
        BY <1>0, <1>4
    <2>2. \A k \in Ids : Harmless(k)
        BY <1>4, <2>1, UnchangedHarmless DEF DueInv
    <2> QED BY <1>1, <1>4, <2>2
<1>5. ASSUME NEW x, NEW i \in Ids, NEW a \in Amounts, NEW until, positions[i].status = "none",
             positions' = [positions EXCEPT ![i] = Opened(x, a, until)]
      PROVE  Harmless(i)
    <2>1. positions'[i] = Opened(x, a, until)
        BY <1>0, <1>5
    <2>2. Value(i)' = a + 0
        BY <2>1 DEF Value, Opened
    <2> QED BY <1>5, <2>2 DEF Harmless
<1>6. ASSUME NEW b \in Baskets, NEW i \in Ids, NEW a \in Amounts, DepositBasket(b, i, a)
      PROVE  DueInv'
    <2>1. CASE positions[i].status = "none"
        <3>1. positions' = [positions EXCEPT ![i] = Opened(b, a, 0)] /\ UNCHANGED withdrawal
            BY <1>6, <2>1 DEF DepositBasket
        <3>2. 0 \in Nat
            OBVIOUS
        <3>3. Harmless(i)
            BY <1>5, <2>1, <3>1
        <3> QED BY <1>4, <3>1, <3>3
    <2>2. CASE positions[i].status # "none"
        <3>1. /\ positions' = [positions EXCEPT ![i] = ToppedUp(i, a)] /\ UNCHANGED withdrawal
              /\ IsActive(i) /\ positions[i].product = b
            BY <1>6, <2>2 DEF DepositBasket, DepositRow, NextId
        <3>2. /\ positions'[i] = ToppedUp(i, a) /\ positions[i] \in Position
              /\ positions[i].principal \in Nat /\ positions[i].accrued \in Int /\ a \in Nat
            BY <1>0, <3>1, DueTyped
        <3>3. /\ positions'[i].status = positions[i].status
              /\ positions'[i].product = positions[i].product
              /\ positions'[i].matures = positions[i].matures
              /\ positions'[i].principal = positions[i].principal + a
              /\ positions'[i].accrued = positions[i].accrued
            BY <3>2, Zenon DEF ToppedUp, Position
        <3>4. Value(i) \in Int /\ Value(i)' = Value(i) + a
            BY <3>2, <3>3 DEF Value
        <3>5. positions[i].product \notin Plans
            BY <3>1, ProductsAssumption
        <3>6. 0 <= Value(i)
            BY <3>1 DEF DueInv, WorthSomething
        <3>7. Value(i) <= Value(i)' /\ 0 <= Value(i)'
            BY <3>2, <3>4, <3>6
        <3>8. Harmless(i)
            BY <3>1, <3>3, <3>5, <3>7 DEF Harmless, IsActive
        <3> QED BY <1>4, <3>1, <3>8
    <2> QED BY <2>1, <2>2
<1>7. ASSUME NEW x \in Plans, NEW i \in Ids, NEW a \in Amounts, DepositPlan(x, i, a)
      PROVE  DueInv'
    <2>1. /\ positions' = [positions EXCEPT ![i] = Opened(x, a, day + Term)] /\ UNCHANGED withdrawal
          /\ positions[i].status = "none"
        BY <1>7 DEF DepositPlan, NextId
    <2>2. Harmless(i)
        BY <1>5, <2>1
    <2> QED BY <1>4, <2>1, <2>2
<1>8. ASSUME NEW w \in Withdrawers, NEW i \in Ids, FindActive(w, i) PROVE DueInv'
    <2>1. /\ UNCHANGED positions /\ IsActive(i) /\ positions[i].product \in Baskets
          /\ withdrawal' = [withdrawal EXCEPT ![w] = [pc |-> "pay", task |-> TaskOf(i)]]
        BY <1>8 DEF FindActive
    <2>2. \A k \in Ids : Harmless(k)
        BY <1>2, <2>1
    <2>3. withdrawal'[w].task.id = i /\ \A v \in Withdrawers \ {w} : withdrawal'[v] = withdrawal[v]
        BY <1>0, <2>1 DEF TaskOf
    <2>4. PaysABasket'
        BY <2>1, <2>3 DEF DueInv, PaysABasket, IsActive
    <2> QED BY <1>0, <2>2, <2>4, OthersStay
<1>9. ASSUME NEW w \in Withdrawers, Withdraw(w) PROVE DueInv'
    <2>0. PICK i \in Ids : i = withdrawal[w].task.id
        BY <1>9 DEF Withdraw, DueInv, PaysABasket
    <2>1. /\ positions[i].product \in Baskets /\ positions[i].product \notin Plans
          /\ positions' = [positions EXCEPT ![i].status = "CLOSED"]
          /\ withdrawal' = [withdrawal EXCEPT ![w] = IdleWithdrawal]
        BY <1>9, <2>0, ProductsAssumption DEF Withdraw, DueInv, PaysABasket, Ended
    <2>2. /\ \A k \in Ids \ {i} : positions'[k] = positions[k]
          /\ positions'[i].status = "CLOSED" /\ positions'[i].product = positions[i].product
          /\ positions'[i].matures = positions[i].matures
        BY <1>0, <2>1 DEF Position
    <2>3. Harmless(i)
        <3>1. ~ IsActive(i)' /\ positions'[i].status # "none"
            BY <2>2 DEF IsActive
        <3> QED BY <2>1, <2>2, <3>1, Zenon DEF Harmless
    <2>4. \A k \in Ids : Harmless(k)
        BY <2>2, <2>3, UnchangedHarmless DEF DueInv
    <2>5. \A v \in Withdrawers : withdrawal'[v].pc = "pay" => withdrawal'[v] = withdrawal[v]
        BY <1>0, <2>1 DEF IdleWithdrawal
    <2>6. PaysABasket'
        BY <2>4, <2>5, BasketsStay DEF DueInv
    <2> QED BY <1>0, <2>4, <2>6, OthersStay
<1> QED BY <1>3, <1>6, <1>7, <1>8, <1>9 DEF ClientStep

-----------------------------------------------------------------------------
(* The steps of the one pass. *)
LEMMA TheOnePass ==
    ASSUME PassesAlone, NEW p \in Passes, ListDue(p)', WorthSomething', PaysABasket'
    PROVE  DueInv'
BY DEF PassesAlone, DueInv

LEMMA NoMoneyMoves ==
    ASSUME InvestInv, InvestInv', DueInv, PassesAlone, NEW p \in Passes,
           UNCHANGED <<positions, withdrawal>>, ListDue(p)'
    PROVE  DueInv'
<1>1. \A i \in Ids : Harmless(i)
    BY UnchangedHarmless DEF DueInv
<1>2. WorthSomething'
    BY <1>1 DEF WorthSomething, Harmless
<1>3. PaysABasket'
    BY <1>1, BasketsStay DEF DueInv
<1> QED BY <1>2, <1>3, TheOnePass

(* Steps that read no list and pay nobody.                                  *)
LEMMA ListKept ==
    ASSUME InvestInv, InvestInv', DueInv, PassesAlone, NEW p \in Passes,
           UNCHANGED <<positions, withdrawal, day>>,
           pass'[p].kind = pass[p].kind, pass'[p].day = pass[p].day,
           pass'[p].pc = "settle" => pass[p].pc = "settle",
           pass'[p].todo \subseteq pass[p].todo
    PROVE  DueInv'
<1>1. \A i \in Ids : Harmless(i)
    BY UnchangedHarmless DEF DueInv
<1>2. \A t \in pass'[p].todo : Harmless(t.id)
    BY <1>1, DueTyped
<1>3. day <= day'
    BY DueTyped
<1>4. ListDue(p)'
    BY <1>2, <1>3, ListStays DEF DueInv
<1> QED BY <1>4, NoMoneyMoves

LEMMA EmptyListDue ==
    ASSUME InvestInv, InvestInv', NEW p \in Passes, pass'[p].todo = {}, pass'[p].pc # "settle",
           pass'[p].day <= day'
    PROVE  ListDue(p)'
BY DEF ListDue

(* A list just read is true of its positions.                               *)
LEMMA FreshList ==
    ASSUME InvestInv, InvestInv', DueInv, NEW p \in Passes, UNCHANGED <<positions, day>>,
           NEW S, S \subseteq ActiveOf(pass[p].kind),
           pass'[p].todo = {TaskOf(i) : i \in S},
           pass'[p].kind = pass[p].kind, pass'[p].day = pass[p].day,
           pass'[p].pc = "settle" => pass[p].kind = "plan" /\ \A i \in S : MaturedBy(i, pass[p].day)
    PROVE  ListDue(p)'
<1>1. ASSUME NEW t \in pass'[p].todo PROVE TaskDue(p, t)'
    <2>1. PICK i \in S : t = TaskOf(i)
        BY <1>1
    <2>2. t.id = i /\ t.value = Value(i) /\ i \in Ids /\ IsActive(i)
          /\ positions[i].product \in ProductsOf(pass[p].kind)
        BY <2>1 DEF TaskOf, ActiveOf
    <2>3. Value(i) \in Int /\ 0 <= Value(i) /\ Value(i)' = Value(i) /\ IsActive(i)'
        BY <2>2, DueTyped DEF DueInv, WorthSomething, Value, IsActive
    <2>4. positions'[i] = positions[i] /\ positions[i].status # "none"
        BY <2>2 DEF IsActive
    <2>5. t.value <= Value(i)' /\ Value(i)' = t.value /\ 0 <= t.value
        BY <2>2, <2>3
    <2>6. pass'[p].pc = "settle" => pass'[p].kind = "plan" /\ positions'[i].matures <= pass'[p].day
        BY <2>4 DEF MaturedBy
    <2> QED BY <2>2, <2>3, <2>4, <2>5, <2>6 DEF TaskDue
<1>2. \A t, u \in pass'[p].todo : t.id = u.id => t = u
    BY DEF TaskOf
<1>3. pass'[p].day <= day'
    BY DEF DueInv, ListDue
<1> QED BY <1>1, <1>2, <1>3 DEF ListDue

LEMMA WorkListed ==
    ASSUME InvestInv, DueInv, NEW p \in Passes, NEW t \in pass[p].todo
    PROVE  /\ t.id \in Ids /\ t.value \in Int /\ Value(t.id) \in Int /\ TaskDue(p, t)
           /\ positions[t.id] \in Position /\ positions[t.id].status # "none"
           /\ \A u \in pass[p].todo \ {t} : u.id \in Ids /\ u.id # t.id
<1>1. t.id \in Ids /\ t.value \in Int /\ TaskDue(p, t)
    BY DueTyped DEF DueInv, ListDue
<1>2. \A u \in pass[p].todo \ {t} : u.id \in Ids /\ u.id # t.id
    BY DueTyped DEF DueInv, ListDue
<1> QED BY <1>1, <1>2, DueTyped DEF TaskDue

(* A step that works off one task, and touches its position only.           *)
LEMMA TaskDone ==
    ASSUME InvestInv, InvestInv', DueInv, PassesAlone,
           NEW p \in Passes, NEW t \in pass[p].todo,
           UNCHANGED <<withdrawal, day>>,
           pass'[p].todo = pass[p].todo \ {t},
           pass'[p].kind = pass[p].kind, pass'[p].day = pass[p].day,
           pass'[p].pc = "settle" => pass[p].pc = "settle",
           \A i \in Ids \ {t.id} : positions'[i] = positions[i],
           positions'[t.id].status # "none",
           positions'[t.id].product = positions[t.id].product,
           positions'[t.id].status = "ACTIVE" => 0 <= positions'[t.id].principal + positions'[t.id].accrued
    PROVE  DueInv'
<1>1. \A i \in Ids \ {t.id} : Harmless(i)
    BY UnchangedHarmless DEF DueInv
<1>2. \A u \in pass'[p].todo : Harmless(u.id)
    BY <1>1, WorkListed
<1>3. day <= day' /\ pass'[p].todo \subseteq pass[p].todo
    BY DueTyped
<1>4. ListDue(p)'
    BY <1>2, <1>3, ListStays DEF DueInv
<1>5. ASSUME NEW i \in Ids, IsActive(i)' PROVE 0 <= Value(i)'
    <2>1. CASE i # t.id
        BY <1>1, <1>5, <2>1 DEF Harmless
    <2>2. CASE i = t.id
        BY <1>5, <2>2 DEF IsActive, Value
    <2> QED BY <2>1, <2>2
<1>6. PaysABasket'
    <2>1. ASSUME NEW i \in Ids, positions[i].status # "none"
          PROVE  positions'[i].status # "none" /\ positions'[i].product = positions[i].product
        BY <2>1
    <2> QED BY <2>1 DEF DueInv, PaysABasket
<1> QED BY <1>4, <1>5, <1>6, TheOnePass DEF WorthSomething

LEMMA WorstReturn ==
    ASSUME NEW v \in Int, 0 <= v, NEW r \in Int, -1 <= r
    PROVE  v * r \in Int /\ 0 <= v + v * r
<1>1. v * r \in Int /\ v + v * r = v * (r + 1)
    OBVIOUS
<1>2. 0 <= v * (r + 1)
    OBVIOUS
<1> QED BY <1>1, <1>2

LEMMA AccrueDue ==
    ASSUME InvestInv, InvestInv', DueInv, PassesAlone, NEW p \in Passes, NEW t \in pass[p].todo,
           Accrue(p, t)
    PROVE  DueInv'
<1> DEFINE r == pass[p].rates[t.product]
           y == DailyYield(t, r)
           new == [pass[p] EXCEPT !.todo = @ \ {t}, !.yield = y,
                                  !.pc = IF y = 0 THEN "accrue" ELSE "journal"]
<1>1. /\ pass[p] \in Pass /\ pass \in [Passes -> Pass] /\ positions \in [Ids -> Position]
      /\ t \in Task /\ r \in Int /\ -1 <= r
    <2>1. pass[p].rates[t.product] \in AnyRate
        BY DEF InvestInv, PassSound, Works, Accrue
    <2> QED BY <2>1, RatesAssumption DEF InvestInv, TypeOK, Pass, PassesAlone
<1>2. t.id \in Ids /\ t.value \in Int /\ 0 <= t.value /\ Value(t.id) \in Int
      /\ (IsActive(t.id) => t.value <= Value(t.id)) /\ positions[t.id].status # "none"
    BY WorkListed DEF TaskDue
<1>3. y \in Int /\ 0 <= t.value + y
    BY <1>1, <1>2, WorstReturn DEF DailyYield
<1>4. /\ positions' = [positions EXCEPT ![t.id].accrued = positions[t.id].accrued + y]
      /\ pass' = [pass EXCEPT ![p] = new] /\ UNCHANGED <<day, withdrawal>>
    BY DEF Accrue, Accrued, ClientUnchanged
<1> HIDE DEF y, r
<1>5. new.todo = pass[p].todo \ {t} /\ new.kind = pass[p].kind /\ new.day = pass[p].day
      /\ new.pc # "settle"
    <2>1. CASE y = 0
        BY <1>1, <2>1, Zenon DEF Pass
    <2>2. CASE y # 0
        BY <1>1, <2>2, Zenon DEF Pass
    <2> QED BY <2>1, <2>2
<1>6. pass'[p] = new
    BY <1>1, <1>4
<1> HIDE DEF new
<1>7. /\ positions'[t.id].status = positions[t.id].status
      /\ positions'[t.id].product = positions[t.id].product
      /\ positions'[t.id].principal = positions[t.id].principal
      /\ positions'[t.id].accrued = positions[t.id].accrued + y
      /\ \A i \in Ids \ {t.id} : positions'[i] = positions[i]
    BY <1>1, <1>2, <1>4 DEF Position
<1>8. positions[t.id].principal \in Nat /\ positions[t.id].accrued \in Int
    BY <1>2, DueTyped
<1>9. positions'[t.id].status = "ACTIVE" => 0 <= positions'[t.id].principal + positions'[t.id].accrued
    BY <1>2, <1>3, <1>7, <1>8 DEF Value, IsActive
<1> QED BY <1>2, <1>4, <1>5, <1>6, <1>7, <1>9, TaskDone

LEMMA SettleDue ==
    ASSUME InvestInv, InvestInv', DueInv, PassesAlone, NEW p \in Passes, NEW t \in pass[p].todo,
           Settle(p, t)
    PROVE  DueInv'
<1>1. pass \in [Passes -> Pass] /\ positions \in [Ids -> Position]
    BY DEF InvestInv, TypeOK
<1>2. t.id \in Ids /\ positions[t.id].status # "none"
    BY WorkListed
<1>3. /\ positions' = [positions EXCEPT ![t.id].status = "MATURED"]
      /\ pass' = [pass EXCEPT ![p].todo = @ \ {t}]
      /\ UNCHANGED <<day, withdrawal>>
    BY DEF Settle, Ended, ClientUnchanged
<1>4. /\ pass'[p].todo = pass[p].todo \ {t} /\ pass'[p].kind = pass[p].kind
      /\ pass'[p].day = pass[p].day /\ pass'[p].pc = pass[p].pc
    BY <1>1, <1>3 DEF Pass
<1>5. /\ positions'[t.id].status = "MATURED" /\ positions'[t.id].product = positions[t.id].product
      /\ \A i \in Ids \ {t.id} : positions'[i] = positions[i]
    BY <1>1, <1>2, <1>3 DEF Position
<1> QED BY <1>2, <1>3, <1>4, <1>5, TaskDone

LEMMA PassDue ==
    ASSUME InvestInv, InvestInv', DueInv, PassesAlone, NEW p \in Passes,
           PassAdvances(p) \/ RowFails(p) \/ \E k \in Kinds : StartPass(p, k)
    PROVE  DueInv'
<1>0. pass \in [Passes -> Pass] /\ pass[p] \in Pass /\ day \in Nat
    BY DueTyped DEF InvestInv, TypeOK
<1>1. CASE \E r \in BotRates : RunTreasury(p, r)
    <2>1. /\ UNCHANGED <<positions, withdrawal, day>>
          /\ \E r \in BotRates : pass' = [pass EXCEPT ![p].rates[Rwa] = r]
        BY <1>1 DEF RunTreasury, ClientUnchanged
    <2>2. /\ pass'[p].kind = pass[p].kind /\ pass'[p].day = pass[p].day
          /\ pass'[p].pc = pass[p].pc /\ pass'[p].todo = pass[p].todo
        BY <1>0, <2>1 DEF Pass
    <2> QED BY <2>1, <2>2, ListKept
<1>2. CASE \E x \in Products : FindRun(p, x)
    <2>1. PICK x \in Products :
              /\ UNCHANGED <<positions, withdrawal, day>>
              /\ \/ pass' = [pass EXCEPT ![p].rates[x] = runs[pass[p].day][x]]
                 \/ pass' = [pass EXCEPT ![p].pc = "record", ![p].product = x]
        BY <1>2 DEF FindRun, ClientUnchanged
    <2>2. CASE pass' = [pass EXCEPT ![p].rates[x] = runs[pass[p].day][x]]
        <3>1. /\ pass'[p].kind = pass[p].kind /\ pass'[p].day = pass[p].day
              /\ pass'[p].pc = pass[p].pc /\ pass'[p].todo = pass[p].todo
            BY <1>0, <2>2 DEF Pass
        <3> QED BY <2>1, <3>1, ListKept
    <2>3. CASE pass' = [pass EXCEPT ![p].pc = "record", ![p].product = x]
        <3>1. /\ pass'[p].kind = pass[p].kind /\ pass'[p].day = pass[p].day
              /\ pass'[p].pc = "record" /\ pass'[p].todo = pass[p].todo
            BY <1>0, <2>3 DEF Pass
        <3> QED BY <2>1, <3>1, ListKept
    <2> QED BY <2>1, <2>2, <2>3
<1>3. CASE \E r \in Rates : CreateRun(p, r)
    <2>1. PICK r \in Rates :
              /\ UNCHANGED <<positions, withdrawal, day>>
              /\ pass' = [pass EXCEPT ![p].pc = "runs", ![p].rates[pass[p].product] = r]
        BY <1>3 DEF CreateRun, ClientUnchanged
    <2>2. /\ pass'[p].kind = pass[p].kind /\ pass'[p].day = pass[p].day
          /\ pass'[p].pc = "runs" /\ pass'[p].todo = pass[p].todo
        BY <1>0, <2>1 DEF Pass
    <2> QED BY <2>1, <2>2, ListKept
<1>4. CASE CreateRunRefused(p) \/ PassDone(p)
    <2>1. pass' = [pass EXCEPT ![p] = IdlePass] /\ UNCHANGED <<positions, withdrawal, day>>
        BY <1>4 DEF CreateRunRefused, PassDone, EndPass, ClientUnchanged
    <2>2. pass'[p].todo = {} /\ pass'[p].pc = "idle" /\ pass'[p].day <= day'
        BY <1>0, <2>1 DEF IdlePass
    <2> QED BY <2>1, <2>2, EmptyListDue, NoMoneyMoves
<1>5. CASE ReadPositions(p)
    <2>1. /\ UNCHANGED <<positions, withdrawal, day>>
          /\ pass' = [pass EXCEPT ![p].pc = "accrue",
                                  ![p].todo = {TaskOf(i) : i \in ActiveOf(pass[p].kind)}]
        BY <1>5 DEF ReadPositions, ClientUnchanged
    <2>2. /\ pass'[p].kind = pass[p].kind /\ pass'[p].day = pass[p].day
          /\ pass'[p].pc = "accrue" /\ pass'[p].todo = {TaskOf(i) : i \in ActiveOf(pass[p].kind)}
        BY <1>0, <2>1 DEF Pass
    <2> QED BY <2>1, <2>2, FreshList, NoMoneyMoves
<1>6. CASE \E t \in pass[p].todo : Accrue(p, t)
    BY <1>6, AccrueDue
<1>7. CASE JournalYield(p)
    <2>1. /\ UNCHANGED <<positions, withdrawal, day>>
          /\ pass' = [pass EXCEPT ![p].pc = "accrue", ![p].yield = 0]
        BY <1>7 DEF JournalYield, ClientUnchanged
    <2>2. /\ pass'[p].kind = pass[p].kind /\ pass'[p].day = pass[p].day
          /\ pass'[p].pc = "accrue" /\ pass'[p].todo = pass[p].todo
        BY <1>0, <2>1 DEF Pass
    <2> QED BY <2>1, <2>2, ListKept
<1>8. CASE ReadMatured(p)
    <2> DEFINE S == {k \in ActiveOf("plan") : MaturedBy(k, pass[p].day)}
    <2>1. /\ UNCHANGED <<positions, withdrawal, day>> /\ pass[p].kind = "plan"
          /\ pass' = [pass EXCEPT ![p].pc = "settle", ![p].todo = {TaskOf(i) : i \in S}]
        BY <1>8 DEF ReadMatured, ClientUnchanged
    <2>2. S \subseteq ActiveOf(pass[p].kind) /\ \A i \in S : MaturedBy(i, pass[p].day)
        BY <2>1
    <2> HIDE DEF S
    <2>3. /\ pass'[p].kind = pass[p].kind /\ pass'[p].day = pass[p].day
          /\ pass'[p].pc = "settle" /\ pass'[p].todo = {TaskOf(i) : i \in S}
        BY <1>0, <2>1 DEF Pass
    <2> QED BY <2>1, <2>2, <2>3, FreshList, NoMoneyMoves
<1>9. CASE \E t \in pass[p].todo : Settle(p, t)
    BY <1>9, SettleDue
<1>10. CASE RowFails(p)
    <2>1. /\ UNCHANGED <<positions, withdrawal, day>>
          /\ \/ pass' = [pass EXCEPT ![p].pc = "accrue", ![p].yield = 0]
             \/ \E t \in pass[p].todo : pass' = [pass EXCEPT ![p].todo = @ \ {t}]
        BY <1>10 DEF RowFails, ClientUnchanged
    <2>2. /\ pass'[p].kind = pass[p].kind /\ pass'[p].day = pass[p].day
          /\ pass'[p].pc \in {"accrue", pass[p].pc} /\ pass'[p].todo \subseteq pass[p].todo
        BY <1>0, <2>1 DEF Pass
    <2> QED BY <2>1, <2>2, ListKept
<1>11. CASE \E k \in Kinds : StartPass(p, k)
    <2>1. /\ UNCHANGED <<positions, withdrawal, day>>
          /\ \E k \in Kinds : pass' = [pass EXCEPT ![p] = [IdlePass EXCEPT !.pc = "runs", !.kind = k, !.day = day]]
        BY <1>11 DEF StartPass, ClientUnchanged
    <2>2. pass'[p].todo = {} /\ pass'[p].pc = "runs" /\ pass'[p].day = day
        BY <1>0, <2>1 DEF IdlePass
    <2> QED BY <1>0, <2>1, <2>2, EmptyListDue, NoMoneyMoves
<1> QED BY <1>1, <1>2, <1>3, <1>4, <1>5, <1>6, <1>7, <1>8, <1>9, <1>10, <1>11 DEF PassAdvances

LEMMA DueStep ==
    ASSUME InvestInv, InvestInv', DueInv, PassesAlone, [Next]_vars
    PROVE  DueInv'
<1>1. CASE NextDay
    <2>1. UNCHANGED <<positions, pass, withdrawal>> /\ day <= day'
        BY <1>1, DueTyped DEF NextDay
    <2>2. \A i \in Ids : Harmless(i)
        BY <2>1, UnchangedHarmless DEF DueInv
    <2>3. PaysABasket'
        BY <2>1, <2>2, BasketsStay DEF DueInv
    <2> QED BY <2>1, <2>2, <2>3, OthersStay
<1>2. CASE Restart
    <2>1. /\ UNCHANGED <<positions, day>> /\ pass' = [p \in Passes |-> IdlePass]
          /\ withdrawal' = [w \in Withdrawers |-> IdleWithdrawal] /\ day \in Nat
        BY <1>2, DueTyped DEF Restart
    <2>2. \A p \in Passes : ListDue(p)'
        BY <2>1 DEF ListDue, IdlePass
    <2>3. \A i \in Ids : Harmless(i)
        BY <2>1, UnchangedHarmless DEF DueInv
    <2>4. WorthSomething'
        BY <2>3 DEF WorthSomething, Harmless
    <2>5. PaysABasket'
        BY <2>1 DEF PaysABasket, IdleWithdrawal
    <2> QED BY <2>2, <2>4, <2>5 DEF DueInv
<1>3. CASE UNCHANGED vars
    <2>1. UNCHANGED <<positions, pass, withdrawal, day>> /\ day <= day'
        BY <1>3, DueTyped DEF vars
    <2>2. \A i \in Ids : Harmless(i)
        BY <2>1, UnchangedHarmless DEF DueInv
    <2>3. PaysABasket'
        BY <2>1, <2>2, BasketsStay DEF DueInv
    <2> QED BY <2>1, <2>2, <2>3, OthersStay
<1> QED BY <1>1, <1>2, <1>3, ClientDue, PassDue DEF Next

LEMMA DueAtFirst == Init => DueInv
<1> SUFFICES ASSUME Init PROVE DueInv
    OBVIOUS
<1>1. WorthSomething
    BY DEF Init, WorthSomething, IsActive, NoPosition
<1>2. PaysABasket
    BY DEF Init, PaysABasket, IdleWithdrawal
<1>3. \A p \in Passes : ListDue(p)
    BY DEF Init, ListDue, IdlePass
<1> QED BY <1>1, <1>2, <1>3 DEF DueInv

(* A payment of a plan finds it active, on its date or later, and pays what *)
(* it is worth at that moment.                                              *)
PlanPaidWhenDue ==
    \A p \in Passes : \A t \in pass[p].todo :
        Settle(p, t) => /\ IsActive(t.id)
                        /\ positions[t.id].product \in Plans
                        /\ positions[t.id].matures <= day
                        /\ PayoutAmount(t) = Value(t.id)

LEMMA DuePaid == InvestInv /\ DueInv => PlanPaidWhenDue
<1> SUFFICES ASSUME InvestInv, DueInv, NEW p \in Passes, NEW t \in pass[p].todo, Settle(p, t)
             PROVE  /\ IsActive(t.id) /\ positions[t.id].product \in Plans
                    /\ positions[t.id].matures <= day /\ PayoutAmount(t) = Value(t.id)
    BY DEF PlanPaidWhenDue
<1>1. /\ t.id \in Ids /\ t.value \in Int /\ TaskDue(p, t) /\ pass[p].pc = "settle"
      /\ pass[p].kind = "plan"
    BY WorkListed DEF Settle, DueInv, ListDue
<1>2. IsActive(t.id) /\ positions[t.id].product \in Plans /\ Value(t.id) = t.value /\ 0 <= t.value
      /\ positions[t.id].matures <= pass[p].day
    BY <1>1 DEF TaskDue, ProductsOf
<1>3. positions[t.id].matures <= day
    <2>1. positions[t.id].matures \in Nat /\ pass[p].day \in Nat /\ day \in Nat /\ pass[p].day <= day
        BY <1>1, DueTyped DEF DueInv, ListDue
    <2> QED BY <1>2, <2>1
<1>4. PayoutAmount(t) = t.value
    BY <1>1, <1>2 DEF PayoutAmount, AtLeastZero
<1> QED BY <1>2, <1>3, <1>4

(* When passes do not overlap, and no day loses more than everything, what  *)
(* settlePosition pays is due: the plan is active, so that it has not been  *)
(* paid before, its date has come, and the amount is its value.  That holds *)
(* whatever failed or was cut before, and whatever the client deposits and  *)
(* withdraws between the reading of the positions and their payment.        *)
THEOREM PlansPaidWhenDue == PassesAlone => (Spec => [][PlanPaidWhenDue]_vars)
<1> SUFFICES ASSUME PassesAlone PROVE Spec => [][PlanPaidWhenDue]_vars
    OBVIOUS
<1>1. InvestInv /\ InvestInv' /\ DueInv /\ [Next]_vars => DueInv'
    BY DueStep
<1>2. Spec => []DueInv
    BY <1>1, DueAtFirst, InvestInvariant, PTL DEF Spec
<1>3. InvestInv /\ DueInv => PlanPaidWhenDue
    BY DuePaid
<1> QED BY <1>2, <1>3, InvestInvariant, PTL
=============================================================================
