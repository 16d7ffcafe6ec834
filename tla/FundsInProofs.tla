--------------------------- MODULE FundsInProofs ---------------------------
(***************************************************************************)
(* Proofs about money coming in, for every value of the constants.  What   *)
(* the bank confirms by hand is safe only when one review runs at a time:  *)
(* the theorems that need it assume OneReview.                             *)
(***************************************************************************)
EXTENDS FundsInProperties, FiniteSums, TLAPS

OneReview == \A c, d \in Admins : c = d

-----------------------------------------------------------------------------
(* The invariant.  A row says by its status how often it was credited, and  *)
(* a card payment's row agrees with Mollie; a call under way holds a row    *)
(* its next statement may still change.                                     *)

RowSound(j) ==
    /\ credited[j] = IF journal[j].status = "COMPLETED" THEN 1 ELSE 0
    /\ journal[j].status = "none" <=> journal[j].type = "none"
    /\ journal[j].type = "CARD_TOPUP" <=> journal[j].ref \in Payments
    /\ journal[j].type = "CARD_TOPUP" /\ journal[j].status = "COMPLETED"
          => provider[journal[j].ref] = "paid"
    /\ journal[j].type = "CARD_TOPUP" /\ journal[j].status = "FAILED"
          => provider[journal[j].ref] = "failed"

CardCall(h) == handler[h].pc \in {"fetch", "credit", "fail"}
ReviewCall(h) == handler[h].pc \in {"confirm", "reject"}

HandlerSound(h) ==
    LET j == handler[h].row IN
    /\ CardCall(h) => j \in Rows /\ journal[j].type = "CARD_TOPUP"
    /\ handler[h].pc = "credit" => provider[journal[j].ref] = "paid"
    /\ handler[h].pc = "fail" => provider[journal[j].ref] = "failed"
    /\ ReviewCall(h) => /\ h \in Admins
                        /\ j \in Rows
                        /\ journal[j].type = "DEPOSIT"
                        /\ journal[j].status = "PENDING"

RefsDistinct ==
    \A j, k \in Rows : j # k /\ journal[j].ref # NoRef => journal[j].ref # journal[k].ref

FundsInv ==
    /\ TypeOK
    /\ \A j \in Rows : RowSound(j)
    /\ \A h \in Handlers : HandlerSound(h)
    /\ RefsDistinct

(* Crediting keeps a row of balances.                                       *)
LEMMA CreditTyped ==
    ASSUME TypeOK, NEW target \in Target, NEW x \in Nat
    PROVE  Credit(target, x) \in LedgerRow
BY DEF TypeOK, Credit, CreditAvailable, CreditInvestment, LedgerRow

LEMMA FundsInit == Init => FundsInv
<1> SUFFICES ASSUME Init PROVE FundsInv
    OBVIOUS
<1>1. TypeOK
    BY DEF Init, TypeOK, EmptyLedger, LedgerRow, NoRow, JournalRow, Target, Idle, Handler
<1>2. ASSUME NEW j \in Rows PROVE RowSound(j)
    BY RefsAssumption DEF Init, RowSound, NoRow, Refs
<1>3. ASSUME NEW h \in Handlers PROVE HandlerSound(h)
    BY DEF Init, HandlerSound, CardCall, ReviewCall, Idle
<1>4. RefsDistinct
    BY DEF Init, RefsDistinct, NoRow
<1> QED BY <1>1, <1>2, <1>3, <1>4 DEF FundsInv

-----------------------------------------------------------------------------
(* Steps that create a row.  No call under way holds a row that does not    *)
(* exist yet.                                                               *)

LEMMA NewRow ==
    ASSUME FundsInv, NEW j \in Rows, journal[j].status = "none",
           NEW row \in JournalRow,
           journal' = [journal EXCEPT ![j] = row],
           row.ref # NoRef => RefFree(row.ref, j)
    PROVE  /\ journal' \in [Rows -> JournalRow]
           /\ journal'[j] = row
           /\ \A k \in Rows \ {j} : journal'[k] = journal[k]
           /\ RefsDistinct'
           /\ \A h \in Handlers : CardCall(h) \/ ReviewCall(h) => handler[h].row # j
<1> USE DEF FundsInv, TypeOK
<1>1. journal' \in [Rows -> JournalRow] /\ journal'[j] = row /\ \A k \in Rows \ {j} : journal'[k] = journal[k]
    OBVIOUS
<1>2. RefsDistinct'
    BY <1>1 DEF RefsDistinct, RefFree
<1>3. ASSUME NEW h \in Handlers, CardCall(h) \/ ReviewCall(h)
      PROVE  handler[h].row # j
    BY <1>3 DEF HandlerSound, RowSound
<1> QED BY <1>1, <1>2, <1>3

LEMMA CreateTopupSound ==
    ASSUME FundsInv, NEW j \in Rows, NEW x \in Payments, NEW a \in Amounts, NEW target \in Target,
           CreateTopup(j, x, a, target)
    PROVE  FundsInv'
<1> DEFINE row == [type |-> "CARD_TOPUP", status |-> "PENDING", amount |-> a,
                   target |-> target, ref |-> x]
<1>1. row \in JournalRow
    BY AmountsAssumption DEF JournalRow, Refs
<1>2. /\ row.type = "CARD_TOPUP" /\ row.status = "PENDING" /\ row.ref = x
    OBVIOUS
<1> HIDE DEF row
<1>3. journal' = [journal EXCEPT ![j] = row] /\ RefFree(x, j) /\ journal[j].status = "none"
    BY DEF CreateTopup, NextRow, row
<1>4. /\ journal' \in [Rows -> JournalRow]
      /\ journal'[j] = row
      /\ \A k \in Rows \ {j} : journal'[k] = journal[k]
      /\ RefsDistinct'
      /\ \A h \in Handlers : CardCall(h) \/ ReviewCall(h) => handler[h].row # j
    BY <1>1, <1>2, <1>3, NewRow
<1>5. TypeOK'
    BY <1>4 DEF CreateTopup, FundsInv, TypeOK
<1>6. \A k \in Rows \ {j} : journal[k].ref # x
    BY <1>3 DEF RefFree
<1>7. ASSUME NEW k \in Rows PROVE RowSound(k)'
    <2>1. CASE k = j
        BY <1>2, <1>3, <1>4, <2>1 DEF CreateTopup, FundsInv, RowSound
    <2>2. CASE k # j
        <3>1. journal'[k] = journal[k] /\ journal[k].ref # x /\ credited'[k] = credited[k]
            BY <1>4, <1>6, <2>2 DEF CreateTopup
        <3>2. ASSUME journal[k].ref \in Payments PROVE provider'[journal[k].ref] = provider[journal[k].ref]
            BY <3>1, <3>2 DEF CreateTopup, FundsInv, TypeOK
        <3> QED BY <3>1, <3>2 DEF FundsInv, RowSound
    <2> QED BY <2>1, <2>2
<1>8. ASSUME NEW h \in Handlers PROVE HandlerSound(h)'
    <2>1. handler' = handler
        BY DEF CreateTopup
    <2>2. CASE CardCall(h) \/ ReviewCall(h)
        <3>1. handler[h].row \in Rows \ {j} /\ journal'[handler[h].row] = journal[handler[h].row]
            BY <1>4, <2>2 DEF FundsInv, HandlerSound
        <3>2. ASSUME CardCall(h) PROVE provider'[journal[handler[h].row].ref] = provider[journal[handler[h].row].ref]
            BY <1>6, <3>1, <3>2 DEF CreateTopup, FundsInv, TypeOK, HandlerSound, RowSound
        <3> QED BY <2>1, <2>2, <3>1, <3>2 DEF FundsInv, HandlerSound, CardCall, ReviewCall
    <2>3. CASE ~(CardCall(h) \/ ReviewCall(h))
        BY <2>1, <2>3 DEF HandlerSound, CardCall, ReviewCall
    <2> QED BY <2>2, <2>3
<1> QED BY <1>4, <1>5, <1>7, <1>8 DEF FundsInv

LEMMA DeclareDepositSound ==
    ASSUME FundsInv, NEW j \in Rows, NEW a \in Amounts, NEW target \in Target,
           DeclareDeposit(j, a, target)
    PROVE  FundsInv'
<1> DEFINE row == [type |-> "DEPOSIT", status |-> "PENDING", amount |-> a,
                   target |-> target, ref |-> NoRef]
<1>1. row \in JournalRow
    BY AmountsAssumption DEF JournalRow
<1>2. row.type = "DEPOSIT" /\ row.status = "PENDING" /\ row.ref = NoRef
    OBVIOUS
<1> HIDE DEF row
<1>3. journal' = [journal EXCEPT ![j] = row] /\ journal[j].status = "none"
    BY DEF DeclareDeposit, NextRow, row
<1>4. /\ journal' \in [Rows -> JournalRow]
      /\ journal'[j] = row
      /\ \A k \in Rows \ {j} : journal'[k] = journal[k]
      /\ RefsDistinct'
      /\ \A h \in Handlers : CardCall(h) \/ ReviewCall(h) => handler[h].row # j
    BY <1>1, <1>2, <1>3, NewRow
<1>5. TypeOK'
    BY <1>4 DEF DeclareDeposit, FundsInv, TypeOK
<1>6. ASSUME NEW k \in Rows PROVE RowSound(k)'
    <2>1. CASE k = j
        BY <1>2, <1>3, <1>4, <2>1, RefsAssumption DEF DeclareDeposit, FundsInv, RowSound, Refs
    <2>2. CASE k # j
        BY <1>4, <2>2 DEF DeclareDeposit, FundsInv, RowSound
    <2> QED BY <2>1, <2>2
<1>7. ASSUME NEW h \in Handlers PROVE HandlerSound(h)'
    BY <1>4 DEF DeclareDeposit, FundsInv, HandlerSound, CardCall, ReviewCall
<1> QED BY <1>4, <1>5, <1>6, <1>7 DEF FundsInv

LEMMA ProcessDepositSound ==
    ASSUME FundsInv, NEW h \in Hooks, NEW j \in Rows, NEW x \in Hashes, NEW a \in Amounts,
           ProcessDeposit(h, j, x, a)
    PROVE  FundsInv'
<1> DEFINE row == [type |-> "DEPOSIT", status |-> "COMPLETED", amount |-> a,
                   target |-> "AVAILABLE", ref |-> x]
<1>1. row \in JournalRow
    BY AmountsAssumption DEF JournalRow, Refs, Target
<1>2. /\ row.type = "DEPOSIT" /\ row.status = "COMPLETED" /\ row.ref = x
      /\ row.amount \in Nat /\ row.target \in Target
    BY AmountsAssumption DEF Target
<1>a. Pay(h, j, row)
    BY DEF ProcessDeposit
<1> HIDE DEF row
<1>3. journal' = [journal EXCEPT ![j] = row] /\ RefFree(x, j) /\ journal[j].status = "none"
    BY <1>a DEF ProcessDeposit, NextRow, RefFresh, Pay
<1>4. /\ journal' \in [Rows -> JournalRow]
      /\ journal'[j] = row
      /\ \A k \in Rows \ {j} : journal'[k] = journal[k]
      /\ RefsDistinct'
      /\ \A g \in Handlers : CardCall(g) \/ ReviewCall(g) => handler[g].row # j
    BY <1>1, <1>2, <1>3, NewRow
<1>5. h \in Handlers /\ handler' \in [Handlers -> Handler]
      /\ (handler'[h].pc = "follow" \/ handler'[h].pc = "idle")
      /\ \A g \in Handlers \ {h} : handler'[g] = handler[g]
    BY <1>a DEF Pay, Goto, Done, Idle, Handler, Handlers, FundsInv, TypeOK
<1>6. credited' = [credited EXCEPT ![j] = @ + 1] /\ provider' = provider
    BY <1>a DEF Pay
<1>7. TypeOK'
    <2>1. ledger' \in LedgerRow
        BY <1>a, <1>2, CreditTyped DEF Pay, FundsInv
    <2> QED BY <1>a, <1>4, <1>5, <1>6, <2>1 DEF Pay, FundsInv, TypeOK
<1>8. ASSUME NEW k \in Rows PROVE RowSound(k)'
    <2>1. CASE k = j
        BY <1>2, <1>3, <1>4, <1>6, <2>1, RefsAssumption DEF FundsInv, TypeOK, RowSound, Refs
    <2>2. CASE k # j
        BY <1>4, <1>6, <2>2 DEF FundsInv, TypeOK, RowSound
    <2> QED BY <2>1, <2>2
<1>9. ASSUME NEW g \in Handlers PROVE HandlerSound(g)'
    <2>1. CASE g = h
        BY <1>5, <2>1 DEF HandlerSound, CardCall, ReviewCall
    <2>2. CASE g # h
        BY <1>4, <1>5, <1>6, <2>2 DEF FundsInv, HandlerSound, CardCall, ReviewCall
    <2> QED BY <2>1, <2>2
<1> QED BY <1>4, <1>7, <1>8, <1>9 DEF FundsInv

-----------------------------------------------------------------------------
(* Steps that only move calls.                                              *)

LEMMA CallsMove ==
    ASSUME FundsInv, UNCHANGED <<ledger, journal, provider, credited>>,
           call' \in [Rows -> {"none", "made", "cut"}],
           handler' \in [Handlers -> Handler],
           \A h \in Handlers : HandlerSound(h)'
    PROVE  FundsInv'
BY DEF FundsInv, TypeOK, RowSound, RefsDistinct

LEMMA OneCallMoves ==
    ASSUME FundsInv, UNCHANGED <<ledger, journal, provider, credited>>,
           call' \in [Rows -> {"none", "made", "cut"}],
           NEW h \in Handlers, NEW state \in Handler,
           handler' = [handler EXCEPT ![h] = state],
           HandlerSound(h)'
    PROVE  FundsInv'
<1>1. handler' \in [Handlers -> Handler] /\ \A g \in Handlers \ {h} : handler'[g] = handler[g]
    BY DEF FundsInv, TypeOK
<1>2. ASSUME NEW g \in Handlers, g # h PROVE HandlerSound(g)'
    BY <1>1, <1>2 DEF FundsInv, HandlerSound, CardCall, ReviewCall
<1> QED BY <1>1, <1>2, CallsMove

LEMMA CallEnds ==
    ASSUME FundsInv, UNCHANGED <<ledger, journal, provider, credited>>,
           call' \in [Rows -> {"none", "made", "cut"}],
           NEW h \in Handlers, Done(h)
    PROVE  FundsInv'
<1>1. Idle \in Handler
    BY DEF Idle, Handler
<1>2. HandlerSound(h)'
    BY DEF Done, Idle, HandlerSound, CardCall, ReviewCall, FundsInv, TypeOK
<1> QED BY <1>1, <1>2, OneCallMoves DEF Done

LEMMA NotifySound ==
    ASSUME FundsInv, NEW n \in Notifiers, NEW x \in Payments, NEW j \in Rows, Notify(n, x, j)
    PROVE  FundsInv'
<1>1. n \in Handlers /\ [pc |-> "fetch", row |-> j] \in Handler
    BY DEF Handlers, Handler
<1>2. handler' = [handler EXCEPT ![n] = [pc |-> "fetch", row |-> j]]
    BY DEF Notify, Goto
<1>3. HandlerSound(n)'
    BY <1>1, <1>2 DEF Notify, HandlerSound, CardCall, ReviewCall, FundsInv, TypeOK, RowSound
<1>4. call' \in [Rows -> {"none", "made", "cut"}] /\ UNCHANGED <<ledger, journal, provider, credited>>
    BY DEF Notify, FundsInv, TypeOK
<1> QED BY <1>1, <1>2, <1>3, <1>4, OneCallMoves

LEMMA FetchSound ==
    ASSUME FundsInv, NEW n \in Notifiers, Fetch(n)
    PROVE  FundsInv'
<1> DEFINE j == handler[n].row
<1> DEFINE next == AfterFetch(provider[journal[j].ref])
<1>1. n \in Handlers /\ j \in Rows /\ journal[j].type = "CARD_TOPUP"
    BY DEF Fetch, Handlers, FundsInv, HandlerSound, CardCall
<1>2. call' \in [Rows -> {"none", "made", "cut"}] /\ UNCHANGED <<ledger, journal, provider, credited>>
    BY DEF Fetch, FundsInv, TypeOK
<1>3. CASE next = "idle"
    BY <1>1, <1>2, <1>3, CallEnds DEF Fetch
<1>4. CASE next # "idle"
    <2>1. handler' = [handler EXCEPT ![n] = [pc |-> next, row |-> j]]
        BY <1>4 DEF Fetch, Goto
    <2>2. \/ next = "credit" /\ provider[journal[j].ref] = "paid"
          \/ next = "fail" /\ provider[journal[j].ref] = "failed"
        BY <1>4 DEF AfterFetch
    <2>3. [pc |-> next, row |-> j] \in Handler
        BY <1>1, <2>2 DEF Handler
    <2> HIDE DEF next
    <2>4. handler'[n].pc = next /\ handler'[n].row = j
        BY <1>1, <2>1 DEF FundsInv, TypeOK
    <2>5. HandlerSound(n)'
        BY <1>1, <1>2, <2>2, <2>4 DEF HandlerSound, CardCall, ReviewCall
    <2> QED BY <1>1, <1>2, <2>1, <2>3, <2>5, OneCallMoves
<1> QED BY <1>3, <1>4

LEMMA FindPendingSound ==
    ASSUME FundsInv, NEW d \in Admins, NEW j \in Rows, NEW decision \in {"confirm", "reject"},
           FindPending(d, j, decision)
    PROVE  FundsInv'
<1>1. d \in Handlers /\ [pc |-> decision, row |-> j] \in Handler
    BY DEF Handlers, Handler
<1>2. handler' = [handler EXCEPT ![d] = [pc |-> decision, row |-> j]]
    BY DEF FindPending, Goto
<1>3. HandlerSound(d)'
    BY <1>1, <1>2 DEF FindPending, MayReview, Pending, HandlerSound, CardCall, ReviewCall, FundsInv, TypeOK
<1>4. call' \in [Rows -> {"none", "made", "cut"}] /\ UNCHANGED <<ledger, journal, provider, credited>>
    BY DEF FindPending, FundsInv, TypeOK
<1> QED BY <1>1, <1>2, <1>3, <1>4, OneCallMoves

LEMMA CallFailsSound ==
    ASSUME FundsInv, NEW h \in Handlers, FetchFails(h) \/ ConfirmFails(h)
    PROVE  FundsInv'
BY CallEnds DEF FetchFails, ConfirmFails, FundsInv, TypeOK

LEMMA FollowUpSound ==
    ASSUME FundsInv, NEW h \in Handlers, FollowUp(h)
    PROVE  FundsInv'
<1>1. call' \in [Rows -> {"none", "made", "cut"}]
    BY DEF FollowUp, FundsInv, TypeOK
<1> QED BY <1>1, CallEnds DEF FollowUp

LEMMA CrashSound ==
    ASSUME FundsInv, Crash
    PROVE  FundsInv'
<1>1. call' \in [Rows -> {"none", "made", "cut"}]
    BY Zenon DEF Crash, FundsInv, TypeOK
<1>2. handler' \in [Handlers -> Handler] /\ \A h \in Handlers : handler'[h] = Idle
    BY DEF Crash, Idle, Handler
<1>3. ASSUME NEW h \in Handlers PROVE HandlerSound(h)'
    BY <1>2 DEF Idle, HandlerSound, CardCall, ReviewCall
<1> QED BY <1>1, <1>2, <1>3, CallsMove DEF Crash

(* A payment settles once, so what rows and calls know of it stays true.    *)
LEMMA SettleSound ==
    ASSUME FundsInv, NEW x \in Payments, NEW outcome \in {"paid", "failed"}, Settle(x, outcome)
    PROVE  FundsInv'
<1>1. /\ provider' \in [Payments -> {"none", "open", "paid", "failed"}]
      /\ \A y \in Payments : provider[y] \in {"paid", "failed"} => provider'[y] = provider[y]
    BY DEF Settle, FundsInv, TypeOK
<1>2. ASSUME NEW j \in Rows PROVE RowSound(j)'
    BY <1>1 DEF Settle, FundsInv, RowSound
<1>3. ASSUME NEW h \in Handlers PROVE HandlerSound(h)'
    BY <1>1 DEF Settle, FundsInv, HandlerSound, RowSound, CardCall, ReviewCall
<1> QED BY <1>1, <1>2, <1>3 DEF Settle, FundsInv, TypeOK, RefsDistinct

-----------------------------------------------------------------------------
(* Steps that change the row a call holds.                                  *)

(* A card payment's row stays the row of that payment, so calls that hold   *)
(* it stay sound; no review holds it.                                       *)
LEMMA CardRowChanges ==
    ASSUME FundsInv, NEW n \in Notifiers, NEW j \in Rows,
           journal[j].type = "CARD_TOPUP",
           NEW status \in {"COMPLETED", "FAILED"},
           journal' = [journal EXCEPT ![j] = [journal[j] EXCEPT !.status = status]],
           provider' = provider,
           handler' \in [Handlers -> Handler],
           handler'[n].pc \in {"idle", "follow"},
           \A h \in Handlers \ {n} : handler'[h] = handler[h]
    PROVE  /\ journal' \in [Rows -> JournalRow]
           /\ journal'[j].status = status
           /\ \A k \in Rows : /\ journal'[k].type = journal[k].type
                              /\ journal'[k].ref = journal[k].ref
                              /\ journal'[k].amount = journal[k].amount
                              /\ journal'[k].target = journal[k].target
                              /\ k # j => journal'[k] = journal[k]
           /\ RefsDistinct'
           /\ \A h \in Handlers : HandlerSound(h)'
<1> USE DEF FundsInv, TypeOK
<1>1. /\ journal' \in [Rows -> JournalRow]
      /\ journal'[j].status = status
      /\ \A k \in Rows : /\ journal'[k].type = journal[k].type
                         /\ journal'[k].ref = journal[k].ref
                         /\ journal'[k].amount = journal[k].amount
                         /\ journal'[k].target = journal[k].target
                         /\ k # j => journal'[k] = journal[k]
    BY DEF JournalRow
<1>2. RefsDistinct'
    BY <1>1 DEF RefsDistinct
<1>3. ASSUME NEW h \in Handlers PROVE HandlerSound(h)'
    <2>1. CASE h = n
        BY <2>1 DEF HandlerSound, CardCall, ReviewCall
    <2>2. CASE h # n
        <3>1. handler'[h] = handler[h] /\ HandlerSound(h)
            BY <2>2
        <3>2. ReviewCall(h) => handler[h].row # j
            BY <3>1 DEF HandlerSound
        <3>3. CardCall(h) \/ ReviewCall(h) => handler[h].row \in Rows
            BY <3>1 DEF HandlerSound
        <3> QED BY <1>1, <3>1, <3>2, <3>3 DEF HandlerSound, CardCall, ReviewCall
    <2> QED BY <2>1, <2>2
<1> QED BY <1>1, <1>2, <1>3

LEMMA CreditTopupSound ==
    ASSUME FundsInv, NEW n \in Notifiers, CreditTopup(n)
    PROVE  FundsInv'
<1> DEFINE j == handler[n].row
<1>1. /\ n \in Handlers /\ j \in Rows /\ journal[j].type = "CARD_TOPUP"
      /\ provider[journal[j].ref] = "paid"
    BY DEF CreditTopup, Handlers, FundsInv, HandlerSound, CardCall
<1>2. CASE ~TopupGuard(j)
    BY <1>1, <1>2, CallEnds DEF CreditTopup, FundsInv, TypeOK
<1>3. CASE TopupGuard(j)
    <2> HIDE DEF j
    <2> DEFINE row == [journal[j] EXCEPT !.status = "COMPLETED"]
    <2>a. Pay(n, j, row) /\ journal[j].status = "PENDING"
        BY <1>3 DEF CreditTopup, TopupGuard, Pending, j
    <2>1. row.amount \in Nat /\ row.target \in Target
        BY <1>1 DEF FundsInv, TypeOK, JournalRow
    <2>2. /\ handler' \in [Handlers -> Handler]
          /\ handler'[n].pc \in {"idle", "follow"}
          /\ \A h \in Handlers \ {n} : handler'[h] = handler[h]
        BY <2>a, <1>1 DEF Pay, Goto, Done, Idle, Handler, FundsInv, TypeOK
    <2>3. journal' = [journal EXCEPT ![j] = [journal[j] EXCEPT !.status = "COMPLETED"]]
        BY <2>a DEF Pay
    <2>4. provider' = provider /\ call' = call /\ credited' = [credited EXCEPT ![j] = @ + 1]
        BY <2>a DEF Pay
    <2>5. /\ journal' \in [Rows -> JournalRow]
          /\ journal'[j].status = "COMPLETED"
          /\ \A k \in Rows : /\ journal'[k].type = journal[k].type
                             /\ journal'[k].ref = journal[k].ref
                             /\ k # j => journal'[k] = journal[k]
          /\ RefsDistinct'
          /\ \A h \in Handlers : HandlerSound(h)'
        BY <1>1, <2>2, <2>3, <2>4, CardRowChanges
    <2>6. ledger' \in LedgerRow
        BY <2>a, <2>1, CreditTyped DEF Pay, FundsInv
    <2>b. credited' \in [Rows -> Nat] /\ call' \in [Rows -> {"none", "made", "cut"}]
        BY <1>1, <2>4 DEF FundsInv, TypeOK
    <2>c. provider' \in [Payments -> {"none", "open", "paid", "failed"}]
        BY <2>4 DEF FundsInv, TypeOK
    <2>7. TypeOK'
        BY <2>2, <2>5, <2>6, <2>b, <2>c, Zenon DEF TypeOK
    <2>8. ASSUME NEW k \in Rows PROVE RowSound(k)'
        <3>1. CASE k = j
            BY <1>1, <2>a, <2>4, <2>5, <3>1 DEF FundsInv, TypeOK, RowSound
        <3>2. CASE k # j
            BY <2>4, <2>5, <3>2 DEF FundsInv, TypeOK, RowSound
        <3> QED BY <3>1, <3>2
    <2> QED BY <2>5, <2>7, <2>8 DEF FundsInv
<1> QED BY <1>2, <1>3

LEMMA FailTopupSound ==
    ASSUME FundsInv, NEW n \in Notifiers, FailTopup(n)
    PROVE  /\ FundsInv'
           /\ journal[handler[n].row].status \in {"PENDING", "FAILED"}
<1> DEFINE j == handler[n].row
<1>1. /\ n \in Handlers /\ j \in Rows /\ journal[j].type = "CARD_TOPUP"
      /\ provider[journal[j].ref] = "failed"
    BY DEF FailTopup, Handlers, FundsInv, HandlerSound, CardCall
<1>2. journal[j].status \in {"PENDING", "FAILED"}
    BY <1>1 DEF FundsInv, TypeOK, JournalRow, RowSound
<1> HIDE DEF j
<1>3. /\ handler' \in [Handlers -> Handler]
      /\ handler'[n].pc \in {"idle", "follow"}
      /\ \A h \in Handlers \ {n} : handler'[h] = handler[h]
    BY <1>1 DEF FailTopup, Done, Idle, Handler, FundsInv, TypeOK
<1>4. journal' = [journal EXCEPT ![j] = [journal[j] EXCEPT !.status = "FAILED"]]
    BY <1>1 DEF FailTopup, SetStatus, j, FundsInv, TypeOK
<1>5. UNCHANGED <<ledger, provider, credited, call>>
    BY DEF FailTopup
<1>6. /\ journal' \in [Rows -> JournalRow]
      /\ journal'[j].status = "FAILED"
      /\ \A k \in Rows : /\ journal'[k].type = journal[k].type
                         /\ journal'[k].ref = journal[k].ref
                         /\ k # j => journal'[k] = journal[k]
      /\ RefsDistinct'
      /\ \A h \in Handlers : HandlerSound(h)'
    BY <1>1, <1>3, <1>4, <1>5, CardRowChanges
<1>7. TypeOK'
    BY <1>3, <1>5, <1>6 DEF FundsInv, TypeOK
<1>8. ASSUME NEW k \in Rows PROVE RowSound(k)'
    <2>1. CASE k = j
        BY <1>1, <1>2, <1>5, <1>6, <2>1 DEF FundsInv, RowSound
    <2>2. CASE k # j
        BY <1>5, <1>6, <2>2 DEF FundsInv, RowSound
    <2> QED BY <2>1, <2>2
<1>9. FundsInv'
    BY <1>6, <1>7, <1>8 DEF FundsInv
<1> QED BY <1>2, <1>9 DEF j

(* A declared deposit is held by no card payment's call and, when reviews   *)
(* run one at a time, by no other review.                                   *)
LEMMA ReviewedRowChanges ==
    ASSUME FundsInv, OneReview, NEW d \in Admins, ReviewCall(d),
           NEW row \in JournalRow,
           row.type = "DEPOSIT",
           journal' = [journal EXCEPT ![handler[d].row] = row],
           row.ref = journal[handler[d].row].ref \/ RefFree(row.ref, handler[d].row),
           provider' = provider,
           handler' \in [Handlers -> Handler],
           handler'[d].pc \in {"idle", "follow"},
           \A h \in Handlers \ {d} : handler'[h] = handler[h]
    PROVE  /\ handler[d].row \in Rows
           /\ journal[handler[d].row].type = "DEPOSIT"
           /\ journal[handler[d].row].status = "PENDING"
           /\ journal' \in [Rows -> JournalRow]
           /\ journal'[handler[d].row] = row
           /\ \A k \in Rows \ {handler[d].row} : journal'[k] = journal[k]
           /\ RefsDistinct'
           /\ \A h \in Handlers : HandlerSound(h)'
<1> USE DEF FundsInv, TypeOK
<1> DEFINE j == handler[d].row
<1>1. j \in Rows /\ journal[j].type = "DEPOSIT" /\ journal[j].status = "PENDING"
    BY DEF Handlers, HandlerSound
<1> HIDE DEF j
<1>2. /\ journal' \in [Rows -> JournalRow]
      /\ journal'[j] = row
      /\ \A k \in Rows \ {j} : journal'[k] = journal[k]
    BY <1>1 DEF j
<1>3. RefsDistinct'
    <2>1. row.ref = journal[j].ref \/ RefFree(row.ref, j)
        BY DEF j
    <2>2. CASE row.ref = journal[j].ref
        BY <1>1, <1>2, <2>2 DEF RefsDistinct
    <2>3. CASE RefFree(row.ref, j)
        BY <1>1, <1>2, <2>3 DEF RefsDistinct, RefFree
    <2> QED BY <2>1, <2>2, <2>3
<1>4. ASSUME NEW h \in Handlers PROVE HandlerSound(h)'
    <2>1. CASE h = d
        BY <2>1 DEF HandlerSound, CardCall, ReviewCall
    <2>2. CASE h # d
        <3>1. handler'[h] = handler[h] /\ HandlerSound(h)
            BY <2>2
        <3>2. ~ReviewCall(h)
            BY <2>2, <3>1 DEF OneReview, HandlerSound
        <3>3. CardCall(h) => handler[h].row \in Rows \ {j}
            BY <1>1, <3>1 DEF HandlerSound
        <3> QED BY <1>2, <3>1, <3>2, <3>3 DEF HandlerSound, CardCall, ReviewCall
    <2> QED BY <2>1, <2>2
<1> QED BY <1>1, <1>2, <1>3, <1>4 DEF j

LEMMA ConfirmSound ==
    ASSUME FundsInv, OneReview, NEW d \in Admins, NEW x \in Hashes \cup {NoRef}, Confirm(d, x)
    PROVE  /\ FundsInv'
           /\ handler[d].row \in Rows
           /\ journal[handler[d].row].status = "PENDING"
           /\ \A k \in Rows \ {handler[d].row} : journal'[k] = journal[k]
           /\ journal'[handler[d].row].status = "COMPLETED"
           /\ journal'[handler[d].row].amount = journal[handler[d].row].amount
<1> DEFINE j == handler[d].row
<1> DEFINE ref == IF x = NoRef THEN journal[j].ref ELSE x
<1> DEFINE row == [journal[j] EXCEPT !.status = "COMPLETED", !.ref = ref]
<1>1. /\ d \in Handlers /\ ReviewCall(d) /\ j \in Rows
      /\ journal[j].type = "DEPOSIT" /\ journal[j].status = "PENDING"
    BY DEF Confirm, Handlers, FundsInv, HandlerSound, ReviewCall
<1>2. journal[j] \in JournalRow /\ ref \in Refs \cup {NoRef}
    BY <1>1 DEF FundsInv, TypeOK, JournalRow, Refs
<1>3. ref \notin Payments
    BY <1>1, RefsAssumption DEF FundsInv, RowSound, Refs
<1>4. ref = journal[j].ref \/ RefFree(ref, j)
    BY DEF Confirm
<1>5. Pay(d, j, row)
    BY Zenon DEF Confirm
<1> HIDE DEF ref
<1>6. /\ row \in JournalRow
      /\ row.type = "DEPOSIT" /\ row.status = "COMPLETED" /\ row.ref = ref
      /\ row.amount = journal[j].amount
    BY <1>1, <1>2, Zenon DEF JournalRow
<1> HIDE DEF row
<1>7. /\ handler' \in [Handlers -> Handler]
      /\ handler'[d].pc \in {"idle", "follow"}
      /\ \A h \in Handlers \ {d} : handler'[h] = handler[h]
    BY <1>1, <1>5 DEF Pay, Goto, Done, Idle, Handler, FundsInv, TypeOK
<1>8. /\ journal' = [journal EXCEPT ![j] = row]
      /\ provider' = provider /\ call' = call /\ credited' = [credited EXCEPT ![j] = @ + 1]
      /\ ledger' = Credit(row.target, row.amount)
    BY <1>5 DEF Pay
<1>9. /\ journal' \in [Rows -> JournalRow]
      /\ journal'[j] = row
      /\ \A k \in Rows \ {j} : journal'[k] = journal[k]
      /\ RefsDistinct'
      /\ \A h \in Handlers : HandlerSound(h)'
    BY <1>1, <1>4, <1>6, <1>7, <1>8, ReviewedRowChanges
<1>10. TypeOK'
    <2>1. ledger' \in LedgerRow
        BY <1>6, <1>8, CreditTyped DEF FundsInv, JournalRow
    <2>2. credited' \in [Rows -> Nat]
        BY <1>1, <1>8 DEF FundsInv, TypeOK
    <2>3. /\ call' \in [Rows -> {"none", "made", "cut"}]
          /\ provider' \in [Payments -> {"none", "open", "paid", "failed"}]
        BY <1>8 DEF FundsInv, TypeOK
    <2> QED BY <1>7, <1>9, <2>1, <2>2, <2>3, Zenon DEF TypeOK
<1>11. ASSUME NEW k \in Rows PROVE RowSound(k)'
    <2>1. CASE k = j
        <3>1. credited'[j] = 1
            BY <1>1, <1>8 DEF FundsInv, TypeOK, RowSound
        <3> QED BY <1>3, <1>6, <1>9, <2>1, <3>1 DEF RowSound
    <2>2. CASE k # j
        BY <1>8, <1>9, <2>2 DEF FundsInv, TypeOK, RowSound
    <2> QED BY <2>1, <2>2
<1>12. FundsInv'
    BY <1>9, <1>10, <1>11 DEF FundsInv
<1> QED BY <1>1, <1>6, <1>9, <1>12

LEMMA RejectSound ==
    ASSUME FundsInv, OneReview, NEW d \in Admins, Reject(d)
    PROVE  /\ FundsInv'
           /\ handler[d].row \in Rows
           /\ journal[handler[d].row].status = "PENDING"
           /\ \A k \in Rows \ {handler[d].row} : journal'[k] = journal[k]
           /\ journal'[handler[d].row].status = "FAILED"
           /\ journal'[handler[d].row].amount = journal[handler[d].row].amount
<1> DEFINE j == handler[d].row
<1> DEFINE row == [journal[j] EXCEPT !.status = "FAILED"]
<1>1. /\ d \in Handlers /\ ReviewCall(d) /\ j \in Rows
      /\ journal[j].type = "DEPOSIT" /\ journal[j].status = "PENDING"
    BY DEF Reject, Handlers, FundsInv, HandlerSound, ReviewCall
<1>2. /\ row \in JournalRow
      /\ row.type = "DEPOSIT" /\ row.status = "FAILED" /\ row.ref = journal[j].ref
      /\ row.amount = journal[j].amount
    BY <1>1 DEF FundsInv, TypeOK, JournalRow
<1>3. journal' = [journal EXCEPT ![j] = row]
    BY <1>1 DEF Reject, SetStatus, FundsInv, TypeOK
<1> HIDE DEF row
<1>4. /\ handler' \in [Handlers -> Handler]
      /\ handler'[d].pc \in {"idle", "follow"}
      /\ \A h \in Handlers \ {d} : handler'[h] = handler[h]
    BY <1>1 DEF Reject, Done, Idle, Handler, FundsInv, TypeOK
<1>5. UNCHANGED <<ledger, provider, credited, call>>
    BY DEF Reject
<1>6. /\ journal' \in [Rows -> JournalRow]
      /\ journal'[j] = row
      /\ \A k \in Rows \ {j} : journal'[k] = journal[k]
      /\ RefsDistinct'
      /\ \A h \in Handlers : HandlerSound(h)'
    BY <1>1, <1>2, <1>3, <1>4, <1>5, ReviewedRowChanges
<1>7. TypeOK'
    BY <1>4, <1>5, <1>6 DEF FundsInv, TypeOK
<1>8. ASSUME NEW k \in Rows PROVE RowSound(k)'
    <2>1. CASE k = j
        BY <1>1, <1>2, <1>5, <1>6, <2>1 DEF FundsInv, RowSound
    <2>2. CASE k # j
        BY <1>5, <1>6, <2>2 DEF FundsInv, RowSound
    <2> QED BY <2>1, <2>2
<1>9. FundsInv'
    BY <1>6, <1>7, <1>8 DEF FundsInv
<1> QED BY <1>1, <1>2, <1>6, <1>9

-----------------------------------------------------------------------------
(* The invariant is kept.                                                   *)

LEMMA FundsNext ==
    ASSUME OneReview, FundsInv, Next
    PROVE  FundsInv'
<1>1. ASSUME ClientStep PROVE FundsInv'
    BY <1>1, CreateTopupSound, DeclareDepositSound, SettleSound DEF ClientStep
<1>2. ASSUME NEW n \in Notifiers, NotifierStep(n) PROVE FundsInv'
    <2>1. n \in Handlers
        BY DEF Handlers
    <2> QED BY <1>2, <2>1, NotifySound, FetchSound, CallFailsSound, CreditTopupSound, FailTopupSound
            DEF NotifierStep
<1>3. ASSUME NEW h \in Hooks, HookStep(h) PROVE FundsInv'
    BY <1>3, ProcessDepositSound DEF HookStep
<1>4. ASSUME NEW d \in Admins, AdminStep(d) PROVE FundsInv'
    <2>1. d \in Handlers
        BY DEF Handlers
    <2> QED BY <1>4, <2>1, FindPendingSound, ConfirmSound, CallFailsSound, RejectSound DEF AdminStep
<1>5. ASSUME NEW h \in Handlers, FollowUp(h) PROVE FundsInv'
    BY <1>5, FollowUpSound
<1>6. ASSUME Crash PROVE FundsInv'
    BY <1>6, CrashSound
<1> QED BY <1>1, <1>2, <1>3, <1>4, <1>5, <1>6 DEF Next

LEMMA FundsStutter == FundsInv /\ UNCHANGED vars => FundsInv'
BY DEF FundsInv, vars, TypeOK, RowSound, HandlerSound, RefsDistinct, CardCall, ReviewCall

THEOREM FundsInvariant ==
    ASSUME OneReview
    PROVE  Spec => []FundsInv
<1>1. FundsInv /\ [Next]_vars => FundsInv'
    BY FundsNext, FundsStutter
<1> QED BY <1>1, FundsInit, PTL DEF Spec

(* However often a payment is notified, delivered or confirmed, its row is  *)
(* put on the ledger once, and never when it was refused (creditTopup,      *)
(* processDeposit, confirm).                                                *)
THEOREM PaidInOnce ==
    ASSUME OneReview
    PROVE  Spec => []CreditedOnce
<1>1. FundsInv => CreditedOnce
    BY DEF FundsInv, RowSound, CreditedOnce
<1> QED BY <1>1, FundsInvariant, PTL

(* A card top-up is credited only when Mollie has the money                 *)
(* (confirmPayment).                                                        *)
THEOREM CreditedWhenPaid ==
    ASSUME OneReview
    PROVE  Spec => []PaidBeforeCredited
<1>1. FundsInv => PaidBeforeCredited
    BY DEF FundsInv, RowSound, PaidBeforeCredited
<1> QED BY <1>1, FundsInvariant, PTL

-----------------------------------------------------------------------------
(* FundsIn implements MoneyIntake.  A step that changes one row is a step   *)
(* of that payment; every other step changes neither row nor balance.       *)

LEMMA PaymentMoves ==
    ASSUME NEW j \in Rows, NEW from, NEW to,
           journal[j].status = from, journal'[j].status = to,
           \A k \in Rows \ {j} : journal'[k] = journal[k]
    PROVE  /\ Intake!Move(j, from, to)
           /\ [k \in Rows |-> journal'[k].amount]
                = [[k \in Rows |-> journal[k].amount] EXCEPT
                      ![j] = [k \in Rows |-> journal'[k].amount][j]]
           /\ journal'[j].amount = journal[j].amount
                => [k \in Rows |-> journal'[k].amount] = [k \in Rows |-> journal[k].amount]
BY DEF Intake!Move

(* A credit changes one balance by the amount of the row.                   *)
LEMMA CreditArrives ==
    ASSUME FundsInv, NEW target \in Target, NEW x \in Nat, ledger' = Credit(target, x)
    PROVE  Intake!Arrives(x)
BY DEF FundsInv, TypeOK, LedgerRow, Credit, CreditAvailable, CreditInvestment, Intake!Arrives

LEMMA IntakeStutters ==
    ASSUME UNCHANGED <<ledger, journal>>
    PROVE  UNCHANGED Intake!vars
BY DEF Intake!vars

LEMMA RowAnnounced ==
    ASSUME FundsInv, NEW j \in Rows, journal[j].status = "none", NEW row,
           row.status = "PENDING", journal' = [journal EXCEPT ![j] = row], ledger' = ledger
    PROVE  Intake!Next
<1>1. journal'[j] = row /\ \A k \in Rows \ {j} : journal'[k] = journal[k]
    BY DEF FundsInv, TypeOK
<1> QED BY <1>1, PaymentMoves DEF Intake!Next, Intake!Announce

LEMMA RowReceived ==
    ASSUME FundsInv, NEW h \in Hooks, NEW j \in Rows, NEW x \in Hashes, NEW a \in Amounts,
           ProcessDeposit(h, j, x, a)
    PROVE  Intake!Next
<1> DEFINE row == [type |-> "DEPOSIT", status |-> "COMPLETED", amount |-> a,
                   target |-> "AVAILABLE", ref |-> x]
<1>1. Pay(h, j, row) /\ journal[j].status = "none"
    BY DEF ProcessDeposit, NextRow
<1>2. row.status = "COMPLETED" /\ row.amount = a /\ row.target \in Target /\ a \in Nat
    BY AmountsAssumption DEF Target
<1> HIDE DEF row
<1>3. journal'[j] = row /\ \A k \in Rows \ {j} : journal'[k] = journal[k]
    BY <1>1 DEF Pay, FundsInv, TypeOK
<1>4. Intake!Arrives(a)
    BY <1>1, <1>2, CreditArrives DEF Pay
<1>5. Intake!Move(j, "none", "COMPLETED")
    BY <1>1, <1>2, <1>3, PaymentMoves
<1>6. [k \in Rows |-> journal'[k].amount]
        = [[k \in Rows |-> journal[k].amount] EXCEPT ![j] = [k \in Rows |-> journal'[k].amount][j]]
    BY <1>1, <1>2, <1>3, PaymentMoves
<1>7. [k \in Rows |-> journal'[k].amount][j] = a
    BY <1>2, <1>3
<1> QED BY <1>4, <1>5, <1>6, <1>7 DEF Intake!Next, Intake!Receive

LEMMA RowCredited ==
    ASSUME FundsInv, NEW h, NEW j \in Rows, NEW row, Pay(h, j, row),
           journal[j].status = "PENDING", row.status = "COMPLETED",
           row.amount = journal[j].amount, row.target = journal[j].target
    PROVE  Intake!Next
<1>1. journal'[j] = row /\ \A k \in Rows \ {j} : journal'[k] = journal[k]
    BY DEF Pay, FundsInv, TypeOK
<1>2. row.amount \in Nat /\ row.target \in Target
    BY DEF FundsInv, TypeOK, JournalRow
<1>3. Intake!Arrives(journal[j].amount)
    BY <1>2, CreditArrives DEF Pay
<1>4. /\ Intake!Move(j, "PENDING", "COMPLETED")
      /\ [k \in Rows |-> journal'[k].amount] = [k \in Rows |-> journal[k].amount]
    BY <1>1, PaymentMoves
<1>5. [k \in Rows |-> journal[k].amount][j] = journal[j].amount
    OBVIOUS
<1> QED BY <1>3, <1>4, <1>5 DEF Intake!Next, Intake!Credit

LEMMA RowRefused ==
    ASSUME FundsInv, NEW j \in Rows, ledger' = ledger, SetStatus(j, "FAILED"),
           journal[j].status \in {"PENDING", "FAILED"}
    PROVE  [Intake!Next]_(Intake!vars)
<1>1. /\ journal'[j].status = "FAILED" /\ journal'[j].amount = journal[j].amount
      /\ \A k \in Rows \ {j} : journal'[k] = journal[k]
    BY DEF SetStatus, FundsInv, TypeOK, JournalRow
<1>2. CASE journal[j].status = "PENDING"
    BY <1>1, <1>2, PaymentMoves DEF Intake!Next, Intake!Refuse
<1>3. CASE journal[j].status = "FAILED"
    <2>1. \A k \in Rows : journal'[k].status = journal[k].status /\ journal'[k].amount = journal[k].amount
        BY <1>1, <1>3
    <2> QED BY <2>1 DEF Intake!vars
<1> QED BY <1>2, <1>3

LEMMA IntakeStep ==
    ASSUME OneReview, FundsInv, Next
    PROVE  [Intake!Next]_(Intake!vars)
<1>1. ASSUME NEW j \in Rows, NEW x \in Payments, NEW a \in Amounts, NEW target \in Target,
             CreateTopup(j, x, a, target)
      PROVE  Intake!Next
    <2> DEFINE row == [type |-> "CARD_TOPUP", status |-> "PENDING", amount |-> a,
                       target |-> target, ref |-> x]
    <2>1. journal' = [journal EXCEPT ![j] = row] /\ journal[j].status = "none" /\ ledger' = ledger
        BY <1>1 DEF CreateTopup, NextRow
    <2>2. row.status = "PENDING"
        OBVIOUS
    <2> HIDE DEF row
    <2> QED BY <2>1, <2>2, RowAnnounced
<1>2. ASSUME NEW j \in Rows, NEW a \in Amounts, NEW target \in Target, DeclareDeposit(j, a, target)
      PROVE  Intake!Next
    <2> DEFINE row == [type |-> "DEPOSIT", status |-> "PENDING", amount |-> a,
                       target |-> target, ref |-> NoRef]
    <2>1. journal' = [journal EXCEPT ![j] = row] /\ journal[j].status = "none" /\ ledger' = ledger
        BY <1>2 DEF DeclareDeposit, NextRow
    <2>2. row.status = "PENDING"
        OBVIOUS
    <2> HIDE DEF row
    <2> QED BY <2>1, <2>2, RowAnnounced
<1>3. ASSUME NEW n \in Notifiers, CreditTopup(n)
      PROVE  [Intake!Next]_(Intake!vars)
    <2> DEFINE j == handler[n].row
    <2>1. j \in Rows
        BY <1>3 DEF CreditTopup, Handlers, FundsInv, HandlerSound, CardCall
    <2>2. CASE ~TopupGuard(j)
        BY <1>3, <2>2, IntakeStutters DEF CreditTopup
    <2>3. CASE TopupGuard(j)
        <3> DEFINE row == [journal[j] EXCEPT !.status = "COMPLETED"]
        <3>1. Pay(n, j, row) /\ journal[j].status = "PENDING"
            BY <1>3, <2>3 DEF CreditTopup, TopupGuard, Pending
        <3>2. row.status = "COMPLETED" /\ row.amount = journal[j].amount /\ row.target = journal[j].target
            BY <2>1 DEF FundsInv, TypeOK, JournalRow
        <3> HIDE DEF row, j
        <3> QED BY <2>1, <3>1, <3>2, RowCredited
    <2> QED BY <2>2, <2>3
<1>4. ASSUME NEW d \in Admins, NEW x \in Hashes \cup {NoRef}, Confirm(d, x)
      PROVE  Intake!Next
    <2> DEFINE j == handler[d].row
    <2> DEFINE ref == IF x = NoRef THEN journal[j].ref ELSE x
    <2> DEFINE row == [journal[j] EXCEPT !.status = "COMPLETED", !.ref = ref]
    <2>1. j \in Rows /\ journal[j].status = "PENDING"
        BY <1>4, ConfirmSound
    <2>2. Pay(d, j, row)
        BY <1>4, Zenon DEF Confirm
    <2>3. journal[j] \in JournalRow
        BY <2>1 DEF FundsInv, TypeOK
    <2> HIDE DEF ref
    <2>4. row.status = "COMPLETED" /\ row.amount = journal[j].amount /\ row.target = journal[j].target
        BY <2>3, Zenon DEF JournalRow
    <2> HIDE DEF row, j
    <2> QED BY <2>1, <2>2, <2>4, RowCredited
<1>5. ASSUME NEW n \in Notifiers, FailTopup(n)
      PROVE  [Intake!Next]_(Intake!vars)
    <2>1. handler[n].row \in Rows
        BY <1>5 DEF FailTopup, Handlers, FundsInv, HandlerSound, CardCall
    <2> QED BY <1>5, <2>1, FailTopupSound, RowRefused DEF FailTopup
<1>6. ASSUME NEW d \in Admins, Reject(d)
      PROVE  [Intake!Next]_(Intake!vars)
    BY <1>6, RejectSound, RowRefused DEF Reject
<1>7. ASSUME NEW h \in Handlers, FetchFails(h) \/ ConfirmFails(h) \/ FollowUp(h)
      PROVE  UNCHANGED Intake!vars
    BY <1>7, IntakeStutters DEF FetchFails, ConfirmFails, FollowUp
<1>8. ASSUME ClientStep PROVE [Intake!Next]_(Intake!vars)
    <2>1. ASSUME NEW x \in Payments, NEW outcome \in {"paid", "failed"}, Settle(x, outcome)
          PROVE  UNCHANGED Intake!vars
        BY <2>1, IntakeStutters DEF Settle
    <2> QED BY <1>1, <1>2, <1>8, <2>1 DEF ClientStep
<1>9. ASSUME NEW n \in Notifiers, NotifierStep(n) PROVE [Intake!Next]_(Intake!vars)
    <2>1. ASSUME NEW x \in Payments, NEW j \in Rows, Notify(n, x, j)
          PROVE  UNCHANGED Intake!vars
        BY <2>1, IntakeStutters DEF Notify
    <2>2. ASSUME Fetch(n) PROVE UNCHANGED Intake!vars
        BY <2>2, IntakeStutters DEF Fetch
    <2>3. n \in Handlers
        BY DEF Handlers
    <2> QED BY <1>3, <1>5, <1>7, <1>9, <2>1, <2>2, <2>3 DEF NotifierStep
<1>10. ASSUME NEW d \in Admins, AdminStep(d) PROVE [Intake!Next]_(Intake!vars)
    <2>1. ASSUME NEW j \in Rows, NEW decision \in {"confirm", "reject"}, FindPending(d, j, decision)
          PROVE  UNCHANGED Intake!vars
        BY <2>1, IntakeStutters DEF FindPending
    <2>2. d \in Handlers
        BY DEF Handlers
    <2> QED BY <1>4, <1>6, <1>7, <1>10, <2>1, <2>2 DEF AdminStep
<1>11. ASSUME Crash PROVE UNCHANGED Intake!vars
    BY <1>11, IntakeStutters DEF Crash
<1> QED BY <1>7, <1>8, <1>9, <1>10, <1>11, RowReceived DEF Next, HookStep

(* Every history of the journal and the balances is one of MoneyIntake:     *)
(* each payment is announced, credited once with its amount or refused, and *)
(* that is final.                                                           *)
THEOREM ImplementsIntake ==
    ASSUME OneReview
    PROVE  Spec => IntakeSpec
<1>1. Init => Intake!Init
    BY DEF Init, EmptyLedger, NoRow, Intake!Init
<1>2. FundsInv /\ [Next]_vars => [Intake!Next]_(Intake!vars)
    <2>1. FundsInv /\ Next => [Intake!Next]_(Intake!vars)
        BY IntakeStep
    <2>2. UNCHANGED vars => UNCHANGED Intake!vars
        BY IntakeStutters DEF vars
    <2> QED BY <2>1, <2>2
<1> QED BY <1>1, <1>2, FundsInvariant, PTL DEF Spec, IntakeSpec, Intake!Spec

-----------------------------------------------------------------------------
(* The balances against the journal.                                        *)

(* A set with no two members has at most one.                               *)
LEMMA AtMostOne ==
    ASSUME NEW S, \A j, k \in S : j = k
    PROVE  Cardinality(S) <= 1
<1>1. CASE S = {}
    <2>1. Cardinality(S) = 0
        BY <1>1, FS_EmptySet
    <2> QED BY <2>1
<1>2. CASE S # {}
    <2>1. PICK x \in S : TRUE
        BY <1>2
    <2>2. S = {x}
        BY <2>1
    <2>3. Cardinality({x}) = 1
        BY FS_Singleton
    <2>4. Cardinality(S) = 1
        BY <2>2, <2>3
    <2> QED BY <2>4
<1> QED BY <1>1, <1>2

(* A reference is on one row, and a row is credited once: so no reference   *)
(* puts money on the ledger twice.                                          *)
THEOREM ReferenceCreditedOnce ==
    ASSUME OneReview
    PROVE  Spec => []OneCreditPerReference
<1>1. ASSUME FundsInv PROVE OneCreditPerReference
    <2> SUFFICES ASSUME NEW x \in Refs
                 PROVE  Cardinality({j \in Rows : credited[j] > 0 /\ journal[j].ref = x}) <= 1
        BY DEF OneCreditPerReference
    <2> DEFINE paid == {j \in Rows : credited[j] > 0 /\ journal[j].ref = x}
    <2>1. x # NoRef
        BY RefsAssumption
    <2>2. \A j, k \in paid : j = k
        BY <1>1, <2>1 DEF FundsInv, RefsDistinct
    <2> HIDE DEF paid
    <2>3. Cardinality(paid) <= 1
        BY <2>2, AtMostOne
    <2> QED BY <2>3 DEF paid
<1> QED BY <1>1, FundsInvariant, PTL

(* The sums need that finitely many rows are COMPLETED: one more at a time. *)
BalanceInv ==
    /\ IsFiniteSet(Completed("AVAILABLE"))
    /\ IsFiniteSet(Completed("INVESTMENT"))
    /\ BalanceExplained

(* A step that completes no row and touches none that is.                   *)
LEMMA BalanceKept ==
    ASSUME FundsInv, BalanceInv, ledger' = ledger,
           \A j \in Rows : \/ journal'[j] = journal[j]
                           \/ /\ journal[j].status # "COMPLETED"
                              /\ journal'[j].status # "COMPLETED"
    PROVE  BalanceInv'
<1>1. Completed("AVAILABLE")' = Completed("AVAILABLE") /\ Completed("INVESTMENT")' = Completed("INVESTMENT")
    BY DEF Completed
<1>2. ASSUME NEW target
      PROVE  \A j \in Completed(target) : AmountsOfRows'[j] = AmountsOfRows[j]
    BY DEF Completed, AmountsOfRows
<1>3. SumFunctionOnSet(AmountsOfRows', Completed("AVAILABLE"))
        = SumFunctionOnSet(AmountsOfRows, Completed("AVAILABLE"))
    BY <1>2, SumOfEquals DEF BalanceInv
<1>4. SumFunctionOnSet(AmountsOfRows', Completed("INVESTMENT"))
        = SumFunctionOnSet(AmountsOfRows, Completed("INVESTMENT"))
    BY <1>2, SumOfEquals DEF BalanceInv
<1> QED BY <1>1, <1>3, <1>4 DEF BalanceInv, BalanceExplained

(* A row that is credited joins the sum of the target it names.             *)
LEMMA BalancePaid ==
    ASSUME FundsInv, BalanceInv, NEW h, NEW j \in Rows, NEW row, Pay(h, j, row),
           journal[j].status # "COMPLETED", row.status = "COMPLETED",
           row.amount \in Nat, row.target \in Target
    PROVE  BalanceInv'
<1>0. ledger \in LedgerRow
    BY DEF FundsInv, TypeOK
<1>1. journal'[j] = row /\ \A k \in Rows \ {j} : journal'[k] = journal[k]
    BY DEF Pay, FundsInv, TypeOK
<1>2. /\ j \notin Completed("AVAILABLE") /\ j \notin Completed("INVESTMENT")
      /\ \A k \in Completed("AVAILABLE") \cup Completed("INVESTMENT") : k \in Rows \ {j}
    BY DEF Completed
<1>3. /\ AmountsOfRows'[j] = row.amount
      /\ \A k \in Rows \ {j} : /\ AmountsOfRows[k] \in Int
                               /\ AmountsOfRows'[k] = AmountsOfRows[k]
    BY <1>1 DEF AmountsOfRows, FundsInv, TypeOK, JournalRow
<1>4. ASSUME NEW S, IsFiniteSet(S), S \subseteq Rows \ {j}
      PROVE  /\ SumFunctionOnSet(AmountsOfRows', S) = SumFunctionOnSet(AmountsOfRows, S)
             /\ SumFunctionOnSet(AmountsOfRows', S \cup {j})
                  = SumFunctionOnSet(AmountsOfRows, S) + row.amount
             /\ IsFiniteSet(S \cup {j})
    <2>1. \A k \in S : AmountsOfRows[k] \in Int /\ AmountsOfRows'[k] = AmountsOfRows[k]
        BY <1>3, <1>4
    <2>2. SumFunctionOnSet(AmountsOfRows', S) = SumFunctionOnSet(AmountsOfRows, S)
        BY <1>4, <2>1, SumOfEquals
    <2>3. j \notin S /\ AmountsOfRows'[j] \in Int
        BY <1>3, <1>4
    <2>4. SumFunctionOnSet(AmountsOfRows', S \cup {j})
            = SumFunctionOnSet(AmountsOfRows, S) + AmountsOfRows'[j]
        BY <1>4, <2>1, <2>3, SumOfMore
    <2> QED BY <1>3, <1>4, <2>2, <2>4, FS_AddElement
<1>5. Completed("AVAILABLE") \subseteq Rows \ {j} /\ Completed("INVESTMENT") \subseteq Rows \ {j}
    BY <1>2
<1>6. CASE row.target = "AVAILABLE"
    <2>1. Completed("AVAILABLE")' = Completed("AVAILABLE") \cup {j} /\ Completed("INVESTMENT")' = Completed("INVESTMENT")
        BY <1>1, <1>2, <1>6 DEF Completed
    <2>2. ledger'.avail = ledger.avail + row.amount /\ ledger'.invest = ledger.invest
        BY <1>0, <1>6 DEF Pay, Credit, CreditAvailable, LedgerRow
    <2> QED BY <1>4, <1>5, <2>1, <2>2 DEF BalanceInv, BalanceExplained
<1>7. CASE row.target = "INVESTMENT"
    <2>1. Completed("INVESTMENT")' = Completed("INVESTMENT") \cup {j} /\ Completed("AVAILABLE")' = Completed("AVAILABLE")
        BY <1>1, <1>2, <1>7 DEF Completed
    <2>2. ledger'.invest = ledger.invest + row.amount /\ ledger'.avail = ledger.avail
        BY <1>0, <1>7 DEF Pay, Credit, CreditInvestment, LedgerRow
    <2> QED BY <1>4, <1>5, <2>1, <2>2 DEF BalanceInv, BalanceExplained
<1> QED BY <1>6, <1>7 DEF Target

LEMMA BalanceStep ==
    ASSUME OneReview, FundsInv, BalanceInv, Next
    PROVE  BalanceInv'
<1>0. journal \in [Rows -> JournalRow]
    BY DEF FundsInv, TypeOK
<1>1. ASSUME UNCHANGED <<ledger, journal>>
      PROVE  BalanceInv'
    BY <1>1, BalanceKept
<1>2. ASSUME NEW j \in Rows, journal[j].status = "none", ledger' = ledger, NEW row,
             row.status = "PENDING", journal' = [journal EXCEPT ![j] = row]
      PROVE  BalanceInv'
    <2>1. journal'[j] = row /\ \A k \in Rows \ {j} : journal'[k] = journal[k]
        BY <1>0, <1>2
    <2> QED BY <1>2, <2>1, BalanceKept
<1>3. ASSUME NEW j \in Rows, NEW x \in Payments, NEW a \in Amounts, NEW target \in Target,
             CreateTopup(j, x, a, target)
      PROVE  BalanceInv'
    <2> DEFINE row == [type |-> "CARD_TOPUP", status |-> "PENDING", amount |-> a,
                       target |-> target, ref |-> x]
    <2>1. journal' = [journal EXCEPT ![j] = row] /\ journal[j].status = "none" /\ ledger' = ledger
        BY <1>3 DEF CreateTopup, NextRow
    <2>2. row.status = "PENDING"
        OBVIOUS
    <2> HIDE DEF row
    <2> QED BY <1>2, <2>1, <2>2
<1>4. ASSUME NEW j \in Rows, NEW a \in Amounts, NEW target \in Target, DeclareDeposit(j, a, target)
      PROVE  BalanceInv'
    <2> DEFINE row == [type |-> "DEPOSIT", status |-> "PENDING", amount |-> a,
                       target |-> target, ref |-> NoRef]
    <2>1. journal' = [journal EXCEPT ![j] = row] /\ journal[j].status = "none" /\ ledger' = ledger
        BY <1>4 DEF DeclareDeposit, NextRow
    <2>2. row.status = "PENDING"
        OBVIOUS
    <2> HIDE DEF row
    <2> QED BY <1>2, <2>1, <2>2
<1>5. ASSUME NEW n \in Notifiers, CreditTopup(n)
      PROVE  BalanceInv'
    <2> DEFINE j == handler[n].row
    <2>1. CASE ~TopupGuard(j)
        BY <1>1, <1>5, <2>1 DEF CreditTopup
    <2>2. CASE TopupGuard(j)
        <3> DEFINE row == [journal[j] EXCEPT !.status = "COMPLETED"]
        <3>1. j \in Rows
            BY <1>5 DEF CreditTopup, Handlers, FundsInv, HandlerSound, CardCall
        <3>2. Pay(n, j, row) /\ journal[j].status = "PENDING"
            BY <1>5, <2>2 DEF CreditTopup, TopupGuard, Pending
        <3>3. row.status = "COMPLETED" /\ row.amount \in Nat /\ row.target \in Target
            BY <1>0, <3>1 DEF JournalRow
        <3> HIDE DEF row, j
        <3> QED BY <3>1, <3>2, <3>3, BalancePaid
    <2> QED BY <2>1, <2>2
<1>6. ASSUME NEW d \in Admins, NEW x \in Hashes \cup {NoRef}, Confirm(d, x)
      PROVE  BalanceInv'
    <2> DEFINE j == handler[d].row
    <2> DEFINE ref == IF x = NoRef THEN journal[j].ref ELSE x
    <2> DEFINE row == [journal[j] EXCEPT !.status = "COMPLETED", !.ref = ref]
    <2>1. j \in Rows /\ journal[j].status = "PENDING"
        BY <1>6, ConfirmSound
    <2>2. Pay(d, j, row)
        BY <1>6, Zenon DEF Confirm
    <2>3. journal[j] \in JournalRow
        BY <1>0, <2>1
    <2> HIDE DEF ref
    <2>4. row.status = "COMPLETED" /\ row.amount \in Nat /\ row.target \in Target
        BY <2>3, Zenon DEF JournalRow
    <2> HIDE DEF row, j
    <2> QED BY <2>1, <2>2, <2>4, BalancePaid
<1>7. ASSUME NEW h \in Hooks, NEW j \in Rows, NEW x \in Hashes, NEW a \in Amounts,
             ProcessDeposit(h, j, x, a)
      PROVE  BalanceInv'
    <2> DEFINE row == [type |-> "DEPOSIT", status |-> "COMPLETED", amount |-> a,
                       target |-> "AVAILABLE", ref |-> x]
    <2>1. row.status = "COMPLETED" /\ row.amount \in Nat /\ row.target \in Target
        BY AmountsAssumption DEF Target
    <2>2. Pay(h, j, row) /\ journal[j].status = "none"
        BY <1>7 DEF ProcessDeposit, NextRow
    <2> HIDE DEF row
    <2> QED BY <2>1, <2>2, BalancePaid
<1>8. ASSUME NEW j \in Rows, ledger' = ledger, SetStatus(j, "FAILED"),
             journal[j].status \in {"PENDING", "FAILED"}
      PROVE  BalanceInv'
    <2>1. journal'[j].status = "FAILED" /\ \A k \in Rows \ {j} : journal'[k] = journal[k]
        BY <1>0, <1>8 DEF SetStatus, JournalRow
    <2> QED BY <1>8, <2>1, BalanceKept
<1>9. ASSUME NEW n \in Notifiers, FailTopup(n)
      PROVE  BalanceInv'
    <2>1. handler[n].row \in Rows
        BY <1>9 DEF FailTopup, Handlers, FundsInv, HandlerSound, CardCall
    <2> QED BY <1>8, <1>9, <2>1, FailTopupSound DEF FailTopup
<1>10. ASSUME NEW d \in Admins, Reject(d)
       PROVE  BalanceInv'
    BY <1>8, <1>10, RejectSound DEF Reject
<1>11. CASE ClientStep
    BY <1>1, <1>3, <1>4, <1>11 DEF ClientStep, Settle
<1>12. ASSUME NEW n \in Notifiers, NotifierStep(n) PROVE BalanceInv'
    BY <1>1, <1>5, <1>9, <1>12 DEF NotifierStep, Notify, Fetch, FetchFails
<1>13. ASSUME NEW d \in Admins, AdminStep(d) PROVE BalanceInv'
    BY <1>1, <1>6, <1>10, <1>13 DEF AdminStep, FindPending, ConfirmFails
<1>14. CASE Crash \/ \E h \in Handlers : FollowUp(h)
    BY <1>1, <1>14 DEF Crash, FollowUp
<1> QED BY <1>7, <1>11, <1>12, <1>13, <1>14 DEF Next, HookStep

(* Both balances are the sums of the COMPLETED rows that name them, for any *)
(* number of rows and whatever is notified, delivered or confirmed again.   *)
THEOREM BalancesExplained ==
    ASSUME OneReview
    PROVE  Spec => []BalanceExplained
<1>1. Init => BalanceInv
    <2> SUFFICES ASSUME Init PROVE BalanceInv
        OBVIOUS
    <2>1. Completed("AVAILABLE") = {} /\ Completed("INVESTMENT") = {}
        BY DEF Init, NoRow, Completed
    <2>2. ledger.avail = 0 /\ ledger.invest = 0
        BY DEF Init, EmptyLedger
    <2> QED BY <2>1, <2>2, FS_EmptySet, SumOfNone DEF BalanceInv, BalanceExplained
<1>2. FundsInv /\ BalanceInv /\ [Next]_vars => BalanceInv'
    BY BalanceStep, BalanceKept DEF vars
<1>3. BalanceInv => BalanceExplained
    BY DEF BalanceInv
<1> QED BY <1>1, <1>2, <1>3, FundsInvariant, PTL DEF Spec

-----------------------------------------------------------------------------
(* The calls of tryAutoFulfill.  A credit makes the row owed to a call at   *)
(* the moment at which its handler goes on to make it; the steps of other   *)
(* handlers neither take the call over nor forget it.                       *)

Owed(j) == credited[j] > 0 /\ journal[j].target = "AVAILABLE"

CallsSound ==
    /\ OneCallPerCredit
    /\ \A h \in Handlers : handler[h].pc = "follow" => handler[h].row \in Rows

LEMMA OneCallMeans ==
    OneCallPerCredit <=>
        \A j \in Rows :
            /\ Owed(j) <=> call[j] # "none" \/ \E h \in Handlers : Follows(h, j)
            /\ \A h \in Handlers : Follows(h, j) => call[j] = "none"
            /\ \A g, h \in Handlers : Follows(g, j) /\ Follows(h, j) => g = h
BY DEF OneCallPerCredit, Owed

(* A step that neither credits nor calls.                                   *)
LEMMA NoCall ==
    ASSUME CallsSound, UNCHANGED call,
           \A j \in Rows : Owed(j)' <=> Owed(j),
           \A h \in Handlers : \/ handler'[h] = handler[h]
                               \/ handler[h].pc # "follow" /\ handler'[h].pc # "follow"
    PROVE  CallsSound'
<1>1. \A h \in Handlers, j \in Rows : Follows(h, j)' <=> Follows(h, j)
    BY DEF Follows
<1>2. \A j \in Rows :
         /\ Owed(j)' <=> call'[j] # "none" \/ \E h \in Handlers : Follows(h, j)'
         /\ \A h \in Handlers : Follows(h, j)' => call'[j] = "none"
         /\ \A g, h \in Handlers : Follows(g, j)' /\ Follows(h, j)' => g = h
    BY <1>1, OneCallMeans DEF CallsSound
<1>3. OneCallPerCredit'
    BY <1>2 DEF OneCallPerCredit, Owed, Follows
<1> QED BY <1>3 DEF CallsSound

(* A row that is not credited yet is credited: no call is about it.         *)
LEMMA CreditCalls ==
    ASSUME FundsInv, CallsSound, NEW h \in Handlers, handler[h].pc # "follow",
           NEW j \in Rows, credited[j] = 0, NEW row, Pay(h, j, row)
    PROVE  CallsSound'
<1>1. /\ journal'[j] = row /\ \A k \in Rows \ {j} : journal'[k] = journal[k]
      /\ credited'[j] = 1 /\ \A k \in Rows \ {j} : credited'[k] = credited[k]
      /\ call' = call
    BY DEF Pay, FundsInv, TypeOK
<1>2. /\ \A g \in Handlers \ {h} : handler'[g] = handler[g]
      /\ row.target = "AVAILABLE" => handler'[h] = [pc |-> "follow", row |-> j]
      /\ row.target # "AVAILABLE" => handler'[h].pc = "idle"
    BY DEF Pay, FollowsUp, Goto, Done, Idle, FundsInv, TypeOK
<1>3. call[j] = "none" /\ \A g \in Handlers : ~ Follows(g, j)
    BY OneCallMeans DEF CallsSound, Owed
<1>4. ASSUME NEW k \in Rows, k # j
      PROVE  (Owed(k)' <=> Owed(k)) /\ \A g \in Handlers : Follows(g, k)' <=> Follows(g, k)
    BY <1>1, <1>2, <1>4 DEF Owed, Follows
<1>5. /\ Owed(j)' <=> row.target = "AVAILABLE"
      /\ \A g \in Handlers : Follows(g, j)' <=> g = h /\ row.target = "AVAILABLE"
    BY <1>1, <1>2, <1>3 DEF Owed, Follows
<1>6. ASSUME NEW k \in Rows
      PROVE  /\ Owed(k)' <=> call'[k] # "none" \/ \E g \in Handlers : Follows(g, k)'
             /\ \A g \in Handlers : Follows(g, k)' => call'[k] = "none"
             /\ \A f, g \in Handlers : Follows(f, k)' /\ Follows(g, k)' => f = g
    <2>1. CASE k = j
        BY <1>1, <1>3, <1>5, <2>1
    <2>2. CASE k # j
        BY <1>1, <1>4, <2>2, OneCallMeans DEF CallsSound
    <2> QED BY <2>1, <2>2
<1>7. OneCallPerCredit'
    BY <1>6 DEF OneCallPerCredit, Owed, Follows
<1>8. \A g \in Handlers : handler'[g].pc = "follow" => handler'[g].row \in Rows
    BY <1>2 DEF CallsSound
<1> QED BY <1>7, <1>8 DEF CallsSound

LEMMA FollowUpCalls ==
    ASSUME FundsInv, CallsSound, NEW h \in Handlers, FollowUp(h)
    PROVE  CallsSound'
<1>1. PICK j \in Rows : j = handler[h].row
    BY DEF CallsSound, FollowUp
<1>2. /\ call'[j] = "made" /\ \A k \in Rows \ {j} : call'[k] = call[k]
      /\ UNCHANGED <<journal, credited>>
      /\ handler'[h] = Idle /\ \A g \in Handlers \ {h} : handler'[g] = handler[g]
    BY <1>1 DEF FollowUp, Done, FundsInv, TypeOK
<1>3. Follows(h, j) /\ \A g \in Handlers \ {h} : ~ Follows(g, j)
    <2>1. Follows(h, j)
        BY <1>1 DEF FollowUp, Follows
    <2> QED BY <2>1, OneCallMeans DEF CallsSound
<1>4. Owed(j)
    BY <1>3, OneCallMeans DEF CallsSound
<1>5. /\ \A k \in Rows : Owed(k)' <=> Owed(k)
      /\ \A g \in Handlers : ~ Follows(g, j)'
      /\ \A g \in Handlers, k \in Rows \ {j} : Follows(g, k)' <=> Follows(g, k)
    BY <1>1, <1>2, <1>3 DEF Owed, Follows, Idle
<1>6. ASSUME NEW k \in Rows
      PROVE  /\ Owed(k)' <=> call'[k] # "none" \/ \E g \in Handlers : Follows(g, k)'
             /\ \A g \in Handlers : Follows(g, k)' => call'[k] = "none"
             /\ \A f, g \in Handlers : Follows(f, k)' /\ Follows(g, k)' => f = g
    <2>1. CASE k = j
        BY <1>2, <1>4, <1>5, <2>1
    <2>2. CASE k # j
        BY <1>2, <1>5, <2>2, OneCallMeans DEF CallsSound
    <2> QED BY <2>1, <2>2
<1>7. OneCallPerCredit'
    BY <1>6 DEF OneCallPerCredit, Owed, Follows
<1>8. \A g \in Handlers : handler'[g].pc = "follow" => handler'[g].row \in Rows
    BY <1>2 DEF CallsSound, Idle
<1> QED BY <1>7, <1>8 DEF CallsSound

(* A restart cuts exactly the calls that were still to come.                *)
LEMMA CrashCalls ==
    ASSUME FundsInv, CallsSound, Crash
    PROVE  CallsSound'
<1>1. UNCHANGED <<journal, credited>> /\ \A g \in Handlers : handler'[g] = Idle
    BY DEF Crash
<1>2. ASSUME NEW k \in Rows
      PROVE  call'[k] = IF \E g \in Handlers : Follows(g, k) THEN "cut" ELSE call[k]
    <2>1. ([pc |-> "follow", row |-> k] \in {handler[g] : g \in Handlers})
             <=> \E g \in Handlers : Follows(g, k)
        <3>1. \A g \in Handlers : handler[g] = [pc |-> handler[g].pc, row |-> handler[g].row]
            BY DEF FundsInv, TypeOK, Handler
        <3>2. \A g \in Handlers : handler[g] = [pc |-> "follow", row |-> k] <=> Follows(g, k)
            BY <3>1 DEF Follows
        <3> QED BY <3>2
    <2>2. call'[k] = IF [pc |-> "follow", row |-> k] \in {handler[g] : g \in Handlers}
                     THEN "cut" ELSE call[k]
        BY Zenon DEF Crash
    <2> QED BY <2>1, <2>2
<1>3. ASSUME NEW k \in Rows
      PROVE  /\ Owed(k)' <=> call'[k] # "none"
             /\ \A g \in Handlers : ~ Follows(g, k)'
    <2>1. (Owed(k)' <=> Owed(k)) /\ \A g \in Handlers : ~ Follows(g, k)'
        BY <1>1 DEF Owed, Follows, Idle
    <2> QED BY <1>2, <2>1, OneCallMeans DEF CallsSound
<1>4. OneCallPerCredit'
    BY <1>3 DEF OneCallPerCredit, Owed, Follows
<1> QED BY <1>1, <1>4 DEF CallsSound, Idle

LEMMA CallsStep ==
    ASSUME OneReview, FundsInv, CallsSound, Next
    PROVE  CallsSound'
<1>0. /\ journal \in [Rows -> JournalRow] /\ handler \in [Handlers -> Handler]
      /\ Notifiers \subseteq Handlers /\ Hooks \subseteq Handlers /\ Admins \subseteq Handlers
    BY DEF FundsInv, TypeOK, Handlers
<1>1. ASSUME UNCHANGED <<credited, call, handler>>,
             \A j \in Rows : credited[j] > 0 => journal'[j] = journal[j]
      PROVE  CallsSound'
    BY <1>1, NoCall DEF Owed
<1>2. ASSUME NEW h \in Handlers, NEW state, handler[h].pc # "follow", state.pc # "follow",
             handler' = [handler EXCEPT ![h] = state], UNCHANGED <<credited, call>>,
             \A j \in Rows : journal'[j].target = journal[j].target
      PROVE  CallsSound'
    BY <1>0, <1>2, NoCall DEF Owed
<1>3. ASSUME NEW j \in Rows, journal[j].status = "none", UNCHANGED <<credited, call, handler>>,
             NEW row, journal' = [journal EXCEPT ![j] = row]
      PROVE  CallsSound'
    <2>1. credited[j] = 0
        BY <1>3 DEF FundsInv, RowSound
    <2> QED BY <1>0, <1>1, <1>3, <2>1
<1>4. CASE ClientStep
    BY <1>1, <1>3, <1>4 DEF ClientStep, CreateTopup, DeclareDeposit, Settle, NextRow
<1>5. ASSUME NEW h \in Handlers, handler[h].pc # "follow", Done(h),
             UNCHANGED <<credited, call, journal>>
      PROVE  CallsSound'
    BY <1>2, <1>5 DEF Done, Idle
<1>6. ASSUME NEW h \in Handlers, NEW pc, NEW j, handler[h].pc # "follow", pc # "follow",
             Goto(h, pc, j), UNCHANGED <<credited, call, journal>>
      PROVE  CallsSound'
    BY <1>2, <1>6 DEF Goto
<1>7. ASSUME NEW h \in Handlers, handler[h].pc # "follow", Done(h), NEW j, SetStatus(j, "FAILED"),
             UNCHANGED <<credited, call>>
      PROVE  CallsSound'
    <2>1. \A k \in Rows : journal'[k].target = journal[k].target
        BY <1>0, <1>7 DEF SetStatus, JournalRow
    <2> QED BY <1>2, <1>7, <2>1 DEF Done, Idle
<1>8. ASSUME NEW n \in Notifiers, NotifierStep(n) PROVE CallsSound'
    <2>1. CASE \E x \in Payments, j \in Rows : Notify(n, x, j)
        BY <1>0, <1>6, <2>1 DEF Notify
    <2>2. CASE Fetch(n)
        <3>1. PICK next : next = AfterFetch(provider[journal[handler[n].row].ref])
            OBVIOUS
        <3>2. next # "follow"
            BY <3>1 DEF AfterFetch
        <3> QED BY <1>0, <1>5, <1>6, <2>2, <3>1, <3>2 DEF Fetch
    <2>3. CASE FetchFails(n)
        BY <1>0, <1>5, <2>3 DEF FetchFails
    <2>4. CASE CreditTopup(n)
        <3>1. PICK j \in Rows : j = handler[n].row
            BY <2>4 DEF CreditTopup, FundsInv, HandlerSound, CardCall, Handlers
        <3>2. CASE ~ TopupGuard(j)
            BY <1>0, <1>5, <2>4, <3>1, <3>2 DEF CreditTopup
        <3>3. CASE TopupGuard(j)
            <4>1. credited[j] = 0
                BY <3>3 DEF TopupGuard, Pending, FundsInv, RowSound
            <4>2. Pay(n, j, [journal[j] EXCEPT !.status = "COMPLETED"]) /\ handler[n].pc = "credit"
                BY <2>4, <3>1, <3>3 DEF CreditTopup
            <4> QED BY <1>0, <4>1, <4>2, CreditCalls
        <3> QED BY <3>2, <3>3
    <2>5. CASE FailTopup(n)
        BY <1>0, <1>7, <2>5 DEF FailTopup
    <2> QED BY <1>8, <2>1, <2>2, <2>3, <2>4, <2>5 DEF NotifierStep
<1>9. ASSUME NEW h \in Hooks, HookStep(h) PROVE CallsSound'
    <2>1. PICK j \in Rows, x \in Hashes, a \in Amounts : ProcessDeposit(h, j, x, a)
        BY <1>9 DEF HookStep
    <2>2. credited[j] = 0 /\ handler[h].pc = "idle"
        BY <2>1 DEF ProcessDeposit, NextRow, FundsInv, RowSound
    <2> QED BY <1>0, <2>1, <2>2, CreditCalls DEF ProcessDeposit
<1>10. ASSUME NEW d \in Admins, AdminStep(d) PROVE CallsSound'
    <2>1. CASE \E j \in Rows, decision \in {"confirm", "reject"} : FindPending(d, j, decision)
        BY <1>0, <1>6, <2>1 DEF FindPending
    <2>2. CASE \E x \in Hashes \cup {NoRef} : Confirm(d, x)
        <3>1. PICK j \in Rows : j = handler[d].row /\ journal[j].status = "PENDING"
            BY <2>2, ConfirmSound
        <3>2. credited[j] = 0
            BY <3>1 DEF FundsInv, RowSound
        <3>3. handler[d].pc = "confirm" /\ \E row : Pay(d, j, row)
            BY <2>2, <3>1, Zenon DEF Confirm
        <3> QED BY <1>0, <3>2, <3>3, CreditCalls
    <2>3. CASE ConfirmFails(d)
        BY <1>0, <1>5, <2>3 DEF ConfirmFails
    <2>4. CASE Reject(d)
        BY <1>0, <1>7, <2>4 DEF Reject
    <2> QED BY <1>10, <2>1, <2>2, <2>3, <2>4 DEF AdminStep
<1> QED BY <1>4, <1>8, <1>9, <1>10, FollowUpCalls, CrashCalls DEF Next

(* Each credit of the main balance hands the request exactly one call of    *)
(* tryAutoFulfill, to come, made, or cut by a restart, and nothing else     *)
(* causes one, however often a payment is notified, delivered or confirmed. *)
(* So what CreditLine takes a deposit to be is what this module makes it.   *)
THEOREM CalledOncePerCredit ==
    ASSUME OneReview
    PROVE  Spec => []OneCallPerCredit
<1>1. Init => CallsSound
    BY DEF Init, CallsSound, OneCallPerCredit, Follows, Idle
<1>2. FundsInv /\ CallsSound /\ [Next]_vars => CallsSound'
    <2> SUFFICES ASSUME FundsInv, CallsSound, UNCHANGED vars PROVE CallsSound'
        BY CallsStep
    <2> QED BY NoCall DEF vars, Owed
<1>3. CallsSound => OneCallPerCredit
    BY DEF CallsSound
<1> QED BY <1>1, <1>2, <1>3, FundsInvariant, PTL DEF Spec
=============================================================================
