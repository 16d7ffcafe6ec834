------------------------------ MODULE FundsIn ------------------------------
(***************************************************************************)
(* Money coming in for one client: card top-ups that Mollie notifies,      *)
(* deposits on the client's own address that a blockchain webhook          *)
(* notifies, and deposits on a shared address that the client declares and *)
(* the bank confirms by hand.  All end in a row of the journal             *)
(* (transactions) and a credit of the ledger, and then in a call of        *)
(* tryAutoFulfill, which module CreditLine models.                         *)
(*                                                                         *)
(* Notifications are lost, repeated, late, and handled at the same time.   *)
(* A transaction is one action; so is each read and each statement outside *)
(* one.  A handler that reads and then returns without a change is no      *)
(* action: a repeated notification of a treated payment, a delivery of a   *)
(* known hash, a confirmation of a treated intent.                         *)
(***************************************************************************)
EXTENDS Ledger

CONSTANTS
    Rows,       \* ids of journal rows, in order of creation
    Hashes,     \* transactions on the chain
    Payments,   \* ids Mollie gives to payments
    NoRef,      \* the null of the column
    Amounts,    \* amounts, in USD
    Notifiers,  \* concurrent calls of the Mollie webhook
    Hooks,      \* concurrent calls of the blockchain webhook
    Admins,     \* concurrent reviews of declared deposits
    Crashes     \* whether the server process may restart

Handlers == Notifiers \cup Hooks \cup Admins
Refs == Hashes \cup Payments

ASSUME RowsAssumption == Rows \subseteq Nat \ {0}
ASSUME AmountsAssumption == Amounts \subseteq Nat \ {0}
ASSUME RefsAssumption == NoRef \notin Refs /\ Hashes \cap Payments = {}
ASSUME HandlersAssumption ==
    Notifiers \cap Hooks = {} /\ Notifiers \cap Admins = {} /\ Hooks \cap Admins = {}
ASSUME CrashesAssumption == Crashes \in BOOLEAN

VARIABLES
    ledger,    \* the client's row of ledger_balances
    journal,   \* transactions, those of type DEPOSIT and CARD_TOPUP
    provider,  \* external: what Mollie knows of each payment
    handler,   \* what each call under way has read and where it stands
    credited,  \* history: how often the amount of a row was put on the ledger
    call       \* history: the call of tryAutoFulfill after the credit of a row

vars == <<ledger, journal, provider, handler, credited, call>>

Target == {"AVAILABLE", "INVESTMENT"}

JournalRow == [type : {"none", "DEPOSIT", "CARD_TOPUP"},
               status : {"none", "PENDING", "COMPLETED", "FAILED"},
               amount : Nat, target : Target, ref : Refs \cup {NoRef}]

NoRow == [type |-> "none", status |-> "none", amount |-> 0,
          target |-> "AVAILABLE", ref |-> NoRef]

Handler == [pc : {"idle", "fetch", "credit", "fail", "confirm", "reject", "follow"},
            row : Rows \cup {0}]

Idle == [pc |-> "idle", row |-> 0]

TypeOK ==
    /\ ledger \in LedgerRow
    /\ journal \in [Rows -> JournalRow]
    /\ provider \in [Payments -> {"none", "open", "paid", "failed"}]
    /\ handler \in [Handlers -> Handler]
    /\ credited \in [Rows -> Nat]
    /\ call \in [Rows -> {"none", "made", "cut"}]

Init ==
    /\ ledger = EmptyLedger
    /\ journal = [j \in Rows |-> NoRow]
    /\ provider = [x \in Payments |-> "none"]
    /\ handler = [h \in Handlers |-> Idle]
    /\ credited = [j \in Rows |-> 0]
    /\ call = [j \in Rows |-> "none"]

-----------------------------------------------------------------------------
Pending(j) == journal[j].status = "PENDING"

NextRow(j) == /\ journal[j].status = "none"
              /\ \A k \in Rows : k < j => journal[k].status # "none"

\* referenceTx is unique in the table.
RefFree(x, j) == \A k \in Rows \ {j} : journal[k].ref # x

Goto(h, pc, j) == handler' = [handler EXCEPT ![h] = [pc |-> pc, row |-> j]]
Done(h) == handler' = [handler EXCEPT ![h] = Idle]

Credit_MainOnly(target, x) == CreditAvailable(ledger, x)

\* The balance chosen when the payment was announced.
Credit(target, x) == IF target = "INVESTMENT" THEN CreditInvestment(ledger, x)
                                              ELSE CreditAvailable(ledger, x)

FollowsUp_Investment(target) == target = "INVESTMENT"

\* Only money on the main balance can honour a request.
FollowsUp(target) == target = "AVAILABLE"

\* What every credit does: the ledger, the row, and where its handler goes on.
Pay(h, j, row) ==
    /\ ledger' = Credit(row.target, row.amount)
    /\ journal' = [journal EXCEPT ![j] = row]
    /\ credited' = [credited EXCEPT ![j] = @ + 1]
    /\ IF FollowsUp(row.target) THEN Goto(h, "follow", j) ELSE Done(h)
    /\ UNCHANGED <<provider, call>>

SetStatus(j, status) == journal' = [journal EXCEPT ![j].status = status]

\* tryAutoFulfill, after the transaction of the credit.
FollowUp(h) ==
    /\ handler[h].pc = "follow"
    /\ call' = [call EXCEPT ![handler[h].row] = "made"]
    /\ Done(h)
    /\ UNCHANGED <<ledger, journal, provider, credited>>

-----------------------------------------------------------------------------
(* Card top-ups. *)

\* createCardTopup.  The client learns where to pay once the row is written, so
\* nothing can happen to the payment before.
CreateTopup(j, x, a, target) ==
    /\ NextRow(j)
    /\ provider[x] = "none"
    /\ RefFree(x, j)
    /\ journal' = [journal EXCEPT ![j] = [type |-> "CARD_TOPUP", status |-> "PENDING",
                                          amount |-> a, target |-> target, ref |-> x]]
    /\ provider' = [provider EXCEPT ![x] = "open"]
    /\ UNCHANGED <<ledger, handler, credited, call>>

\* External: a payment is paid or fails, and that is final.
Settle(x, outcome) ==
    /\ provider[x] = "open"
    /\ provider' = [provider EXCEPT ![x] = outcome]
    /\ UNCHANGED <<ledger, journal, handler, credited, call>>

\* confirmPayment: the row of the notified payment, if it is still PENDING.
Notify(n, x, j) ==
    /\ handler[n].pc = "idle"
    /\ journal[j].ref = x
    /\ Pending(j)
    /\ Goto(n, "fetch", j)
    /\ UNCHANGED <<ledger, journal, provider, credited, call>>

AfterFetch_AllButFailed(status) ==
    CASE status = "failed" -> "fail"
      [] OTHER             -> "credit"

\* Mollie's own answer decides, not the notification.
AfterFetch(status) ==
    CASE status = "paid"   -> "credit"
      [] status = "failed" -> "fail"
      [] OTHER             -> "idle"

Fetch(n) ==
    LET next == AfterFetch(provider[journal[handler[n].row].ref]) IN
    /\ handler[n].pc = "fetch"
    /\ IF next = "idle" THEN Done(n) ELSE Goto(n, next, handler[n].row)
    /\ UNCHANGED <<ledger, journal, provider, credited, call>>

\* Mollie does not answer.
FetchFails(n) ==
    /\ handler[n].pc = "fetch"
    /\ Done(n)
    /\ UNCHANGED <<ledger, journal, provider, credited, call>>

TopupGuard_None(j) == TRUE

\* The guard of the update that completes the row.
TopupGuard(j) == Pending(j)

CreditTopup(n) ==
    LET j == handler[n].row IN
    /\ handler[n].pc = "credit"
    /\ IF TopupGuard(j)
       THEN Pay(n, j, [journal[j] EXCEPT !.status = "COMPLETED"])
       ELSE Done(n) /\ UNCHANGED <<ledger, journal, provider, credited, call>>

\* The update by reference looks at nothing again.
FailTopup(n) ==
    /\ handler[n].pc = "fail"
    /\ SetStatus(handler[n].row, "FAILED")
    /\ Done(n)
    /\ UNCHANGED <<ledger, provider, credited, call>>

-----------------------------------------------------------------------------
(* Deposits on the client's own address. *)

RefFresh_None(x, j) == TRUE

RefFresh(x, j) == RefFree(x, j)

\* processDeposit; each delivery is valued at the price of its moment.
ProcessDeposit(h, j, x, a) ==
    /\ handler[h].pc = "idle"
    /\ NextRow(j)
    /\ RefFresh(x, j)
    /\ Pay(h, j, [type |-> "DEPOSIT", status |-> "COMPLETED",
                  amount |-> a, target |-> "AVAILABLE", ref |-> x])

-----------------------------------------------------------------------------
(* Deposits on a shared address. *)

DeclareDeposit(j, a, target) ==
    /\ NextRow(j)
    /\ journal' = [journal EXCEPT ![j] = [type |-> "DEPOSIT", status |-> "PENDING",
                                          amount |-> a, target |-> target, ref |-> NoRef]]
    /\ UNCHANGED <<ledger, provider, handler, credited, call>>

MayReview_AnyStatus(j) == journal[j].type = "DEPOSIT"

MayReview(j) == journal[j].type = "DEPOSIT" /\ Pending(j)

\* findPendingDepositIntent, for confirm or for reject.
FindPending(d, j, decision) ==
    /\ handler[d].pc = "idle"
    /\ MayReview(j)
    /\ Goto(d, decision, j)
    /\ UNCHANGED <<ledger, journal, provider, credited, call>>

\* The rest of confirm: the row is not looked at again.  The bank may give the
\* hash under which the money came.
Confirm(d, x) ==
    LET j == handler[d].row IN
    /\ handler[d].pc = "confirm"
    /\ x # NoRef => RefFree(x, j)
    /\ Pay(d, j, [journal[j] EXCEPT !.status = "COMPLETED",
                                    !.ref = IF x = NoRef THEN @ ELSE x])

\* The hash is already in the table, or a statement fails: nothing remains.
ConfirmFails(d) ==
    /\ handler[d].pc = "confirm"
    /\ Done(d)
    /\ UNCHANGED <<ledger, journal, provider, credited, call>>

Reject(d) ==
    /\ handler[d].pc = "reject"
    /\ SetStatus(handler[d].row, "FAILED")
    /\ Done(d)
    /\ UNCHANGED <<ledger, provider, credited, call>>

-----------------------------------------------------------------------------
\* The server restarts: calls under way are gone, the tables stay.
Crash ==
    /\ Crashes
    /\ handler' = [h \in Handlers |-> Idle]
    /\ call' = [j \in Rows |-> IF [pc |-> "follow", row |-> j] \in {handler[h] : h \in Handlers}
                               THEN "cut" ELSE call[j]]
    /\ UNCHANGED <<ledger, journal, provider, credited>>

ClientStep ==
    \/ \E j \in Rows, x \in Payments, a \in Amounts, target \in Target : CreateTopup(j, x, a, target)
    \/ \E x \in Payments, outcome \in {"paid", "failed"} : Settle(x, outcome)
    \/ \E j \in Rows, a \in Amounts, target \in Target : DeclareDeposit(j, a, target)

NotifierStep(n) ==
    \/ \E x \in Payments, j \in Rows : Notify(n, x, j)
    \/ Fetch(n)
    \/ FetchFails(n)
    \/ CreditTopup(n)
    \/ FailTopup(n)

HookStep(h) == \E j \in Rows, x \in Hashes, a \in Amounts : ProcessDeposit(h, j, x, a)

AdminStep(d) ==
    \/ \E j \in Rows, decision \in {"confirm", "reject"} : FindPending(d, j, decision)
    \/ \E x \in Hashes \cup {NoRef} : Confirm(d, x)
    \/ ConfirmFails(d)
    \/ Reject(d)

Next ==
    \/ ClientStep
    \/ \E n \in Notifiers : NotifierStep(n)
    \/ \E h \in Hooks : HookStep(h)
    \/ \E d \in Admins : AdminStep(d)
    \/ \E h \in Handlers : FollowUp(h)
    \/ Crash

Spec == Init /\ [][Next]_vars

\* A call that has credited runs on: the next statement is always possible.
FairSpec == Spec /\ \A h \in Handlers : WF_vars(FollowUp(h))
=============================================================================
