--------------------------- MODULE AccountOpening ---------------------------
(***************************************************************************)
(* How a client gets an account.  A code of invitation is redeemed with    *)
(* the dossier of the client, or the bank approves a request; either way   *)
(* the number of clients is limited.  Then the bank decides on the dossier,*)
(* which the client may change.                                            *)
(*                                                                         *)
(* A call reads in one statement what it relies on in a later one: every   *)
(* read is an action.  The statements that write in one transaction, with  *)
(* its unique keys, are one action.  A user is known by the email, which   *)
(* never changes; users are never deleted.                                 *)
(***************************************************************************)
EXTENDS Integers, Sequences, FiniteSets

CONSTANTS
    Emails,       \* emails, each of at most one user
    Codes,        \* codes of invitation
    Requests,     \* requests for an account
    Types,        \* kinds of account
    DossierSteps, \* sections of the dossier, in the order in which they are saved
    Dossiers,     \* what a client may have entered
    Calls,        \* concurrent redemptions
    Approvers,    \* concurrent approvals
    MaxClients,   \* MAX_CLIENT_ACCOUNTS, 5000 in the code
    None,         \* null
    Bank,         \* what the bank entered instead of the client
    MaxChanges    \* bound on changes to dossiers

ASSUME KeysAssumption ==
    /\ None \notin Emails \cup Codes \cup Requests \cup Types \cup Dossiers \cup {Bank}
    /\ Codes \cap Requests = {}
    /\ Bank \notin Dossiers
ASSUME ClientsAssumption == MaxClients \in Nat \ {0} /\ MaxChanges \in Nat
ASSUME DossierAssumption ==
    /\ DossierSteps \in Seq({"profile", "address", "employment", "identity", "aml"})
    /\ DossierSteps # <<>> /\ DossierSteps[Len(DossierSteps)] = "aml"
ASSUME ProcessesAssumption ==
    /\ Calls # {} /\ IsFiniteSet(Calls) /\ IsFiniteSet(Approvers) /\ IsFiniteSet(Emails)
    /\ Calls \cap Approvers = {}

VARIABLES
    codes,      \* invite_codes
    requests,   \* account_opening_requests
    users,      \* users, with their dossier
    call,       \* what each redemption has read and where it stands
    approval,   \* the same of approvals
    cut,        \* history: emails whose dossier was cut short
    changes     \* how often dossiers changed

vars == <<codes, requests, users, call, approval, cut, changes>>

Sections == {DossierSteps[i] : i \in DOMAIN DossierSteps}

\* What a section may hold.
Entries == Dossiers \cup {None, Bank}

Code == [type : Types \cup {None}, usedBy : Emails \cup {None}, expired : BOOLEAN]

Request == [status : {"none", "PENDING", "APPROVED", "REJECTED"},
            email : Emails \cup {None}, type : Types \cup {None}]

\* saved: the sections of the dossier; via: the code or the request that opened the
\* account.  History of the section "aml": all that has been on file (shown), what an
\* adviser had before them when the bank decided (decidedOn), and whether something else
\* was on file by then (late).
User == [type : Types \cup {None}, via : Codes \cup Requests \cup {None},
         kyc : {"PENDING", "VERIFIED", "REJECTED"}, decision : {"none", "VALIDE", "REFUSE"},
         saved : [Sections -> Entries], shown : SUBSET Entries, decidedOn : Entries, late : BOOLEAN]

NoUser == [type |-> None, via |-> None, kyc |-> "PENDING", decision |-> "none",
           saved |-> [s \in Sections |-> None],
           shown |-> {None}, decidedOn |-> None, late |-> FALSE]

Call == [pc : {"idle", "code", "count", "create", "dossier", "ok", "error"},
         code : Codes \cup {None}, email : Emails \cup {None},
         dossier : Dossiers \cup {None}, type : Types \cup {None}, step : Nat]

IdleCall == [pc |-> "idle", code |-> None, email |-> None, dossier |-> None, type |-> None, step |-> 0]

Approval == [pc : {"idle", "count", "create"}, request : Requests \cup {None}]

IdleApproval == [pc |-> "idle", request |-> None]

TypeOK ==
    /\ codes \in [Codes -> Code]
    /\ requests \in [Requests -> Request]
    /\ users \in [Emails -> User]
    /\ call \in [Calls -> Call]
    /\ approval \in [Approvers -> Approval]
    /\ cut \in SUBSET Emails
    /\ changes \in Nat

Init ==
    /\ codes = [c \in Codes |-> [type |-> None, usedBy |-> None, expired |-> FALSE]]
    /\ requests = [q \in Requests |-> [status |-> "none", email |-> None, type |-> None]]
    /\ users = [e \in Emails |-> NoUser]
    /\ call = [k \in Calls |-> IdleCall]
    /\ approval = [a \in Approvers |-> IdleApproval]
    /\ cut = {}
    /\ changes = 0

-----------------------------------------------------------------------------
Exists(e) == users[e].type # None

Clients == {e \in Emails : Exists(e)}

HasPlace_Unchecked == TRUE

HasPlace == Cardinality(Clients) < MaxClients

Opened(e, t, v) == [users EXCEPT ![e] = [NoUser EXCEPT !.type = t, !.via = v]]

CallsUnchanged == UNCHANGED <<call, approval>>

DossiersUnchanged == UNCHANGED <<cut, changes>>

-----------------------------------------------------------------------------
(* Codes of invitation. *)

\* generate: the adviser knows the client, and chooses the kind of account.
Generate(c, t) ==
    /\ codes[c].type = None
    /\ codes' = [codes EXCEPT ![c].type = t]
    /\ CallsUnchanged /\ DossiersUnchanged /\ UNCHANGED <<requests, users>>

\* 24 hours later.
Expire(c) ==
    /\ codes[c].type # None /\ ~ codes[c].expired
    /\ codes' = [codes EXCEPT ![c].expired = TRUE]
    /\ CallsUnchanged /\ DossiersUnchanged /\ UNCHANGED <<requests, users>>

Redeemable_UsedToo(c) == codes[c].type # None /\ ~ codes[c].expired

\* assertRedeemable
Redeemable(c) == codes[c].type # None /\ codes[c].usedBy = None /\ ~ codes[c].expired

-----------------------------------------------------------------------------
(* redeem *)

Advance(k, pc) == call' = [call EXCEPT ![k].pc = pc]

Answer(k, pc) == call' = [call EXCEPT ![k] = [IdleCall EXCEPT !.pc = pc]]

StartRedeem(k, c, e, d) ==
    /\ call[k].pc = "idle"
    /\ IF Exists(e)
       THEN Answer(k, "error")
       ELSE call' = [call EXCEPT ![k] = [IdleCall EXCEPT !.pc = "code", !.code = c, !.email = e, !.dossier = d]]
    /\ DossiersUnchanged /\ UNCHANGED <<codes, requests, users, approval>>

FindCode(k) ==
    LET c == call[k].code IN
    /\ call[k].pc = "code"
    /\ IF Redeemable(c)
       THEN call' = [call EXCEPT ![k].pc = "count", ![k].type = codes[c].type]
       ELSE Answer(k, "error")
    /\ DossiersUnchanged /\ UNCHANGED <<codes, requests, users, approval>>

CountForCode(k) ==
    /\ call[k].pc = "count"
    /\ IF HasPlace THEN Advance(k, "create") ELSE Answer(k, "error")
    /\ DossiersUnchanged /\ UNCHANGED <<codes, requests, users, approval>>

\* The user and the use of the code, written by id.  The email is a unique key.
Redeem(k) ==
    LET e == call[k].email IN
    /\ call[k].pc = "create"
    /\ ~ Exists(e)
    /\ users' = Opened(e, call[k].type, call[k].code)
    /\ codes' = [codes EXCEPT ![call[k].code].usedBy = e]
    /\ call' = [call EXCEPT ![k].pc = "dossier", ![k].step = 1]
    /\ DossiersUnchanged /\ UNCHANGED <<requests, approval>>

RedeemRefused(k) ==
    /\ call[k].pc = "create"
    /\ Exists(call[k].email)
    /\ Answer(k, "error")
    /\ DossiersUnchanged /\ UNCHANGED <<codes, requests, users, approval>>

Saved(e, s, d) == [users EXCEPT ![e].saved[s] = d]

Submitted_KeepsDecision(e, d) == [users EXCEPT ![e].saved["aml"] = d, ![e].shown = @ \cup {d}]

\* submitAmlProfile: the decision was about another dossier.
Submitted(e, d) ==
    [users EXCEPT ![e].saved["aml"] = d, ![e].shown = @ \cup {d}, ![e].decision = "none"]

\* updateProfile, updateAddresses, updateEmployment, updateIdentityDocument, submitAmlProfile
SavedByClient(e, s, d) == IF s = "aml" THEN Submitted(e, d) ELSE Saved(e, s, d)

LastStep_Early(k) == call[k].step + 1 >= Len(DossierSteps)

LastStep(k) == call[k].step = Len(DossierSteps)

\* The account exists already: each section is a statement of its own.
SaveSection(k) ==
    /\ call[k].pc = "dossier"
    /\ users' = SavedByClient(call[k].email, DossierSteps[call[k].step], call[k].dossier)
    /\ IF LastStep(k) THEN Answer(k, "ok") ELSE call' = [call EXCEPT ![k].step = @ + 1]
    /\ DossiersUnchanged /\ UNCHANGED <<codes, requests, approval>>

SectionFails(k) ==
    /\ call[k].pc = "dossier"
    /\ Answer(k, "error")
    /\ cut' = cut \cup {call[k].email}
    /\ UNCHANGED <<codes, requests, users, approval, changes>>

\* The answer leaves the server.
Reply(k) ==
    /\ call[k].pc \in {"ok", "error"}
    /\ call' = [call EXCEPT ![k] = IdleCall]
    /\ DossiersUnchanged /\ UNCHANGED <<codes, requests, users, approval>>

-----------------------------------------------------------------------------
(* Requests for an account. *)

\* create.  Of the two reads before it, the second matters only to the queue of the bank.
RequestAccount(q, e, t) ==
    /\ requests[q].status = "none"
    /\ ~ Exists(e)
    /\ requests' = [requests EXCEPT ![q] = [status |-> "PENDING", email |-> e, type |-> t]]
    /\ CallsUnchanged /\ DossiersUnchanged /\ UNCHANGED <<codes, users>>

StartApproval(a, q) ==
    /\ approval[a].pc = "idle"
    /\ requests[q].status = "PENDING"
    /\ ~ Exists(requests[q].email)
    /\ approval' = [approval EXCEPT ![a] = [pc |-> "count", request |-> q]]
    /\ DossiersUnchanged /\ UNCHANGED <<codes, requests, users, call>>

EndApproval(a) == approval' = [approval EXCEPT ![a] = IdleApproval]

CountForRequest(a) ==
    /\ approval[a].pc = "count"
    /\ IF HasPlace THEN approval' = [approval EXCEPT ![a].pc = "create"] ELSE EndApproval(a)
    /\ DossiersUnchanged /\ UNCHANGED <<codes, requests, users, call>>

\* The user and the status of the request, written by id.
Approve(a) ==
    LET q == approval[a].request IN
    /\ approval[a].pc = "create"
    /\ ~ Exists(requests[q].email)
    /\ users' = Opened(requests[q].email, requests[q].type, q)
    /\ requests' = [requests EXCEPT ![q].status = "APPROVED"]
    /\ EndApproval(a)
    /\ DossiersUnchanged /\ UNCHANGED <<codes, call>>

ApproveRefused(a) ==
    /\ approval[a].pc = "create"
    /\ Exists(requests[approval[a].request].email)
    /\ EndApproval(a)
    /\ DossiersUnchanged /\ UNCHANGED <<codes, requests, users, call>>

Rejectable_AnyStatus(q) == requests[q].status # "none"

\* A single statement, with the status in its WHERE clause.
Rejectable(q) == requests[q].status = "PENDING"

Reject(q) ==
    /\ Rejectable(q)
    /\ requests' = [requests EXCEPT ![q].status = "REJECTED"]
    /\ CallsUnchanged /\ DossiersUnchanged /\ UNCHANGED <<codes, users>>

-----------------------------------------------------------------------------
(* The dossier. *)

\* Bound: the changes after the account was opened.
MayChange(e) == Exists(e) /\ changes < MaxChanges

ClientChanges(e, s, d) ==
    /\ MayChange(e)
    /\ users' = SavedByClient(e, s, d)
    /\ changes' = changes + 1
    /\ CallsUnchanged /\ UNCHANGED <<codes, requests, cut>>

\* The bank's own updateAddresses, updateAmlProfile...: a decision stands, whatever it
\* was about.
BankChanges(e, s) ==
    /\ MayChange(e)
    /\ users' = [users EXCEPT ![e].saved[s] = Bank,
                              ![e].shown = IF s = "aml" THEN @ \cup {Bank} ELSE @]
    /\ changes' = changes + 1
    /\ CallsUnchanged /\ UNCHANGED <<codes, requests, cut>>

StatusOf(d) == IF d = "VALIDE" THEN "VERIFIED" ELSE "REJECTED"

\* decideKyc writes both in one transaction, by id: the adviser decides on the section
\* that was on file when they opened the page, which may have changed since.
DecideKyc(e, d, seen) ==
    /\ MayChange(e)
    /\ seen \in users[e].shown
    /\ users' = [users EXCEPT ![e].decision = d, ![e].kyc = StatusOf(d), ![e].decidedOn = seen,
                              ![e].late = (seen # users[e].saved["aml"])]
    /\ changes' = changes + 1
    /\ CallsUnchanged /\ UNCHANGED <<codes, requests, cut>>

-----------------------------------------------------------------------------
\* The server restarts: calls under way are gone.
Restart ==
    /\ cut' = cut \cup {call[k].email : k \in {l \in Calls : call[l].pc = "dossier"}}
    /\ call' = [k \in Calls |-> IdleCall]
    /\ approval' = [a \in Approvers |-> IdleApproval]
    /\ UNCHANGED <<codes, requests, users, changes>>

RedeemStep(k) ==
    \/ FindCode(k) \/ CountForCode(k) \/ Redeem(k) \/ RedeemRefused(k)
    \/ SaveSection(k) \/ SectionFails(k)

BankStep ==
    \/ \E c \in Codes, t \in Types : Generate(c, t)
    \/ \E q \in Requests, a \in Approvers : StartApproval(a, q)
    \/ \E a \in Approvers : CountForRequest(a) \/ Approve(a) \/ ApproveRefused(a)
    \/ \E q \in Requests : Reject(q)
    \/ \E e \in Emails, s \in Sections : BankChanges(e, s)
    \/ \E e \in Emails, d \in {"VALIDE", "REFUSE"}, seen \in Entries : DecideKyc(e, d, seen)

\* What happens to the bank whatever the page of registration does.
Background ==
    \/ \E c \in Codes : Expire(c)
    \/ \E k \in Calls : RedeemStep(k)
    \/ \E q \in Requests, e \in Emails, t \in Types : RequestAccount(q, e, t)
    \/ \E e \in Emails, s \in Sections, d \in Dossiers : ClientChanges(e, s, d)
    \/ BankStep
    \/ Restart

Next ==
    \/ \E k \in Calls, c \in Codes, e \in Emails, d \in Dossiers : StartRedeem(k, c, e, d)
    \/ \E k \in Calls : Reply(k)
    \/ Background

Spec == Init /\ [][Next]_vars
=============================================================================
