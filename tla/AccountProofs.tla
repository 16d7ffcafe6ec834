---------------------------- MODULE AccountProofs ----------------------------
(***************************************************************************)
(* Proofs about the opening of accounts, for any numbers of emails, codes, *)
(* requests, redemptions and approvals, and any capacity.                  *)
(***************************************************************************)
EXTENDS AccountProperties, FiniteSetTheorems, TLAPS

-----------------------------------------------------------------------------
(* The invariant.  What a call or an approval has read is what it goes on   *)
(* with; an account knows what opened it, and that knows that it is used.   *)

Runs(k) == call[k].pc \in {"code", "count", "create", "dossier"}

\* What a redemption goes on with.
CallSound(k) ==
    /\ Runs(k) => call[k].code \in Codes /\ call[k].email \in Emails /\ call[k].dossier \in Dossiers
    /\ call[k].pc \in {"count", "create"} => call[k].type \in Types
    /\ call[k].pc = "dossier" => call[k].step \in DOMAIN DossierSteps

ApprovalSound(a) ==
    approval[a].pc # "idle" =>
        approval[a].request \in Requests /\ requests[approval[a].request].status # "none"

RequestSound(q) ==
    requests[q].status # "none" => requests[q].email \in Emails /\ requests[q].type \in Types

Sound ==
    /\ \A k \in Calls : CallSound(k)
    /\ \A a \in Approvers : ApprovalSound(a)
    /\ \A q \in Requests : RequestSound(q)

\* An account that does not exist was opened by nothing, and a code that has opened
\* one is marked.
UserSound(e) ==
    /\ ~ Exists(e) => users[e].via = None
    /\ users[e].via \in Codes => codes[users[e].via].usedBy # None
    /\ users[e].via \in Requests =>
         requests[users[e].via].email = e /\ requests[users[e].via].status = "APPROVED"

ApprovedSound(q) == requests[q].status = "APPROVED" => users[requests[q].email].via = q

Linked ==
    /\ \A e \in Emails : UserSound(e)
    /\ \A q \in Requests : ApprovedSound(q)

\* The sections that a registration has saved so far.
SavedSoFar(k) ==
    call[k].pc = "dossier" =>
        /\ Exists(call[k].email)
        /\ \A i \in DOMAIN DossierSteps :
              i < call[k].step => users[call[k].email].saved[DossierSteps[i]] # None

AccountInv == TypeOK /\ Sound /\ Linked

LEMMA AccountInit == Init => AccountInv
<1> SUFFICES ASSUME Init PROVE AccountInv
    OBVIOUS
<1> USE KeysAssumption, ClientsAssumption DEF Init
<1>1. NoUser \in User /\ IdleCall \in Call /\ IdleApproval \in Approval
    BY DEF NoUser, User, Entries, IdleCall, Call, IdleApproval, Approval
<1>2. TypeOK
    BY <1>1 DEF TypeOK, Code, Request
<1>3. Sound
    BY DEF Sound, CallSound, Runs, IdleCall, ApprovalSound, IdleApproval, RequestSound
<1>4. Linked
    BY DEF Linked, UserSound, NoUser, ApprovedSound
<1> QED BY <1>2, <1>3, <1>4 DEF AccountInv

-----------------------------------------------------------------------------
(* The rows that actions write.                                            *)

LEMMA CallTyped ==
    ASSUME TypeOK, NEW k \in Calls, NEW c \in Call
    PROVE  [call EXCEPT ![k] = c] \in [Calls -> Call]
BY DEF TypeOK

LEMMA OpenedTyped ==
    ASSUME TypeOK, NEW e \in Emails, NEW t \in Types, NEW v \in Codes \cup Requests
    PROVE  Opened(e, t, v) \in [Emails -> User]
<1>1. [NoUser EXCEPT !.type = t, !.via = v] \in User
    BY DEF NoUser, User, Entries
<1> QED BY <1>1 DEF Opened, TypeOK

LEMMA SavedTyped ==
    ASSUME TypeOK, NEW e \in Emails, NEW s \in Sections, NEW d \in Dossiers
    PROVE  SavedByClient(e, s, d) \in [Emails -> User]
<1> DEFINE shown == users[e].shown \cup {d}
<1>1. users[e] \in User /\ d \in Entries
    BY DEF TypeOK, Entries
<1>2. [users[e] EXCEPT !.saved[s] = d] \in User
    BY <1>1 DEF User
<1>3. [users[e] EXCEPT !.saved[s] = d, !.shown = shown, !.decision = "none"] \in User
    <2>1. shown \in SUBSET Entries
        BY <1>1 DEF User
    <2> HIDE DEF shown
    <2> QED BY <1>1, <2>1 DEF User
<1>4. Saved(e, s, d) = [users EXCEPT ![e] = [users[e] EXCEPT !.saved[s] = d]]
    BY DEF Saved
<1>5. s = "aml" =>
        Submitted(e, d) = [users EXCEPT ![e] = [users[e] EXCEPT !.saved[s] = d, !.shown = shown, !.decision = "none"]]
    BY DEF Submitted
<1> HIDE DEF shown
<1> QED BY <1>2, <1>3, <1>4, <1>5 DEF SavedByClient, TypeOK

LEMMA AnswerTyped ==
    ASSUME TypeOK, NEW k \in Calls, NEW pc \in {"ok", "error"}
    PROVE  /\ [call EXCEPT ![k] = [IdleCall EXCEPT !.pc = pc]] \in [Calls -> Call]
           /\ [call EXCEPT ![k] = IdleCall] \in [Calls -> Call]
<1>1. [IdleCall EXCEPT !.pc = pc] \in Call /\ IdleCall \in Call
    BY DEF IdleCall, Call
<1> QED BY <1>1, CallTyped

-----------------------------------------------------------------------------
(* Every step keeps the types.                                             *)

LEMMA StartTyped ==
    ASSUME TypeOK, NEW k \in Calls, NEW c \in Codes, NEW e \in Emails, NEW d \in Dossiers,
           StartRedeem(k, c, e, d)
    PROVE  TypeOK'
<1>1. [IdleCall EXCEPT !.pc = "code", !.code = c, !.email = e, !.dossier = d] \in Call
    BY DEF IdleCall, Call
<1>2. call' \in [Calls -> Call]
    BY <1>1, CallTyped, AnswerTyped DEF StartRedeem, Answer
<1> QED BY <1>2 DEF TypeOK, StartRedeem, DossiersUnchanged

LEMMA FindTyped ==
    ASSUME TypeOK, Sound, NEW k \in Calls, FindCode(k)
    PROVE  TypeOK'
<1> DEFINE c == call[k].code
<1>1. call[k] \in Call /\ c \in Codes
    BY DEF TypeOK, Sound, CallSound, Runs, FindCode
<1>2. codes[c].type \in Types \cup {None}
    BY <1>1 DEF TypeOK, Code
<1>3. [call[k] EXCEPT !.pc = "count", !.type = codes[c].type] \in Call
    BY <1>1, <1>2 DEF Call
<1>4. \/ call' = [call EXCEPT ![k] = [call[k] EXCEPT !.pc = "count", !.type = codes[c].type]]
      \/ call' = [call EXCEPT ![k] = [IdleCall EXCEPT !.pc = "error"]]
    BY DEF FindCode, Answer
<1>5. call' \in [Calls -> Call]
    BY <1>3, <1>4, CallTyped, AnswerTyped
<1> QED BY <1>5 DEF TypeOK, FindCode, DossiersUnchanged

LEMMA CountTyped ==
    ASSUME TypeOK, NEW k \in Calls, CountForCode(k)
    PROVE  TypeOK'
<1>1. [call[k] EXCEPT !.pc = "create"] \in Call
    BY DEF TypeOK, Call
<1>2. \/ call' = [call EXCEPT ![k] = [call[k] EXCEPT !.pc = "create"]]
      \/ call' = [call EXCEPT ![k] = [IdleCall EXCEPT !.pc = "error"]]
    BY DEF CountForCode, Answer, Advance
<1>3. call' \in [Calls -> Call]
    BY <1>1, <1>2, CallTyped, AnswerTyped
<1> QED BY <1>3 DEF TypeOK, CountForCode, DossiersUnchanged

LEMMA RedeemTyped ==
    ASSUME TypeOK, Sound, NEW k \in Calls, Redeem(k)
    PROVE  TypeOK'
<1> DEFINE c == call[k].code
           e == call[k].email
<1>1. call[k] \in Call /\ c \in Codes /\ e \in Emails /\ call[k].type \in Types
    BY DEF TypeOK, Sound, CallSound, Runs, Redeem
<1>2. [call[k] EXCEPT !.pc = "dossier", !.step = 1] \in Call
    BY <1>1 DEF Call
<1>3. call' = [call EXCEPT ![k] = [call[k] EXCEPT !.pc = "dossier", !.step = 1]]
    BY DEF Redeem
<1>4. call' \in [Calls -> Call]
    BY <1>2, <1>3, CallTyped
<1>5. users' \in [Emails -> User]
    BY <1>1, OpenedTyped DEF Redeem
<1>6. codes[c] \in Code
    BY <1>1 DEF TypeOK
<1>7. [codes[c] EXCEPT !.usedBy = e] \in Code
    BY <1>1, <1>6 DEF Code
<1>8. codes' = [codes EXCEPT ![c] = [codes[c] EXCEPT !.usedBy = e]]
    BY DEF Redeem
<1>9. codes' \in [Codes -> Code]
    BY <1>7, <1>8 DEF TypeOK
<1> QED BY <1>4, <1>5, <1>9 DEF TypeOK, Redeem, DossiersUnchanged

LEMMA SaveTyped ==
    ASSUME TypeOK, Sound, NEW k \in Calls, SaveSection(k)
    PROVE  TypeOK'
<1> DEFINE n == call[k].step
<1>1. call[k] \in Call /\ call[k].email \in Emails /\ call[k].dossier \in Dossiers /\ n \in DOMAIN DossierSteps
    BY DEF TypeOK, Sound, CallSound, Runs, SaveSection
<1>2. DossierSteps[n] \in Sections
    BY <1>1 DEF Sections
<1>3. users' \in [Emails -> User]
    BY <1>1, <1>2, SavedTyped DEF SaveSection
<1>4. [call[k] EXCEPT !.step = n + 1] \in Call
    BY <1>1 DEF Call
<1>5. \/ call' = [call EXCEPT ![k] = [IdleCall EXCEPT !.pc = "ok"]]
      \/ call' = [call EXCEPT ![k] = [call[k] EXCEPT !.step = n + 1]]
    BY DEF SaveSection, Answer
<1>6. call' \in [Calls -> Call]
    BY <1>4, <1>5, CallTyped, AnswerTyped
<1> QED BY <1>3, <1>6 DEF TypeOK, SaveSection, DossiersUnchanged

LEMMA CallEndTyped ==
    ASSUME TypeOK, Sound, NEW k \in Calls, RedeemRefused(k) \/ SectionFails(k) \/ Reply(k)
    PROVE  TypeOK'
<1>1. call' \in [Calls -> Call]
    <2>1. ASSUME NEW pc \in {"ok", "error"}, Answer(k, pc) PROVE call' \in [Calls -> Call]
        BY <2>1, AnswerTyped DEF Answer
    <2>2. CASE RedeemRefused(k) \/ SectionFails(k)
        BY <2>1, <2>2 DEF RedeemRefused, SectionFails
    <2>3. CASE Reply(k)
        BY <2>3, AnswerTyped DEF Reply
    <2> QED BY <2>2, <2>3
<1>2. CASE SectionFails(k)
    <2>1. call[k].email \in Emails /\ cut' = cut \cup {call[k].email}
        BY <1>2 DEF Sound, CallSound, Runs, SectionFails
    <2>2. cut' \in SUBSET Emails
        BY <2>1 DEF TypeOK
    <2> QED BY <1>1, <1>2, <2>2 DEF TypeOK, SectionFails
<1>3. CASE RedeemRefused(k) \/ Reply(k)
    BY <1>1, <1>3 DEF TypeOK, RedeemRefused, Reply, DossiersUnchanged
<1> QED BY <1>2, <1>3

LEMMA CodesTyped ==
    ASSUME TypeOK, NEW c \in Codes,
           (\E t \in Types : Generate(c, t)) \/ Expire(c)
    PROVE  TypeOK'
<1>1. codes[c] \in Code
    BY DEF TypeOK
<1>2. ASSUME NEW t \in Types, Generate(c, t) PROVE codes' \in [Codes -> Code]
    <2>1. codes' = [codes EXCEPT ![c] = [codes[c] EXCEPT !.type = t]]
        BY <1>2 DEF Generate
    <2>2. [codes[c] EXCEPT !.type = t] \in Code
        BY <1>1 DEF Code
    <2> QED BY <2>1, <2>2 DEF TypeOK
<1>3. CASE Expire(c)
    <2>1. codes' = [codes EXCEPT ![c] = [codes[c] EXCEPT !.expired = TRUE]]
        BY <1>3 DEF Expire
    <2>2. [codes[c] EXCEPT !.expired = TRUE] \in Code
        BY <1>1 DEF Code
    <2>3. codes' \in [Codes -> Code]
        BY <2>1, <2>2 DEF TypeOK
    <2> QED BY <1>3, <2>3 DEF TypeOK, Expire, CallsUnchanged, DossiersUnchanged
<1> QED BY <1>2, <1>3 DEF TypeOK, Generate, CallsUnchanged, DossiersUnchanged

LEMMA RequestsTyped ==
    ASSUME TypeOK, NEW q \in Requests,
           (\E e \in Emails, t \in Types : RequestAccount(q, e, t)) \/ Reject(q)
    PROVE  TypeOK'
<1>1. requests[q] \in Request
    BY DEF TypeOK
<1>2. requests' \in [Requests -> Request]
    BY <1>1 DEF TypeOK, Request, RequestAccount, Reject
<1> QED BY <1>2 DEF TypeOK, RequestAccount, Reject, CallsUnchanged, DossiersUnchanged

LEMMA ApprovalsTyped ==
    ASSUME TypeOK, Sound, NEW a \in Approvers,
           \/ \E q \in Requests : StartApproval(a, q)
           \/ CountForRequest(a) \/ ApproveRefused(a)
    PROVE  TypeOK'
<1>1. approval[a] \in Approval
    BY DEF TypeOK
<1>2. IdleApproval \in Approval
    BY DEF IdleApproval, Approval
<1>3. approval' \in [Approvers -> Approval]
    BY <1>1, <1>2 DEF TypeOK, Approval, StartApproval, CountForRequest, ApproveRefused, EndApproval
<1> QED BY <1>3 DEF TypeOK, StartApproval, CountForRequest, ApproveRefused, DossiersUnchanged

LEMMA ApproveTyped ==
    ASSUME TypeOK, Sound, NEW a \in Approvers, Approve(a)
    PROVE  TypeOK'
<1> DEFINE q == approval[a].request
<1>1. q \in Requests /\ requests[q].email \in Emails /\ requests[q].type \in Types
    BY DEF Sound, ApprovalSound, RequestSound, Approve
<1>2. users' \in [Emails -> User]
    BY <1>1, OpenedTyped DEF Approve
<1>3. requests[q] \in Request
    BY <1>1 DEF TypeOK
<1>4. requests' \in [Requests -> Request]
    BY <1>3 DEF TypeOK, Request, Approve
<1>5. IdleApproval \in Approval
    BY DEF IdleApproval, Approval
<1>6. approval' \in [Approvers -> Approval]
    BY <1>5 DEF TypeOK, Approve, EndApproval
<1> QED BY <1>2, <1>4, <1>6 DEF TypeOK, Approve, DossiersUnchanged

LEMMA DossiersTyped ==
    ASSUME TypeOK, NEW e \in Emails,
           \/ \E s \in Sections, d \in Dossiers : ClientChanges(e, s, d)
           \/ \E s \in Sections : BankChanges(e, s)
           \/ \E d \in {"VALIDE", "REFUSE"}, seen \in Entries : DecideKyc(e, d, seen)
    PROVE  TypeOK'
<1>1. users[e] \in User
    BY DEF TypeOK
<1>2. ASSUME NEW s \in Sections, NEW d \in Dossiers, ClientChanges(e, s, d)
      PROVE  TypeOK'
    BY <1>2, SavedTyped DEF ClientChanges, MayChange, TypeOK, CallsUnchanged
<1>3. ASSUME NEW s \in Sections, BankChanges(e, s)
      PROVE  TypeOK'
    <2> DEFINE shown == IF s = "aml" THEN users[e].shown \cup {Bank} ELSE users[e].shown
    <2>0. shown \in SUBSET Entries /\ Bank \in Entries
        BY <1>1 DEF User, Entries
    <2>2. users' = [users EXCEPT ![e] = [users[e] EXCEPT !.saved[s] = Bank, !.shown = shown]]
        BY <1>3 DEF BankChanges
    <2> HIDE DEF shown
    <2>1. [users[e] EXCEPT !.saved[s] = Bank, !.shown = shown] \in User
        BY <1>1, <2>0 DEF User
    <2>3. users' \in [Emails -> User]
        BY <2>1, <2>2 DEF TypeOK
    <2>4. UNCHANGED <<codes, requests, call, approval, cut>> /\ changes' = changes + 1
        BY <1>3 DEF BankChanges, CallsUnchanged
    <2> QED BY <2>3, <2>4 DEF TypeOK
<1>4. ASSUME NEW d \in {"VALIDE", "REFUSE"}, NEW seen \in Entries, DecideKyc(e, d, seen)
      PROVE  TypeOK'
    <2> DEFINE new == [users[e] EXCEPT !.decision = d, !.kyc = StatusOf(d), !.decidedOn = seen,
                                       !.late = (seen # users[e].saved["aml"])]
    <2>1. StatusOf(d) \in {"VERIFIED", "REJECTED"} /\ (seen # users[e].saved["aml"]) \in BOOLEAN
        BY DEF StatusOf
    <2>2. ASSUME NEW k \in {"VERIFIED", "REJECTED"}, NEW b \in BOOLEAN
          PROVE  [users[e] EXCEPT !.decision = d, !.kyc = k, !.decidedOn = seen, !.late = b] \in User
        BY <1>1, <2>2 DEF User
    <2>3. new \in User
        BY <2>1, <2>2
    <2>4. users' = [users EXCEPT ![e] = new]
        BY <1>4 DEF DecideKyc
    <2> HIDE DEF new
    <2>5. users' \in [Emails -> User]
        BY <2>3, <2>4 DEF TypeOK
    <2>6. UNCHANGED <<codes, requests, call, approval, cut>> /\ changes' = changes + 1
        BY <1>4, Zenon DEF DecideKyc, CallsUnchanged
    <2> QED BY <2>5, <2>6 DEF TypeOK
<1> QED BY <1>2, <1>3, <1>4

LEMMA RestartTyped ==
    ASSUME TypeOK, Sound, Restart
    PROVE  TypeOK'
<1>1. IdleCall \in Call /\ IdleApproval \in Approval
    BY DEF IdleCall, Call, IdleApproval, Approval
<1>2. cut' \in SUBSET Emails
    BY DEF TypeOK, Sound, CallSound, Runs, Restart
<1> QED BY <1>1, <1>2 DEF TypeOK, Restart

LEMMA TypeStep == TypeOK /\ Sound /\ [Next]_vars => TypeOK'
<1> SUFFICES ASSUME TypeOK, Sound, [Next]_vars PROVE TypeOK'
    OBVIOUS
<1>1. CASE \E k \in Calls, c \in Codes, e \in Emails, d \in Dossiers : StartRedeem(k, c, e, d)
    BY <1>1, StartTyped
<1>2. CASE \E k \in Calls : Reply(k)
    BY <1>2, CallEndTyped
<1>3. CASE \E k \in Calls : RedeemStep(k)
    BY <1>3, FindTyped, CountTyped, RedeemTyped, SaveTyped, CallEndTyped DEF RedeemStep
<1>4. CASE BankStep
    BY <1>4, CodesTyped, ApprovalsTyped, ApproveTyped, RequestsTyped, DossiersTyped DEF BankStep
<1>5. CASE \/ \E c \in Codes : Expire(c)
           \/ \E q \in Requests, e \in Emails, t \in Types : RequestAccount(q, e, t)
           \/ \E e \in Emails, s \in Sections, d \in Dossiers : ClientChanges(e, s, d)
           \/ Restart
    BY <1>5, CodesTyped, RequestsTyped, DossiersTyped, RestartTyped
<1>6. CASE UNCHANGED vars
    BY <1>6 DEF vars, TypeOK
<1> QED BY <1>1, <1>2, <1>3, <1>4, <1>5, <1>6 DEF Next, Background

-----------------------------------------------------------------------------
(* What was read stays good to go on with.                                 *)

\* The steps that leave every redemption alone.
OtherStep ==
    \/ BankStep
    \/ \E c \in Codes : Expire(c)
    \/ \E q \in Requests, e \in Emails, t \in Types : RequestAccount(q, e, t)
    \/ \E e \in Emails, s \in Sections, d \in Dossiers : ClientChanges(e, s, d)

LEMMA OtherKeepsCalls == OtherStep => UNCHANGED call
BY DEF OtherStep, BankStep, Generate, StartApproval, CountForRequest, Approve, ApproveRefused, Reject,
       BankChanges, DecideKyc, Expire, RequestAccount, ClientChanges, CallsUnchanged

LEMMA AnswerSound ==
    ASSUME TypeOK, Sound, NEW k \in Calls, NEW l \in Calls, NEW pc \in {"ok", "error"}, Answer(l, pc)
    PROVE  CallSound(k)'
<1>1. call'[k] = call[k] \/ call'[k].pc = pc
    BY DEF Answer, IdleCall, TypeOK
<1> QED BY <1>1 DEF Sound, CallSound, Runs

LEMMA CallSoundStep ==
    ASSUME TypeOK, Sound, [Next]_vars, NEW k \in Calls
    PROVE  CallSound(k)'
<1>1. call[k] \in Call /\ CallSound(k)
    BY DEF TypeOK, Sound
<1>2. CASE \E l \in Calls, c \in Codes, e \in Emails, d \in Dossiers : StartRedeem(l, c, e, d)
    <2> PICK l \in Calls, c \in Codes, e \in Emails, d \in Dossiers : StartRedeem(l, c, e, d)
        BY <1>2
    <2>1. CASE Answer(l, "error")
        BY <2>1, AnswerSound
    <2>2. CASE call' = [call EXCEPT ![l] = [IdleCall EXCEPT !.pc = "code", !.code = c, !.email = e, !.dossier = d]]
        <3>1. CASE k = l
            <4>1. /\ call'[k].pc = "code" /\ call'[k].code = c
                  /\ call'[k].email = e /\ call'[k].dossier = d
                BY <2>2, <3>1 DEF IdleCall, TypeOK
            <4> QED BY <4>1 DEF CallSound, Runs
        <3>2. CASE k # l
            <4>1. call'[k] = call[k]
                BY <2>2, <3>2 DEF TypeOK
            <4> QED BY <1>1, <4>1 DEF CallSound, Runs
        <3> QED BY <3>1, <3>2
    <2> QED BY <2>1, <2>2 DEF StartRedeem
<1>3. CASE \E l \in Calls : Reply(l)
    BY <1>1, <1>3 DEF Reply, IdleCall, CallSound, Runs, TypeOK
<1>4. ASSUME NEW l \in Calls, FindCode(l)
      PROVE  CallSound(k)'
    <2>1. call[l].code \in Codes
        BY <1>4 DEF Sound, CallSound, Runs, FindCode
    <2>2. codes[call[l].code].type \in Types \cup {None}
        BY <2>1 DEF TypeOK, Code
    <2>3. CASE Answer(l, "error")
        BY <2>3, AnswerSound
    <2>4. CASE ~ Answer(l, "error")
        <3>1. /\ codes[call[l].code].type \in Types /\ call[l].pc = "code"
              /\ call' = [call EXCEPT ![l].pc = "count", ![l].type = codes[call[l].code].type]
            BY <1>4, <2>2, <2>4 DEF FindCode, Redeemable
        <3> QED BY <1>1, <3>1 DEF CallSound, Runs, TypeOK
    <2> QED BY <2>3, <2>4
<1>5. CASE \E l \in Calls : CountForCode(l)
    <2> PICK l \in Calls : CountForCode(l)
        BY <1>5
    <2>1. CASE Answer(l, "error")
        BY <2>1, AnswerSound
    <2>2. CASE Advance(l, "create")
        <3>1. call[l].pc = "count"
            BY DEF CountForCode
        <3> QED BY <1>1, <2>2, <3>1 DEF Advance, CallSound, Runs, TypeOK
    <2> QED BY <2>1, <2>2 DEF CountForCode
<1>6. CASE \E l \in Calls : Redeem(l)
    BY <1>1, <1>6, DossierAssumption DEF Redeem, CallSound, Runs, TypeOK
<1>7. CASE \E l \in Calls : RedeemRefused(l) \/ SectionFails(l)
    <2>1. PICK l \in Calls : RedeemRefused(l) \/ SectionFails(l)
        BY <1>7
    <2>2. Answer(l, "error")
        BY <2>1 DEF RedeemRefused, SectionFails
    <2> QED BY <2>1, <2>2, AnswerSound
<1>8. CASE \E l \in Calls : SaveSection(l)
    <2> PICK l \in Calls : SaveSection(l)
        BY <1>8
    <2>1. CASE Answer(l, "ok")
        BY <2>1, AnswerSound
    <2>2. CASE call[l].step # Len(DossierSteps) /\ call' = [call EXCEPT ![l].step = @ + 1]
        <3>1. call[l].pc = "dossier" /\ CallSound(l) /\ call[l] \in Call
            BY DEF SaveSection, Sound, TypeOK
        <3>2. call[l].step + 1 \in DOMAIN DossierSteps
            BY <2>2, <3>1, DossierAssumption DEF CallSound
        <3> QED BY <1>1, <2>2, <3>1, <3>2 DEF CallSound, Runs, TypeOK
    <2> QED BY <2>1, <2>2 DEF SaveSection, LastStep
<1>9. CASE OtherStep
    BY <1>1, <1>9, OtherKeepsCalls DEF CallSound, Runs
<1>10. CASE Restart
    BY <1>10 DEF Restart, IdleCall, CallSound, Runs
<1>11. CASE UNCHANGED vars
    BY <1>1, <1>11 DEF vars, CallSound, Runs
<1> QED BY <1>2, <1>3, <1>4, <1>5, <1>6, <1>7, <1>8, <1>9, <1>10, <1>11
        DEF Next, Background, RedeemStep, OtherStep

\* A request that was made stays made.
LEMMA RequestStep ==
    ASSUME TypeOK, Sound, [Next]_vars, NEW q \in Requests
    PROVE  /\ RequestSound(q)'
           /\ requests[q].status # "none" =>
                requests'[q].status # "none" /\ requests'[q].email = requests[q].email
<1>1. requests[q] \in Request /\ RequestSound(q)
    BY DEF TypeOK, Sound
<1>2. CASE \E r \in Requests, e \in Emails, t \in Types : RequestAccount(r, e, t)
    BY <1>1, <1>2 DEF RequestAccount, RequestSound, TypeOK
<1>3. ASSUME NEW a \in Approvers, Approve(a)
      PROVE  /\ RequestSound(q)'
             /\ requests[q].status # "none" =>
                  requests'[q].status # "none" /\ requests'[q].email = requests[q].email
    <2>1. approval[a].request \in Requests /\ requests[approval[a].request].status # "none"
        BY <1>3 DEF Sound, ApprovalSound, Approve
    <2> QED BY <1>1, <1>3, <2>1 DEF Approve, RequestSound, TypeOK
<1>4. CASE \E r \in Requests : Reject(r)
    BY <1>1, <1>4 DEF Reject, Rejectable, RequestSound, TypeOK
<1>5. CASE UNCHANGED requests
    BY <1>1, <1>5 DEF RequestSound
<1>6. CASE \/ \E k \in Calls, c \in Codes, e \in Emails, d \in Dossiers : StartRedeem(k, c, e, d)
           \/ \E k \in Calls : Reply(k) \/ RedeemStep(k)
           \/ \E c \in Codes : Expire(c) \/ \E t \in Types : Generate(c, t)
           \/ \E r \in Requests, a \in Approvers : StartApproval(a, r)
           \/ \E a \in Approvers : CountForRequest(a) \/ ApproveRefused(a)
           \/ \E e \in Emails, s \in Sections : BankChanges(e, s) \/ \E d \in Dossiers : ClientChanges(e, s, d)
           \/ \E e \in Emails, d \in {"VALIDE", "REFUSE"}, seen \in Entries : DecideKyc(e, d, seen)
           \/ Restart \/ UNCHANGED vars
    BY <1>5, <1>6 DEF StartRedeem, Reply, RedeemStep, FindCode, CountForCode, Redeem, RedeemRefused, SaveSection,
       SectionFails, Expire, Generate, StartApproval, CountForRequest, ApproveRefused, BankChanges,
       ClientChanges, DecideKyc, Restart, vars
<1> QED BY <1>2, <1>3, <1>4, <1>6 DEF Next, Background, BankStep

LEMMA ApprovalSoundStep ==
    ASSUME TypeOK, Sound, [Next]_vars, NEW a \in Approvers
    PROVE  ApprovalSound(a)'
<1>1. approval[a] \in Approval /\ ApprovalSound(a)
    BY DEF TypeOK, Sound
<1>2. \A q \in Requests : requests[q].status # "none" => requests'[q].status # "none"
    BY RequestStep
<1>3. CASE \E q \in Requests, b \in Approvers : StartApproval(b, q)
    BY <1>1, <1>2, <1>3 DEF StartApproval, ApprovalSound, TypeOK
<1>4. CASE \E b \in Approvers : CountForRequest(b) \/ Approve(b) \/ ApproveRefused(b)
    <2>1. PICK b \in Approvers : \/ EndApproval(b)
                                 \/ approval[b].pc = "count" /\ approval' = [approval EXCEPT ![b].pc = "create"]
        BY <1>4 DEF CountForRequest, Approve, ApproveRefused
    <2>2. CASE EndApproval(b)
        <3>1. approval'[a] = approval[a] \/ approval'[a].pc = "idle"
            BY <2>2 DEF EndApproval, IdleApproval, TypeOK
        <3> QED BY <1>1, <1>2, <3>1 DEF ApprovalSound
    <2>3. CASE approval[b].pc = "count" /\ approval' = [approval EXCEPT ![b].pc = "create"]
        BY <1>1, <1>2, <2>3 DEF ApprovalSound, TypeOK
    <2> QED BY <2>1, <2>2, <2>3
<1>5. CASE Restart
    BY <1>5 DEF Restart, IdleApproval, ApprovalSound
<1>6. CASE UNCHANGED approval
    BY <1>1, <1>2, <1>6 DEF ApprovalSound
<1>7. CASE \/ \E k \in Calls, c \in Codes, e \in Emails, d \in Dossiers : StartRedeem(k, c, e, d)
           \/ \E k \in Calls : Reply(k) \/ RedeemStep(k)
           \/ \E c \in Codes : Expire(c) \/ \E t \in Types : Generate(c, t)
           \/ \E q \in Requests : Reject(q) \/ \E e \in Emails, t \in Types : RequestAccount(q, e, t)
           \/ \E e \in Emails, s \in Sections : BankChanges(e, s) \/ \E d \in Dossiers : ClientChanges(e, s, d)
           \/ \E e \in Emails, d \in {"VALIDE", "REFUSE"}, seen \in Entries : DecideKyc(e, d, seen)
           \/ UNCHANGED vars
    BY <1>6, <1>7 DEF StartRedeem, Reply, RedeemStep, FindCode, CountForCode, Redeem, RedeemRefused, SaveSection,
       SectionFails, Expire, Generate, Reject, RequestAccount, BankChanges, ClientChanges, DecideKyc,
       CallsUnchanged, vars
<1> QED BY <1>3, <1>4, <1>5, <1>7 DEF Next, Background, BankStep

LEMMA SoundStep == TypeOK /\ Sound /\ [Next]_vars => Sound'
BY CallSoundStep, RequestStep, ApprovalSoundStep DEF Sound

-----------------------------------------------------------------------------
(* Accounts and what opened them stay linked.                              *)

\* The steps that open no account.
QuietStep ==
    \/ \E k \in Calls, c \in Codes, e \in Emails, d \in Dossiers : StartRedeem(k, c, e, d)
    \/ \E k \in Calls : \/ Reply(k) \/ FindCode(k) \/ CountForCode(k) \/ RedeemRefused(k)
                        \/ SaveSection(k) \/ SectionFails(k)
    \/ \E c \in Codes : Expire(c) \/ \E t \in Types : Generate(c, t)
    \/ \E q \in Requests : Reject(q) \/ \E e \in Emails, t \in Types : RequestAccount(q, e, t)
    \/ \E q \in Requests, a \in Approvers : StartApproval(a, q)
    \/ \E a \in Approvers : CountForRequest(a) \/ ApproveRefused(a)
    \/ \E e \in Emails, s \in Sections : BankChanges(e, s) \/ \E d \in Dossiers : ClientChanges(e, s, d)
    \/ \E e \in Emails, d \in {"VALIDE", "REFUSE"}, seen \in Entries : DecideKyc(e, d, seen)
    \/ Restart
    \/ UNCHANGED vars

LEMMA StepKinds ==
    [Next]_vars => QuietStep \/ (\E k \in Calls : Redeem(k)) \/ (\E a \in Approvers : Approve(a))
BY DEF Next, Background, RedeemStep, BankStep, QuietStep

LEMMA SavedKeepsAccount ==
    ASSUME TypeOK, NEW e \in Emails, NEW f \in Emails, NEW s, NEW d
    PROVE  /\ SavedByClient(e, s, d)[f].via = users[f].via
           /\ SavedByClient(e, s, d)[f].type = users[f].type
<1>1. users[f] \in User
    BY DEF TypeOK
<1> QED BY <1>1 DEF SavedByClient, Submitted, Saved, User, TypeOK

LEMMA SaveWrites ==
    ASSUME Sound, NEW k \in Calls, SaveSection(k)
    PROVE  \E f \in Emails, s \in Sections, d \in Dossiers : users' = SavedByClient(f, s, d)
<1>1. call[k].email \in Emails /\ call[k].dossier \in Dossiers /\ call[k].step \in DOMAIN DossierSteps
    BY DEF Sound, CallSound, Runs, SaveSection
<1> QED BY <1>1 DEF SaveSection, Sections

LEMMA QuietKeepsAccounts ==
    ASSUME TypeOK, Sound, QuietStep, NEW e \in Emails
    PROVE  users'[e].via = users[e].via /\ users'[e].type = users[e].type
<1>1. users[e] \in User
    BY DEF TypeOK
<1>2. ASSUME NEW f \in Emails, NEW s, NEW d, users' = SavedByClient(f, s, d)
      PROVE  users'[e].via = users[e].via /\ users'[e].type = users[e].type
    BY <1>2, SavedKeepsAccount
<1>3. ASSUME NEW f \in Emails, NEW s \in Sections, BankChanges(f, s)
      PROVE  users'[e].via = users[e].via /\ users'[e].type = users[e].type
    BY <1>1, <1>3 DEF BankChanges, User, TypeOK
<1>4. ASSUME NEW f \in Emails, NEW d \in {"VALIDE", "REFUSE"}, NEW seen \in Entries, DecideKyc(f, d, seen)
      PROVE  users'[e].via = users[e].via /\ users'[e].type = users[e].type
    BY <1>1, <1>4 DEF DecideKyc, User, TypeOK
<1>5. CASE \/ \E k \in Calls, c \in Codes, f \in Emails, d \in Dossiers : StartRedeem(k, c, f, d)
           \/ \E k \in Calls : Reply(k) \/ FindCode(k) \/ CountForCode(k) \/ RedeemRefused(k) \/ SectionFails(k)
    BY <1>5 DEF StartRedeem, Reply, FindCode, CountForCode, RedeemRefused, SectionFails
<1>6. CASE \/ \E c \in Codes : Expire(c) \/ \E t \in Types : Generate(c, t)
           \/ \E q \in Requests : Reject(q) \/ \E f \in Emails, t \in Types : RequestAccount(q, f, t)
           \/ \E q \in Requests, a \in Approvers : StartApproval(a, q)
           \/ \E a \in Approvers : CountForRequest(a) \/ ApproveRefused(a)
           \/ Restart
           \/ UNCHANGED vars
    BY <1>6 DEF Expire, Generate, Reject, RequestAccount, StartApproval, CountForRequest, ApproveRefused, Restart, vars
<1>7. CASE \E k \in Calls : SaveSection(k)
    BY <1>2, <1>7, SaveWrites
<1>8. CASE \E f \in Emails, s \in Sections, d \in Dossiers : ClientChanges(f, s, d)
    BY <1>2, <1>8 DEF ClientChanges
<1> QED BY <1>3, <1>4, <1>5, <1>6, <1>7, <1>8 DEF QuietStep

LEMMA QuietKeepsMarks ==
    ASSUME TypeOK, QuietStep
    PROVE  /\ \A c \in Codes : codes'[c].usedBy = codes[c].usedBy
           /\ \A q \in Requests :
                /\ requests'[q].status = "APPROVED" <=> requests[q].status = "APPROVED"
                /\ requests[q].status = "APPROVED" => requests'[q].email = requests[q].email
<1>1. ASSUME NEW c \in Codes PROVE codes[c] \in Code
    BY DEF TypeOK
<1>2. ASSUME NEW q \in Requests PROVE requests[q] \in Request
    BY DEF TypeOK
<1>3. CASE \E c \in Codes : Expire(c) \/ \E t \in Types : Generate(c, t)
    BY <1>1, <1>3 DEF Expire, Generate, Code, TypeOK
<1>4. CASE \E q \in Requests : Reject(q)
    BY <1>2, <1>4 DEF Reject, Rejectable, Request, TypeOK
<1>5. CASE \E q \in Requests, e \in Emails, t \in Types : RequestAccount(q, e, t)
    BY <1>2, <1>5 DEF RequestAccount, Request, TypeOK
<1>6. CASE UNCHANGED <<codes, requests>>
    BY <1>6
<1>7. \/ \E c \in Codes : Expire(c) \/ \E t \in Types : Generate(c, t)
      \/ \E q \in Requests : Reject(q) \/ \E e \in Emails, t \in Types : RequestAccount(q, e, t)
      \/ UNCHANGED <<codes, requests>>
    BY DEF QuietStep, StartRedeem, Reply, FindCode, CountForCode, RedeemRefused, SaveSection, SectionFails,
           StartApproval, CountForRequest, ApproveRefused, BankChanges, ClientChanges, DecideKyc, Restart, vars
<1> QED BY <1>3, <1>4, <1>5, <1>6, <1>7

\* What an account that is opened looks like, and that no other changes.
LEMMA OpenedAccount ==
    ASSUME TypeOK, NEW e \in Emails, NEW f \in Emails, NEW t, NEW v, users' = Opened(e, t, v)
    PROVE  users'[f] = IF f = e THEN [NoUser EXCEPT !.type = t, !.via = v] ELSE users[f]
BY DEF Opened, TypeOK

LEMMA OpenedFields ==
    ASSUME NEW t, NEW v
    PROVE  /\ [NoUser EXCEPT !.type = t, !.via = v].type = t
           /\ [NoUser EXCEPT !.type = t, !.via = v].via = v
           /\ [NoUser EXCEPT !.type = t, !.via = v].decision = "none"
BY DEF NoUser

LEMMA OpenedBecause ==
    ASSUME TypeOK, NEW e \in Emails, NEW f \in Emails, NEW t, NEW v, users' = Opened(e, t, v)
    PROVE  /\ users'[f].type = IF f = e THEN t ELSE users[f].type
           /\ users'[f].via = IF f = e THEN v ELSE users[f].via
           /\ f # e => users'[f] = users[f]
<1>1. users'[f] = IF f = e THEN [NoUser EXCEPT !.type = t, !.via = v] ELSE users[f]
    BY OpenedAccount
<1>2. CASE f = e
    BY <1>1, <1>2, OpenedFields
<1>3. CASE f # e
    BY <1>1, <1>3
<1> QED BY <1>2, <1>3

LEMMA LinkedQuiet ==
    ASSUME TypeOK, Sound, Linked, QuietStep
    PROVE  Linked'
<1>1. ASSUME NEW e \in Emails PROVE UserSound(e)'
    <2>1. users'[e].via = users[e].via /\ users'[e].type = users[e].type
        BY QuietKeepsAccounts
    <2>2. UserSound(e)
        BY DEF Linked
    <2> QED BY <2>1, <2>2, QuietKeepsMarks DEF UserSound, Exists
<1>2. ASSUME NEW q \in Requests PROVE ApprovedSound(q)'
    <2> SUFFICES ASSUME requests'[q].status = "APPROVED" PROVE users'[requests'[q].email].via = q
        BY DEF ApprovedSound
    <2>1. requests[q].status = "APPROVED" /\ requests'[q].email = requests[q].email
        BY QuietKeepsMarks
    <2>2. requests[q].email \in Emails /\ users[requests[q].email].via = q
        BY <2>1 DEF Sound, RequestSound, Linked, ApprovedSound
    <2> QED BY <2>1, <2>2, QuietKeepsAccounts
<1> QED BY <1>1, <1>2 DEF Linked

LEMMA LinkedRedeem ==
    ASSUME TypeOK, Sound, Linked, NEW k \in Calls, Redeem(k)
    PROVE  Linked'
<1> DEFINE c == call[k].code
           e == call[k].email
           t == call[k].type
<1>1. c \in Codes /\ e \in Emails /\ t \in Types /\ ~ Exists(e)
    BY DEF Sound, CallSound, Runs, Redeem
<1>2. users' = Opened(e, t, c) /\ codes' = [codes EXCEPT ![c].usedBy = e] /\ requests' = requests
    BY DEF Redeem
<1> HIDE DEF c, e, t
<1>3. codes'[c].usedBy # None /\ \A d \in Codes : d # c => codes'[d] = codes[d]
    BY <1>1, <1>2, KeysAssumption DEF TypeOK, Code
<1>4. \A f \in Emails : /\ f # e => users'[f] = users[f]
                        /\ f = e => users'[f].type = t /\ users'[f].via = c
    BY <1>1, <1>2, OpenedBecause
<1>5. ASSUME NEW f \in Emails PROVE UserSound(f)'
    <2>1. UserSound(f)
        BY DEF Linked
    <2>2. CASE f = e
        BY <1>1, <1>2, <1>3, <1>4, <2>2, KeysAssumption DEF UserSound, Exists
    <2>3. CASE f # e
        BY <1>2, <1>3, <1>4, <2>1, <2>3 DEF UserSound, Exists
    <2> QED BY <2>2, <2>3
<1>6. ASSUME NEW q \in Requests PROVE ApprovedSound(q)'
    <2> SUFFICES ASSUME requests[q].status = "APPROVED" PROVE users'[requests[q].email].via = q
        BY <1>2 DEF ApprovedSound
    <2>1. requests[q].email \in Emails /\ users[requests[q].email].via = q
        BY DEF Sound, RequestSound, Linked, ApprovedSound
    <2>2. users[e].via = None
        BY <1>1 DEF Linked, UserSound
    <2> QED BY <1>4, <2>1, <2>2, KeysAssumption
<1> QED BY <1>5, <1>6 DEF Linked

LEMMA LinkedApprove ==
    ASSUME TypeOK, Sound, Linked, NEW a \in Approvers, Approve(a)
    PROVE  Linked'
<1> DEFINE q == approval[a].request
           e == requests[q].email
           t == requests[q].type
<1>1. q \in Requests /\ e \in Emails /\ t \in Types /\ ~ Exists(e)
    BY DEF Sound, ApprovalSound, RequestSound, Approve
<1>2. users' = Opened(e, t, q) /\ codes' = codes /\ requests' = [requests EXCEPT ![q].status = "APPROVED"]
    BY DEF Approve
<1> HIDE DEF t
<1>3. /\ requests'[q].status = "APPROVED" /\ requests'[q].email = e
      /\ \A r \in Requests : r # q => requests'[r] = requests[r]
    BY <1>1, <1>2 DEF TypeOK, Request
<1>4. \A f \in Emails : /\ f # e => users'[f] = users[f]
                        /\ f = e => users'[f].type = t /\ users'[f].via = q
    BY <1>1, <1>2, OpenedBecause
<1>5. users[e].via = None
    BY <1>1 DEF Linked, UserSound
<1> HIDE DEF q, e
<1>6. ASSUME NEW f \in Emails PROVE UserSound(f)'
    <2>1. UserSound(f)
        BY DEF Linked
    <2>2. CASE f = e
        BY <1>1, <1>3, <1>4, <2>2, KeysAssumption DEF UserSound, Exists
    <2>3. CASE f # e
        <3>1. users'[f] = users[f]
            BY <1>4, <2>3
        <3>2. users[f].via \in Requests =>
                requests'[users[f].via].email = f /\ requests'[users[f].via].status = "APPROVED"
            BY <1>3, <2>1, <2>3 DEF UserSound, q, e
        <3> QED BY <1>2, <2>1, <3>1, <3>2 DEF UserSound, Exists
    <2> QED BY <2>2, <2>3
<1>7. ASSUME NEW r \in Requests PROVE ApprovedSound(r)'
    <2>1. CASE r = q
        BY <1>1, <1>3, <1>4, <2>1 DEF ApprovedSound
    <2>2. CASE r # q
        <3> SUFFICES ASSUME requests[r].status = "APPROVED" PROVE users'[requests[r].email].via = r
            BY <1>3, <2>2 DEF ApprovedSound
        <3>1. requests[r].email \in Emails /\ users[requests[r].email].via = r
            BY DEF Sound, RequestSound, Linked, ApprovedSound
        <3> QED BY <1>4, <1>5, <3>1, KeysAssumption
    <2> QED BY <2>1, <2>2
<1> QED BY <1>6, <1>7 DEF Linked

LEMMA AccountStep == AccountInv /\ [Next]_vars => AccountInv'
BY TypeStep, SoundStep, StepKinds, LinkedQuiet, LinkedRedeem, LinkedApprove DEF AccountInv

LEMMA AccountInvariant == Spec => []AccountInv
<1>1. AccountInv /\ UNCHANGED vars => AccountInv'
    BY AccountStep
<1> QED BY AccountInit, AccountStep, <1>1, PTL DEF Spec

\* Every variable has its type, whatever redemptions, approvals, rejections and
\* restarts do.
THEOREM TypeCorrect == Spec => []TypeOK
BY AccountInvariant, PTL DEF AccountInv

-----------------------------------------------------------------------------
(* What is approved, and by how much codes and capacity are exceeded.      *)

LEMMA LinkedApproval == AccountInv => ApprovalHasAccount
<1> SUFFICES ASSUME AccountInv, NEW q \in Requests
             PROVE  requests[q].status = "APPROVED" <=> OpenedBy(q) = {requests[q].email}
    BY DEF ApprovalHasAccount
<1> USE DEF AccountInv, Linked, OpenedBy
<1>1. \A e \in OpenedBy(q) : requests[q].email = e /\ requests[q].status = "APPROVED"
    BY DEF UserSound
<1>2. CASE requests[q].status = "APPROVED"
    <2>1. requests[q].email \in Emails /\ users[requests[q].email].via = q
        BY <1>2 DEF Sound, RequestSound, ApprovedSound
    <2> QED BY <1>1, <1>2, <2>1
<1>3. CASE requests[q].status # "APPROVED"
    BY <1>1, <1>3
<1> QED BY <1>2, <1>3

\* A request is approved exactly when it has opened the account of its email: for any
\* number of approvals, rejections and redemptions that overlap.
THEOREM RequestsHonoured == Spec => []ApprovalHasAccount
BY AccountInvariant, LinkedApproval, PTL

\* Two finite sets that only shrink.
LEMMA Shrink ==
    ASSUME NEW A, NEW B, IsFiniteSet(A), IsFiniteSet(B), NEW C \in SUBSET A, NEW D \in SUBSET B
    PROVE  /\ IsFiniteSet(C) /\ IsFiniteSet(D)
           /\ Cardinality(C) + Cardinality(D) <= Cardinality(A) + Cardinality(B)
<1>1. IsFiniteSet(C) /\ Cardinality(C) <= Cardinality(A)
    BY FS_Subset
<1>2. IsFiniteSet(D) /\ Cardinality(D) <= Cardinality(B)
    BY FS_Subset
<1>3. /\ Cardinality(A) \in Nat /\ Cardinality(B) \in Nat
      /\ Cardinality(C) \in Nat /\ Cardinality(D) \in Nat
    BY <1>1, <1>2, FS_CardinalityType
<1> QED BY <1>1, <1>2, <1>3

\* A member of one for a member of the other.
LEMMA Exchange ==
    ASSUME NEW A, NEW B, IsFiniteSet(A), IsFiniteSet(B), NEW x, NEW y \in B,
           NEW C \in SUBSET (A \cup {x}), NEW D \in SUBSET (B \ {y})
    PROVE  Cardinality(C) + Cardinality(D) <= Cardinality(A) + Cardinality(B)
<1>1. IsFiniteSet(A \cup {x}) /\ Cardinality(A \cup {x}) <= Cardinality(A) + 1
    <2>1. /\ IsFiniteSet(A \cup {x})
          /\ Cardinality(A \cup {x}) = IF x \in A THEN Cardinality(A) ELSE Cardinality(A) + 1
        BY FS_AddElement
    <2>2. Cardinality(A) \in Nat
        BY FS_CardinalityType
    <2> QED BY <2>1, <2>2
<1>2. IsFiniteSet(B \ {y}) /\ Cardinality(B \ {y}) = Cardinality(B) - 1
    BY FS_RemoveElement
<1>3. Cardinality(C) + Cardinality(D) <= Cardinality(A \cup {x}) + Cardinality(B \ {y})
    BY <1>1, <1>2, Shrink
<1>4. /\ Cardinality(A) \in Nat /\ Cardinality(B) \in Nat
      /\ Cardinality(A \cup {x}) \in Nat /\ Cardinality(B \ {y}) \in Nat
    BY <1>1, <1>2, FS_CardinalityType
<1>5. Cardinality(C) \in Nat /\ Cardinality(D) \in Nat
    BY <1>1, <1>2, Shrink, FS_CardinalityType
<1> QED BY <1>1, <1>2, <1>3, <1>4, <1>5

\* What opened the accounts, after a step.
LEMMA OpenedByStep ==
    ASSUME AccountInv, [Next]_vars, NEW v \in Codes
    PROVE  \/ OpenedBy(v)' = OpenedBy(v)
           \/ \E k \in Calls : Redeem(k) /\ call[k].code = v /\ OpenedBy(v)' \subseteq OpenedBy(v) \cup {call[k].email}
<1> USE DEF AccountInv, OpenedBy
<1>1. CASE QuietStep
    BY <1>1, QuietKeepsAccounts
<1>2. ASSUME NEW k \in Calls, Redeem(k)
      PROVE  \/ OpenedBy(v)' = OpenedBy(v)
             \/ call[k].code = v /\ OpenedBy(v)' \subseteq OpenedBy(v) \cup {call[k].email}
    <2> DEFINE e == call[k].email
               c == call[k].code
    <2>1. e \in Emails /\ ~ Exists(e) /\ users' = Opened(e, call[k].type, c)
        BY <1>2 DEF Sound, CallSound, Runs, Redeem
    <2> HIDE DEF e, c
    <2>2. users[e].via = None /\ None # v
        BY <2>1, KeysAssumption DEF Linked, UserSound
    <2>3. ASSUME NEW f \in Emails PROVE users'[f].via = IF f = e THEN c ELSE users[f].via
        BY <2>1, OpenedBecause
    <2>4. CASE c = v
        BY <2>3, <2>4 DEF e, c
    <2>5. CASE c # v
        BY <2>2, <2>3, <2>5
    <2> QED BY <2>4, <2>5
<1>3. ASSUME NEW a \in Approvers, Approve(a)
      PROVE  OpenedBy(v)' = OpenedBy(v)
    <2> DEFINE q == approval[a].request
               e == requests[q].email
    <2>1. q \in Requests /\ e \in Emails /\ ~ Exists(e) /\ users' = Opened(e, requests[q].type, q)
        BY <1>3 DEF Sound, ApprovalSound, RequestSound, Approve
    <2> HIDE DEF e, q
    <2>2. users[e].via # v /\ q # v
        BY <2>1, KeysAssumption DEF Linked, UserSound
    <2>3. ASSUME NEW f \in Emails PROVE users'[f].via = IF f = e THEN q ELSE users[f].via
        BY <2>1, OpenedBecause
    <2> QED BY <2>2, <2>3
<1> QED BY <1>1, <1>2, <1>3, StepKinds

\* Who gets past the check of the code, and who past the count.
LEMMA CallPast ==
    ASSUME AccountInv, [Next]_vars, NEW k \in Calls
    PROVE  /\ call'[k].pc \in {"count", "create"} =>
                /\ call'[k].code = call[k].code
                /\ call[k].pc \in {"count", "create"} \/ (FindCode(k) /\ Redeemable(call[k].code))
           /\ call'[k].pc = "create" => call[k].pc = "create" \/ (CountForCode(k) /\ HasPlace)
<1> DEFINE Past ==
            /\ call'[k].pc \in {"count", "create"} =>
                /\ call'[k].code = call[k].code
                /\ call[k].pc \in {"count", "create"} \/ (FindCode(k) /\ Redeemable(call[k].code))
            /\ call'[k].pc = "create" => call[k].pc = "create" \/ (CountForCode(k) /\ HasPlace)
<1> SUFFICES Past
    OBVIOUS
<1>1. \A l \in Calls : call[l] \in Call
    BY DEF AccountInv, TypeOK
<1>2. call \in [Calls -> Call]
    BY DEF AccountInv, TypeOK
<1>3. CASE OtherStep
    BY <1>3, OtherKeepsCalls
<1>4. CASE UNCHANGED vars
    BY <1>4 DEF vars
<1>5. CASE Restart
    BY <1>5 DEF Restart, IdleCall
<1>6. ASSUME NEW l \in Calls, NEW pc \in {"ok", "error", "idle"},
             call' = [call EXCEPT ![l] = [IdleCall EXCEPT !.pc = pc]]
      PROVE  Past
    BY <1>1, <1>2, <1>6 DEF IdleCall
<1>7. ASSUME NEW l \in Calls, NEW c \in Codes, NEW e \in Emails, NEW d \in Dossiers, StartRedeem(l, c, e, d)
      PROVE  Past
    <2>1. CASE call' = [call EXCEPT ![l] = [IdleCall EXCEPT !.pc = "code", !.code = c, !.email = e, !.dossier = d]]
        BY <1>1, <1>2, <2>1 DEF IdleCall
    <2>2. CASE Answer(l, "error")
        BY <1>6, <2>2 DEF Answer
    <2> QED BY <1>7, <2>1, <2>2 DEF StartRedeem
<1>8. ASSUME NEW l \in Calls, FindCode(l)
      PROVE  Past
    <2>1. CASE Redeemable(call[l].code)
        <3>1. call' = [call EXCEPT ![l].pc = "count", ![l].type = codes[call[l].code].type]
            BY <1>8, <2>1 DEF FindCode
        <3> QED BY <1>1, <1>2, <1>8, <2>1, <3>1 DEF Call
    <2>2. CASE Answer(l, "error")
        BY <1>6, <2>2 DEF Answer
    <2> QED BY <1>8, <2>1, <2>2 DEF FindCode
<1>9. ASSUME NEW l \in Calls, CountForCode(l)
      PROVE  Past
    <2>1. CASE HasPlace
        <3>1. call' = [call EXCEPT ![l].pc = "create"] /\ call[l].pc = "count"
            BY <1>9, <2>1 DEF CountForCode, Advance
        <3> QED BY <1>1, <1>2, <1>9, <2>1, <3>1 DEF Call
    <2>2. CASE Answer(l, "error")
        BY <1>6, <2>2 DEF Answer
    <2> QED BY <1>9, <2>1, <2>2 DEF CountForCode
<1>10. ASSUME NEW l \in Calls, Redeem(l)
       PROVE  Past
    <2>1. call' = [call EXCEPT ![l].pc = "dossier", ![l].step = 1]
        BY <1>10 DEF Redeem
    <2> QED BY <1>1, <1>2, <2>1 DEF Call
<1>11. ASSUME NEW l \in Calls, RedeemRefused(l) \/ SectionFails(l)
       PROVE  Past
    BY <1>6, <1>11 DEF RedeemRefused, SectionFails, Answer
<1>12. ASSUME NEW l \in Calls, SaveSection(l)
       PROVE  Past
    <2>1. CASE call' = [call EXCEPT ![l].step = @ + 1]
        BY <1>1, <1>2, <2>1 DEF Call
    <2>2. CASE Answer(l, "ok")
        BY <1>6, <2>2 DEF Answer
    <2> QED BY <1>12, <2>1, <2>2 DEF SaveSection
<1>13. ASSUME NEW l \in Calls, Reply(l)
       PROVE  Past
    BY <1>1, <1>2, <1>13 DEF Reply, IdleCall
<1> HIDE DEF Past
<1>14. CASE \E l \in Calls : RedeemStep(l)
    BY <1>8, <1>9, <1>10, <1>11, <1>12, <1>14 DEF RedeemStep
<1> QED BY <1>3, <1>4, <1>5, <1>7, <1>13, <1>14 DEF Next, Background, OtherStep

LEMMA CodeOverlapInit == Init => CodeOverlap
<1> SUFFICES ASSUME Init, NEW c \in Codes
             PROVE  Cardinality(OpenedBy(c)) + Cardinality(PastCode(c)) <= Cardinality(Calls)
    BY DEF CodeOverlap
<1>1. OpenedBy(c) = {}
    BY KeysAssumption DEF Init, OpenedBy, NoUser
<1>2. PastCode(c) = {}
    BY DEF Init, PastCode, IdleCall
<1>3. Cardinality({}) = 0 /\ Cardinality(Calls) \in Nat
    BY FS_EmptySet, FS_CardinalityType, ProcessesAssumption
<1> QED BY <1>1, <1>2, <1>3

\* Whoever gets past the check of a code finds that it has opened no account yet.
LEMMA CodeOverlapStep == AccountInv /\ CodeOverlap /\ [Next]_vars => CodeOverlap'
<1> SUFFICES ASSUME AccountInv, CodeOverlap, [Next]_vars, NEW c \in Codes
             PROVE  Cardinality(OpenedBy(c)') + Cardinality(PastCode(c)') <= Cardinality(Calls)
    BY DEF CodeOverlap
<1>1. /\ OpenedBy(c) \in SUBSET Emails /\ OpenedBy(c)' \in SUBSET Emails
      /\ PastCode(c) \in SUBSET Calls /\ PastCode(c)' \in SUBSET Calls
    BY DEF OpenedBy, PastCode
<1>2. /\ IsFiniteSet(OpenedBy(c)) /\ IsFiniteSet(PastCode(c))
      /\ IsFiniteSet(OpenedBy(c)') /\ IsFiniteSet(PastCode(c)')
    BY <1>1, FS_Subset, ProcessesAssumption
<1>3. /\ Cardinality(OpenedBy(c)) \in Nat /\ Cardinality(PastCode(c)) \in Nat /\ Cardinality(Calls) \in Nat
      /\ Cardinality(OpenedBy(c)') \in Nat /\ Cardinality(PastCode(c)') \in Nat
    BY <1>2, FS_CardinalityType, ProcessesAssumption
<1>4. Cardinality(OpenedBy(c)) + Cardinality(PastCode(c)) <= Cardinality(Calls)
    BY DEF CodeOverlap
<1>5. CASE \E k \in Calls : FindCode(k) /\ Redeemable(c) /\ call[k].code = c
    <2>1. codes[c].usedBy = None /\ users' = users
        BY <1>5 DEF Redeemable, FindCode
    <2>2. OpenedBy(c)' = {}
        BY <2>1 DEF OpenedBy, AccountInv, Linked, UserSound
    <2>3. Cardinality(OpenedBy(c)') = 0
        BY <2>2, FS_EmptySet
    <2>4. Cardinality(PastCode(c)') <= Cardinality(Calls)
        BY <1>1, FS_Subset, ProcessesAssumption
    <2> QED BY <1>3, <2>3, <2>4
<1>6. CASE ~ \E k \in Calls : FindCode(k) /\ Redeemable(c) /\ call[k].code = c
    <2>1. PastCode(c)' \subseteq PastCode(c)
        BY <1>6, CallPast DEF PastCode
    <2>2. CASE OpenedBy(c)' = OpenedBy(c)
        <3>1. Cardinality(PastCode(c)') <= Cardinality(PastCode(c))
            BY <1>2, <2>1, FS_Subset
        <3> QED BY <1>3, <1>4, <2>2, <3>1
    <2>3. ASSUME NEW k \in Calls, Redeem(k), call[k].code = c, OpenedBy(c)' \subseteq OpenedBy(c) \cup {call[k].email}
          PROVE  Cardinality(OpenedBy(c)') + Cardinality(PastCode(c)') <= Cardinality(Calls)
        <3>1. k \in PastCode(c)
            BY <2>3 DEF Redeem, PastCode
        <3>2. call'[k].pc = "dossier"
            BY <2>3 DEF Redeem, AccountInv, TypeOK, Call
        <3>3. PastCode(c)' \subseteq PastCode(c) \ {k}
            BY <2>1, <3>2 DEF PastCode
        <3>4. Cardinality(OpenedBy(c)') + Cardinality(PastCode(c)') <= Cardinality(OpenedBy(c)) + Cardinality(PastCode(c))
            BY <1>2, <2>3, <3>1, <3>3, Exchange
        <3> QED BY <1>3, <1>4, <3>4
    <2> QED BY <2>2, <2>3, OpenedByStep
<1> QED BY <1>5, <1>6

\* A code opens no more accounts than there are redemptions at work at the same time,
\* for any number of them: assertRedeemable is read before the transaction that uses
\* the code.
THEOREM CodeUsedWithinOverlap == Spec => []CodeOverlap
<1>1. AccountInv /\ CodeOverlap /\ UNCHANGED vars => CodeOverlap'
    BY CodeOverlapStep
<1> QED BY AccountInvariant, CodeOverlapInit, CodeOverlapStep, <1>1, PTL DEF Spec

-----------------------------------------------------------------------------
LEMMA ApprovalPast ==
    ASSUME AccountInv, [Next]_vars, NEW a \in Approvers
    PROVE  approval'[a].pc = "create" => approval[a].pc = "create" \/ (CountForRequest(a) /\ HasPlace)
<1> DEFINE Past == approval'[a].pc = "create" => approval[a].pc = "create" \/ (CountForRequest(a) /\ HasPlace)
<1> SUFFICES Past
    OBVIOUS
<1>1. approval \in [Approvers -> Approval]
    BY DEF AccountInv, TypeOK
<1>2. CASE UNCHANGED approval
    BY <1>2
<1>3. ASSUME NEW b \in Approvers, NEW q \in Requests, StartApproval(b, q)
      PROVE  Past
    BY <1>1, <1>3 DEF StartApproval
<1>4. ASSUME NEW b \in Approvers, EndApproval(b)
      PROVE  Past
    BY <1>1, <1>4 DEF EndApproval, IdleApproval
<1>5. ASSUME NEW b \in Approvers, CountForRequest(b)
      PROVE  Past
    <2>1. CASE HasPlace
        <3>1. approval' = [approval EXCEPT ![b].pc = "create"]
            BY <1>5, <2>1 DEF CountForRequest
        <3> QED BY <1>1, <1>5, <2>1, <3>1 DEF Approval
    <2>2. CASE EndApproval(b)
        BY <1>4, <2>2
    <2> QED BY <1>5, <2>1, <2>2 DEF CountForRequest
<1>6. ASSUME NEW b \in Approvers, Approve(b) \/ ApproveRefused(b)
      PROVE  Past
    BY <1>4, <1>6 DEF Approve, ApproveRefused
<1>7. CASE Restart
    BY <1>7 DEF Restart, IdleApproval
<1> HIDE DEF Past
<1>8. \/ UNCHANGED approval \/ Restart
      \/ \E b \in Approvers : \/ CountForRequest(b) \/ Approve(b) \/ ApproveRefused(b)
                              \/ \E q \in Requests : StartApproval(b, q)
    BY DEF Next, Background, RedeemStep, BankStep, StartRedeem, Reply, FindCode, CountForCode, Redeem, RedeemRefused,
           SaveSection, SectionFails, Expire, Generate, Reject, RequestAccount, ClientChanges, BankChanges, DecideKyc,
           CallsUnchanged, vars
<1>9. CASE \E b \in Approvers : Approve(b) \/ ApproveRefused(b)
    BY <1>6, <1>9
<1>10. CASE \E b \in Approvers : CountForRequest(b)
    BY <1>5, <1>10
<1>11. CASE \E b \in Approvers, q \in Requests : StartApproval(b, q)
    BY <1>3, <1>11
<1> QED BY <1>2, <1>7, <1>8, <1>9, <1>10, <1>11

\* The accounts after a step.
LEMMA ClientsStep ==
    ASSUME AccountInv, [Next]_vars
    PROVE  \/ Clients' = Clients
           \/ \E k \in Calls : Redeem(k) /\ Clients' \subseteq Clients \cup {call[k].email}
           \/ \E a \in Approvers : Approve(a) /\ Clients' \subseteq Clients \cup {requests[approval[a].request].email}
<1> USE DEF AccountInv, Clients, Exists
<1>1. CASE QuietStep
    BY <1>1, QuietKeepsAccounts
<1>2. ASSUME NEW k \in Calls, Redeem(k)
      PROVE  Clients' \subseteq Clients \cup {call[k].email}
    <2> DEFINE e == call[k].email
    <2>1. e \in Emails /\ users' = Opened(e, call[k].type, call[k].code)
        BY <1>2 DEF Sound, CallSound, Runs, Redeem
    <2> HIDE DEF e
    <2>2. ASSUME NEW f \in Emails, f # e PROVE users'[f] = users[f]
        BY <2>1, <2>2, OpenedBecause
    <2>3. Clients' \subseteq Clients \cup {e}
        BY <2>2
    <2> QED BY <2>3 DEF e
<1>3. ASSUME NEW a \in Approvers, Approve(a)
      PROVE  Clients' \subseteq Clients \cup {requests[approval[a].request].email}
    <2> DEFINE q == approval[a].request
               e == requests[q].email
    <2>1. e \in Emails /\ users' = Opened(e, requests[q].type, q)
        BY <1>3 DEF Sound, ApprovalSound, RequestSound, Approve
    <2> HIDE DEF e, q
    <2>2. ASSUME NEW f \in Emails, f # e PROVE users'[f] = users[f]
        BY <2>1, <2>2, OpenedBecause
    <2>3. Clients' \subseteq Clients \cup {e}
        BY <2>2
    <2> QED BY <2>3 DEF e, q
<1> QED BY <1>1, <1>2, <1>3, StepKinds

LEMMA CapacityInit == Init => CapacityOvershoot
<1> SUFFICES ASSUME Init PROVE CapacityOvershoot
    OBVIOUS
<1>1. Clients = {} /\ PastCount = {}
    BY DEF Init, Clients, Exists, NoUser, PastCount, IdleCall, IdleApproval
<1>2. Cardinality({}) = 0 /\ Cardinality(Calls) \in Nat /\ Cardinality(Approvers) \in Nat
    BY FS_EmptySet, FS_CardinalityType, ProcessesAssumption
<1> QED BY <1>1, <1>2, ClientsAssumption DEF CapacityOvershoot

\* Whoever gets past the count finds a place that is free.
LEMMA CapacityStep == AccountInv /\ CapacityOvershoot /\ [Next]_vars => CapacityOvershoot'
<1> SUFFICES ASSUME AccountInv, CapacityOvershoot, [Next]_vars PROVE CapacityOvershoot'
    OBVIOUS
<1>1. /\ Clients \in SUBSET Emails /\ Clients' \in SUBSET Emails
      /\ PastCount \in SUBSET (Calls \cup Approvers) /\ PastCount' \in SUBSET (Calls \cup Approvers)
    BY DEF Clients, PastCount
<1>2. /\ IsFiniteSet(Calls \cup Approvers)
      /\ Cardinality(Calls \cup Approvers) <= Cardinality(Calls) + Cardinality(Approvers)
    <2>1. IsFiniteSet(Calls) /\ IsFiniteSet(Approvers)
        BY ProcessesAssumption
    <2>2. Cardinality(Calls \cap Approvers) = 0
        BY Zenon, ProcessesAssumption, FS_EmptySet
    <2>3. Cardinality(Calls) \in Nat /\ Cardinality(Approvers) \in Nat
        BY <2>1, FS_CardinalityType
    <2>4. /\ IsFiniteSet(Calls \cup Approvers)
          /\ Cardinality(Calls \cup Approvers) =
                Cardinality(Calls) + Cardinality(Approvers) - Cardinality(Calls \cap Approvers)
        BY <2>1, FS_Union
    <2> QED BY <2>2, <2>3, <2>4
<1>3. /\ IsFiniteSet(Clients) /\ IsFiniteSet(Clients')
      /\ IsFiniteSet(PastCount) /\ IsFiniteSet(PastCount')
    BY <1>1, <1>2, FS_Subset, ProcessesAssumption
<1>4. /\ Cardinality(Clients) \in Nat /\ Cardinality(Clients') \in Nat
      /\ Cardinality(PastCount) \in Nat /\ Cardinality(PastCount') \in Nat
      /\ Cardinality(Calls) \in Nat /\ Cardinality(Approvers) \in Nat /\ MaxClients \in Nat
    BY <1>3, FS_CardinalityType, ProcessesAssumption, ClientsAssumption
<1>5. Cardinality(Clients) + Cardinality(PastCount)
        <= MaxClients - 1 + Cardinality(Calls) + Cardinality(Approvers)
    BY DEF CapacityOvershoot
<1> DEFINE Counted == HasPlace /\ (\/ \E k \in Calls : CountForCode(k)
                                   \/ \E a \in Approvers : CountForRequest(a))
<1>6. CASE Counted
    <2>1. users' = users
        BY <1>6 DEF CountForCode, CountForRequest
    <2>2. Clients' = Clients
        BY <2>1 DEF Clients, Exists
    <2>3. Cardinality(PastCount') <= Cardinality(Calls \cup Approvers)
        BY <1>1, <1>2, FS_Subset
    <2>4. Cardinality(Clients) < MaxClients
        BY <1>6 DEF HasPlace
    <2>5. Cardinality(Calls \cup Approvers) \in Nat
        BY <1>2, FS_CardinalityType
    <2> QED BY <1>2, <1>4, <2>2, <2>3, <2>4, <2>5 DEF CapacityOvershoot
<1>7. CASE ~ Counted
    <2>1. PastCount' \subseteq PastCount
        BY <1>7, CallPast, ApprovalPast DEF PastCount
    <2> HIDE DEF Counted
    <2>2. CASE Clients' = Clients
        <3>1. Cardinality(PastCount') <= Cardinality(PastCount)
            BY <1>3, <2>1, FS_Subset
        <3> QED BY <1>4, <1>5, <2>2, <3>1 DEF CapacityOvershoot
    <2>3. ASSUME NEW k \in Calls, Redeem(k), Clients' \subseteq Clients \cup {call[k].email}
          PROVE  CapacityOvershoot'
        <3>1. k \in PastCount
            BY <2>3 DEF Redeem, PastCount
        <3>2. call'[k].pc = "dossier" /\ k \notin Approvers
            BY <2>3, ProcessesAssumption DEF Redeem, AccountInv, TypeOK, Call
        <3>3. PastCount' \subseteq PastCount \ {k}
            BY <2>1, <3>2 DEF PastCount
        <3>4. Cardinality(Clients') + Cardinality(PastCount') <= Cardinality(Clients) + Cardinality(PastCount)
            BY <1>3, <2>3, <3>1, <3>3, Exchange
        <3> QED BY <1>4, <1>5, <3>4 DEF CapacityOvershoot
    <2>4. ASSUME NEW a \in Approvers, Approve(a),
                 Clients' \subseteq Clients \cup {requests[approval[a].request].email}
          PROVE  CapacityOvershoot'
        <3>1. a \in PastCount
            BY <2>4 DEF Approve, PastCount
        <3>2. approval'[a].pc = "idle" /\ a \notin Calls
            BY <2>4, ProcessesAssumption DEF Approve, EndApproval, IdleApproval, AccountInv, TypeOK
        <3>3. PastCount' \subseteq PastCount \ {a}
            BY <2>1, <3>2 DEF PastCount
        <3>4. Cardinality(Clients') + Cardinality(PastCount') <= Cardinality(Clients) + Cardinality(PastCount)
            BY <1>3, <2>4, <3>1, <3>3, Exchange
        <3> QED BY <1>4, <1>5, <3>4 DEF CapacityOvershoot
    <2>5. \/ Clients' = Clients
          \/ \E k \in Calls : Redeem(k) /\ Clients' \subseteq Clients \cup {call[k].email}
          \/ \E a \in Approvers : Approve(a) /\ Clients' \subseteq Clients \cup {requests[approval[a].request].email}
        BY ClientsStep
    <2> HIDE DEF CapacityOvershoot
    <2> QED BY <2>2, <2>3, <2>4, <2>5
<1> QED BY <1>6, <1>7

\* The capacity is exceeded by no more than the handlers that had counted, less one: for
\* any number of redemptions and approvals and any capacity.
THEOREM CapacityKept == Spec => []CapacityOvershoot
<1>1. AccountInv /\ CapacityOvershoot /\ UNCHANGED vars => CapacityOvershoot'
    BY CapacityStep
<1> QED BY AccountInvariant, CapacityInit, CapacityStep, <1>1, PTL DEF Spec

-----------------------------------------------------------------------------
(* What a step does to one account. *)

\* The accounts, after the steps that write a section or a decision.
LEMMA WriteKinds ==
    ASSUME AccountInv, [Next]_vars
    PROVE  \/ UNCHANGED users
           \/ \E e \in Emails, s \in Sections, d \in Dossiers : users' = SavedByClient(e, s, d)
           \/ \E e \in Emails, s \in Sections : BankChanges(e, s)
           \/ \E e \in Emails, d \in {"VALIDE", "REFUSE"}, seen \in Entries : DecideKyc(e, d, seen)
           \/ \E e \in Emails, t \in Types, v \in Codes \cup Requests :
                ~ Exists(e) /\ users' = Opened(e, t, v)
<1>1. CASE \E k \in Calls : SaveSection(k)
    BY <1>1, SaveWrites DEF AccountInv
<1>2. CASE \E e \in Emails, s \in Sections, d \in Dossiers : ClientChanges(e, s, d)
    BY <1>2 DEF ClientChanges
<1>3. CASE \E k \in Calls : Redeem(k)
    <2>1. PICK k \in Calls : Redeem(k)
        BY <1>3
    <2>2. call[k].email \in Emails /\ call[k].type \in Types /\ call[k].code \in Codes
        BY <2>1 DEF AccountInv, Sound, CallSound, Runs, Redeem
    <2> QED BY <2>1, <2>2 DEF Redeem
<1>4. CASE \E a \in Approvers : Approve(a)
    <2>1. PICK a \in Approvers : Approve(a)
        BY <1>4
    <2>2. approval[a].request \in Requests /\ requests[approval[a].request].status # "none"
        BY <2>1 DEF AccountInv, Sound, ApprovalSound, Approve
    <2>3. requests[approval[a].request].email \in Emails /\ requests[approval[a].request].type \in Types
        BY <2>2 DEF AccountInv, Sound, RequestSound
    <2> QED BY <2>1, <2>2, <2>3 DEF Approve
<1>5. CASE \/ \E e \in Emails, s \in Sections : BankChanges(e, s)
           \/ \E e \in Emails, d \in {"VALIDE", "REFUSE"}, seen \in Entries : DecideKyc(e, d, seen)
    BY <1>5
<1>6. CASE \/ \E k \in Calls, c \in Codes, f \in Emails, d \in Dossiers : StartRedeem(k, c, f, d)
           \/ \E k \in Calls : Reply(k) \/ FindCode(k) \/ CountForCode(k) \/ RedeemRefused(k) \/ SectionFails(k)
           \/ \E c \in Codes : Expire(c) \/ \E t \in Types : Generate(c, t)
           \/ \E q \in Requests : Reject(q) \/ \E f \in Emails, t \in Types : RequestAccount(q, f, t)
           \/ \E q \in Requests, a \in Approvers : StartApproval(a, q)
           \/ \E a \in Approvers : CountForRequest(a) \/ ApproveRefused(a)
           \/ Restart
           \/ UNCHANGED vars
    BY <1>6 DEF StartRedeem, Reply, FindCode, CountForCode, RedeemRefused, SectionFails, Expire, Generate, Reject,
                RequestAccount, StartApproval, CountForRequest, ApproveRefused, Restart, vars
<1> QED BY <1>1, <1>2, <1>3, <1>4, <1>5, <1>6, StepKinds DEF QuietStep

LEMMA AmlIsSection == "aml" \in Sections
<1>1. Len(DossierSteps) \in DOMAIN DossierSteps
    BY DossierAssumption
<1> QED BY <1>1, DossierAssumption DEF Sections

DecisionSound(e) ==
    users[e].decision # "none" =>
        /\ users[e].kyc = StatusOf(users[e].decision)
        /\ users[e].saved["aml"] \in {users[e].decidedOn, Bank} \/ users[e].late

LEMMA DecisionStep == AccountInv /\ DecisionStands /\ [Next]_vars => DecisionStands'
<1> SUFFICES ASSUME AccountInv, DecisionStands, [Next]_vars, NEW e \in Emails PROVE DecisionSound(e)'
    BY DEF DecisionStands, DecisionSound
<1>1. users[e] \in User /\ users \in [Emails -> User] /\ DecisionSound(e)
    BY DEF AccountInv, TypeOK, DecisionStands, DecisionSound
<1>2. CASE UNCHANGED users
    BY <1>1, <1>2 DEF DecisionSound
<1>3. ASSUME NEW f \in Emails, NEW s \in Sections, NEW d \in Dossiers, users' = SavedByClient(f, s, d)
      PROVE  DecisionSound(e)'
    <2>1. CASE s = "aml"
        <3>1. users' = [users EXCEPT ![f].saved["aml"] = d, ![f].shown = @ \cup {d}, ![f].decision = "none"]
            BY <1>3, <2>1 DEF SavedByClient, Submitted
        <3>2. CASE e = f
            BY <1>1, <3>1, <3>2 DEF DecisionSound, User
        <3>3. CASE e # f
            BY <1>1, <3>1, <3>3 DEF DecisionSound
        <3> QED BY <3>2, <3>3
    <2>2. CASE s # "aml"
        <3>1. users' = [users EXCEPT ![f].saved[s] = d]
            BY <1>3, <2>2 DEF SavedByClient, Saved
        <3>2. CASE e = f
            BY <1>1, <2>2, <3>1, <3>2, AmlIsSection DEF DecisionSound, User
        <3>3. CASE e # f
            BY <1>1, <3>1, <3>3 DEF DecisionSound
        <3> QED BY <3>2, <3>3
    <2> QED BY <2>1, <2>2
<1>4. ASSUME NEW f \in Emails, NEW s \in Sections, BankChanges(f, s)
      PROVE  DecisionSound(e)'
    <2>1. users' = [users EXCEPT ![f].saved[s] = Bank, ![f].shown = IF s = "aml" THEN @ \cup {Bank} ELSE @]
        BY <1>4 DEF BankChanges
    <2>2. CASE e = f
        BY <1>1, <2>1, <2>2, AmlIsSection DEF DecisionSound, User
    <2>3. CASE e # f
        BY <1>1, <2>1, <2>3 DEF DecisionSound
    <2> QED BY <2>2, <2>3
<1>5. ASSUME NEW f \in Emails, NEW d \in {"VALIDE", "REFUSE"}, NEW seen \in Entries, DecideKyc(f, d, seen)
      PROVE  DecisionSound(e)'
    <2>1. users' = [users EXCEPT ![f].decision = d, ![f].kyc = StatusOf(d), ![f].decidedOn = seen,
                                  ![f].late = (seen # users[f].saved["aml"])]
        BY <1>5 DEF DecideKyc
    <2>2. CASE e = f
        BY <1>1, <2>1, <2>2 DEF DecisionSound, User
    <2>3. CASE e # f
        BY <1>1, <2>1, <2>3 DEF DecisionSound
    <2> QED BY <2>2, <2>3
<1>6. ASSUME NEW f \in Emails, NEW t \in Types, NEW v \in Codes \cup Requests, users' = Opened(f, t, v)
      PROVE  DecisionSound(e)'
    <2>1. users'[e] = IF e = f THEN [NoUser EXCEPT !.type = t, !.via = v] ELSE users[e]
        BY <1>6, OpenedAccount DEF AccountInv
    <2>2. CASE e = f
        BY <2>1, <2>2, OpenedFields DEF DecisionSound
    <2>3. CASE e # f
        BY <1>1, <2>1, <2>3 DEF DecisionSound
    <2> QED BY <2>2, <2>3
<1> QED BY <1>2, <1>3, <1>4, <1>5, <1>6, WriteKinds

\* A decision on file agrees with the status of the client, and unless it was late the
\* client has sent nothing since what it is about: for any number of registrations,
\* changes and decisions.
THEOREM DecisionHolds == Spec => []DecisionStands
<1>1. Init => DecisionStands
    BY DEF Init, DecisionStands, NoUser
<1>2. AccountInv /\ DecisionStands /\ UNCHANGED vars => DecisionStands'
    BY DecisionStep
<1> QED BY AccountInvariant, DecisionStep, <1>1, <1>2, PTL DEF Spec

-----------------------------------------------------------------------------
(* The dossier of a registration. *)

\* An account keeps what opened it, and a section that is there stays there.
LEMMA AccountKept ==
    ASSUME AccountInv, [Next]_vars, NEW e \in Emails, Exists(e)
    PROVE  /\ Exists(e)' /\ users'[e].via = users[e].via /\ users'[e].type = users[e].type
           /\ \A s \in Sections : users[e].saved[s] # None => users'[e].saved[s] # None
<1> DEFINE Kept == /\ users'[e].type = users[e].type /\ users'[e].via = users[e].via
                   /\ \A s \in Sections : users[e].saved[s] # None => users'[e].saved[s] # None
<1> SUFFICES Kept
    BY DEF Exists
<1>1. users[e] \in User /\ users \in [Emails -> User] /\ users[e].type # None
    BY DEF AccountInv, TypeOK, Exists
<1>2. CASE UNCHANGED users
    BY <1>1, <1>2
<1>3. ASSUME NEW f \in Emails, NEW s \in Sections, NEW d \in Dossiers, users' = SavedByClient(f, s, d)
      PROVE  Kept
    <2>1. d # None
        BY KeysAssumption
    <2>2. \/ users' = [users EXCEPT ![f].saved[s] = d]
          \/ users' = [users EXCEPT ![f].saved[s] = d, ![f].shown = @ \cup {d}, ![f].decision = "none"]
        BY <1>3 DEF SavedByClient, Submitted, Saved
    <2>3. CASE e = f
        BY <1>1, <2>1, <2>2, <2>3 DEF User
    <2>4. CASE e # f
        BY <1>1, <2>2, <2>4
    <2> QED BY <2>3, <2>4
<1>4. ASSUME NEW f \in Emails, NEW s \in Sections, BankChanges(f, s)
      PROVE  Kept
    <2>1. users' = [users EXCEPT ![f].saved[s] = Bank, ![f].shown = IF s = "aml" THEN @ \cup {Bank} ELSE @]
        BY <1>4 DEF BankChanges
    <2>2. Bank # None
        BY KeysAssumption
    <2>3. CASE e = f
        BY <1>1, <2>1, <2>2, <2>3 DEF User
    <2>4. CASE e # f
        BY <1>1, <2>1, <2>4
    <2> QED BY <2>3, <2>4
<1>5. ASSUME NEW f \in Emails, NEW d \in {"VALIDE", "REFUSE"}, NEW seen \in Entries, DecideKyc(f, d, seen)
      PROVE  Kept
    BY <1>1, <1>5 DEF DecideKyc, User
<1>6. ASSUME NEW f \in Emails, NEW t \in Types, NEW v \in Codes \cup Requests, ~ Exists(f), users' = Opened(f, t, v)
      PROVE  Kept
    <2>1. e # f
        BY <1>6
    <2>2. users'[e] = users[e]
        BY <1>6, <2>1, OpenedBecause DEF AccountInv
    <2> QED BY <1>1, <2>2
<1> HIDE DEF Kept
<1> QED BY <1>2, <1>3, <1>4, <1>5, <1>6, WriteKinds

\* How a registration comes to its dossier, goes on and ends.
LEMMA CallDossier ==
    ASSUME AccountInv, [Next]_vars, NEW k \in Calls
    PROVE  /\ call'[k].pc = "dossier" =>
                \/ call'[k] = call[k]
                \/ Redeem(k) /\ call'[k].email = call[k].email /\ call'[k].step = 1
                \/ SaveSection(k) /\ call'[k].email = call[k].email /\ call'[k].step = call[k].step + 1
           /\ call[k].pc = "dossier" =>
                \/ call'[k] = call[k]
                \/ SaveSection(k) /\ (LastStep(k) \/ (call'[k].pc = "dossier" /\ call'[k].email = call[k].email))
                \/ call[k].email \in cut'
           /\ cut \subseteq cut'
<1> DEFINE Runs1 ==
           /\ call'[k].pc = "dossier" =>
                \/ call'[k] = call[k]
                \/ Redeem(k) /\ call'[k].email = call[k].email /\ call'[k].step = 1
                \/ SaveSection(k) /\ call'[k].email = call[k].email /\ call'[k].step = call[k].step + 1
           /\ call[k].pc = "dossier" =>
                \/ call'[k] = call[k]
                \/ SaveSection(k) /\ (LastStep(k) \/ (call'[k].pc = "dossier" /\ call'[k].email = call[k].email))
                \/ call[k].email \in cut'
<1>1. cut \subseteq cut'
    BY DEF Next, Background, RedeemStep, BankStep, StartRedeem, Reply, FindCode, CountForCode, Redeem, RedeemRefused,
           SaveSection, SectionFails, Expire, Generate, Reject, RequestAccount, ClientChanges, BankChanges, DecideKyc,
           StartApproval, CountForRequest, Approve, ApproveRefused, Restart, DossiersUnchanged, vars
<1> SUFFICES Runs1
    BY <1>1
<1>2. call \in [Calls -> Call] /\ \A l \in Calls : call[l] \in Call
    BY DEF AccountInv, TypeOK
<1>3. CASE call'[k] = call[k]
    BY <1>3
<1>4. ASSUME NEW l \in Calls, NEW c, call[l].pc # "dossier", c.pc # "dossier", call' = [call EXCEPT ![l] = c]
      PROVE  Runs1
    BY <1>2, <1>4
<1>5. CASE Restart
    BY <1>2, <1>5 DEF Restart, IdleCall
<1>6. ASSUME NEW l \in Calls, NEW pc \in {"ok", "error", "idle"}, Answer(l, pc), call[l].pc # "dossier"
      PROVE  Runs1
    <2>1. [IdleCall EXCEPT !.pc = pc].pc # "dossier"
        BY DEF IdleCall
    <2> QED BY <1>4, <1>6, <2>1 DEF Answer
<1>7. ASSUME NEW l \in Calls, NEW c \in Codes, NEW e \in Emails, NEW d \in Dossiers, StartRedeem(l, c, e, d)
      PROVE  Runs1
    <2>1. CASE call' = [call EXCEPT ![l] = [IdleCall EXCEPT !.pc = "code", !.code = c, !.email = e, !.dossier = d]]
        BY <1>2, <1>7, <2>1 DEF IdleCall, StartRedeem
    <2>2. CASE Answer(l, "error")
        BY <1>6, <1>7, <2>2 DEF StartRedeem
    <2> QED BY <1>7, <2>1, <2>2 DEF StartRedeem
<1>8. ASSUME NEW l \in Calls, FindCode(l)
      PROVE  Runs1
    <2>1. CASE call' = [call EXCEPT ![l].pc = "count", ![l].type = codes[call[l].code].type]
        BY <1>2, <1>8, <2>1 DEF Call, FindCode
    <2>2. CASE Answer(l, "error")
        BY <1>6, <1>8, <2>2 DEF FindCode
    <2> QED BY <1>8, <2>1, <2>2 DEF FindCode
<1>9. ASSUME NEW l \in Calls, CountForCode(l)
      PROVE  Runs1
    <2>1. CASE call' = [call EXCEPT ![l].pc = "create"]
        BY <1>2, <1>9, <2>1 DEF Call, CountForCode
    <2>2. CASE Answer(l, "error")
        BY <1>6, <1>9, <2>2 DEF CountForCode
    <2> QED BY <1>9, <2>1, <2>2 DEF CountForCode, Advance
<1>10. ASSUME NEW l \in Calls, Redeem(l)
       PROVE  Runs1
    <2>1. call' = [call EXCEPT ![l].pc = "dossier", ![l].step = 1] /\ call[l].pc = "create"
        BY <1>10 DEF Redeem
    <2>2. CASE l = k
        BY <1>2, <1>10, <2>1, <2>2 DEF Call
    <2>3. CASE l # k
        BY <1>2, <1>3, <2>1, <2>3
    <2> QED BY <2>2, <2>3
<1>11. ASSUME NEW l \in Calls, RedeemRefused(l)
       PROVE  Runs1
    BY <1>6, <1>11 DEF RedeemRefused
<1>12. ASSUME NEW l \in Calls, SectionFails(l)
       PROVE  Runs1
    <2>1. call' = [call EXCEPT ![l] = [IdleCall EXCEPT !.pc = "error"]] /\ cut' = cut \cup {call[l].email}
        BY <1>12 DEF SectionFails, Answer
    <2> QED BY <1>2, <2>1 DEF IdleCall
<1>13. ASSUME NEW l \in Calls, SaveSection(l)
       PROVE  Runs1
    <2>1. CASE l # k
        <3>1. call'[k] = call[k]
            BY <1>2, <1>13, <2>1 DEF SaveSection, Answer
        <3> QED BY <1>3, <3>1
    <2>2. CASE l = k /\ LastStep(k)
        <3>1. call' = [call EXCEPT ![k] = [IdleCall EXCEPT !.pc = "ok"]]
            BY <1>13, <2>2 DEF SaveSection, Answer
        <3>2. call'[k].pc = "ok"
            BY <1>2, <3>1 DEF IdleCall
        <3> QED BY <1>13, <2>2, <3>2
    <2>3. CASE l = k /\ ~ LastStep(k)
        <3>1. call' = [call EXCEPT ![k].step = @ + 1] /\ call[k].pc = "dossier"
            BY <1>13, <2>3 DEF SaveSection
        <3>2. call'[k].pc = "dossier" /\ call'[k].email = call[k].email /\ call'[k].step = call[k].step + 1
            BY <1>2, <3>1 DEF Call
        <3> QED BY <1>13, <2>3, <3>2
    <2> QED BY <2>1, <2>2, <2>3
<1>14. ASSUME NEW l \in Calls, Reply(l)
       PROVE  Runs1
    BY <1>2, <1>14 DEF Reply, IdleCall
<1>15. CASE OtherStep \/ UNCHANGED vars
    BY <1>3, <1>15, OtherKeepsCalls DEF vars
<1> HIDE DEF Runs1
<1>16. CASE \E l \in Calls : RedeemStep(l)
    BY <1>8, <1>9, <1>10, <1>11, <1>12, <1>13, <1>16 DEF RedeemStep
<1> QED BY <1>5, <1>7, <1>14, <1>15, <1>16 DEF Next, Background, OtherStep

DossierInv ==
    /\ AccountInv
    /\ \A k \in Calls : SavedSoFar(k)

LEMMA SavedSoFarStep ==
    ASSUME DossierInv, [Next]_vars, NEW k \in Calls
    PROVE  SavedSoFar(k)'
<1> DEFINE e == call[k].email
<1> SUFFICES ASSUME call'[k].pc = "dossier"
             PROVE  /\ users'[call'[k].email].type # None
                    /\ \A i \in DOMAIN DossierSteps :
                          i < call'[k].step => users'[call'[k].email].saved[DossierSteps[i]] # None
    BY DEF SavedSoFar, Exists
<1>1. AccountInv /\ SavedSoFar(k)
    BY DEF DossierInv
<1>2. \A i \in DOMAIN DossierSteps : i \in Nat /\ i >= 1 /\ DossierSteps[i] \in Sections
    BY DossierAssumption DEF Sections
<1>3. ASSUME call[k].pc = "dossier"
      PROVE  /\ e \in Emails /\ users'[e].type # None /\ call[k].step \in DOMAIN DossierSteps
             /\ \A i \in DOMAIN DossierSteps :
                   i < call[k].step => users'[e].saved[DossierSteps[i]] # None
    <2>1. e \in Emails /\ Exists(e) /\ call[k].step \in DOMAIN DossierSteps
        BY <1>1, <1>3 DEF SavedSoFar, AccountInv, Sound, CallSound, Runs
    <2>2. \A f \in Emails : Exists(f) => /\ users'[f].type # None
                                         /\ \A s \in Sections : users[f].saved[s] # None => users'[f].saved[s] # None
        BY <1>1, AccountKept DEF Exists
    <2>3. ASSUME NEW i \in DOMAIN DossierSteps, i < call[k].step
          PROVE  users'[e].saved[DossierSteps[i]] # None
        <3>1. users[e].saved[DossierSteps[i]] # None
            BY <1>1, <1>3, <2>3 DEF SavedSoFar
        <3> QED BY <1>2, <2>1, <2>2, <3>1
    <2> QED BY <2>1, <2>2, <2>3
<1>4. CASE call'[k] = call[k]
    BY <1>3, <1>4
<1>5. CASE Redeem(k) /\ call'[k].email = e /\ call'[k].step = 1
    <2>1. e \in Emails /\ call[k].type \in Types /\ users' = Opened(e, call[k].type, call[k].code)
        BY <1>1, <1>5 DEF Redeem, AccountInv, Sound, CallSound, Runs
    <2>2. users'[e].type = call[k].type
        BY <1>1, <2>1, OpenedBecause DEF AccountInv
    <2> QED BY <1>2, <1>5, <2>1, <2>2, KeysAssumption DEF Exists
<1>6. CASE SaveSection(k) /\ call'[k].email = e /\ call'[k].step = call[k].step + 1
    <2> DEFINE n == call[k].step
    <2>1. call[k].pc = "dossier"
        BY <1>6 DEF SaveSection
    <2>2. n \in DOMAIN DossierSteps /\ e \in Emails
        BY <1>3, <2>1
    <2>3. users'[e].saved[DossierSteps[n]] # None
        <3>1. users' = SavedByClient(e, DossierSteps[n], call[k].dossier)
            BY <1>6 DEF SaveSection
        <3>2. call[k].dossier \in Dossiers /\ call[k].dossier # None
            BY <1>1, <2>1, KeysAssumption DEF AccountInv, Sound, CallSound, Runs
        <3>3. users[e] \in User /\ users \in [Emails -> User] /\ DossierSteps[n] \in Sections
            BY <1>1, <1>2, <2>2 DEF AccountInv, TypeOK
        <3> HIDE DEF e, n
        <3>4. users'[e].saved[DossierSteps[n]] = call[k].dossier
            BY <2>2, <3>1, <3>3 DEF SavedByClient, Submitted, Saved, User
        <3> QED BY <3>2, <3>4
    <2>4. ASSUME NEW i \in DOMAIN DossierSteps, i < n + 1
          PROVE  i < n \/ i = n
        BY <1>2, <2>2, <2>4
    <2> QED BY <1>3, <1>6, <2>1, <2>3, <2>4
<1> QED BY <1>1, <1>4, <1>5, <1>6, CallDossier

LEMMA DossierInvariant == Spec => []DossierInv
<1>1. Init => DossierInv
    BY AccountInit DEF Init, DossierInv, SavedSoFar, IdleCall
<1>2. DossierInv /\ [Next]_vars => DossierInv'
    BY AccountStep, SavedSoFarStep DEF DossierInv
<1>3. DossierInv /\ UNCHANGED vars => DossierInv'
    BY <1>2
<1> QED BY <1>1, <1>2, <1>3, PTL DEF Spec

\* A registration that ends has saved every section.
LEMMA LastSaves ==
    ASSUME DossierInv, [Next]_vars, NEW k \in Calls, SaveSection(k), LastStep(k),
           NEW e \in Emails, call[k].email = e
    PROVE  ~ Incomplete(e)'
<1> DEFINE n == Len(DossierSteps)
<1>1. /\ AccountInv /\ SavedSoFar(k) /\ call[k].pc = "dossier" /\ call[k].step = n
      /\ users' = SavedByClient(e, DossierSteps[n], call[k].dossier)
    BY DEF DossierInv, SaveSection, LastStep
<1>2. e \in Emails /\ Exists(e) /\ call[k].dossier \in Dossiers /\ call[k].dossier # None
    BY <1>1, KeysAssumption DEF SavedSoFar, AccountInv, Sound, CallSound, Runs
<1>3. n \in DOMAIN DossierSteps /\ \A i \in DOMAIN DossierSteps : i \in Nat /\ (i < n \/ i = n)
    BY DossierAssumption
<1>4. users[e] \in User /\ users \in [Emails -> User] /\ DossierSteps[n] \in Sections
    BY <1>1, <1>2, <1>3 DEF AccountInv, TypeOK, Sections
<1>5. ASSUME NEW i \in DOMAIN DossierSteps, i < n
      PROVE  users'[e].saved[DossierSteps[i]] # None
    <2>1. users[e].saved[DossierSteps[i]] # None
        BY <1>1, <1>5 DEF SavedSoFar
    <2>2. DossierSteps[i] \in Sections
        BY DEF Sections
    <2> QED BY <1>1, <1>2, <2>1, <2>2, AccountKept
<1>6. users'[e].saved[DossierSteps[n]] # None
    <2> HIDE DEF n
    <2>1. users'[e].saved[DossierSteps[n]] = call[k].dossier
        BY <1>1, <1>2, <1>4 DEF SavedByClient, Submitted, Saved, User
    <2> QED BY <1>2, <2>1
<1>7. ASSUME NEW s \in Sections PROVE users'[e].saved[s] # None
    BY <1>3, <1>5, <1>6 DEF Sections
<1> QED BY <1>7 DEF Incomplete

\* An account that a code opened is complete, being completed, or was cut short.
Accounted(c, e) ==
    e \in OpenedBy(c) /\ Incomplete(e)
        => e \in cut \/ \E k \in Calls : call[k].pc = "dossier" /\ call[k].email = e

LEMMA DossierStep == DossierInv /\ DossierComplete /\ [Next]_vars => DossierComplete'
<1> SUFFICES ASSUME DossierInv, DossierComplete, [Next]_vars, NEW c \in Codes, NEW e \in Emails,
                    e \in OpenedBy(c)', Incomplete(e)'
             PROVE  e \in cut' \/ \E k \in Calls : call'[k].pc = "dossier" /\ call'[k].email = e
    BY DEF DossierComplete, OpenedBy
<1>1. AccountInv
    BY DEF DossierInv
<1>2. CASE e \in OpenedBy(c)
    <2>1. Exists(e)
        BY <1>1, <1>2, KeysAssumption DEF OpenedBy, AccountInv, Linked, UserSound
    <2>2. Incomplete(e)
        BY <1>1, <2>1, AccountKept DEF Incomplete
    <2>3. CASE e \in cut
        BY <1>1, <2>3, CallDossier, ProcessesAssumption
    <2>4. ASSUME NEW k \in Calls, call[k].pc = "dossier", call[k].email = e
          PROVE  e \in cut' \/ (call'[k].pc = "dossier" /\ call'[k].email = e)
        <3>1. ~ (SaveSection(k) /\ LastStep(k))
            BY <2>4, LastSaves
        <3>2. \/ call'[k] = call[k]
              \/ SaveSection(k) /\ (LastStep(k) \/ (call'[k].pc = "dossier" /\ call'[k].email = call[k].email))
              \/ call[k].email \in cut'
            BY <1>1, <2>4, CallDossier
        <3>3. CASE call'[k] = call[k]
            BY <2>4, <3>3
        <3>4. CASE call'[k].pc = "dossier" /\ call'[k].email = call[k].email
            BY <2>4, <3>4
        <3>5. CASE call[k].email \in cut'
            BY <2>4, <3>5
        <3> QED BY <3>1, <3>2, <3>3, <3>4, <3>5
    <2> QED BY <1>2, <2>2, <2>3, <2>4 DEF DossierComplete
<1>3. CASE e \notin OpenedBy(c)
    <2>1. PICK k \in Calls : Redeem(k) /\ call[k].code = c /\ OpenedBy(c)' \subseteq OpenedBy(c) \cup {call[k].email}
        BY <1>1, <1>3, OpenedByStep
    <2>2. call[k].email = e
        BY <1>3, <2>1
    <2>3. call'[k].pc = "dossier" /\ call'[k].email = call[k].email
        BY <1>1, <2>1 DEF Redeem, AccountInv, TypeOK, Call
    <2> QED BY <2>2, <2>3
<1> QED BY <1>2, <1>3

\* An account opened by a code lacks a section only while its registration runs on, or
\* after it was cut short: for any sequence of sections.
THEOREM DossierKept == Spec => []DossierComplete
<1>1. Init => DossierComplete
    BY KeysAssumption DEF Init, DossierComplete, OpenedBy, NoUser
<1>2. DossierInv /\ DossierComplete /\ UNCHANGED vars => DossierComplete'
    BY DossierStep
<1> QED BY DossierInvariant, DossierStep, <1>1, <1>2, PTL DEF Spec
=============================================================================
