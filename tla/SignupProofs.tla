---------------------------- MODULE SignupProofs ----------------------------
(***************************************************************************)
(* Proofs about the pages of registration, for any number of pages, calls, *)
(* codes and entries: the pages ask of the bank nothing that module        *)
(* AccountOpening does not know, and what they show is what was done.      *)
(***************************************************************************)
EXTENDS SignupProperties, AccountProofs, SequenceTheorems

-----------------------------------------------------------------------------
(* The steps of the form. *)

Last == Len(Steps)

LEMMA StepNames ==
    /\ Last \in Nat /\ Last >= 4 /\ DOMAIN Steps = 1..Last
    /\ Steps[1] = "code" /\ Steps[2] = "credentials" /\ Steps[Last - 1] = "aml" /\ Steps[Last] = "recap"
    /\ \A i \in 3..(Last - 1) : Steps[i] \in {"profile", "address", "employment", "identity", "aml"}
<1> DEFINE S == {"code", "credentials", "profile", "address", "employment", "identity", "aml", "recap"}
           N == Len(DossierSteps)
           A == <<"code", "credentials">> \o DossierSteps
<1>1. /\ N \in Nat /\ N >= 1 /\ DOMAIN DossierSteps = 1..N /\ DossierSteps[N] = "aml"
      /\ \A i \in 1..N : DossierSteps[i] \in {"profile", "address", "employment", "identity", "aml"}
    BY DossierAssumption
<1>2. /\ DossierSteps \in Seq(S) /\ <<"recap">> \in Seq(S) /\ <<"code", "credentials">> \in Seq(S)
      /\ Len(<<"recap">>) = 1 /\ Len(<<"code", "credentials">>) = 2
    BY DossierAssumption
<1>3. /\ A \in Seq(S) /\ Len(A) = N + 2
      /\ \A i \in 1..(N + 2) : A[i] = IF i <= 2 THEN <<"code", "credentials">>[i] ELSE DossierSteps[i - 2]
    BY <1>1, <1>2, ConcatProperties
<1>4. Steps = A \o <<"recap">>
    BY DEF Steps
<1> HIDE DEF A
<1>5. /\ Steps \in Seq(S) /\ Len(Steps) = N + 3
      /\ \A i \in 1..(N + 3) : Steps[i] = IF i <= N + 2 THEN A[i] ELSE <<"recap">>[i - (N + 2)]
    BY <1>1, <1>2, <1>3, <1>4, ConcatProperties
<1> HIDE DEF N, S
<1>6. Last = N + 3 /\ Last >= 4 /\ Last \in Nat /\ DOMAIN Steps = 1..Last
    BY <1>1, <1>5 DEF Last
<1>7. Steps[1] = "code" /\ Steps[2] = "credentials"
    BY <1>1, <1>3, <1>5
<1>8. Steps[Last] = "recap"
    BY <1>1, <1>5, <1>6
<1>9. Steps[Last - 1] = "aml"
    BY <1>1, <1>3, <1>5, <1>6
<1>10. ASSUME NEW i \in 3..(Last - 1)
       PROVE  Steps[i] \in {"profile", "address", "employment", "identity", "aml"}
    <2>1. Steps[i] = DossierSteps[i - 2] /\ i - 2 \in 1..N
        BY <1>1, <1>3, <1>5, <1>6
    <2> QED BY <1>1, <2>1
<1> QED BY <1>6, <1>7, <1>8, <1>9, <1>10

-----------------------------------------------------------------------------
(* What a page holds is good to ask with.                                  *)

\* Each step is reached past what the steps before it ask for.
RowSound(p) ==
    /\ p.step \in 1..Last
    /\ p.step >= 2 => p.form.code # None
    /\ p.step >= 3 => p.form.email # None
    /\ p.step = Last => p.form.dossier # None
    /\ p.busy = "validate" => p.step = 1 /\ p.form.code # None /\ p.asking # None
    /\ p.busy = "submit" => p.step = Last /\ p.call \in Calls /\ ~ p.created
    /\ p.busy # "submit" => p.call = None
    /\ p.created => p.step = Last

PageSound(b) == RowSound(page[b])

PagesSound ==
    /\ page \in [Pages -> Page]
    /\ \A b \in Pages : PageSound(b)

\* The bank sees only steps of its own.
LEMMA StepMaps ==
    ASSUME PagesSound, [WizardNext]_wizardVars
    PROVE  [Next]_vars
<1>1. CASE UNCHANGED wizardVars
    BY <1>1 DEF wizardVars, vars
<1>2. ASSUME NEW b \in Pages, NEW k \in Calls, Submit(b, k)
      PROVE  Next
    <2>1. page[b] \in Page /\ PageSound(b)
        BY DEF PagesSound
    <2>2. page[b].step = Last
        BY <1>2, <2>1, StepNames DEF Submit, On, PageSound, RowSound
    <2>3. page[b].form.code \in Codes /\ page[b].form.email \in Emails /\ page[b].form.dossier \in Dossiers
        BY <2>1, <2>2, StepNames DEF PageSound, RowSound, Page, Form
    <2>4. StartRedeem(k, page[b].form.code, page[b].form.email, page[b].form.dossier)
        BY <1>2 DEF Submit
    <2> QED BY <2>3, <2>4 DEF Next
<1>3. ASSUME NEW b \in Pages, Answered(b)
      PROVE  Next
    <2>1. page[b].call \in Calls
        BY <1>3 DEF PagesSound, PageSound, RowSound, Answered
    <2> QED BY <1>3, <2>1 DEF Answered, Next
<1>4. ASSUME NEW b \in Pages, WizardStep(b)
      PROVE  Next \/ UNCHANGED vars
    <2>1. \/ \E k \in Calls : Submit(b, k)
          \/ Answered(b)
          \/ BankUnchanged
        BY <1>4 DEF WizardStep, TypeCode, AskCode, CodeAnswered, CodeRefused, TypeEmail, Fill, NextStep,
                    PreviousStep, AskPdf, PdfAnswered, PdfFails, AnswerLost
    <2> QED BY <1>2, <1>3, <2>1 DEF BankUnchanged
<1>5. ASSUME NEW k \in Calls, ReplyUnheard(k)
      PROVE  Next
    BY <1>5 DEF ReplyUnheard, Next
<1>6. CASE Background /\ UNCHANGED page
    BY <1>6 DEF Next
<1> QED BY <1>1, <1>4, <1>5, <1>6 DEF WizardNext

LEMMA RowStep ==
    ASSUME PagesSound, NEW b \in Pages, NEW r \in Page, RowSound(r), page' = [page EXCEPT ![b] = r]
    PROVE  PagesSound'
<1>1. page' \in [Pages -> Page]
    BY DEF PagesSound
<1>2. ASSUME NEW a \in Pages PROVE RowSound(page'[a])
    <2>1. CASE a = b
        BY <2>1 DEF PagesSound
    <2>2. CASE a # b
        BY <2>2 DEF PagesSound, PageSound
    <2> QED BY <2>1, <2>2
<1>3. ASSUME NEW a \in Pages PROVE PageSound(a)'
    BY <1>2 DEF PageSound, RowSound
<1> QED BY <1>1, <1>3 DEF PagesSound

LEMMA CodeStepSound ==
    ASSUME TypeOK, PagesSound, NEW b \in Pages,
           (\E c \in Codes : TypeCode(b, c)) \/ AskCode(b) \/ CodeAnswered(b) \/ CodeRefused(b)
    PROVE  PagesSound'
<1>1. page[b] \in Page /\ RowSound(page[b])
    BY DEF PagesSound, PageSound
<1>2. page[b].step \in 1..Last /\ (On(b, "code") => page[b].step = 1 /\ ~ page[b].created)
    BY <1>1, StepNames DEF On, RowSound
<1>3. ASSUME NEW c \in Codes, TypeCode(b, c)
      PROVE  PagesSound'
    <2> DEFINE r == [page[b] EXCEPT !.form = [page[b].form EXCEPT !.code = c]]
    <2>1. page' = [page EXCEPT ![b] = r]
        BY <1>3 DEF TypeCode
    <2>2. r \in Page
        BY <1>1 DEF Page, Form
    <2>3. RowSound(r)
        BY <1>1, <1>2, <1>3, StepNames, KeysAssumption DEF TypeCode, RowSound, Page, Form
    <2> QED BY <2>1, <2>2, <2>3, RowStep
<1>4. CASE AskCode(b)
    <2> DEFINE r == [page[b] EXCEPT !.busy = "validate", !.asking = page[b].form.code]
    <2>1. page' = [page EXCEPT ![b] = r]
        BY <1>4 DEF AskCode
    <2>2. r \in Page
        BY <1>1 DEF Page, Form
    <2>3. RowSound(r)
        BY <1>1, <1>2, <1>4, StepNames DEF AskCode, RowSound, Page
    <2> QED BY <2>1, <2>2, <2>3, RowStep
<1>5. CASE CodeAnswered(b)
    <2> DEFINE t == codes[page[b].asking].type
               w == Edited(b, page[b].form, t)
               n == page[b].step + 1
               r == [page[b] EXCEPT !.busy = "no", !.type = t, !.step = n, !.edited = w]
    <2>1. page' = [page EXCEPT ![b] = r]
        BY <1>5 DEF CodeAnswered
    <2>2. page[b].asking \in Codes /\ page[b].step = 1 /\ page[b].busy = "validate" /\ page[b].form.code # None
        BY <1>1, <1>5 DEF CodeAnswered, RowSound, Page
    <2>3. t \in Types \cup {None}
        BY <2>2 DEF TypeOK, Code
    <2> HIDE DEF t
    <2>4. w \in BOOLEAN
        BY Zenon DEF Edited
    <2>5. n \in Nat /\ n = 2 /\ 2 \in 1..Last /\ 2 < Last
        BY <2>2, StepNames
    <2> HIDE DEF w, n
    <2>6. r \in Page
        BY <1>1, <2>3, <2>4, <2>5 DEF Page
    <2>7. RowSound(r)
        BY <1>1, <2>2, <2>5 DEF RowSound, Page
    <2> QED BY <2>1, <2>6, <2>7, RowStep
<1>6. CASE CodeRefused(b)
    <2> DEFINE r == [page[b] EXCEPT !.busy = "no"]
    <2>1. page' = [page EXCEPT ![b] = r]
        BY <1>6 DEF CodeRefused
    <2>2. r \in Page
        BY <1>1 DEF Page
    <2>3. RowSound(r)
        BY <1>1, <1>6, StepNames DEF CodeRefused, RowSound, Page
    <2> QED BY <2>1, <2>2, <2>3, RowStep
<1> QED BY <1>3, <1>4, <1>5, <1>6

LEMMA EnterSound ==
    ASSUME PagesSound, NEW b \in Pages, NEW form \in Form, Enter(b, form),
           ~ page[b].created,
           page[b].step < Last,
           form.code = page[b].form.code,
           page[b].form.email # None => form.email # None
    PROVE  PagesSound'
<1> DEFINE w == Edited(b, form, page[b].type)
           r == [page[b] EXCEPT !.form = form, !.edited = w]
<1>1. page[b] \in Page /\ RowSound(page[b])
    BY DEF PagesSound, PageSound
<1>2. page' = [page EXCEPT ![b] = r]
    BY DEF Enter
<1>3. w \in BOOLEAN
    BY <1>1 DEF Edited, Page
<1> HIDE DEF w
<1>4. r \in Page
    BY <1>1, <1>3 DEF Page
<1>5. RowSound(r)
    BY <1>1, StepNames DEF RowSound, Page
<1> QED BY <1>2, <1>4, <1>5, RowStep

LEMMA FormStepSound ==
    ASSUME PagesSound, NEW b \in Pages,
           (\E e \in Emails : TypeEmail(b, e)) \/ (\E d \in Dossiers : Fill(b, d)) \/ NextStep(b) \/ PreviousStep(b)
    PROVE  PagesSound'
<1>1. page[b] \in Page /\ RowSound(page[b]) /\ page[b].step \in 1..Last
    BY DEF PagesSound, PageSound, RowSound
<1>2. page[b].form \in Form
    BY <1>1 DEF Page
<1>3. ASSUME NEW e \in Emails, TypeEmail(b, e)
      PROVE  PagesSound'
    <2>1. page[b].step < Last /\ ~ page[b].created
        BY <1>1, <1>3, StepNames DEF TypeEmail, On
    <2>2. /\ [page[b].form EXCEPT !.email = e] \in Form
          /\ [page[b].form EXCEPT !.email = e].code = page[b].form.code
          /\ [page[b].form EXCEPT !.email = e].email # None
        BY <1>2, KeysAssumption DEF Form
    <2>3. Enter(b, [page[b].form EXCEPT !.email = e])
        BY <1>3 DEF TypeEmail
    <2> QED BY <2>1, <2>2, <2>3, EnterSound
<1>4. ASSUME NEW d \in Dossiers, Fill(b, d)
      PROVE  PagesSound'
    <2>1. page[b].step < Last /\ ~ page[b].created
        <3>1. PICK s \in Sections : On(b, s)
            BY <1>4 DEF Fill
        <3>2. s # "recap"
            BY <3>1, DossierAssumption DEF Sections
        <3> QED BY <1>1, <3>1, <3>2, StepNames DEF On
    <2>2. /\ [page[b].form EXCEPT !.dossier = d] \in Form
          /\ [page[b].form EXCEPT !.dossier = d].code = page[b].form.code
          /\ [page[b].form EXCEPT !.dossier = d].email = page[b].form.email
        BY <1>2 DEF Form
    <2>3. Enter(b, [page[b].form EXCEPT !.dossier = d])
        BY <1>4 DEF Fill
    <2> QED BY <2>1, <2>2, <2>3, EnterSound
<1>5. CASE NextStep(b)
    <2> DEFINE r == [page[b] EXCEPT !.step = page[b].step + 1]
    <2>1. page' = [page EXCEPT ![b] = r]
        BY <1>5 DEF NextStep, Moved
    <2>2. r \in Page
        BY <1>1 DEF Page
    <2>3. page[b].step # 1 /\ page[b].step # Last /\ ~ page[b].created
        BY <1>5, StepNames DEF NextStep, On
    <2>4. /\ page[b].step = 2 => page[b].form.email # None
          /\ page[b].step = Last - 1 => page[b].form.dossier # None
        BY <1>5, <2>3, StepNames DEF NextStep, MayAdvance, On
    <2>5. RowSound(r)
        BY <1>1, <2>3, <2>4, StepNames DEF RowSound, Page
    <2> QED BY <2>1, <2>2, <2>5, RowStep
<1>6. CASE PreviousStep(b)
    <2> DEFINE r == [page[b] EXCEPT !.step = page[b].step - 1]
    <2>1. page' = [page EXCEPT ![b] = r]
        BY <1>1, <1>6, StepNames DEF PreviousStep, Moved, Page
    <2>2. page[b].step # 1 /\ page[b].busy = "no" /\ ~ page[b].created
        BY <1>6, StepNames DEF PreviousStep, On
    <2>3. r \in Page
        BY <1>1, <2>2, StepNames DEF Page
    <2>4. RowSound(r)
        BY <1>1, <2>2, StepNames DEF RowSound, Page
    <2> QED BY <2>1, <2>3, <2>4, RowStep
<1> QED BY <1>3, <1>4, <1>5, <1>6

LEMMA RecapStepSound ==
    ASSUME PagesSound, NEW b \in Pages,
           \/ AskPdf(b) \/ (\E f \in page[b].loading : PdfAnswered(b, f) \/ PdfFails(b, f))
           \/ (\E k \in Calls : Submit(b, k)) \/ Answered(b) \/ AnswerLost(b)
    PROVE  PagesSound'
<1>1. page[b] \in Page /\ RowSound(page[b]) /\ page[b].step \in 1..Last
    BY DEF PagesSound, PageSound, RowSound
<1>2. page[b].loading \in SUBSET Preview
    BY <1>1 DEF Page
<1>3. CASE AskPdf(b)
    <2> DEFINE l == page[b].loading \cup {PreviewOf(page[b])}
               r == [page[b] EXCEPT !.loading = l]
    <2>1. page' = [page EXCEPT ![b] = r]
        BY <1>3 DEF AskPdf
    <2>2. l \in SUBSET Preview
        BY <1>1, <1>2 DEF PreviewOf, Preview, Page, Form
    <2> HIDE DEF l
    <2>3. r \in Page
        BY <1>1, <2>2 DEF Page
    <2>4. RowSound(r)
        BY <1>1 DEF RowSound, Page
    <2> QED BY <2>1, <2>3, <2>4, RowStep
<1>4. ASSUME NEW f \in page[b].loading, PdfAnswered(b, f)
      PROVE  PagesSound'
    <2> DEFINE l == page[b].loading \ {f}
               r == [page[b] EXCEPT !.loading = l, !.pdf = f]
    <2>1. page' = [page EXCEPT ![b] = r]
        BY <1>4 DEF PdfAnswered
    <2>2. l \in SUBSET Preview /\ f \in Preview
        BY <1>2
    <2> HIDE DEF l
    <2>3. r \in Page
        BY <1>1, <2>2 DEF Page
    <2>4. RowSound(r)
        BY <1>1 DEF RowSound, Page
    <2> QED BY <2>1, <2>3, <2>4, RowStep
<1>5. ASSUME NEW f \in page[b].loading, PdfFails(b, f)
      PROVE  PagesSound'
    <2> DEFINE l == page[b].loading \ {f}
               r == [page[b] EXCEPT !.loading = l]
    <2>1. page' = [page EXCEPT ![b] = r]
        BY <1>5 DEF PdfFails
    <2>2. l \in SUBSET Preview
        BY <1>2
    <2> HIDE DEF l
    <2>3. r \in Page
        BY <1>1, <2>2 DEF Page
    <2>4. RowSound(r)
        BY <1>1 DEF RowSound, Page
    <2> QED BY <2>1, <2>3, <2>4, RowStep
<1>6. ASSUME NEW k \in Calls, Submit(b, k)
      PROVE  PagesSound'
    <2> DEFINE r == [page[b] EXCEPT !.busy = "submit", !.call = k]
    <2>1. page' = [page EXCEPT ![b] = r]
        BY <1>6 DEF Submit
    <2>2. r \in Page
        BY <1>1 DEF Page
    <2>3. page[b].step = Last /\ ~ page[b].created
        BY <1>1, <1>6, StepNames DEF Submit, On
    <2>4. RowSound(r)
        BY <1>1, <2>3 DEF RowSound, Page
    <2> QED BY <2>1, <2>2, <2>4, RowStep
<1>7. CASE Answered(b)
    <2> DEFINE w == Opens(page[b].call)
               r == [page[b] EXCEPT !.busy = "no", !.call = None, !.created = w]
    <2>1. page' = [page EXCEPT ![b] = r]
        BY <1>7 DEF Answered
    <2>2. w \in BOOLEAN
        BY DEF Opens
    <2>3. page[b].step = Last
        BY <1>1, <1>7 DEF Answered, RowSound
    <2> HIDE DEF w
    <2>4. r \in Page
        BY <1>1, <2>2 DEF Page
    <2>5. RowSound(r)
        BY <1>1, <2>3 DEF RowSound, Page
    <2> QED BY <2>1, <2>4, <2>5, RowStep
<1>8. CASE AnswerLost(b)
    <2> DEFINE r == [page[b] EXCEPT !.busy = "no", !.call = None]
    <2>1. page' = [page EXCEPT ![b] = r]
        BY <1>8 DEF AnswerLost
    <2>2. r \in Page
        BY <1>1 DEF Page
    <2>3. RowSound(r)
        BY <1>1 DEF RowSound, Page
    <2> QED BY <2>1, <2>2, <2>3, RowStep
<1> QED BY <1>3, <1>4, <1>5, <1>6, <1>7, <1>8

LEMMA PagesStep == TypeOK /\ PagesSound /\ [WizardNext]_wizardVars => PagesSound'
<1> SUFFICES ASSUME TypeOK, PagesSound, [WizardNext]_wizardVars PROVE PagesSound'
    OBVIOUS
<1>1. CASE UNCHANGED page
    BY <1>1 DEF PagesSound, PageSound, RowSound
<1>2. ASSUME NEW b \in Pages, WizardStep(b)
      PROVE  PagesSound'
    BY <1>2, CodeStepSound, FormStepSound, RecapStepSound DEF WizardStep
<1> QED BY <1>1, <1>2 DEF WizardNext, ReplyUnheard, wizardVars

WizardInv == AccountInv /\ PagesSound

LEMMA WizardStart == WizardInit => PagesSound
<1> SUFFICES ASSUME WizardInit PROVE PagesSound
    OBVIOUS
<1>1. NewPage \in Page
    BY DEF NewPage, Page, EmptyForm, Form
<1>2. RowSound(NewPage)
    BY StepNames DEF RowSound, NewPage
<1> QED BY <1>1, <1>2 DEF WizardInit, PagesSound, PageSound

LEMMA WizardInvariant == WizardSpec => []WizardInv
<1>1. WizardInit => WizardInv
    BY AccountInit, WizardStart DEF WizardInv, WizardInit
<1>2. WizardInv /\ [WizardNext]_wizardVars => WizardInv'
    BY StepMaps, AccountStep, PagesStep DEF WizardInv, AccountInv
<1> QED BY <1>1, <1>2, PTL DEF WizardSpec

\* The pages do to the bank what module AccountOpening allows and nothing else: whatever
\* is proved of the bank holds with the pages in front of it.
THEOREM WizardImplementsBank == WizardSpec => Spec
<1>1. WizardInit => Init
    BY DEF WizardInit
<1>2. WizardInv /\ [WizardNext]_wizardVars => [Next]_vars
    BY StepMaps DEF WizardInv
<1> QED BY <1>1, <1>2, WizardInvariant, PTL DEF WizardSpec, Spec

-----------------------------------------------------------------------------
(* What the bank does while a page waits for it. *)

\* The kind of account that a code opens never changes.
LEMMA CodeKept ==
    ASSUME AccountInv, [Next]_vars, NEW c \in Codes, codes[c].type # None
    PROVE  codes'[c].type = codes[c].type
<1>1. codes \in [Codes -> Code] /\ codes[c] \in Code
    BY DEF AccountInv, TypeOK
<1>2. CASE UNCHANGED codes
    BY <1>2
<1>3. ASSUME NEW d \in Codes, NEW t \in Types, Generate(d, t)
      PROVE  codes'[c].type = codes[c].type
    BY <1>1, <1>3 DEF Generate, Code
<1>4. ASSUME NEW d \in Codes, Expire(d)
      PROVE  codes'[c].type = codes[c].type
    BY <1>1, <1>4 DEF Expire, Code
<1>5. ASSUME NEW k \in Calls, Redeem(k)
      PROVE  codes'[c].type = codes[c].type
    BY <1>1, <1>5 DEF Redeem, Code
<1>6. \/ UNCHANGED codes
      \/ \E d \in Codes, t \in Types : Generate(d, t)
      \/ \E d \in Codes : Expire(d)
      \/ \E k \in Calls : Redeem(k)
    BY DEF Next, Background, RedeemStep, BankStep, StartRedeem, Reply, FindCode, CountForCode, RedeemRefused,
           SaveSection, SectionFails, Reject, RequestAccount, ClientChanges, BankChanges, DecideKyc,
           StartApproval, CountForRequest, Approve, ApproveRefused, Restart, CallsUnchanged, vars
<1> QED BY <1>2, <1>3, <1>4, <1>5, <1>6

\* The account that a form asks for.
OpenFor(f) == users[f.email].via = f.code /\ users[f.email].type = codes[f.code].type

LEMMA OpenForKept ==
    ASSUME AccountInv, [Next]_vars, NEW f, f.email \in Emails, f.code \in Codes, OpenFor(f)
    PROVE  /\ users'[f.email].via = f.code /\ users'[f.email].type = codes'[f.code].type
           /\ \A s \in Sections : users[f.email].saved[s] # None => users'[f.email].saved[s] # None
<1>1. Exists(f.email)
    BY KeysAssumption DEF AccountInv, Linked, UserSound, OpenFor
<1>2. codes[f.code].type # None
    BY <1>1 DEF Exists, OpenFor
<1>3. \A e \in Emails : Exists(e) => /\ users'[e].via = users[e].via /\ users'[e].type = users[e].type
                                     /\ \A s \in Sections : users[e].saved[s] # None => users'[e].saved[s] # None
    BY AccountKept
<1>4. codes'[f.code].type = codes[f.code].type
    BY <1>2, CodeKept
<1> QED BY <1>1, <1>3, <1>4 DEF OpenFor

\* How a call comes to where it is.
LEMMA CallFollows ==
    ASSUME AccountInv, Background, NEW k \in Calls
    PROVE  /\ call'[k].pc \in {"code", "count", "create", "dossier"} =>
                Runs(k) /\ call'[k].code = call[k].code /\ call'[k].email = call[k].email
           /\ call'[k].pc \in {"count", "create"} =>
                \/ call[k].pc \in {"count", "create"} /\ call'[k].type = call[k].type
                \/ Redeemable(call[k].code) /\ call'[k].type = codes[call[k].code].type
           /\ call'[k].pc = "dossier" => call[k].pc = "dossier" \/ Redeem(k)
           /\ call'[k].pc = "ok" => call[k].pc = "ok" \/ (SaveSection(k) /\ LastStep(k))
<1> DEFINE Follows ==
           /\ call'[k].pc \in {"code", "count", "create", "dossier"} =>
                Runs(k) /\ call'[k].code = call[k].code /\ call'[k].email = call[k].email
           /\ call'[k].pc \in {"count", "create"} =>
                \/ call[k].pc \in {"count", "create"} /\ call'[k].type = call[k].type
                \/ Redeemable(call[k].code) /\ call'[k].type = codes[call[k].code].type
           /\ call'[k].pc = "dossier" => call[k].pc = "dossier" \/ Redeem(k)
           /\ call'[k].pc = "ok" => call[k].pc = "ok" \/ (SaveSection(k) /\ LastStep(k))
<1> SUFFICES Follows
    OBVIOUS
<1>1. call \in [Calls -> Call] /\ \A l \in Calls : call[l] \in Call
    BY DEF AccountInv, TypeOK
<1>2. CASE call'[k] = call[k]
    BY <1>2 DEF Runs
<1>3. CASE Restart
    BY <1>3 DEF Restart, IdleCall
<1>4. ASSUME NEW l \in Calls, Answer(l, "error")
      PROVE  Follows
    <2>1. CASE l = k
        BY <1>1, <1>4, <2>1 DEF Answer, IdleCall
    <2>2. CASE l # k
        BY <1>1, <1>2, <1>4, <2>2 DEF Answer
    <2> QED BY <2>1, <2>2
<1>5. ASSUME NEW l \in Calls, FindCode(l)
      PROVE  Follows
    <2>1. CASE Redeemable(call[l].code)
        <3>1. call' = [call EXCEPT ![l].pc = "count", ![l].type = codes[call[l].code].type] /\ call[l].pc = "code"
            BY <1>5, <2>1 DEF FindCode
        <3>2. CASE l = k
            BY <1>1, <2>1, <3>1, <3>2 DEF Call, Runs
        <3>3. CASE l # k
            BY <1>1, <1>2, <3>1, <3>3
        <3> QED BY <3>2, <3>3
    <2>2. CASE Answer(l, "error")
        BY <1>4, <2>2
    <2> QED BY <1>5, <2>1, <2>2 DEF FindCode
<1>6. ASSUME NEW l \in Calls, CountForCode(l)
      PROVE  Follows
    <2>1. CASE call' = [call EXCEPT ![l].pc = "create"]
        <3>1. CASE l = k
            BY <1>1, <1>6, <2>1, <3>1 DEF CountForCode, Call, Runs
        <3>2. CASE l # k
            BY <1>1, <1>2, <2>1, <3>2
        <3> QED BY <3>1, <3>2
    <2>2. CASE Answer(l, "error")
        BY <1>4, <2>2
    <2> QED BY <1>6, <2>1, <2>2 DEF CountForCode, Advance
<1>7. ASSUME NEW l \in Calls, Redeem(l)
      PROVE  Follows
    <2>1. call' = [call EXCEPT ![l].pc = "dossier", ![l].step = 1] /\ call[l].pc = "create"
        BY <1>7 DEF Redeem
    <2>2. CASE l = k
        BY <1>1, <1>7, <2>1, <2>2 DEF Call, Runs
    <2>3. CASE l # k
        BY <1>1, <1>2, <2>1, <2>3
    <2> QED BY <2>2, <2>3
<1>8. ASSUME NEW l \in Calls, RedeemRefused(l) \/ SectionFails(l)
      PROVE  Follows
    BY <1>4, <1>8 DEF RedeemRefused, SectionFails
<1>9. ASSUME NEW l \in Calls, SaveSection(l)
      PROVE  Follows
    <2>1. CASE l # k
        BY <1>1, <1>2, <1>9, <2>1 DEF SaveSection, Answer
    <2>2. CASE l = k /\ LastStep(k)
        <3>1. call' = [call EXCEPT ![k] = [IdleCall EXCEPT !.pc = "ok"]]
            BY <1>9, <2>2 DEF SaveSection, Answer
        <3>2. call'[k].pc = "ok"
            BY <1>1, <3>1 DEF IdleCall
        <3> QED BY <1>9, <2>2, <3>2
    <2>3. CASE l = k /\ ~ LastStep(k)
        <3>1. call' = [call EXCEPT ![k].step = @ + 1] /\ call[k].pc = "dossier"
            BY <1>9, <2>3 DEF SaveSection
        <3>2. call'[k].pc = "dossier" /\ call'[k].email = call[k].email /\ call'[k].code = call[k].code
            BY <1>1, <3>1 DEF Call
        <3> QED BY <3>1, <3>2 DEF Runs
    <2> QED BY <2>1, <2>2, <2>3
<1>10. CASE OtherStep
    BY <1>2, <1>10, OtherKeepsCalls
<1> HIDE DEF Follows
<1>11. CASE \E l \in Calls : RedeemStep(l)
    BY <1>5, <1>6, <1>7, <1>8, <1>9, <1>11 DEF RedeemStep
<1> QED BY <1>3, <1>10, <1>11 DEF Background, OtherStep

-----------------------------------------------------------------------------
(* The submission of a page, and what came of it. *)

\* What the call of a page that waits is about, and what it has done.
SubmissionSound(b) ==
    page[b].busy = "submit" =>
        /\ Runs(page[b].call) =>
             call[page[b].call].code = page[b].form.code /\ call[page[b].call].email = page[b].form.email
        /\ call[page[b].call].pc \in {"count", "create"} =>
             call[page[b].call].type = codes[page[b].form.code].type
        /\ call[page[b].call].pc \in {"dossier", "ok"} => OpenFor(page[b].form)
        /\ call[page[b].call].pc = "ok" => ~ Incomplete(page[b].form.email)

CreatedSound(b) ==
    page[b].created => OpenFor(page[b].form) /\ ~ Incomplete(page[b].form.email)

\* No call belongs to two pages.
Distinct(a, b) ==
    a # b /\ page[a].busy = "submit" /\ page[b].busy = "submit" => page[a].call # page[b].call

\* Past its first step a page shows the kind of account of the code it asked about.
AskedSound(b) ==
    page[b].step >= 2 =>
        page[b].asking \in Codes /\ page[b].type = codes[page[b].asking].type /\ page[b].type # None

\* Unless the form was edited, every preview is of the form as it is.
PreviewSound(p) ==
    ~ p.edited =>
        /\ p.loading \subseteq {PreviewOf(p)}
        /\ p.pdf \in {None, PreviewOf(p)}
        /\ p.busy = "submit" \/ p.created => p.pdf = PreviewOf(p)

ShownSound ==
    /\ \A b \in Pages : SubmissionSound(b) /\ CreatedSound(b) /\ AskedSound(b) /\ PreviewSound(page[b])
    /\ \A a, b \in Pages : Distinct(a, b)

SignupInv == DossierInv /\ PagesSound /\ ShownSound

\* The form of a page that waits, or that is done, is filled in.
LEMMA FormFilled ==
    ASSUME PagesSound, NEW b \in Pages, page[b].busy = "submit" \/ page[b].created
    PROVE  /\ page[b].step = Last /\ page[b].step >= 2
           /\ page[b].form.code \in Codes /\ page[b].form.email \in Emails
           /\ page[b].busy = "submit" => page[b].call \in Calls /\ ~ page[b].created
<1>1. page[b] \in Page /\ RowSound(page[b])
    BY DEF PagesSound, PageSound
<1>2. page[b].step = Last /\ page[b].step >= 2 /\ page[b].step >= 3
    BY <1>1, StepNames DEF RowSound
<1> QED BY <1>1, <1>2 DEF RowSound, Page, Form

\* A page that is done stays right about the account, whatever the bank does.
LEMMA CreatedStays ==
    ASSUME SignupInv, [Next]_vars, NEW b \in Pages, page'[b] = page[b]
    PROVE  CreatedSound(b)'
<1>1. PagesSound /\ AccountInv /\ CreatedSound(b)
    BY DEF SignupInv, DossierInv, ShownSound
<1> SUFFICES ASSUME page[b].created
             PROVE  /\ users'[page[b].form.email].via = page[b].form.code
                    /\ users'[page[b].form.email].type = codes'[page[b].form.code].type
                    /\ \A s \in Sections : users'[page[b].form.email].saved[s] # None
    BY DEF CreatedSound, OpenFor, Incomplete
<1>2. page[b].form.code \in Codes /\ page[b].form.email \in Emails
    BY <1>1, FormFilled
<1>3. OpenFor(page[b].form) /\ \A s \in Sections : users[page[b].form.email].saved[s] # None
    BY <1>1 DEF CreatedSound, Incomplete
<1> QED BY <1>1, <1>2, <1>3, OpenForKept

LEMMA AskedStays ==
    ASSUME SignupInv, [Next]_vars, NEW b \in Pages, page'[b] = page[b]
    PROVE  AskedSound(b)'
<1>1. AccountInv /\ AskedSound(b)
    BY DEF SignupInv, DossierInv, ShownSound
<1> QED BY <1>1, CodeKept DEF AskedSound

\* The bank goes on with the call of a page, or leaves it.
LEMMA SubmissionStays ==
    ASSUME SignupInv, [Next]_vars, NEW b \in Pages, page'[b] = page[b],
           page[b].busy = "submit" => Background \/ call'[page[b].call] = call[page[b].call]
    PROVE  SubmissionSound(b)'
<1> DEFINE k == page[b].call
           f == page[b].form
<1>1. PagesSound /\ DossierInv /\ AccountInv /\ SubmissionSound(b)
    BY DEF SignupInv, DossierInv, ShownSound
<1> SUFFICES ASSUME page[b].busy = "submit"
             PROVE  /\ call'[k].pc \in {"code", "count", "create", "dossier"} =>
                         call'[k].code = f.code /\ call'[k].email = f.email
                    /\ call'[k].pc \in {"count", "create"} => call'[k].type = codes'[f.code].type
                    /\ call'[k].pc \in {"dossier", "ok"} =>
                         users'[f.email].via = f.code /\ users'[f.email].type = codes'[f.code].type
                    /\ call'[k].pc = "ok" => \A s \in Sections : users'[f.email].saved[s] # None
    BY DEF SubmissionSound, OpenFor, Incomplete, Runs
<1>2. k \in Calls /\ f.code \in Codes /\ f.email \in Emails
    BY <1>1, FormFilled
<1>3. /\ Runs(k) => call[k].code = f.code /\ call[k].email = f.email
      /\ call[k].pc \in {"count", "create"} => call[k].type = codes[f.code].type
      /\ call[k].pc \in {"dossier", "ok"} => OpenFor(f)
      /\ call[k].pc = "ok" => \A s \in Sections : users[f.email].saved[s] # None
    BY <1>1 DEF SubmissionSound, Incomplete
<1> HIDE DEF k, f
<1>4. OpenFor(f) => /\ users'[f.email].via = f.code /\ users'[f.email].type = codes'[f.code].type
                    /\ \A s \in Sections : users[f.email].saved[s] # None => users'[f.email].saved[s] # None
    BY <1>1, <1>2, OpenForKept
<1>5. call[k].pc \in {"count", "create"} => call[k].type \in Types /\ call[k].type # None
    BY <1>1, <1>2, KeysAssumption DEF AccountInv, Sound, CallSound
<1>6. codes[f.code].type # None => codes'[f.code].type = codes[f.code].type
    BY <1>1, <1>2, CodeKept
<1>7. CASE call'[k] = call[k]
    BY <1>3, <1>4, <1>5, <1>6, <1>7 DEF Runs
<1>8. CASE Background
    <2>1. call'[k].pc \in {"code", "count", "create", "dossier"} =>
            Runs(k) /\ call'[k].code = call[k].code /\ call'[k].email = call[k].email
        BY <1>1, <1>2, <1>8, CallFollows
    <2>2. call'[k].pc \in {"count", "create"} =>
            \/ call[k].pc \in {"count", "create"} /\ call'[k].type = call[k].type
            \/ Redeemable(call[k].code) /\ call'[k].type = codes[call[k].code].type
        BY <1>1, <1>2, <1>8, CallFollows
    <2>3. /\ call'[k].pc = "dossier" => call[k].pc = "dossier" \/ Redeem(k)
          /\ call'[k].pc = "ok" => call[k].pc = "ok" \/ (SaveSection(k) /\ LastStep(k))
        BY <1>1, <1>2, <1>8, CallFollows
    <2>4. call'[k].pc \in {"count", "create"} => call'[k].type = codes'[f.code].type
        <3> SUFFICES ASSUME call'[k].pc \in {"count", "create"} PROVE call'[k].type = codes'[f.code].type
            OBVIOUS
        <3>1. call[k].code = f.code
            BY <1>3, <2>1
        <3>2. CASE call[k].pc \in {"count", "create"} /\ call'[k].type = call[k].type
            BY <1>3, <1>5, <1>6, <3>2
        <3>3. CASE Redeemable(call[k].code) /\ call'[k].type = codes[call[k].code].type
            BY <1>6, <3>1, <3>3 DEF Redeemable
        <3> QED BY <2>2, <3>2, <3>3
    <2>5. Redeem(k) => users'[f.email].via = f.code /\ users'[f.email].type = codes'[f.code].type
        <3> SUFFICES ASSUME Redeem(k)
                     PROVE  users'[f.email].via = f.code /\ users'[f.email].type = codes'[f.code].type
            OBVIOUS
        <3>1. call[k].pc = "create" /\ users' = Opened(call[k].email, call[k].type, call[k].code)
            BY DEF Redeem
        <3>2. call[k].code = f.code /\ call[k].email = f.email
            BY <1>3, <3>1 DEF Runs
        <3>3. users'[f.email].type = call[k].type /\ users'[f.email].via = f.code
            BY <1>1, <1>2, <3>1, <3>2, OpenedBecause DEF AccountInv
        <3> QED BY <1>3, <1>5, <1>6, <3>1, <3>3
    <2>6. SaveSection(k) /\ LastStep(k) =>
            OpenFor(f) /\ \A s \in Sections : users'[f.email].saved[s] # None
        <3> SUFFICES ASSUME SaveSection(k), LastStep(k)
                     PROVE  OpenFor(f) /\ \A s \in Sections : users'[f.email].saved[s] # None
            OBVIOUS
        <3>1. call[k].pc = "dossier"
            BY DEF SaveSection
        <3>2. call[k].email = f.email /\ OpenFor(f)
            BY <1>3, <3>1 DEF Runs
        <3>3. ~ \E s \in Sections : users'[f.email].saved[s] = None
            <4>1. ASSUME NEW e \in Emails, e = f.email PROVE ~ \E s \in Sections : users'[e].saved[s] = None
                <5>1. ~ Incomplete(e)'
                    BY <1>1, <1>2, <3>2, <4>1, LastSaves
                <5> QED BY <5>1 DEF Incomplete
            <4> QED BY <1>2, <4>1
        <3> QED BY <3>2, <3>3
    <2>7. call'[k].pc \in {"dossier", "ok"} => OpenFor(f) \/ Redeem(k)
        BY <1>3, <2>3, <2>6
    <2>8. call'[k].pc = "ok" => \A s \in Sections : users'[f.email].saved[s] # None
        BY <1>3, <1>4, <2>3, <2>6
    <2> QED BY <1>3, <1>4, <2>1, <2>4, <2>5, <2>7, <2>8
<1> QED BY <1>7, <1>8 DEF k

-----------------------------------------------------------------------------
(* What the steps of a page do to what it shows. *)

\* The pages stay as they are beside the one that steps, and only its submission and its
\* answer are steps of the bank.
LEMMA StepShape ==
    ASSUME TypeOK, PagesSound, NEW b \in Pages, WizardStep(b)
    PROVE  /\ \A a \in Pages : a # b => page'[a] = page[a]
           /\ UNCHANGED <<codes, users>>
           /\ \/ UNCHANGED call
              \/ \E k \in Calls : Submit(b, k) /\ \A l \in Calls : l # k => call'[l] = call[l]
              \/ Answered(b) /\ \A l \in Calls : l # page[b].call => call'[l] = call[l]
<1>0. call \in [Calls -> Call]
    BY DEF TypeOK
<1>1. page \in [Pages -> Page]
    BY DEF PagesSound
<1>2. CASE \/ (\E c \in Codes : TypeCode(b, c)) \/ AskCode(b) \/ CodeAnswered(b) \/ CodeRefused(b)
           \/ (\E f \in page[b].loading : PdfAnswered(b, f) \/ PdfFails(b, f)) \/ AskPdf(b)
           \/ AnswerLost(b) \/ NextStep(b) \/ PreviousStep(b)
    BY <1>1, <1>2 DEF TypeCode, AskCode, CodeAnswered, CodeRefused, PdfAnswered, PdfFails, AskPdf, AnswerLost,
                      NextStep, PreviousStep, Moved, BankUnchanged, vars
<1>3. CASE (\E e \in Emails : TypeEmail(b, e)) \/ (\E d \in Dossiers : Fill(b, d))
    BY <1>1, <1>3 DEF TypeEmail, Fill, Enter, BankUnchanged, vars
<1>4. ASSUME NEW k \in Calls, Submit(b, k)
      PROVE  /\ \A a \in Pages : a # b => page'[a] = page[a]
             /\ UNCHANGED <<codes, users>> /\ \A l \in Calls : l # k => call'[l] = call[l]
    <2>1. /\ page' = [page EXCEPT ![b].busy = "submit", ![b].call = k]
          /\ \E c, e, d : StartRedeem(k, c, e, d)
        BY <1>4 DEF Submit
    <2>2. \A a \in Pages : a # b => page'[a] = page[a]
        BY <1>1, <2>1
    <2>3. UNCHANGED <<codes, users>> /\ \E r : call' = [call EXCEPT ![k] = r]
        BY <2>1 DEF StartRedeem, Answer
    <2>4. \A l \in Calls : l # k => call'[l] = call[l]
        BY <2>3, <1>0
    <2> QED BY <2>2, <2>3, <2>4
<1>5. CASE Answered(b)
    BY <1>0, <1>1, <1>5 DEF Answered, Reply
<1> QED BY <1>2, <1>3, <1>4, <1>5 DEF WizardStep

\* Entries and kinds of account that are not in a preview.
LEMMA EditedOrSame ==
    ASSUME NEW b \in Pages, page[b] \in Page, PreviewSound(page[b]), NEW form \in Form, NEW t,
           ~ Edited(b, form, t)
    PROVE  /\ ~ page[b].edited
           /\ \/ page[b].pdf = None /\ page[b].loading = {}
              \/ form.email = page[b].form.email /\ form.dossier = page[b].form.dossier /\ t = page[b].type
BY DEF Edited

LEMMA PreviewStep ==
    ASSUME PagesSound, NEW b \in Pages, WizardStep(b), PreviewSound(page[b])
    PROVE  PreviewSound(page'[b])
<1>1. page \in [Pages -> Page] /\ page[b] \in Page /\ RowSound(page[b])
    BY DEF PagesSound, PageSound
<1>2. page[b].step \in 1..Last /\ (page[b].busy = "submit" \/ page[b].created => page[b].step = Last)
    BY <1>1 DEF RowSound
<1>3. page[b].form \in Form
    BY <1>1 DEF Page
<1>4. ASSUME NEW c \in Codes, TypeCode(b, c)
      PROVE  PreviewSound(page'[b])
    <2>1. page'[b] = [page[b] EXCEPT !.form = [page[b].form EXCEPT !.code = c]]
        BY <1>1, <1>4 DEF TypeCode
    <2> QED BY <1>1, <1>3, <2>1 DEF PreviewSound, PreviewOf, Page, Form
<1>5. CASE AskCode(b) \/ CodeRefused(b) \/ AnswerLost(b)
    <2>1. /\ page'[b].form = page[b].form /\ page'[b].type = page[b].type /\ page'[b].edited = page[b].edited
          /\ page'[b].loading = page[b].loading /\ page'[b].pdf = page[b].pdf
          /\ page'[b].busy # "submit" /\ page'[b].created = page[b].created
        BY <1>1, <1>5 DEF AskCode, CodeRefused, AnswerLost, Page
    <2> QED BY <2>1 DEF PreviewSound, PreviewOf
<1>6. CASE NextStep(b) \/ PreviousStep(b)
    <2>1. /\ page'[b].form = page[b].form /\ page'[b].type = page[b].type /\ page'[b].edited = page[b].edited
          /\ page'[b].loading = page[b].loading /\ page'[b].pdf = page[b].pdf
          /\ page'[b].busy = page[b].busy /\ page'[b].created = page[b].created
        BY <1>1, <1>6 DEF NextStep, PreviousStep, Moved, Page
    <2> QED BY <2>1 DEF PreviewSound, PreviewOf
<1>7. CASE CodeAnswered(b)
    <2> DEFINE t == codes[page[b].asking].type
    <2>1. /\ page'[b].form = page[b].form /\ page'[b].type = t
          /\ page'[b].loading = page[b].loading /\ page'[b].pdf = page[b].pdf
          /\ page'[b].busy = "no" /\ page'[b].created = page[b].created
        BY <1>1, <1>7 DEF CodeAnswered, Page
    <2>2. page'[b].edited = Edited(b, page[b].form, t)
        BY <1>1, <1>7 DEF CodeAnswered, Page
    <2> HIDE DEF t
    <2>3. ~ page[b].created
        BY <1>7, <1>1, StepNames DEF CodeAnswered, RowSound
    <2>4. page'[b].edited \/ (~ page[b].edited /\ ((page[b].pdf = None /\ page[b].loading = {}) \/ t = page[b].type))
        BY <1>1, <1>3, <2>2, EditedOrSame
    <2> QED BY <2>1, <2>3, <2>4 DEF PreviewSound, PreviewOf
<1>8. ASSUME NEW form \in Form, Enter(b, form), page[b].step < Last
      PROVE  PreviewSound(page'[b])
    <2>1. /\ page'[b].form = form /\ page'[b].type = page[b].type
          /\ page'[b].loading = page[b].loading /\ page'[b].pdf = page[b].pdf
          /\ page'[b].busy = page[b].busy /\ page'[b].created = page[b].created
        BY <1>1, <1>8 DEF Enter, Page
    <2>2. page'[b].edited = Edited(b, form, page[b].type)
        BY <1>1, <1>8 DEF Enter, Page
    <2>3. ~ page[b].created /\ page[b].busy # "submit"
        BY <1>2, <1>8, StepNames
    <2>4. \/ page'[b].edited
          \/ /\ ~ page[b].edited
             /\ \/ page[b].pdf = None /\ page[b].loading = {}
                \/ form.email = page[b].form.email /\ form.dossier = page[b].form.dossier
        BY <1>1, <2>2, EditedOrSame
    <2> QED BY <2>1, <2>3, <2>4 DEF PreviewSound, PreviewOf
<1>9. CASE (\E e \in Emails : TypeEmail(b, e)) \/ (\E d \in Dossiers : Fill(b, d))
    <2>1. ASSUME NEW e \in Emails, TypeEmail(b, e) PROVE PreviewSound(page'[b])
        <3>1. page[b].step < Last
            BY <1>2, <2>1, StepNames DEF TypeEmail, On
        <3>2. [page[b].form EXCEPT !.email = e] \in Form
            BY <1>3 DEF Form
        <3> QED BY <1>8, <2>1, <3>1, <3>2 DEF TypeEmail
    <2>2. ASSUME NEW d \in Dossiers, Fill(b, d) PROVE PreviewSound(page'[b])
        <3>1. PICK s \in Sections : On(b, s)
            BY <2>2 DEF Fill
        <3>2. s # "recap"
            BY <3>1, DossierAssumption DEF Sections
        <3>3. page[b].step < Last
            BY <1>2, <3>1, <3>2, StepNames DEF On
        <3>4. [page[b].form EXCEPT !.dossier = d] \in Form
            BY <1>3 DEF Form
        <3> QED BY <1>8, <2>2, <3>3, <3>4 DEF Fill
    <2> QED BY <1>9, <2>1, <2>2
<1>10. CASE AskPdf(b)
    <2>1. /\ page'[b].form = page[b].form /\ page'[b].type = page[b].type /\ page'[b].edited = page[b].edited
          /\ page'[b].loading = page[b].loading \cup {PreviewOf(page[b])} /\ page'[b].pdf = page[b].pdf
          /\ page'[b].busy = page[b].busy /\ page'[b].created = page[b].created
        BY <1>1, <1>10 DEF AskPdf, Page
    <2> QED BY <2>1 DEF PreviewSound, PreviewOf
<1>11. ASSUME NEW f \in page[b].loading, PdfAnswered(b, f) \/ PdfFails(b, f)
       PROVE  PreviewSound(page'[b])
    <2>1. /\ page'[b].form = page[b].form /\ page'[b].type = page[b].type /\ page'[b].edited = page[b].edited
          /\ page'[b].loading = page[b].loading \ {f} /\ page'[b].pdf \in {f, page[b].pdf}
          /\ page'[b].busy = page[b].busy /\ page'[b].created = page[b].created
        BY <1>1, <1>11 DEF PdfAnswered, PdfFails, Page
    <2>2. PreviewOf(page'[b]) = PreviewOf(page[b])
        BY <2>1 DEF PreviewOf
    <2> QED BY <1>11, <2>1, <2>2 DEF PreviewSound
<1>12. ASSUME NEW k \in Calls, Submit(b, k)
       PROVE  PreviewSound(page'[b])
    <2>1. /\ page'[b].form = page[b].form /\ page'[b].type = page[b].type /\ page'[b].edited = page[b].edited
          /\ page'[b].loading = page[b].loading /\ page'[b].pdf = page[b].pdf
        BY <1>1, <1>12 DEF Submit, Page
    <2>2. PreviewOf(page'[b]) = PreviewOf(page[b])
        BY <2>1 DEF PreviewOf
    <2>3. page[b].pdf # None
        BY <1>12 DEF Submit, MaySubmit
    <2> QED BY <2>1, <2>2, <2>3 DEF PreviewSound
<1>13. CASE Answered(b)
    <2>1. /\ page'[b].form = page[b].form /\ page'[b].type = page[b].type /\ page'[b].edited = page[b].edited
          /\ page'[b].loading = page[b].loading /\ page'[b].pdf = page[b].pdf /\ page[b].busy = "submit"
        BY <1>1, <1>13 DEF Answered, Page
    <2>2. PreviewOf(page'[b]) = PreviewOf(page[b])
        BY <2>1 DEF PreviewOf
    <2> QED BY <2>1, <2>2 DEF PreviewSound
<1> HIDE DEF PreviewSound
<1> QED BY <1>4, <1>5, <1>6, <1>7, <1>9, <1>10, <1>11, <1>12, <1>13 DEF WizardStep

LEMMA AskedStep ==
    ASSUME TypeOK, PagesSound, NEW b \in Pages, WizardStep(b), AskedSound(b)
    PROVE  AskedSound(b)'
<1>1. page \in [Pages -> Page] /\ page[b] \in Page /\ RowSound(page[b]) /\ codes' = codes
    BY StepShape DEF PagesSound, PageSound
<1>2. page[b].step \in 1..Last
    BY <1>1 DEF RowSound
<1> SUFFICES ASSUME page'[b].step >= 2
             PROVE  /\ page'[b].asking \in Codes /\ page'[b].type = codes[page'[b].asking].type
                    /\ page'[b].type # None
    BY <1>1 DEF AskedSound
<1>3. CASE page'[b].asking = page[b].asking /\ page'[b].type = page[b].type /\ page[b].step >= 2
    BY <1>3 DEF AskedSound
<1>4. CASE AskCode(b) \/ CodeRefused(b) \/ \E c \in Codes : TypeCode(b, c)
    <2>1. page'[b].step = page[b].step /\ page[b].step = 1
        BY <1>1, <1>2, <1>4, StepNames DEF AskCode, CodeRefused, TypeCode, On, RowSound, Page
    <2> QED BY <2>1
<1>5. CASE CodeAnswered(b)
    <2>1. page'[b].asking = page[b].asking /\ page'[b].type = codes[page[b].asking].type
        BY <1>1, <1>5 DEF CodeAnswered, Page
    <2>2. page[b].asking \in Codes /\ codes[page[b].asking].type # None
        BY <1>1, <1>5 DEF CodeAnswered, Redeemable, RowSound, Page
    <2> QED BY <2>1, <2>2
<1>6. CASE NextStep(b) \/ PreviousStep(b)
    <2>1. page'[b].asking = page[b].asking /\ page'[b].type = page[b].type
        BY <1>1, <1>6 DEF NextStep, PreviousStep, Moved, Page
    <2>2. page[b].step # 1
        BY <1>6, StepNames DEF NextStep, PreviousStep, On
    <2> QED BY <1>2, <1>3, <2>1, <2>2, StepNames
<1>7. CASE (\E e \in Emails : TypeEmail(b, e)) \/ (\E d \in Dossiers : Fill(b, d))
    <2>1. \A form : Enter(b, form) =>
            page'[b].asking = page[b].asking /\ page'[b].type = page[b].type /\ page'[b].step = page[b].step
        BY <1>1 DEF Enter, Page
    <2>2. page'[b].asking = page[b].asking /\ page'[b].type = page[b].type /\ page'[b].step = page[b].step
        BY <1>7, <2>1 DEF TypeEmail, Fill
    <2> QED BY <1>3, <2>2
<1>8. CASE \/ AskPdf(b) \/ (\E f \in page[b].loading : PdfAnswered(b, f) \/ PdfFails(b, f))
           \/ (\E k \in Calls : Submit(b, k)) \/ Answered(b) \/ AnswerLost(b)
    <2> DEFINE Same == page'[b].asking = page[b].asking /\ page'[b].type = page[b].type /\ page'[b].step = page[b].step
    <2>1. AskPdf(b) => Same
        BY <1>1 DEF AskPdf, Page
    <2>2. ASSUME NEW f \in page[b].loading, PdfAnswered(b, f) \/ PdfFails(b, f) PROVE Same
        BY <1>1, <2>2 DEF PdfAnswered, PdfFails, Page
    <2>3. ASSUME NEW k \in Calls, Submit(b, k) PROVE Same
        BY <1>1, <2>3 DEF Submit, Page
    <2>4. Answered(b) => Same
        BY <1>1 DEF Answered, Page
    <2>5. AnswerLost(b) => Same
        BY <1>1 DEF AnswerLost, Page
    <2> HIDE DEF Same
    <2>6. Same
        BY <1>8, <2>1, <2>2, <2>3, <2>4, <2>5
    <2> QED BY <1>3, <2>6 DEF Same
<1> QED BY <1>4, <1>5, <1>6, <1>7, <1>8 DEF WizardStep

LEMMA SubmissionStep ==
    ASSUME SignupInv, [Next]_vars, NEW b \in Pages, WizardStep(b)
    PROVE  SubmissionSound(b)' /\ CreatedSound(b)'
<1>1. TypeOK /\ PagesSound /\ PageSound(b) /\ SubmissionSound(b) /\ CreatedSound(b)
    BY DEF SignupInv, DossierInv, AccountInv, ShownSound, PagesSound
<1>2. page \in [Pages -> Page] /\ page[b] \in Page /\ RowSound(page[b]) /\ page[b].step \in 1..Last
      /\ call \in [Calls -> Call]
    BY <1>1 DEF TypeOK, PagesSound, PageSound, RowSound
<1>3. UNCHANGED <<codes, users>>
    BY <1>1, StepShape
<1>4. CASE page'[b].busy # "submit" /\ ~ page'[b].created
    BY <1>4 DEF SubmissionSound, CreatedSound
<1>5. CASE /\ page'[b].busy = page[b].busy /\ page'[b].created = page[b].created /\ page'[b].form = page[b].form
           /\ page'[b].call = page[b].call /\ call' = call
    BY <1>1, <1>3, <1>5 DEF SubmissionSound, CreatedSound, OpenFor, Incomplete, Runs
<1>7. CASE (\E c \in Codes : TypeCode(b, c)) \/ AskCode(b) \/ CodeAnswered(b) \/ CodeRefused(b)
    <2>1. page[b].step = 1 /\ 1 # Last
        BY <1>2, <1>7, StepNames DEF TypeCode, AskCode, CodeAnswered, CodeRefused, On, RowSound
    <2>2. page[b].busy # "submit" /\ ~ page[b].created
        BY <1>2, <2>1 DEF RowSound
    <2>3. page'[b].busy \in {"no", "validate", page[b].busy} /\ page'[b].created = page[b].created
        BY <1>2, <1>7 DEF TypeCode, AskCode, CodeAnswered, CodeRefused, Page
    <2> QED BY <1>4, <2>2, <2>3
<1>8. CASE (\E e \in Emails : TypeEmail(b, e)) \/ (\E d \in Dossiers : Fill(b, d))
    <2>1. \E s \in Sections \cup {"credentials"} : On(b, s)
        BY <1>8 DEF TypeEmail, Fill
    <2>2. \A s \in Sections \cup {"credentials"} : s # "recap"
        BY DossierAssumption DEF Sections
    <2>3. page[b].step # Last
        BY <2>1, <2>2, StepNames DEF On
    <2>4. page[b].busy # "submit" /\ ~ page[b].created
        BY <1>2, <2>3 DEF RowSound
    <2>5. \A form : Enter(b, form) => page'[b].busy = page[b].busy /\ page'[b].created = page[b].created
        BY <1>2 DEF Enter, Page
    <2>6. page'[b].busy = page[b].busy /\ page'[b].created = page[b].created
        BY <1>8, <2>5 DEF TypeEmail, Fill
    <2> QED BY <1>4, <2>4, <2>6
<1>9. CASE NextStep(b) \/ PreviousStep(b)
    <2>1. /\ page'[b].busy = page[b].busy /\ page'[b].created = page[b].created /\ page'[b].form = page[b].form
          /\ page'[b].call = page[b].call
        BY <1>2, <1>9 DEF NextStep, PreviousStep, Moved, Page
    <2>2. call' = call
        BY <1>9 DEF NextStep, PreviousStep, BankUnchanged, vars
    <2> QED BY <1>5, <2>1, <2>2
<1>10. CASE AskPdf(b) \/ (\E f \in page[b].loading : PdfAnswered(b, f) \/ PdfFails(b, f))
    <2> DEFINE Same ==
            /\ page'[b].busy = page[b].busy /\ page'[b].created = page[b].created /\ page'[b].form = page[b].form
            /\ page'[b].call = page[b].call /\ call' = call
    <2>1. AskPdf(b) => Same
        BY <1>2 DEF AskPdf, Page, BankUnchanged, vars
    <2>2. ASSUME NEW f \in page[b].loading, PdfAnswered(b, f) \/ PdfFails(b, f) PROVE Same
        BY <1>2, <2>2 DEF PdfAnswered, PdfFails, Page, BankUnchanged, vars
    <2> HIDE DEF Same
    <2>3. Same
        BY <1>10, <2>1, <2>2
    <2> QED BY <1>5, <2>3 DEF Same
<1>11. ASSUME NEW k \in Calls, Submit(b, k)
       PROVE  SubmissionSound(b)' /\ CreatedSound(b)'
    <2>1. /\ page'[b].busy = "submit" /\ page'[b].form = page[b].form /\ page'[b].call = k
          /\ page'[b].created = page[b].created
        BY <1>2, <1>11 DEF Submit, Page
    <2>2. ~ page[b].created
        BY <1>11 DEF Submit, On
    <2>3. \/ call'[k].pc = "error"
          \/ call'[k].pc = "code" /\ call'[k].code = page[b].form.code /\ call'[k].email = page[b].form.email
        <3>1. StartRedeem(k, page[b].form.code, page[b].form.email, page[b].form.dossier)
            BY <1>11 DEF Submit
        <3> QED BY <1>2, <3>1 DEF StartRedeem, Answer, IdleCall
    <2>4. CreatedSound(b)'
        BY <2>1, <2>2 DEF CreatedSound
    <2>5. SubmissionSound(b)'
        BY <2>1, <2>3 DEF SubmissionSound, Runs
    <2> QED BY <2>4, <2>5
<1>12. CASE Answered(b)
    <2>1. /\ page'[b].busy = "no" /\ page'[b].form = page[b].form /\ page'[b].created = Opens(page[b].call)
          /\ page[b].busy = "submit"
        BY <1>2, <1>12 DEF Answered, Page
    <2>2. Opens(page[b].call) => OpenFor(page[b].form) /\ ~ Incomplete(page[b].form.email)
        BY <1>1, <2>1 DEF SubmissionSound, Opens
    <2>3. CreatedSound(b)'
        BY <1>3, <2>1, <2>2 DEF CreatedSound, OpenFor, Incomplete
    <2>4. SubmissionSound(b)'
        BY <2>1 DEF SubmissionSound
    <2> QED BY <2>3, <2>4
<1>13. CASE AnswerLost(b)
    <2>1. page'[b].busy = "no" /\ page'[b].created = page[b].created /\ ~ page[b].created
        BY <1>2, <1>13 DEF AnswerLost, Page, RowSound
    <2> QED BY <1>4, <2>1
<1> QED BY <1>7, <1>8, <1>9, <1>10, <1>11, <1>12, <1>13 DEF WizardStep

\* Only a submission makes a page wait for one.
LEMMA BusyStep ==
    ASSUME PagesSound, NEW c \in Pages, WizardStep(c), ~ \E k \in Calls : Submit(c, k)
    PROVE  page'[c].busy = "submit" => page[c].busy = "submit" /\ page'[c].call = page[c].call
<1> DEFINE Goal == page'[c].busy = "submit" => page[c].busy = "submit" /\ page'[c].call = page[c].call
<1> SUFFICES Goal
    OBVIOUS
<1>1. page \in [Pages -> Page] /\ page[c] \in Page
    BY DEF PagesSound
<1>2. \A d \in Codes : TypeCode(c, d) => Goal
    BY <1>1 DEF TypeCode, Page
<1>3. AskCode(c) \/ CodeAnswered(c) \/ CodeRefused(c) \/ Answered(c) \/ AnswerLost(c) => Goal
    BY <1>1 DEF AskCode, CodeAnswered, CodeRefused, Answered, AnswerLost, Page
<1>4. \A form : Enter(c, form) => Goal
    BY <1>1 DEF Enter, Page
<1>5. NextStep(c) \/ PreviousStep(c) => Goal
    BY <1>1 DEF NextStep, PreviousStep, Moved, Page
<1>6. AskPdf(c) => Goal
    BY <1>1 DEF AskPdf, Page
<1>7. \A f \in page[c].loading : PdfAnswered(c, f) \/ PdfFails(c, f) => Goal
    BY <1>1 DEF PdfAnswered, PdfFails, Page
<1> HIDE DEF Goal
<1>8. (\E e \in Emails : TypeEmail(c, e)) \/ (\E d \in Dossiers : Fill(c, d)) => Goal
    BY <1>4 DEF TypeEmail, Fill
<1> QED BY <1>2, <1>3, <1>5, <1>6, <1>7, <1>8 DEF WizardStep

LEMMA DistinctStep ==
    ASSUME SignupInv, [WizardNext]_wizardVars, NEW a \in Pages, NEW b \in Pages
    PROVE  Distinct(a, b)'
<1>1. PagesSound /\ TypeOK /\ Distinct(a, b) /\ page \in [Pages -> Page]
    BY DEF SignupInv, DossierInv, AccountInv, ShownSound, PagesSound
<1>2. CASE UNCHANGED page
    BY <1>1, <1>2 DEF Distinct
<1>3. ASSUME NEW c \in Pages, WizardStep(c), c # a \/ c # b
      PROVE  Distinct(a, b)'
    <2>1. \A d \in Pages : d # c => page'[d] = page[d]
        BY <1>1, <1>3, StepShape
    <2>2. CASE \E k \in Calls : Submit(c, k)
        <3>1. PICK k \in Calls : Submit(c, k)
            BY <2>2
        <3>2. page'[c].call = k /\ \A d \in Pages : page[d].call # k
            BY <1>1, <3>1 DEF Submit, Unheard, Page
        <3>3. CASE c = a
            BY <2>1, <3>2, <3>3 DEF Distinct
        <3>4. CASE c = b
            BY <2>1, <3>2, <3>4 DEF Distinct
        <3>5. CASE c # a /\ c # b
            BY <1>1, <2>1, <3>5 DEF Distinct
        <3> QED BY <3>3, <3>4, <3>5
    <2>3. CASE ~ \E k \in Calls : Submit(c, k)
        <3>1. page'[c].busy = "submit" => page[c].busy = "submit" /\ page'[c].call = page[c].call
            BY <1>1, <1>3, <2>3, BusyStep
        <3> QED BY <1>1, <1>3, <2>1, <3>1 DEF Distinct
    <2> QED BY <2>2, <2>3
<1>4. CASE a = b
    BY <1>4 DEF Distinct
<1>5. CASE \E c \in Pages : WizardStep(c)
    BY <1>3, <1>4, <1>5
<1> QED BY <1>2, <1>5 DEF WizardNext, ReplyUnheard, wizardVars

LEMMA ShownStep == SignupInv /\ [Next]_vars /\ [WizardNext]_wizardVars => ShownSound'
<1> SUFFICES ASSUME SignupInv, [Next]_vars, [WizardNext]_wizardVars PROVE ShownSound'
    OBVIOUS
<1>1. PagesSound /\ TypeOK /\ ShownSound /\ page \in [Pages -> Page]
    BY DEF SignupInv, DossierInv, AccountInv, PagesSound
<1>2. ASSUME NEW b \in Pages, page'[b] = page[b],
             page[b].busy = "submit" => Background \/ call'[page[b].call] = call[page[b].call]
      PROVE  SubmissionSound(b)' /\ CreatedSound(b)' /\ AskedSound(b)' /\ PreviewSound(page'[b])
    <2>1. PreviewSound(page[b])
        BY <1>1 DEF ShownSound
    <2> QED BY <1>2, <2>1, SubmissionStays, CreatedStays, AskedStays
<1>3. ASSUME NEW b \in Pages, WizardStep(b)
      PROVE  SubmissionSound(b)' /\ CreatedSound(b)' /\ AskedSound(b)' /\ PreviewSound(page'[b])
    <2>1. AskedSound(b) /\ PreviewSound(page[b])
        BY <1>1 DEF ShownSound
    <2> QED BY <1>1, <1>3, <2>1, SubmissionStep, AskedStep, PreviewStep
<1>4. ASSUME NEW b \in Pages, NEW c \in Pages, WizardStep(c), c # b
      PROVE  SubmissionSound(b)' /\ CreatedSound(b)' /\ AskedSound(b)' /\ PreviewSound(page'[b])
    <2>1. page'[b] = page[b]
        BY <1>1, <1>4, StepShape
    <2>2. ASSUME page[b].busy = "submit" PROVE call'[page[b].call] = call[page[b].call]
        <3>1. page[b].call \in Calls
            BY <1>1, <2>2, FormFilled
        <3>2. CASE UNCHANGED call
            BY <3>2
        <3>3. ASSUME NEW k \in Calls, Submit(c, k), \A l \in Calls : l # k => call'[l] = call[l]
              PROVE  call'[page[b].call] = call[page[b].call]
            BY <3>1, <3>3 DEF Submit, Unheard
        <3>4. CASE Answered(c) /\ \A l \in Calls : l # page[c].call => call'[l] = call[l]
            <4>1. page[b].call # page[c].call
                BY <1>1, <1>4, <2>2, <3>4 DEF ShownSound, Distinct, Answered
            <4> QED BY <3>1, <3>4, <4>1
        <3> QED BY <1>1, <1>4, <3>2, <3>3, <3>4, StepShape
    <2> QED BY <1>2, <2>1, <2>2
<1>5. ASSUME NEW b \in Pages, NEW k \in Calls, ReplyUnheard(k)
      PROVE  SubmissionSound(b)' /\ CreatedSound(b)' /\ AskedSound(b)' /\ PreviewSound(page'[b])
    <2>1. page'[b] = page[b] /\ page[b].call # k /\ call' = [call EXCEPT ![k] = IdleCall]
        BY <1>5 DEF ReplyUnheard, Unheard, Reply
    <2>2. page[b].busy = "submit" => page[b].call \in Calls
        BY <1>1, FormFilled
    <2>3. page[b].busy = "submit" => call'[page[b].call] = call[page[b].call]
        BY <1>1, <2>1, <2>2 DEF TypeOK
    <2> QED BY <1>2, <2>1, <2>3
<1>6. ASSUME NEW b \in Pages
      PROVE  SubmissionSound(b)' /\ CreatedSound(b)' /\ AskedSound(b)' /\ PreviewSound(page'[b])
    <2>1. CASE UNCHANGED wizardVars
        BY <1>2, <2>1 DEF wizardVars
    <2>2. CASE Background /\ UNCHANGED page
        BY <1>2, <2>2
    <2>3. CASE \E c \in Pages : WizardStep(c)
        BY <1>3, <1>4, <2>3
    <2>4. CASE \E k \in Calls : ReplyUnheard(k)
        BY <1>5, <2>4
    <2> QED BY <2>1, <2>2, <2>3, <2>4 DEF WizardNext
<1>7. \A a, b \in Pages : Distinct(a, b)'
    BY DistinctStep
<1>8. ASSUME NEW b \in Pages PROVE PreviewSound(page[b])'
    BY <1>6 DEF PreviewSound, PreviewOf
<1> QED BY <1>6, <1>7, <1>8 DEF ShownSound

LEMMA ShownStart == WizardInit => ShownSound
BY DEF WizardInit, ShownSound, SubmissionSound, CreatedSound, AskedSound, PreviewSound, Distinct, NewPage

LEMMA SignupInvariant == WizardSpec => []SignupInv
<1>1. WizardSpec => []DossierInv
    BY WizardImplementsBank, DossierInvariant, PTL
<1>2. ShownSound /\ DossierInv /\ PagesSound /\ [WizardNext]_wizardVars => ShownSound'
    <2> SUFFICES ASSUME ShownSound, DossierInv, PagesSound, [WizardNext]_wizardVars PROVE ShownSound'
        OBVIOUS
    <2>1. [Next]_vars
        BY StepMaps
    <2> QED BY <2>1, ShownStep DEF SignupInv
<1>3. WizardInv => PagesSound
    BY DEF WizardInv
<1>4. SignupInv <=> DossierInv /\ PagesSound /\ ShownSound
    BY DEF SignupInv
<1> QED BY ShownStart, <1>1, <1>2, <1>3, <1>4, WizardInvariant, PTL DEF WizardSpec

\* Whoever is told that the account is open has it, by the code on the page and with
\* every section: for any number of pages, calls, restarts and answers lost.
THEOREM ToldTrue == WizardSpec => []ToldWhenOpen
<1>1. SignupInv => ToldWhenOpen
    BY DEF SignupInv, ShownSound, CreatedSound, OpenFor, Incomplete, ToldWhenOpen
<1> QED BY <1>1, SignupInvariant, PTL

\* What the client saw is what was opened, with the two exceptions that the property
\* names: for any number of pages, previews and answers in any order.
THEOREM RecapTrue == WizardSpec => []RecapHonest
<1>1. ASSUME SignupInv, NEW b \in Pages, page[b].created
      PROVE  /\ page[b].form.code = page[b].asking => users[page[b].form.email].type = page[b].type
             /\ ~ page[b].edited => page[b].pdf = PreviewOf(page[b])
    <2>1. page[b].step >= 2
        BY <1>1, FormFilled DEF SignupInv
    <2>2. AskedSound(b) /\ CreatedSound(b) /\ PreviewSound(page[b])
        BY <1>1 DEF SignupInv, ShownSound
    <2> QED BY <1>1, <2>1, <2>2 DEF AskedSound, CreatedSound, OpenFor, PreviewSound
<1>2. SignupInv => RecapHonest
    BY <1>1 DEF RecapHonest
<1> QED BY <1>2, SignupInvariant, PTL
=============================================================================
