---------------------------- MODULE SignupWizard ----------------------------
(***************************************************************************)
(* The pages on which invited clients open their account, over the bank of *)
(* module AccountOpening.  A page is a form of several steps; it asks the  *)
(* server three things: what a code is worth, a preview of the dossier,    *)
(* and at last the account.  The client goes on typing while an answer is  *)
(* on its way, unless the control is disabled, and an answer may be lost   *)
(* though the server did the work.                                         *)
(***************************************************************************)
EXTENDS AccountOpening

CONSTANTS
    Pages,        \* open pages
    MaxPreviews   \* bound on the previews under way on a page

ASSUME PagesAssumption == MaxPreviews \in Nat

VARIABLE page    \* what each page holds

wizardVars == <<page, codes, requests, users, call, approval, cut, changes>>

Steps == <<"code", "credentials">> \o DossierSteps \o <<"recap">>

\* What a page sends to open the account; redeem is sent no kind of account.
Form == [code : Codes \cup {None}, email : Emails \cup {None}, dossier : Dossiers \cup {None}]

EmptyForm == [code |-> None, email |-> None, dossier |-> None]

\* What a preview shows.
Preview == [email : Emails \cup {None}, type : Types \cup {None}, dossier : Dossiers \cup {None}]

PreviewOf(p) == [email |-> p.form.email, type |-> p.type, dossier |-> p.form.dossier]

\* asking, type: the code under validation, or validated last, and what it is worth;
\* pdf, loading: the preview shown and those under way; call: the submission;
\* edited: history, the form changed after a preview was asked.
Page == [step : Nat, form : Form,
         busy : {"no", "validate", "submit"}, asking : Codes \cup {None}, type : Types \cup {None},
         pdf : Preview \cup {None}, loading : SUBSET Preview, edited : BOOLEAN,
         call : Calls \cup {None}, created : BOOLEAN]

\* EMPTY_DATA
NewPage == [step |-> 1, form |-> EmptyForm,
            busy |-> "no", asking |-> None, type |-> None,
            pdf |-> None, loading |-> {}, edited |-> FALSE,
            call |-> None, created |-> FALSE]

WizardTypeOK == TypeOK /\ page \in [Pages -> Page]

WizardInit == Init /\ page = [b \in Pages |-> NewPage]

-----------------------------------------------------------------------------
On(b, step) == Steps[page[b].step] = step /\ ~ page[b].created

BankUnchanged == UNCHANGED vars

Moved(b, by) == page' = [page EXCEPT ![b].step = @ + by]

\* A preview has been asked that the change is not in.
Edited(b, form, type) ==
    \/ page[b].edited
    \/ /\ page[b].pdf # None \/ page[b].loading # {}
       /\ form.email # page[b].form.email \/ form.dossier # page[b].form.dossier \/ type # page[b].type

(* The code. *)

\* The field stays enabled while a code is validated.
TypeCode(b, c) ==
    /\ On(b, "code")
    /\ page' = [page EXCEPT ![b].form.code = c]
    /\ BankUnchanged

\* handleValidateCode
AskCode(b) ==
    /\ On(b, "code")
    /\ page[b].busy = "no"
    /\ page[b].form.code # None
    /\ page' = [page EXCEPT ![b].busy = "validate", ![b].asking = page[b].form.code]
    /\ BankUnchanged

CodeAnswered(b) ==
    LET c == page[b].asking IN
    /\ page[b].busy = "validate"
    /\ Redeemable(c)
    /\ page' = [page EXCEPT ![b].busy = "no", ![b].type = codes[c].type, ![b].step = @ + 1,
                            ![b].edited = Edited(b, page[b].form, codes[c].type)]
    /\ BankUnchanged

\* Refused by the server, or lost.
CodeRefused(b) ==
    /\ page[b].busy = "validate"
    /\ page' = [page EXCEPT ![b].busy = "no"]
    /\ BankUnchanged

-----------------------------------------------------------------------------
(* The form. *)

Enter(b, form) == page' = [page EXCEPT ![b].form = form, ![b].edited = Edited(b, form, page[b].type)]

TypeEmail(b, e) ==
    /\ On(b, "credentials")
    /\ Enter(b, [page[b].form EXCEPT !.email = e])
    /\ BankUnchanged

Fill(b, d) ==
    /\ \E s \in Sections : On(b, s)
    /\ Enter(b, [page[b].form EXCEPT !.dossier = d])
    /\ BankUnchanged

\* What each step asks for before the next.  Whoever has an entry has attested to it.
MayAdvance(b) ==
    /\ On(b, "credentials") => page[b].form.email # None
    /\ On(b, "aml") => page[b].form.dossier # None

NextStep(b) ==
    /\ ~ On(b, "code") /\ ~ On(b, "recap") /\ ~ page[b].created
    /\ MayAdvance(b)
    /\ Moved(b, 1)
    /\ BankUnchanged

\* Whatever was asked, shown or agreed to stays.
PreviousStep(b) ==
    /\ ~ On(b, "code") /\ ~ page[b].created
    /\ page[b].busy = "no"
    /\ Moved(b, -1)
    /\ BankUnchanged

-----------------------------------------------------------------------------
(* The recapitulation. *)

\* The first preview waits for its answer; with one on the page more may be asked.
AskPdf(b) ==
    /\ On(b, "recap")
    /\ Cardinality(page[b].loading) < MaxPreviews
    /\ page[b].pdf = None => page[b].loading = {}
    /\ page' = [page EXCEPT ![b].loading = @ \cup {PreviewOf(page[b])}]
    /\ BankUnchanged

\* previewPdf reads nothing of the bank.  Answers come in any order, on any step.
PdfAnswered(b, f) ==
    /\ f \in page[b].loading
    /\ page' = [page EXCEPT ![b].loading = @ \ {f}, ![b].pdf = f]
    /\ BankUnchanged

PdfFails(b, f) ==
    /\ f \in page[b].loading
    /\ page' = [page EXCEPT ![b].loading = @ \ {f}]
    /\ BankUnchanged

MaySubmit_Unread(b) == page[b].busy = "no"

\* The box of agreement may be ticked before anything is shown, and stays ticked: whoever
\* submits has ticked it.
MaySubmit(b) == page[b].busy = "no" /\ page[b].pdf # None

Unheard(k) == \A b \in Pages : page[b].call # k

\* handleFinalSubmit, up to its call of redeem.
Submit(b, k) ==
    LET f == page[b].form IN
    /\ On(b, "recap")
    /\ MaySubmit(b)
    /\ Unheard(k)
    /\ StartRedeem(k, f.code, f.email, f.dossier)
    /\ page' = [page EXCEPT ![b].busy = "submit", ![b].call = k]

Opens_AnyAnswer(k) == call[k].pc \in {"ok", "error"}

Opens(k) == call[k].pc = "ok"

Answered(b) ==
    LET k == page[b].call IN
    /\ page[b].busy = "submit"
    /\ page' = [page EXCEPT ![b].busy = "no", ![b].call = None, ![b].created = Opens(k)]
    /\ Reply(k)

\* The page reports an error; the call runs on.
AnswerLost(b) ==
    /\ page[b].busy = "submit"
    /\ page' = [page EXCEPT ![b].busy = "no", ![b].call = None]
    /\ BankUnchanged

ReplyUnheard(k) == Unheard(k) /\ Reply(k) /\ UNCHANGED page

WizardStep(b) ==
    \/ \E c \in Codes : TypeCode(b, c)
    \/ AskCode(b) \/ CodeAnswered(b) \/ CodeRefused(b)
    \/ \E e \in Emails : TypeEmail(b, e)
    \/ \E d \in Dossiers : Fill(b, d)
    \/ NextStep(b) \/ PreviousStep(b)
    \/ AskPdf(b)
    \/ \E f \in page[b].loading : PdfAnswered(b, f) \/ PdfFails(b, f)
    \/ \E k \in Calls : Submit(b, k)
    \/ Answered(b) \/ AnswerLost(b)

WizardNext ==
    \/ \E b \in Pages : WizardStep(b)
    \/ \E k \in Calls : ReplyUnheard(k)
    \/ Background /\ UNCHANGED page

WizardSpec == WizardInit /\ [][WizardNext]_wizardVars
=============================================================================
