-------------------------- MODULE SignupProperties --------------------------
(* What the pages of registration promise the client. *)
EXTENDS SignupWizard

\* A client who is told that the account is open has one, opened by the code on the page
\* and with every section on file, whatever was retyped, lost and sent again before.
ToldWhenOpen ==
    \A b \in Pages :
        page[b].created =>
            /\ users[page[b].form.email].via = page[b].form.code
            /\ \A s \in Sections : users[page[b].form.email].saved[s] # None

\* What the client saw is what was opened: the kind of account, unless the code was
\* typed over while it was validated; and the preview, unless something in it changed
\* after one was asked, for the page then keeps the old preview and the agreement.
RecapHonest ==
    \A b \in Pages :
        page[b].created =>
            /\ page[b].form.code = page[b].asking => users[page[b].form.email].type = page[b].type
            /\ ~ page[b].edited => page[b].pdf = PreviewOf(page[b])
=============================================================================
