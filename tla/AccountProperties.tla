-------------------------- MODULE AccountProperties --------------------------
(* What opening an account promises the bank and the client. *)
EXTENDS AccountOpening

OpenedBy(v) == {e \in Emails : users[e].via = v}

\* Redemptions that have found the code unused and go on from there.
PastCode(c) == {k \in Calls : call[k].code = c /\ call[k].pc \in {"count", "create"}}

\* A code opens no more accounts than there are redemptions at work at the same time:
\* once it is used nobody else gets past the check, and only those who had passed it
\* before may follow.  (It is not true that a code opens one account.)
CodeOverlap ==
    \A c \in Codes : Cardinality(OpenedBy(c)) + Cardinality(PastCode(c)) <= Cardinality(Calls)

PastCount ==
    {k \in Calls : call[k].pc = "create"} \cup {a \in Approvers : approval[a].pc = "create"}

\* The capacity is exceeded by no more than the handlers that had counted, of both kinds,
\* less the one that had the right to.
CapacityOvershoot ==
    Cardinality(Clients) + Cardinality(PastCount)
        <= MaxClients - 1 + Cardinality(Calls) + Cardinality(Approvers)

\* A request is approved exactly when it has opened the account of its email, whatever
\* approvals, rejections and redemptions of the same email overlap.
ApprovalHasAccount ==
    \A q \in Requests :
        requests[q].status = "APPROVED" <=> OpenedBy(q) = {requests[q].email}

\* A decision on file agrees with the status of the client, and a client never changes
\* the section it is about and keeps it, in a registration that still runs or from the
\* dossier: what is on file is what the adviser had before them, or the bank's own entry.
\* The exception is a decision that was late, made about a section that the client or
\* the bank had replaced since the adviser opened the page (decideKyc writes by id).
DecisionStands ==
    \A e \in Emails :
        users[e].decision # "none" =>
            /\ users[e].kyc = StatusOf(users[e].decision)
            /\ users[e].saved["aml"] \in {users[e].decidedOn, Bank} \/ users[e].late

Incomplete(e) == \E s \in Sections : users[e].saved[s] = None

\* An account opened by a code lacks a section of its dossier only while its
\* registration runs on, or after it was cut short.
DossierComplete ==
    \A c \in Codes : \A e \in OpenedBy(c) :
        Incomplete(e) => e \in cut \/ \E k \in Calls : call[k].pc = "dossier" /\ call[k].email = e
=============================================================================
