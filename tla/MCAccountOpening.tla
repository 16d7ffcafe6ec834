-------------------------- MODULE MCAccountOpening --------------------------
(* Opening accounts, on small instances. *)
EXTENDS AccountProperties, TLC

\* The dossier cut down to its last sections.
SmallSteps == <<"identity", "aml">>

\* Calls, emails and requests differ in name only.
AnyName == Permutations(Calls) \cup Permutations(Emails) \cup Permutations(Requests)
=============================================================================
