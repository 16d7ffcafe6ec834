------------------------------ MODULE MCSignup ------------------------------
(* A page of registration and the bank, on small instances. *)
EXTENDS SignupProperties, TLC

\* The dossier cut down to its last sections.
SmallSteps == <<"aml">>

\* Calls differ in name only, and so do the entries of the client and the kinds of account.
AnyName == Permutations(Calls) \cup Permutations(Dossiers) \cup Permutations(Types)
=============================================================================
