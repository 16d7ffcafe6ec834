---------------------------- MODULE MCCreditLine ----------------------------
(* The credit line on small instances. *)
EXTENDS CreditLineProperties, TLC

\* Concurrent calls and deposits differ only by name.
Symmetry == Permutations(Tabs) \cup Permutations(Fulfillers)
=============================================================================
