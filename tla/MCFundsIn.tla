----------------------------- MODULE MCFundsIn -----------------------------
(* Money coming in, on small instances. *)
EXTENDS FundsInProperties
=============================================================================
