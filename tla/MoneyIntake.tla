---------------------------- MODULE MoneyIntake ----------------------------
(***************************************************************************)
(* What every way of paying in promises: a payment is announced or simply  *)
(* arrives; it is credited once, with the amount announced, or refused,    *)
(* and that is final; no balance changes otherwise.                        *)
(***************************************************************************)
EXTENDS Integers

CONSTANT Items

VARIABLES
    main,      \* the main balance
    invested,  \* the balance of the investment wallet
    stage,     \* where each payment stands
    value      \* its amount

vars == <<main, invested, stage, value>>

Init ==
    /\ main = 0 /\ invested = 0
    /\ stage = [i \in Items |-> "none"]
    /\ value = [i \in Items |-> 0]

Move(i, from, to) == stage[i] = from /\ stage' = [stage EXCEPT ![i] = to]

\* All of x arrives on one of the balances.
Arrives(x) ==
    \/ main' = main + x /\ UNCHANGED invested
    \/ invested' = invested + x /\ UNCHANGED main

Announce(i) ==
    /\ Move(i, "none", "PENDING")
    /\ value' = [value EXCEPT ![i] = value'[i]]
    /\ UNCHANGED <<main, invested>>

Credit(i) ==
    /\ Move(i, "PENDING", "COMPLETED")
    /\ Arrives(value[i])
    /\ UNCHANGED value

Receive(i) ==
    /\ Move(i, "none", "COMPLETED")
    /\ value' = [value EXCEPT ![i] = value'[i]]
    /\ Arrives(value'[i])

Refuse(i) ==
    /\ Move(i, "PENDING", "FAILED")
    /\ UNCHANGED <<main, invested, value>>

Next == \E i \in Items : Announce(i) \/ Credit(i) \/ Receive(i) \/ Refuse(i)

Spec == Init /\ [][Next]_vars
=============================================================================
