---------------------------- MODULE CreditAccount ----------------------------
(***************************************************************************)
(* What the credit line promises, with every operation in one step: a loan *)
(* is asked for, agreed or refused, and granted at most once; its          *)
(* collateral is pledged and its fee paid at the instant it is granted;    *)
(* it ends once, when the debt is paid back or when its collateral is      *)
(* lost; and money moves in no other way.                                  *)
(***************************************************************************)
EXTENDS Integers

CONSTANTS
    Loans,          \* one per credit request
    Credit(_),      \* the credit a collateral gives
    Fee(_)          \* the fee of granting it

VARIABLES
    free,     \* money the client may dispose of
    pledged,  \* money held as collateral
    line,     \* credit granted
    debt,     \* credit used
    loan,     \* stage of each loan
    pledge    \* collateral each loan takes

money == <<free, pledged, line, debt>>
vars == <<money, loan, pledge>>

Stage == {"none", "asked", "agreed", "refused", "granted", "ended"}

Init ==
    /\ free = 0 /\ pledged = 0 /\ line = 0 /\ debt = 0
    /\ loan = [n \in Loans |-> "none"]
    /\ pledge = [n \in Loans |-> 0]

Move(n, from, to) == loan[n] = from /\ loan' = [loan EXCEPT ![n] = to]

Ask(n) ==
    /\ Move(n, "none", "asked")
    /\ pledge'[n] > 0
    /\ pledge' = [pledge EXCEPT ![n] = pledge'[n]]
    /\ UNCHANGED money

Answer(n) ==
    /\ Move(n, "asked", "agreed") \/ Move(n, "asked", "refused")
    /\ UNCHANGED <<money, pledge>>

Grant(n) ==
    /\ Move(n, "agreed", "granted")
    /\ free' = free - pledge[n] - Fee(pledge[n])
    /\ free' >= 0
    /\ pledged' = pledged + pledge[n]
    /\ line' = line + Credit(pledge[n])
    /\ UNCHANGED <<debt, pledge>>

\* A deposit or a withdrawal.
Transfer ==
    /\ free' >= 0
    /\ UNCHANGED <<pledged, line, debt, loan, pledge>>

Spend ==
    /\ debt' > debt
    /\ debt' <= line
    /\ UNCHANGED <<free, pledged, line, loan, pledge>>

\* Part of the debt, against interest, or all of it: then every loan ends and
\* the collateral is free again.
PayBackPart ==
    /\ 0 < debt' /\ debt' < debt
    /\ 0 <= free' /\ free' <= free
    /\ UNCHANGED <<pledged, line, loan, pledge>>

PayBackAll ==
    /\ debt > 0 /\ debt' = 0
    /\ 0 <= free' /\ free' <= free + pledged
    /\ pledged' = 0 /\ line' = 0
    /\ loan' = [n \in Loans |-> IF loan[n] = "granted" THEN "ended" ELSE loan[n]]
    /\ UNCHANGED pledge

\* The collateral of a loan is lost; what was used of the credit stays due.
Default(n) ==
    /\ Move(n, "granted", "ended")
    /\ pledged' = pledged - pledge[n]
    /\ line' = line - Credit(pledge[n])
    /\ UNCHANGED <<free, debt, pledge>>

Next ==
    \/ \E n \in Loans : Ask(n) \/ Answer(n) \/ Grant(n) \/ Default(n)
    \/ Transfer \/ Spend \/ PayBackPart \/ PayBackAll

Spec == Init /\ [][Next]_vars
=============================================================================
