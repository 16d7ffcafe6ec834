---------------------------- MODULE MCInvestment ----------------------------
(* Investments, on small instances. *)
EXTENDS InvestmentProperties, TLC

\* A day that loses everything, and a day that doubles.
SmallRates == {-1, 1}

\* Passes differ in name only.
AnyPass == Permutations(Passes)
=============================================================================
