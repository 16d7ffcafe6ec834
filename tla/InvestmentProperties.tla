------------------------ MODULE InvestmentProperties ------------------------
(* What the investment wallet, the placements and the reports promise. *)
EXTENDS InvestmentReports

\* The balance of the wallet is the one the statement works out from the journal
\* alone, whatever passes, withdrawals and restarts interleave.
WalletExplained ==
    ledger.invest = WalletSection(journal, 1, Len(journal)).closing

\* A restart brings here from anywhere, with the same journal.
AtRest == \A p \in Passes : pass[p].pc = "idle"

WalletAddsUp(w) ==
    w.closing = w.opening + w.contributions + w.proceeds - w.placements - w.transfersOut

\* The openings are what everything before the period amounts to.
OpensWith(s, before, now) ==
    /\ s.wallet.opening = SumRows(journal, {n \in before : n <= now}, WalletEffect)
    /\ s.summary.openingValue = SumRows(journal, before, SignedFlow)

Before(d) == {n \in DOMAIN journal : journal[n].day < d}

\* A statement adds up for every period, and every moment at which it may have been
\* asked for while rows came in: the wallet from its opening to its closing balance,
\* and the portfolio from the value that everything before the period amounts to.
StatementReconciles ==
    AtRest =>
      \A period \in 1 .. PerformanceMonths, now \in 0 .. Len(journal) :
        \A s \in {Statement(journal, period, day, now)} :
            WalletAddsUp(s.wallet) /\ OpensWith(s, Before(s.from), now)

Accrueds == [i \in Ids |-> positions[i].accrued]
YieldsInFlight == [p \in Passes |-> pass[p].yield]

YieldRows == {n \in DOMAIN journal : journal[n].type \in AccrualTypes}

\* The yield on the positions is that of the journal and of the passes between their
\* two statements, however passes overlap and whatever ends meanwhile, unless a pass
\* was cut there.
YieldJournalled ==
    "cut yield" \notin strays =>
        SumFunctionOnSet(Accrueds, Ids)
            = SumRows(journal, YieldRows, Amount) + SumFunctionOnSet(YieldsInFlight, Passes)

Values == [i \in Ids |-> Value(i)]

\* The value of the portfolio that the performance shows is that of the active
\* positions.  It can part from them in four ways only: a payment of a value read
\* before it changed, a payment that was floored, a yield on a position that has
\* ended, and a pass that was cut between the two statements of a yield.
PortfolioExplained ==
    AtRest /\ strays = {} =>
        Performance(journal, day).currentValue
            = SumFunctionOnSet(Values, {i \in Ids : IsActive(i)})

\* The return of a day of a product is written once, and every pass of that day uses it;
\* only the basket that follows the treasury bot may see its return rewritten.
DayRateFinal ==
    \A p \in Passes, x \in Products \ {Rwa} :
        pass[p].rates[x] # NoRate => pass[p].rates[x] = runs[pass[p].day][x]

=============================================================================
