------------------------- MODULE InvestmentReports -------------------------
(***************************************************************************)
(* The two pure functions that tell a client how the investments went: the *)
(* performance over the last months, and the statement of a period.  Both  *)
(* work from the rows of the journal alone.  A day of the model stands for *)
(* a month of the reports; the rows come in order of creation, so that a   *)
(* time is a number of rows.                                               *)
(***************************************************************************)
EXTENDS Investment, FiniteSetsExt

CONSTANT PerformanceMonths   \* 12 in the code

ASSUME MonthsAssumption == PerformanceMonths \in Nat \ {0}

DepositTypes == {"INVESTMENT_DEPOSIT", "FIXED_TERM_DEPOSIT"}
WithdrawalTypes == {"INVESTMENT_WITHDRAWAL", "FIXED_TERM_MATURITY_PAYOUT"}
AccrualTypes == {"INVESTMENT_YIELD_ACCRUAL", "FIXED_TERM_YIELD_ACCRUAL"}

PerformanceTypes == DepositTypes \cup WithdrawalTypes \cup AccrualTypes

\* The sum of f over the rows with these indices.
SumRows(rows, S, f(_)) == SumFunctionOnSet([n \in DOMAIN rows |-> f(rows[n])], S)

Amount(row) == row.amount

SignedFlow(row) ==
    CASE row.type \in WithdrawalTypes -> - row.amount
      [] row.type \in DepositTypes \cup AccrualTypes -> row.amount
      [] OTHER -> 0

\* The i-th month of the window that ends today.
MonthOf(i, today) == today - PerformanceMonths + i

PerformanceMonth(rows, month) ==
    LET of(types) == {n \in DOMAIN rows : rows[n].day = month /\ rows[n].type \in types} IN
    [month       |-> month,
     deposits    |-> SumRows(rows, of(DepositTypes), Amount),
     withdrawals |-> SumRows(rows, of(WithdrawalTypes), Amount),
     yield       |-> SumRows(rows, of(AccrualTypes), Amount)]

\* buildInvestmentPerformance.  end[i] is the running value after the i-th month.
Performance(rows, today) ==
    LET months  == [i \in 1 .. PerformanceMonths |-> PerformanceMonth(rows, MonthOf(i, today))]
        opening == SumRows(rows, {n \in DOMAIN rows : rows[n].day < MonthOf(1, today)}, SignedFlow)
        end[i \in 0 .. PerformanceMonths] ==
            IF i = 0 THEN opening
                     ELSE end[i - 1] + months[i].deposits - months[i].withdrawals + months[i].yield
    IN [months |-> months, end |-> end, currentValue |-> end[PerformanceMonths]]

-----------------------------------------------------------------------------
WalletEffect_AnyTarget(row) ==
    CASE row.type \in {"DEPOSIT", "INVESTMENT_WALLET_TRANSFER_IN"} -> row.amount
      [] row.type = "INVESTMENT_WALLET_TRANSFER_OUT" -> - row.amount
      [] row.type \in DepositTypes    -> - row.amount
      [] row.type \in WithdrawalTypes -> row.amount
      [] OTHER -> 0

\* Module FundsIn has the card top-ups: here they are deposits too.
WalletEffect(row) ==
    CASE row.type = "DEPOSIT" -> IF row.target = "INVESTMENT" THEN row.amount ELSE 0
      [] row.type = "INVESTMENT_WALLET_TRANSFER_IN"  -> row.amount
      [] row.type = "INVESTMENT_WALLET_TRANSFER_OUT" -> - row.amount
      [] row.type \in DepositTypes    -> - row.amount
      [] row.type \in WithdrawalTypes -> row.amount
      [] OTHER -> 0

WalletAfter(rows, now) == SumRows(rows, {n \in DOMAIN rows : n <= now}, WalletEffect)

Quiet(m, end) == m.deposits = 0 /\ m.withdrawals = 0 /\ m.yield = 0 /\ end = 0

\* The statement starts at the first month of the period that says anything.
FirstMonth(perf, period) ==
    LET window == PerformanceMonths - period + 1 .. PerformanceMonths
        active == {i \in window : ~ Quiet(perf.months[i], perf.end[i])}
    IN IF active = {} THEN PerformanceMonths ELSE Min(active)

\* The rows of a statement: created by now, and in the period or before it.
InPeriod_Now(rows, from, now) == {n \in DOMAIN rows : rows[n].day >= from}

InPeriod(rows, from, now) == {n \in DOMAIN rows : n <= now /\ rows[n].day >= from}

\* The balance before the first row of the period, or the last one if there is none.
WalletOpening(rows, from, now) ==
    LET inside == InPeriod(rows, from, now) IN
    WalletAfter(rows, IF inside = {} THEN now ELSE Min(inside) - 1)

WalletSection(rows, from, now) ==
    LET of(types) == {n \in InPeriod(rows, from, now) : rows[n].type \in types}
        moved(types) == SumRows(rows, of(types), WalletEffect) IN
    [opening       |-> WalletOpening(rows, from, now),
     closing       |-> WalletAfter(rows, now),
     contributions |-> moved({"DEPOSIT", "INVESTMENT_WALLET_TRANSFER_IN"}),
     proceeds      |-> moved(WithdrawalTypes),
     placements    |-> - moved(DepositTypes),
     transfersOut  |-> - moved({"INVESTMENT_WALLET_TRANSFER_OUT"})]

Total(perf, first, field) ==
    SumFunctionOnSet([i \in 1 .. PerformanceMonths |-> perf.months[i][field]], first .. PerformanceMonths)

SummaryOf(value, deposits, withdrawals, yieldNet) ==
    [deposits |-> deposits, withdrawals |-> withdrawals, yieldNet |-> yieldNet,
     openingValue |-> value - deposits + withdrawals - yieldNet, closingValue |-> value]

StatementFrom(rows, perf, first, today, now) ==
    [from    |-> MonthOf(first, today),
     summary |-> SummaryOf(perf.currentValue, Total(perf, first, "deposits"),
                           Total(perf, first, "withdrawals"), Total(perf, first, "yield")),
     wallet  |-> WalletSection(rows, MonthOf(first, today), now)]

\* buildStatementData
Statement(rows, period, today, now) ==
    LET perf == Performance(rows, today) IN
    StatementFrom(rows, perf, FirstMonth(perf, period), today, now)
=============================================================================
