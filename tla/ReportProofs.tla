---------------------------- MODULE ReportProofs ----------------------------
(***************************************************************************)
(* Proofs about the two reports: what the performance and the statement    *)
(* say of any journal, and that the journal the passes write makes both    *)
(* agree with the wallet and with the positions.                           *)
(***************************************************************************)
EXTENDS InvestmentProofs

-----------------------------------------------------------------------------
(* Rows, and the sums over them.                                            *)

Journal == Seq(Entry)

FlowsOf(rows) == [n \in DOMAIN rows |-> SignedFlow(rows[n])]

AmountsOf(rows) == [n \in DOMAIN rows |-> Amount(rows[n])]

EffectsOf(rows) == [n \in DOMAIN rows |-> WalletEffect(rows[n])]

Flow(rows, S) == SumFunctionOnSet(FlowsOf(rows), S)

Effect(rows, S) == SumFunctionOnSet(EffectsOf(rows), S)

LEMMA SumsOfRows ==
    ASSUME NEW rows, NEW S
    PROVE  /\ SumRows(rows, S, SignedFlow) = Flow(rows, S)
           /\ SumRows(rows, S, WalletEffect) = Effect(rows, S)
           /\ SumRows(rows, S, Amount) = SumFunctionOnSet(AmountsOf(rows), S)
BY DEF SumRows, Flow, Effect, FlowsOf, EffectsOf, AmountsOf

LEMMA RowsTyped ==
    ASSUME NEW rows \in Journal
    PROVE  /\ DOMAIN rows = 1 .. Len(rows) /\ Len(rows) \in Nat
           /\ \A S \in SUBSET DOMAIN rows : IsFiniteSet(S)
           /\ \A n \in DOMAIN rows : rows[n] \in Entry /\ rows[n].day \in Nat
           /\ \A n \in DOMAIN rows : FlowsOf(rows)[n] \in Int /\ AmountsOf(rows)[n] \in Int
                                        /\ EffectsOf(rows)[n] \in Int
<1>1. DOMAIN rows = 1 .. Len(rows) /\ Len(rows) \in Nat
    BY DEF Journal
<1>2. \A n \in DOMAIN rows : rows[n] \in Entry
    BY DEF Journal
<1>3. \A row \in Entry : row.amount \in Int /\ row.day \in Nat
    BY DEF Entry
<1>4. \A row \in Entry : SignedFlow(row) \in Int
    BY <1>3 DEF SignedFlow
<1>5. IsFiniteSet(DOMAIN rows)
    BY <1>1, FS_Interval
<1>6. \A n \in DOMAIN rows : /\ FlowsOf(rows)[n] = SignedFlow(rows[n])
                             /\ AmountsOf(rows)[n] = rows[n].amount
                             /\ EffectsOf(rows)[n] = WalletEffect(rows[n])
    BY DEF FlowsOf, AmountsOf, EffectsOf, Amount
<1> QED BY <1>1, <1>2, <1>3, <1>4, <1>5, <1>6, EffectIsInteger, FS_Subset

LEMMA SumsAreInts ==
    ASSUME NEW rows \in Journal, NEW S \in SUBSET DOMAIN rows
    PROVE  /\ Flow(rows, S) \in Int /\ Effect(rows, S) \in Int
           /\ SumFunctionOnSet(AmountsOf(rows), S) \in Int
<1>1. /\ IsFiniteSet(S)
      /\ \A n \in S : FlowsOf(rows)[n] \in Int /\ AmountsOf(rows)[n] \in Int
                         /\ EffectsOf(rows)[n] \in Int
    BY RowsTyped
<1> QED BY <1>1, SumIsInteger DEF Flow, Effect

(* Rows of two sets that share nothing.                                     *)
LEMMA FlowOfUnion ==
    ASSUME NEW rows \in Journal, NEW S \in SUBSET DOMAIN rows, NEW T \in SUBSET DOMAIN rows,
           S \cap T = {}
    PROVE  /\ Flow(rows, S \cup T) = Flow(rows, S) + Flow(rows, T)
           /\ Effect(rows, S \cup T) = Effect(rows, S) + Effect(rows, T)
<1>1. IsFiniteSet(S) /\ IsFiniteSet(T)
    BY RowsTyped
<1>2. \A n \in S \cup T : FlowsOf(rows)[n] \in Int /\ EffectsOf(rows)[n] \in Int
    BY RowsTyped
<1> QED BY <1>1, <1>2, SumOfUnion DEF Flow, Effect

-----------------------------------------------------------------------------
(* A month.  Its figures say of its rows what their flows say.              *)

MonthRows(rows, month, types) == {n \in DOMAIN rows : rows[n].day = month /\ rows[n].type \in types}

LEMMA MonthFlow ==
    ASSUME NEW rows \in Journal, NEW month \in Int
    PROVE  LET m == PerformanceMonth(rows, month) IN
           /\ m.deposits \in Int /\ m.withdrawals \in Int /\ m.yield \in Int
           /\ m.deposits - m.withdrawals + m.yield
                = Flow(rows, {n \in DOMAIN rows : rows[n].day = month})
<1> DEFINE m == PerformanceMonth(rows, month)
           D == MonthRows(rows, month, DepositTypes)
           W == MonthRows(rows, month, WithdrawalTypes)
           Y == MonthRows(rows, month, AccrualTypes)
           M == {n \in DOMAIN rows : rows[n].day = month}
           A(S) == SumFunctionOnSet(AmountsOf(rows), S)
<1>1. m.deposits = A(D) /\ m.withdrawals = A(W) /\ m.yield = A(Y)
    BY SumsOfRows DEF PerformanceMonth, MonthRows
<1>2. /\ D \in SUBSET DOMAIN rows /\ W \in SUBSET DOMAIN rows /\ Y \in SUBSET DOMAIN rows
      /\ M \in SUBSET DOMAIN rows /\ D \cup W \cup Y \in SUBSET M
      /\ D \cap W = {} /\ (D \cup W) \cap Y = {}
    BY DEF MonthRows, DepositTypes, WithdrawalTypes, AccrualTypes
<1>3. A(D) \in Int /\ A(W) \in Int /\ A(Y) \in Int
    BY <1>2, SumsAreInts
<1>4. Flow(rows, D) = A(D)
    <2>1. \A n \in D : FlowsOf(rows)[n] = AmountsOf(rows)[n]
        BY DEF MonthRows, FlowsOf, AmountsOf, SignedFlow, Amount, DepositTypes, WithdrawalTypes
    <2>2. IsFiniteSet(D)
        BY <1>2, RowsTyped
    <2> HIDE DEF D
    <2> QED BY <2>1, <2>2, SumOfEquals DEF Flow
<1>5. Flow(rows, Y) = A(Y)
    <2>1. \A n \in Y : FlowsOf(rows)[n] = AmountsOf(rows)[n]
        BY DEF MonthRows, FlowsOf, AmountsOf, SignedFlow, Amount, AccrualTypes, WithdrawalTypes
    <2>2. IsFiniteSet(Y)
        BY <1>2, RowsTyped
    <2> HIDE DEF Y
    <2> QED BY <2>1, <2>2, SumOfEquals DEF Flow
<1>6. Flow(rows, W) = - A(W)
    <2>1. \A n \in W : n \in DOMAIN rows /\ FlowsOf(rows)[n] = - AmountsOf(rows)[n]
        BY DEF MonthRows, FlowsOf, AmountsOf, SignedFlow, Amount, DepositTypes, AccrualTypes,
               WithdrawalTypes
    <2>2. IsFiniteSet(W)
        BY <1>2, RowsTyped
    <2>3. \A n \in W : AmountsOf(rows)[n] \in Int
        BY <2>1, RowsTyped
    <2> HIDE DEF W
    <2> QED BY <2>1, <2>2, <2>3, SumOfNegatives DEF Flow
<1>7. Flow(rows, M) = Flow(rows, D \cup W \cup Y)
    <2> DEFINE P == D \cup W \cup Y
    <2>1. \A n \in M \ P : FlowsOf(rows)[n] = 0
        BY DEF MonthRows, FlowsOf, SignedFlow
    <2>2. IsFiniteSet(M) /\ P \in SUBSET M /\ \A n \in P : FlowsOf(rows)[n] \in Int
        BY <1>2, RowsTyped
    <2> HIDE DEF M, P
    <2> QED BY <2>1, <2>2, SumOfPart DEF Flow, P
<1> HIDE DEF m, D, W, Y, M, A
<1>8. Flow(rows, D \cup W \cup Y) = Flow(rows, D \cup W) + Flow(rows, Y)
    BY <1>2, FlowOfUnion
<1>9. Flow(rows, D \cup W) = Flow(rows, D) + Flow(rows, W)
    BY <1>2, FlowOfUnion
<1>10. Flow(rows, M) = (A(D) + (- A(W))) + A(Y)
    BY <1>4, <1>5, <1>6, <1>7, <1>8, <1>9
<1>11. m.deposits - m.withdrawals + m.yield = Flow(rows, M)
    BY <1>1, <1>3, <1>10
<1> QED BY <1>1, <1>3, <1>11 DEF m, M

-----------------------------------------------------------------------------
(* The performance.  Its running value is defined from month to month; it   *)
(* is the flow of all rows up to that month.                                *)

RowsBefore(rows, d) == {n \in DOMAIN rows : rows[n].day < d}

MonthsOf(rows, today) ==
    [i \in 1 .. PerformanceMonths |-> PerformanceMonth(rows, MonthOf(i, today))]

\* The equation by which the running value is defined.
Runs(end, rows, today) ==
    end = [i \in 0 .. PerformanceMonths |->
             IF i = 0 THEN SumRows(rows, RowsBefore(rows, MonthOf(1, today)), SignedFlow)
                      ELSE end[i - 1] + MonthsOf(rows, today)[i].deposits
                                      - MonthsOf(rows, today)[i].withdrawals
                                      + MonthsOf(rows, today)[i].yield]

RunningFlow(rows, today) ==
    [i \in 0 .. PerformanceMonths |-> Flow(rows, RowsBefore(rows, MonthOf(i + 1, today)))]

LEMMA PerformanceUnfolds ==
    ASSUME NEW rows, NEW today
    PROVE  /\ Performance(rows, today).months = MonthsOf(rows, today)
           /\ Performance(rows, today).end = CHOOSE end : Runs(end, rows, today)
           /\ Performance(rows, today).currentValue
                = Performance(rows, today).end[PerformanceMonths]
<1> DEFINE e == CHOOSE end : Runs(end, rows, today)
<1>1. Performance(rows, today)
        = [months |-> MonthsOf(rows, today), end |-> e, currentValue |-> e[PerformanceMonths]]
    BY DEF Performance, MonthsOf, Runs, RowsBefore, SumRows
<1> HIDE DEF e
<1>2. /\ Performance(rows, today).months = MonthsOf(rows, today)
      /\ Performance(rows, today).end = e
      /\ Performance(rows, today).currentValue = e[PerformanceMonths]
    BY <1>1
<1> QED BY <1>2 DEF e

LEMMA MonthIsInteger ==
    ASSUME NEW today \in Int, NEW i \in Int
    PROVE  MonthOf(i, today) \in Int /\ MonthOf(i + 1, today) = MonthOf(i, today) + 1
BY MonthsAssumption DEF MonthOf

\* One month more.
LEMMA FlowGrows ==
    ASSUME NEW rows \in Journal, NEW today \in Int, NEW i \in 1 .. PerformanceMonths
    PROVE  RunningFlow(rows, today)[i]
             = RunningFlow(rows, today)[i - 1] + MonthsOf(rows, today)[i].deposits
                 - MonthsOf(rows, today)[i].withdrawals + MonthsOf(rows, today)[i].yield
<1> DEFINE d == MonthOf(i, today)
           m == PerformanceMonth(rows, d)
           B == RowsBefore(rows, d)
           M == {n \in DOMAIN rows : rows[n].day = d}
<1>1. /\ i \in Int /\ i - 1 \in 0 .. PerformanceMonths /\ i \in 0 .. PerformanceMonths
      /\ (i - 1) + 1 = i
    BY MonthsAssumption
<1>2. d \in Int /\ MonthOf(i + 1, today) = d + 1
    BY <1>1, MonthIsInteger
<1>3. RunningFlow(rows, today)[i] = Flow(rows, RowsBefore(rows, d + 1))
    BY <1>1, <1>2 DEF RunningFlow
<1>4. RunningFlow(rows, today)[i - 1] = Flow(rows, B)
    BY <1>1 DEF RunningFlow
<1>5. RowsBefore(rows, d + 1) = B \cup M
    <2>1. \A n \in DOMAIN rows : rows[n].day \in Nat
        BY RowsTyped
    <2> HIDE DEF d
    <2> QED BY <1>2, <2>1 DEF RowsBefore
<1>6. B \in SUBSET DOMAIN rows /\ M \in SUBSET DOMAIN rows /\ B \cap M = {}
    <2>1. \A n \in DOMAIN rows : rows[n].day \in Nat
        BY RowsTyped
    <2> HIDE DEF d
    <2> QED BY <1>2, <2>1 DEF RowsBefore
<1>7. Flow(rows, B \cup M) = Flow(rows, B) + Flow(rows, M) /\ Flow(rows, B) \in Int
    BY <1>6, FlowOfUnion, SumsAreInts
<1>8. /\ m.deposits \in Int /\ m.withdrawals \in Int /\ m.yield \in Int
      /\ Flow(rows, M) = m.deposits - m.withdrawals + m.yield
    BY <1>2, MonthFlow
<1>9. MonthsOf(rows, today)[i] = m
    BY DEF MonthsOf
<1> HIDE DEF d, m, B, M
<1>10. Flow(rows, RowsBefore(rows, d + 1)) = Flow(rows, B) + (m.deposits - m.withdrawals + m.yield)
    BY <1>5, <1>7, <1>8
<1> QED BY <1>3, <1>4, <1>7, <1>8, <1>9, <1>10

LEMMA FlowRuns ==
    ASSUME NEW rows \in Journal, NEW today \in Int
    PROVE  Runs(RunningFlow(rows, today), rows, today)
<1> DEFINE f == RunningFlow(rows, today)
           new(i) == IF i = 0 THEN SumRows(rows, RowsBefore(rows, MonthOf(1, today)), SignedFlow)
                              ELSE f[i - 1] + MonthsOf(rows, today)[i].deposits
                                            - MonthsOf(rows, today)[i].withdrawals
                                            + MonthsOf(rows, today)[i].yield
<1>1. ASSUME NEW i \in 0 .. PerformanceMonths PROVE f[i] = new(i)
    <2>1. CASE i = 0
        <3>1. 0 + 1 = 1
            OBVIOUS
        <3>2. f[i] = Flow(rows, RowsBefore(rows, MonthOf(0 + 1, today)))
            BY <2>1 DEF RunningFlow
        <3> HIDE DEF f
        <3> QED BY <2>1, <3>1, <3>2, SumsOfRows
    <2>2. CASE i # 0
        <3>1. i \in 1 .. PerformanceMonths
            BY <2>2, MonthsAssumption
        <3>2. f[i] = f[i - 1] + MonthsOf(rows, today)[i].deposits
                       - MonthsOf(rows, today)[i].withdrawals + MonthsOf(rows, today)[i].yield
            BY <3>1, FlowGrows
        <3> HIDE DEF f
        <3> QED BY <2>2, <3>2
    <2> QED BY <2>1, <2>2
<1>2. f = [i \in 0 .. PerformanceMonths |-> f[i]]
    BY DEF RunningFlow
<1> HIDE DEF f, new
<1>3. f = [i \in 0 .. PerformanceMonths |-> new(i)]
    BY <1>1, <1>2
<1> QED BY <1>3 DEF Runs, f, new

(* Two functions that run from month to month agree: a first month where    *)
(* they part would part from the month before.                              *)
LEMMA RunsOnce ==
    ASSUME NEW rows, NEW today, NEW end, NEW f, Runs(end, rows, today), Runs(f, rows, today)
    PROVE  end = f
<1> DEFINE Parts == {i \in 0 .. PerformanceMonths : end[i] # f[i]}
           next(g, i) == g[i - 1] + MonthsOf(rows, today)[i].deposits
                           - MonthsOf(rows, today)[i].withdrawals + MonthsOf(rows, today)[i].yield
<1>1. \A i \in 0 .. PerformanceMonths :
         /\ i = 0 => end[i] = f[i]
         /\ i # 0 => end[i] = next(end, i) /\ f[i] = next(f, i)
    BY DEF Runs
<1>2. Parts = {}
    <2> SUFFICES ASSUME Parts # {} PROVE FALSE
        OBVIOUS
    <2>1. Parts \subseteq Nat
        BY MonthsAssumption
    <2>2. PICK i \in Parts : \A k \in Parts : i <= k
        <3> HIDE DEF Parts
        <3> QED BY <2>1, LeastNatural
    <2>3. i \in 0 .. PerformanceMonths /\ end[i] # f[i] /\ i # 0
        BY <1>1, <2>2
    <2>4. i - 1 \in 0 .. PerformanceMonths /\ i - 1 \notin Parts
        BY <2>2, <2>3, MonthsAssumption
    <2>5. end[i - 1] = f[i - 1]
        BY <2>4
    <2>6. end[i] = next(end, i) /\ f[i] = next(f, i)
        BY <1>1, <2>3
    <2> QED BY <2>3, <2>5, <2>6
<1>3. /\ end = [i \in 0 .. PerformanceMonths |-> end[i]]
      /\ f = [i \in 0 .. PerformanceMonths |-> f[i]]
    BY DEF Runs
<1> QED BY <1>2, <1>3

(* The running value of the performance, at the end of every month, is the  *)
(* flow of all rows up to then, and its last one that of all rows up to     *)
(* today (buildInvestmentPerformance).                                      *)
THEOREM PerformanceIsFlow ==
    ASSUME NEW rows \in Journal, NEW today \in Int
    PROVE  /\ Performance(rows, today).end = RunningFlow(rows, today)
           /\ Performance(rows, today).currentValue = Flow(rows, RowsBefore(rows, today + 1))
<1>1. Runs(RunningFlow(rows, today), rows, today)
    BY FlowRuns
<1>2. Runs(CHOOSE end : Runs(end, rows, today), rows, today)
    BY <1>1
<1>3. Performance(rows, today).end = RunningFlow(rows, today)
    BY <1>1, <1>2, RunsOnce, PerformanceUnfolds
<1>4. RunningFlow(rows, today)[PerformanceMonths]
        = Flow(rows, RowsBefore(rows, MonthOf(PerformanceMonths + 1, today)))
    BY MonthsAssumption DEF RunningFlow
<1>5. MonthOf(PerformanceMonths + 1, today) = today + 1
    BY MonthsAssumption DEF MonthOf
<1> QED BY <1>3, <1>4, <1>5, PerformanceUnfolds

-----------------------------------------------------------------------------
(* The totals of a statement: what they leave of the last value is the      *)
(* value before its first month.                                            *)

FieldsOf(rows, today, field) ==
    [i \in 1 .. PerformanceMonths |-> MonthsOf(rows, today)[i][field]]

TotalOf(rows, today, first, last, field) ==
    SumFunctionOnSet(FieldsOf(rows, today, field), first .. last)

LEMMA TotalGrows ==
    ASSUME NEW rows \in Journal, NEW today \in Int, NEW first \in 1 .. PerformanceMonths,
           NEW field \in {"deposits", "withdrawals", "yield"}
    PROVE  /\ TotalOf(rows, today, first, first - 1, field) = 0
           /\ \A last \in first .. PerformanceMonths :
                /\ TotalOf(rows, today, first, last - 1, field) \in Int
                /\ MonthsOf(rows, today)[last][field] \in Int
                /\ TotalOf(rows, today, first, last, field)
                     = TotalOf(rows, today, first, last - 1, field)
                         + MonthsOf(rows, today)[last][field]
<1> DEFINE f == FieldsOf(rows, today, field)
<1>1. \A i \in 1 .. PerformanceMonths : /\ f[i] = MonthsOf(rows, today)[i][field]
                                        /\ f[i] \in Int
    <2> SUFFICES ASSUME NEW i \in 1 .. PerformanceMonths
                 PROVE  f[i] = MonthsOf(rows, today)[i][field] /\ f[i] \in Int
        OBVIOUS
    <2>1. f[i] = PerformanceMonth(rows, MonthOf(i, today))[field]
        BY DEF FieldsOf, MonthsOf
    <2>2. MonthOf(i, today) \in Int
        BY MonthIsInteger, MonthsAssumption
    <2>3. PerformanceMonth(rows, MonthOf(i, today))[field] \in Int
        BY <2>2, MonthFlow
    <2> QED BY <2>1, <2>3 DEF FieldsOf
<1>2. first .. (first - 1) = {}
    BY MonthsAssumption
<1>3. TotalOf(rows, today, first, first - 1, field) = 0
    BY <1>2, SumOfNone DEF TotalOf
<1>4. ASSUME NEW last \in first .. PerformanceMonths
      PROVE  /\ TotalOf(rows, today, first, last - 1, field) \in Int
             /\ MonthsOf(rows, today)[last][field] \in Int
             /\ TotalOf(rows, today, first, last, field)
                  = TotalOf(rows, today, first, last - 1, field) + MonthsOf(rows, today)[last][field]
    <2> DEFINE S == first .. last - 1
    <2>1. /\ first \in Int /\ last \in Int /\ last - 1 \in Int
          /\ last \in 1 .. PerformanceMonths
          /\ \A i \in S : i \in 1 .. PerformanceMonths
          /\ first .. last = S \cup {last} /\ last \notin S
        BY MonthsAssumption
    <2>2. IsFiniteSet(S)
        BY <2>1, FS_Interval
    <2>3. \A i \in S : f[i] \in Int
        BY <1>1, <2>1
    <2>4. f[last] = MonthsOf(rows, today)[last][field] /\ f[last] \in Int
        BY <1>1, <2>1
    <2> HIDE DEF f, S
    <2>5. SumFunctionOnSet(f, S) \in Int
        BY <2>2, <2>3, SumIsInteger
    <2>6. SumFunctionOnSet(f, S \cup {last}) = SumFunctionOnSet(f, S) + f[last]
        BY <2>1, <2>2, <2>3, <2>4, SumOfMore
    <2>7. /\ TotalOf(rows, today, first, last - 1, field) = SumFunctionOnSet(f, S)
          /\ TotalOf(rows, today, first, last, field) = SumFunctionOnSet(f, S \cup {last})
        BY <2>1 DEF TotalOf, f, S
    <2> QED BY <2>4, <2>5, <2>6, <2>7
<1> QED BY <1>3, <1>4

LEMMA RunningIsInteger ==
    ASSUME NEW rows \in Journal, NEW today \in Int, NEW i \in 0 .. PerformanceMonths
    PROVE  RunningFlow(rows, today)[i] \in Int
<1>1. RowsBefore(rows, MonthOf(i + 1, today)) \in SUBSET DOMAIN rows
    BY DEF RowsBefore
<1> QED BY <1>1, SumsAreInts DEF RunningFlow

LEMMA TotalsTelescope ==
    ASSUME NEW rows \in Journal, NEW today \in Int, NEW first \in 1 .. PerformanceMonths
    PROVE  /\ \A field \in {"deposits", "withdrawals", "yield"} :
                 TotalOf(rows, today, first, PerformanceMonths, field) \in Int
           /\ RunningFlow(rows, today)[PerformanceMonths]
                = RunningFlow(rows, today)[first - 1]
                    + TotalOf(rows, today, first, PerformanceMonths, "deposits")
                    - TotalOf(rows, today, first, PerformanceMonths, "withdrawals")
                    + TotalOf(rows, today, first, PerformanceMonths, "yield")
<1> DEFINE R == RunningFlow(rows, today)
           D(k) == TotalOf(rows, today, first, k, "deposits")
           W(k) == TotalOf(rows, today, first, k, "withdrawals")
           Y(k) == TotalOf(rows, today, first, k, "yield")
           m(k) == MonthsOf(rows, today)[k]
           Holds(k) == R[k] = R[first - 1] + D(k) - W(k) + Y(k)
           Fails == {k \in first - 1 .. PerformanceMonths : ~ Holds(k)}
<1>0. first \in Nat /\ first - 1 \in Nat /\ first - 1 \in 0 .. PerformanceMonths
    BY MonthsAssumption
<1>1. /\ D(first - 1) = 0 /\ W(first - 1) = 0 /\ Y(first - 1) = 0
      /\ \A k \in first .. PerformanceMonths :
            /\ D(k - 1) \in Int /\ W(k - 1) \in Int /\ Y(k - 1) \in Int
            /\ m(k).deposits \in Int /\ m(k).withdrawals \in Int /\ m(k).yield \in Int
            /\ D(k) = D(k - 1) + m(k).deposits
            /\ W(k) = W(k - 1) + m(k).withdrawals
            /\ Y(k) = Y(k - 1) + m(k).yield
    BY TotalGrows
<1>2. \A k \in first .. PerformanceMonths :
         R[k] = R[k - 1] + m(k).deposits - m(k).withdrawals + m(k).yield
    <2>1. \A k \in first .. PerformanceMonths : k \in 1 .. PerformanceMonths
        BY <1>0
    <2> QED BY <2>1, FlowGrows
<1>3. \A k \in first - 1 .. PerformanceMonths : R[k] \in Int
    <2>1. \A k \in first - 1 .. PerformanceMonths : k \in 0 .. PerformanceMonths
        BY <1>0
    <2> QED BY <2>1, RunningIsInteger
<1> HIDE DEF R, D, W, Y, m
<1>4. Fails = {}
    <2> SUFFICES ASSUME Fails # {} PROVE FALSE
        OBVIOUS
    <2>1. Fails \subseteq Nat
        BY <1>0, MonthsAssumption
    <2>2. PICK k \in Fails : \A j \in Fails : k <= j
        <3> HIDE DEF Fails
        <3> QED BY <2>1, LeastNatural
    <2>3. k \in first - 1 .. PerformanceMonths /\ ~ Holds(k)
        BY <2>2
    <2>4. CASE k = first - 1
        <3>1. R[first - 1] \in Int
            BY <1>0, <1>3, MonthsAssumption
        <3> QED BY <1>1, <2>3, <2>4, <3>1
    <2>5. CASE k # first - 1
        <3>1. k \in first .. PerformanceMonths /\ k - 1 \in first - 1 .. PerformanceMonths
            BY <1>0, <2>3, <2>5, MonthsAssumption
        <3>2. k - 1 \notin Fails
            BY <2>2, <3>1, <1>0, MonthsAssumption
        <3>3. R[k - 1] = R[first - 1] + D(k - 1) - W(k - 1) + Y(k - 1)
            BY <3>1, <3>2
        <3>4. R[first - 1] \in Int
            BY <1>0, <1>3, MonthsAssumption
        <3> HIDE DEF Fails
        <3> QED BY <1>1, <1>2, <2>3, <3>1, <3>3, <3>4
    <2> QED BY <2>4, <2>5
<1>5. PerformanceMonths \in first - 1 .. PerformanceMonths /\ PerformanceMonths \in first .. PerformanceMonths
    BY <1>0, MonthsAssumption
<1>6. /\ D(PerformanceMonths) \in Int /\ W(PerformanceMonths) \in Int /\ Y(PerformanceMonths) \in Int
    BY <1>1, <1>5
<1>7. Holds(PerformanceMonths)
    BY <1>4, <1>5
<1> QED BY <1>6, <1>7 DEF R, D, W, Y

-----------------------------------------------------------------------------
(* The wallet of a statement.  The rows come in order of their days, so the *)
(* balance before the first row of the period is what everything before     *)
(* the period amounts to.                                                   *)

InOrder(rows) == \A n \in DOMAIN rows : \A k \in 1 .. n : rows[k].day <= rows[n].day

RowsUpTo(rows, now) == {n \in DOMAIN rows : n <= now}

RowsOf(rows, S, types) == {n \in S : rows[n].type \in types}

LEMMA WalletIsEffect ==
    ASSUME NEW rows, NEW now
    PROVE  WalletAfter(rows, now) = Effect(rows, RowsUpTo(rows, now))
BY SumsOfRows DEF WalletAfter, RowsUpTo

LEMMA OpeningIsBefore ==
    ASSUME NEW rows \in Journal, InOrder(rows), NEW from \in Int, NEW now \in Nat
    PROVE  WalletOpening(rows, from, now)
             = Effect(rows, {n \in RowsBefore(rows, from) : n <= now})
<1> DEFINE inside == InPeriod(rows, from, now)
           old    == {n \in RowsBefore(rows, from) : n <= now}
<1>1. /\ DOMAIN rows \subseteq Nat \ {0}
      /\ \A n \in DOMAIN rows : rows[n].day \in Nat
      /\ \A n \in DOMAIN rows : n \in inside <=> n <= now /\ rows[n].day >= from
      /\ \A n \in DOMAIN rows : n \in old <=> n <= now /\ rows[n].day < from
      /\ inside \subseteq DOMAIN rows /\ old \subseteq DOMAIN rows
    BY RowsTyped DEF InPeriod, RowsBefore
<1>2. WalletOpening(rows, from, now)
        = WalletAfter(rows, IF inside = {} THEN now ELSE Min(inside) - 1)
    BY DEF WalletOpening
<1> HIDE DEF inside, old
<1>3. CASE inside = {}
    <2>1. RowsUpTo(rows, now) = old
        BY <1>1, <1>3 DEF RowsUpTo
    <2> QED BY <1>2, <1>3, <2>1, WalletIsEffect DEF old
<1>4. CASE inside # {}
    <2>1. Min(inside) \in inside /\ \A n \in inside : Min(inside) <= n
        <3>1. inside \subseteq Nat
            BY <1>1
        <3>2. \E m \in inside : \A n \in inside : m <= n
            BY <1>4, <3>1, LeastNatural
        <3> QED BY <3>2 DEF Min
    <2> DEFINE m == Min(inside)
    <2>2. m \in inside /\ m \in DOMAIN rows /\ m \in Nat \ {0} /\ m <= now /\ rows[m].day >= from
        BY <1>1, <2>1
    <2> HIDE DEF m
    <2>3. ASSUME NEW n \in DOMAIN rows PROVE n <= m - 1 <=> n \in old
        <3>1. n \in Nat /\ (n <= m - 1 <=> n < m)
            BY <1>1, <2>2
        <3>2. n < m => n <= now /\ n \notin inside
            BY <2>1, <2>2, <3>1 DEF m
        <3>3. n < m => n \in old
            BY <1>1, <3>1, <3>2
        <3>4. m <= n => rows[m].day <= rows[n].day
            BY <2>2, <3>1 DEF InOrder
        <3>5. m <= n => n \notin old
            BY <1>1, <2>2, <3>4
        <3> QED BY <2>2, <3>1, <3>3, <3>5
    <2>4. RowsUpTo(rows, m - 1) = old
        BY <1>1, <2>3 DEF RowsUpTo
    <2>5. WalletOpening(rows, from, now) = WalletAfter(rows, m - 1)
        BY <1>2, <1>4 DEF m
    <2> QED BY <2>4, <2>5, WalletIsEffect DEF old
<1> QED BY <1>3, <1>4

(* The sections of a statement say of the rows of the period what they do   *)
(* to the wallet: the yields of positions are all that they leave out.      *)
LEMMA SectionsCover ==
    ASSUME NEW rows \in Journal, NEW S \in SUBSET DOMAIN rows
    PROVE  Effect(rows, S)
             = Effect(rows, RowsOf(rows, S, {"DEPOSIT", "INVESTMENT_WALLET_TRANSFER_IN"}))
                 + Effect(rows, RowsOf(rows, S, WithdrawalTypes))
                 + Effect(rows, RowsOf(rows, S, DepositTypes))
                 + Effect(rows, RowsOf(rows, S, {"INVESTMENT_WALLET_TRANSFER_OUT"}))
<1> DEFINE C == RowsOf(rows, S, {"DEPOSIT", "INVESTMENT_WALLET_TRANSFER_IN"})
           W == RowsOf(rows, S, WithdrawalTypes)
           D == RowsOf(rows, S, DepositTypes)
           T == RowsOf(rows, S, {"INVESTMENT_WALLET_TRANSFER_OUT"})
           P == C \cup W \cup D \cup T
           E(X) == Effect(rows, X)
<1>1. /\ C \in SUBSET DOMAIN rows /\ W \in SUBSET DOMAIN rows /\ D \in SUBSET DOMAIN rows
      /\ T \in SUBSET DOMAIN rows /\ P \in SUBSET S
      /\ C \cup W \in SUBSET DOMAIN rows /\ C \cup W \cup D \in SUBSET DOMAIN rows
      /\ C \cap W = {} /\ (C \cup W) \cap D = {} /\ (C \cup W \cup D) \cap T = {}
    BY DEF RowsOf, WithdrawalTypes, DepositTypes
<1>2. \A n \in S \ P : EffectsOf(rows)[n] = 0
    <2> SUFFICES ASSUME NEW n \in S \ P PROVE EffectsOf(rows)[n] = 0
        OBVIOUS
    <2>1. n \in DOMAIN rows /\ rows[n] \in Entry /\ EffectsOf(rows)[n] = WalletEffect(rows[n])
        BY RowsTyped DEF EffectsOf
    <2>2. rows[n].type \in AccrualTypes
        BY <2>1 DEF RowsOf, Entry, JournalTypes, WithdrawalTypes, DepositTypes, AccrualTypes
    <2> QED BY <2>1, <2>2 DEF WalletEffect, WithdrawalTypes, DepositTypes, AccrualTypes
<1>3. IsFiniteSet(S) /\ \A n \in S : EffectsOf(rows)[n] \in Int
    BY RowsTyped
<1> HIDE DEF C, W, D, T
<1>4. E(S) = E(P)
    <2>1. P \in SUBSET S /\ \A n \in P : EffectsOf(rows)[n] \in Int
        BY <1>1, <1>3
    <2> HIDE DEF P
    <2> QED BY <1>2, <1>3, <2>1, SumOfPart DEF Effect
<1>5. E(P) = E(C \cup W \cup D) + E(T)
    BY <1>1, FlowOfUnion
<1>6. E(C \cup W \cup D) = E(C \cup W) + E(D)
    BY <1>1, FlowOfUnion
<1>7. E(C \cup W) = E(C) + E(W)
    BY <1>1, FlowOfUnion
<1> QED BY <1>4, <1>5, <1>6, <1>7 DEF C, W, D, T

(* The wallet of a statement adds up from its opening to its closing        *)
(* balance, whatever rows it finds (buildStatementData).                    *)
LEMMA WalletSectionAdds ==
    ASSUME NEW rows \in Journal, InOrder(rows), NEW from \in Int, NEW now \in Nat
    PROVE  /\ WalletAddsUp(WalletSection(rows, from, now))
           /\ WalletSection(rows, from, now).opening
                = SumRows(rows, {n \in RowsBefore(rows, from) : n <= now}, WalletEffect)
<1> DEFINE w   == WalletSection(rows, from, now)
           I   == InPeriod(rows, from, now)
           old == {n \in RowsBefore(rows, from) : n <= now}
           E(types) == Effect(rows, RowsOf(rows, I, types))
           in  == {"DEPOSIT", "INVESTMENT_WALLET_TRANSFER_IN"}
           out == {"INVESTMENT_WALLET_TRANSFER_OUT"}
<1>1. w.opening = Effect(rows, old)
    BY OpeningIsBefore DEF WalletSection
<1>2. w.closing = Effect(rows, RowsUpTo(rows, now))
    BY WalletIsEffect DEF WalletSection
<1>3. /\ w.contributions = E(in) /\ w.proceeds = E(WithdrawalTypes)
      /\ w.placements = - E(DepositTypes) /\ w.transfersOut = - E(out)
    BY SumsOfRows DEF WalletSection, RowsOf
<1>4. /\ I \in SUBSET DOMAIN rows /\ old \in SUBSET DOMAIN rows /\ old \cap I = {}
      /\ RowsUpTo(rows, now) = old \cup I
    <2>1. \A n \in DOMAIN rows : rows[n].day \in Nat
        BY RowsTyped
    <2> QED BY <2>1 DEF InPeriod, RowsBefore, RowsUpTo
<1>5. \A types : RowsOf(rows, I, types) \in SUBSET DOMAIN rows
    BY <1>4 DEF RowsOf
<1> HIDE DEF w, I, old
<1>6. Effect(rows, old \cup I) = Effect(rows, old) + Effect(rows, I)
    BY <1>4, FlowOfUnion
<1>7. Effect(rows, I) = E(in) + E(WithdrawalTypes) + E(DepositTypes) + E(out)
    BY <1>4, SectionsCover
<1>8. /\ E(in) \in Int /\ E(WithdrawalTypes) \in Int /\ E(DepositTypes) \in Int /\ E(out) \in Int
      /\ Effect(rows, old) \in Int
    BY <1>4, <1>5, SumsAreInts
<1> HIDE DEF E, in, out
<1>9. w.closing = w.opening + w.contributions + w.proceeds - w.placements - w.transfersOut
    BY <1>1, <1>2, <1>3, <1>4, <1>6, <1>7, <1>8
<1> QED BY <1>1, <1>9, SumsOfRows DEF WalletAddsUp, w, old

-----------------------------------------------------------------------------
(* The whole statement.                                                     *)

LEMMA FirstMonthIn ==
    ASSUME NEW perf, NEW period \in 1 .. PerformanceMonths
    PROVE  FirstMonth(perf, period) \in 1 .. PerformanceMonths
<1> DEFINE window == PerformanceMonths - period + 1 .. PerformanceMonths
           active == {i \in window : ~ Quiet(perf.months[i], perf.end[i])}
<1>1. active \subseteq 1 .. PerformanceMonths /\ 1 .. PerformanceMonths \subseteq Nat
    BY MonthsAssumption
<1>2. FirstMonth(perf, period) = IF active = {} THEN PerformanceMonths ELSE Min(active)
    BY DEF FirstMonth
<1> HIDE DEF active
<1>3. CASE active = {}
    BY <1>2, <1>3, MonthsAssumption
<1>4. CASE active # {}
    <2>1. active \subseteq Nat
        BY <1>1
    <2>2. \E m \in active : \A n \in active : m <= n
        BY <1>4, <2>1, LeastNatural
    <2>3. Min(active) \in active
        BY <2>2 DEF Min
    <2> QED BY <1>1, <1>2, <1>4, <2>3
<1> QED BY <1>3, <1>4

(* The opening value of a statement, worked back from the last one, is what *)
(* everything before its first month amounts to.                            *)
LEMMA OpeningValue ==
    ASSUME NEW rows \in Journal, NEW today \in Int, NEW now, NEW first \in 1 .. PerformanceMonths
    PROVE  StatementFrom(rows, Performance(rows, today), first, today, now).summary.openingValue
             = SumRows(rows, RowsBefore(rows, MonthOf(first, today)), SignedFlow)
<1> DEFINE perf == Performance(rows, today)
           R == RunningFlow(rows, today)
           T(field) == TotalOf(rows, today, first, PerformanceMonths, field)
<1>1. perf.currentValue = R[PerformanceMonths]
    BY PerformanceIsFlow, PerformanceUnfolds
<1>2. \A field : Total(perf, first, field) = T(field)
    BY PerformanceUnfolds DEF Total, TotalOf, FieldsOf
<1>3. R[first - 1] = Flow(rows, RowsBefore(rows, MonthOf(first, today)))
    <2>1. first - 1 \in 0 .. PerformanceMonths /\ (first - 1) + 1 = first
        BY MonthsAssumption
    <2> QED BY <2>1 DEF RunningFlow
<1>4. R[first - 1] \in Int
    <2>1. first - 1 \in 0 .. PerformanceMonths
        BY MonthsAssumption
    <2> QED BY <2>1, RunningIsInteger
<1>5. /\ T("deposits") \in Int /\ T("withdrawals") \in Int /\ T("yield") \in Int
      /\ R[PerformanceMonths] = R[first - 1] + T("deposits") - T("withdrawals") + T("yield")
    BY TotalsTelescope
<1>6. StatementFrom(rows, perf, first, today, now).summary.openingValue
        = perf.currentValue - Total(perf, first, "deposits") + Total(perf, first, "withdrawals")
            - Total(perf, first, "yield")
    BY DEF StatementFrom, SummaryOf
<1> HIDE DEF perf, R, T
<1>7. StatementFrom(rows, perf, first, today, now).summary.openingValue = R[first - 1]
    BY <1>1, <1>2, <1>4, <1>5, <1>6
<1> QED BY <1>3, <1>7, SumsOfRows DEF perf

(* The statement of any journal whose rows are in order, for every period   *)
(* and every moment it is asked for: the wallet adds up from its opening to *)
(* its closing balance, and the two openings are what the rows before the   *)
(* period amount to (buildStatementData).                                   *)
THEOREM StatementAdds ==
    ASSUME NEW rows \in Journal, InOrder(rows), NEW today \in Int, NEW now \in Nat,
           NEW period \in 1 .. PerformanceMonths
    PROVE  LET s == Statement(rows, period, today, now) IN
           /\ WalletAddsUp(s.wallet)
           /\ s.wallet.opening
                = SumRows(rows, {n \in RowsBefore(rows, s.from) : n <= now}, WalletEffect)
           /\ s.summary.openingValue = SumRows(rows, RowsBefore(rows, s.from), SignedFlow)
<1> DEFINE s == Statement(rows, period, today, now)
<1>1. PICK first \in 1 .. PerformanceMonths :
         s = StatementFrom(rows, Performance(rows, today), first, today, now)
    BY FirstMonthIn DEF Statement
<1>2. /\ s.from = MonthOf(first, today)
      /\ s.wallet = WalletSection(rows, MonthOf(first, today), now)
    BY <1>1 DEF StatementFrom
<1>3. MonthOf(first, today) \in Int
    BY MonthIsInteger, MonthsAssumption
<1>4. s.summary.openingValue = SumRows(rows, RowsBefore(rows, MonthOf(first, today)), SignedFlow)
    BY <1>1, OpeningValue
<1> HIDE DEF s
<1>5. WalletAddsUp(s.wallet)
    BY <1>2, <1>3, WalletSectionAdds
<1>6. s.wallet.opening
         = SumRows(rows, {n \in RowsBefore(rows, s.from) : n <= now}, WalletEffect)
    BY <1>2, <1>3, WalletSectionAdds
<1>7. s.summary.openingValue = SumRows(rows, RowsBefore(rows, s.from), SignedFlow)
    BY <1>2, <1>4
<1> QED BY <1>5, <1>6, <1>7 DEF s

-----------------------------------------------------------------------------
(* The journal of a run.  A row carries the day on which it was written,    *)
(* and days only pass.                                                      *)

RowsInOrder == InOrder(journal) /\ \A n \in DOMAIN journal : journal[n].day <= day

RowWritten ==
    \/ journal' = journal /\ day <= day'
    \/ day' = day /\ \E row : row.day = day /\ journal' = Append(journal, row)

LEMMA StepsWriteRows ==
    ASSUME InvestInv, [Next]_vars
    PROVE  RowWritten
<1>0. day \in Int
    BY DEF InvestInv, TypeOK, Days
<1>1. ASSUME UNCHANGED <<journal, day>> PROVE RowWritten
    BY <1>0, <1>1 DEF RowWritten
<1>2. ASSUME NEW type, NEW a, NEW target, Record(type, a, target), UNCHANGED day PROVE RowWritten
    <2> DEFINE row == [type |-> type, amount |-> a, target |-> target, day |-> day]
    <2>1. row.day = day /\ journal' = Append(journal, row)
        BY <1>2 DEF Record
    <2> HIDE DEF row
    <2> QED BY <1>2, <2>1 DEF RowWritten
<1>3. CASE ClientStep
    BY <1>1, <1>2, <1>3 DEF ClientStep, Receive, TransferToWallet, TransferFromWallet,
       DepositBasket, DepositPlan, FindActive, Withdraw, JobsUnchanged
<1>4. ASSUME NEW p \in Passes, PassAdvances(p) PROVE RowWritten
    BY <1>1, <1>2, <1>4 DEF PassAdvances, RunTreasury, FindRun, CreateRun, CreateRunRefused,
       ReadPositions, Accrue, JournalYield, ReadMatured, Settle, PassDone, ClientUnchanged
<1>5. ASSUME NEW p \in Passes, RowFails(p) \/ \E k \in Kinds : StartPass(p, k) PROVE RowWritten
    BY <1>1, <1>5 DEF RowFails, StartPass, ClientUnchanged
<1>6. CASE NextDay
    BY <1>0, <1>6 DEF NextDay, RowWritten
<1>7. CASE Restart \/ UNCHANGED vars
    BY <1>1, <1>7 DEF Restart, vars
<1> QED BY <1>3, <1>4, <1>5, <1>6, <1>7 DEF Next

LEMMA OrderStep ==
    ASSUME InvestInv, InvestInv', RowsInOrder, [Next]_vars
    PROVE  RowsInOrder'
<1>1. /\ journal \in Journal /\ journal' \in Journal /\ day \in Int /\ day' \in Int
      /\ DOMAIN journal = 1 .. Len(journal) /\ Len(journal) \in Nat
      /\ \A n \in DOMAIN journal : journal[n].day \in Nat
    BY RowsTyped DEF InvestInv, TypeOK, Days, Journal
<1>2. CASE journal' = journal /\ day <= day'
    <2>1. \A n \in DOMAIN journal : journal[n].day <= day'
        BY <1>1, <1>2 DEF RowsInOrder
    <2> QED BY <1>2, <2>1 DEF RowsInOrder
<1>3. ASSUME day' = day, NEW row, row.day = day, journal' = Append(journal, row)
      PROVE  RowsInOrder'
    <2> DEFINE N == Len(journal)
    <2>1. /\ DOMAIN journal' = 1 .. N + 1 /\ journal'[N + 1] = row
          /\ \A n \in 1 .. N : journal'[n] = journal[n]
        BY <1>1, <1>3 DEF Journal
    <2>2. \A n \in DOMAIN journal' : journal'[n].day <= day
        BY <1>1, <1>3, <2>1 DEF RowsInOrder
    <2>3. ASSUME NEW n \in DOMAIN journal', NEW k \in 1 .. n
          PROVE  journal'[k].day <= journal'[n].day
        <3>1. CASE n = N + 1
            BY <1>1, <1>3, <2>1, <2>2, <3>1
        <3>2. CASE n # N + 1
            BY <1>1, <2>1, <3>2 DEF RowsInOrder, InOrder
        <3> QED BY <3>1, <3>2
    <2> QED BY <1>3, <2>2, <2>3 DEF RowsInOrder, InOrder
<1> QED BY <1>2, <1>3, StepsWriteRows DEF RowWritten

LEMMA OrderInit == Init => RowsInOrder
<1> SUFFICES ASSUME Init PROVE RowsInOrder
    OBVIOUS
<1>1. DOMAIN journal = {}
    BY DEF Init
<1> QED BY <1>1 DEF RowsInOrder, InOrder

LEMMA RowsAreInOrder == Spec => []RowsInOrder
BY OrderInit, OrderStep, InvestInvariant, PTL DEF Spec

(* Every statement adds up, whenever it is asked for and for every period:  *)
(* the wallet from its opening to its closing balance, by its sections, and *)
(* the openings of the wallet and of the portfolio are what everything      *)
(* before the period amounts to, although the statement takes the one from  *)
(* the first row of the period and works the other back from the last value *)
(* (buildInvestmentPerformance, buildStatementData).                        *)
THEOREM StatementsReconcile == Spec => []StatementReconciles
<1>1. InvestInv /\ RowsInOrder => StatementReconciles
    <2> SUFFICES ASSUME InvestInv, RowsInOrder,
                        NEW period \in 1 .. PerformanceMonths, NEW now \in 0 .. Len(journal)
                 PROVE  LET s == Statement(journal, period, day, now) IN
                        WalletAddsUp(s.wallet) /\ OpensWith(s, Before(s.from), now)
        BY DEF StatementReconciles
    <2> DEFINE s == Statement(journal, period, day, now)
    <2>1. journal \in Journal /\ day \in Int /\ now \in Nat /\ InOrder(journal)
        BY DEF InvestInv, TypeOK, Days, Journal, RowsInOrder
    <2>2. /\ WalletAddsUp(s.wallet)
          /\ s.wallet.opening
               = SumRows(journal, {n \in RowsBefore(journal, s.from) : n <= now}, WalletEffect)
          /\ s.summary.openingValue = SumRows(journal, RowsBefore(journal, s.from), SignedFlow)
        BY <2>1, StatementAdds
    <2>3. RowsBefore(journal, s.from) = Before(s.from)
        BY DEF RowsBefore, Before
    <2> HIDE DEF s
    <2>4. OpensWith(s, Before(s.from), now)
        BY <2>2, <2>3, Zenon DEF OpensWith
    <2> QED BY <2>2, <2>4 DEF s
<1> QED BY <1>1, InvestInvariant, RowsAreInOrder, PTL

-----------------------------------------------------------------------------
(* The value of the portfolio.  Leave the yields aside, which YieldBooks    *)
(* accounts for: then no pass appears in the sums, a deposit adds to its    *)
(* position what its row says, and a payment takes away the value, so that  *)
(* a position which has ended is left with minus its yield.                 *)

Placed == [i \in Ids |-> IF IsActive(i) THEN positions[i].principal ELSE - positions[i].accrued]

PlacementFlow(row) == IF row.type \in AccrualTypes THEN 0 ELSE SignedFlow(row)

PlacementFlows == [n \in DOMAIN journal |-> PlacementFlow(journal[n])]

PlacementsAgree == SumFunctionOnSet(Placed, Ids) = SumFunctionOnSet(PlacementFlows, DOMAIN journal)

PaysAPosition == \A w \in Withdrawers : withdrawal[w].pc = "pay" => withdrawal[w].task \in Task

PortfolioBooks == PaysAPosition /\ (strays = {} => PlacementsAgree)

LEMMA PlacementsTyped ==
    ASSUME InvestInv
    PROVE  /\ \A i \in Ids : Placed[i] \in Int
           /\ IsFiniteSet(DOMAIN journal)
           /\ \A n \in DOMAIN journal : PlacementFlows[n] \in Int
           /\ \A row \in Entry : PlacementFlow(row) \in Int
<1>1. \A row \in Entry : PlacementFlow(row) \in Int
    BY DEF PlacementFlow, SignedFlow, Entry
<1>2. journal \in Journal
    BY DEF InvestInv, TypeOK, Journal
<1>3. IsFiniteSet(DOMAIN journal) /\ \A n \in DOMAIN journal : journal[n] \in Entry
    BY <1>2, RowsTyped
<1>4. \A i \in Ids : positions[i].principal \in Nat /\ positions[i].accrued \in Int
    BY DEF InvestInv, TypeOK, Position
<1>5. \A i \in Ids : Placed[i] \in Int
    BY <1>4 DEF Placed
<1>6. \A n \in DOMAIN journal : PlacementFlows[n] = PlacementFlow(journal[n])
    BY DEF PlacementFlows
<1>7. \A n \in DOMAIN journal : PlacementFlows[n] \in Int
    BY <1>1, <1>3, <1>6, Zenon
<1> QED BY <1>1, <1>3, <1>5, <1>7

\* What a step may do to the placements and to the rows that tell of them.
QuietRow == \/ journal' = journal
            \/ \E row \in Entry : PlacementFlow(row) = 0 /\ journal' = Append(journal, row)

MovedBy(i, row) ==
    /\ journal' = Append(journal, row)
    /\ \A k \in Ids \ {i} : Placed'[k] = Placed[k]
    /\ Placed'[i] = Placed[i] + PlacementFlow(row)

PlacementStep ==
    \/ Placed' = Placed /\ QuietRow
    \/ \E i \in Ids, row \in Entry : MovedBy(i, row)

LEMMA RowPlaced ==
    ASSUME InvestInv, NEW row \in Entry, journal' = Append(journal, row)
    PROVE  SumFunctionOnSet(PlacementFlows', DOMAIN journal')
             = SumFunctionOnSet(PlacementFlows, DOMAIN journal) + PlacementFlow(row)
<1> DEFINE n == Len(journal)
           f == PlacementFlows
           g == PlacementFlows'
           S == DOMAIN journal
<1>1. journal \in Seq(Entry) /\ n \in Nat
    BY DEF InvestInv, TypeOK
<1>2. /\ S = 1 .. n /\ DOMAIN journal' = 1 .. n + 1
      /\ journal'[n + 1] = row /\ \A k \in 1 .. n : journal'[k] = journal[k]
    BY <1>1
<1>3. DOMAIN journal' = S \cup {n + 1} /\ n + 1 \notin S
    BY <1>1, <1>2
<1>4. IsFiniteSet(S) /\ (\A k \in S : f[k] \in Int) /\ PlacementFlow(row) \in Int
    BY PlacementsTyped
<1>5. \A k \in S : g[k] = f[k]
    BY <1>1, <1>2 DEF PlacementFlows
<1>6. g[n + 1] = PlacementFlow(row)
    BY <1>1, <1>2 DEF PlacementFlows
<1> HIDE DEF f, g, S
<1>7. SumFunctionOnSet(g, S \cup {n + 1}) = SumFunctionOnSet(f, S) + g[n + 1]
    BY <1>3, <1>4, <1>5, <1>6, SumOfMore
<1>8. SumFunctionOnSet(g, DOMAIN journal') = SumFunctionOnSet(g, S \cup {n + 1})
    BY <1>3, Zenon
<1> QED BY <1>6, <1>7, <1>8 DEF f, g, S

LEMMA PlacementsMove ==
    ASSUME InvestInv, InvestInv', IsFiniteSet(Ids), PlacementsAgree, PlacementStep
    PROVE  PlacementsAgree'
<1> DEFINE f == Placed
           g == Placed'
           J == SumFunctionOnSet(PlacementFlows, DOMAIN journal)
           K == SumFunctionOnSet(PlacementFlows', DOMAIN journal')
<1>1. SumFunctionOnSet(f, Ids) = J /\ J \in Int
    BY PlacementsTyped, SumIsInteger DEF PlacementsAgree
<1>2. \A k \in Ids : f[k] \in Int
    BY PlacementsTyped
<1>3. ASSUME Placed' = Placed, QuietRow PROVE SumFunctionOnSet(g, Ids) = K
    <2>1. CASE journal' = journal
        <3>1. K = J
            BY <2>1 DEF PlacementFlows
        <3> QED BY <1>1, <1>3, <3>1
    <2>2. ASSUME NEW row \in Entry, PlacementFlow(row) = 0, journal' = Append(journal, row)
          PROVE  SumFunctionOnSet(g, Ids) = K
        <3>1. K = J + PlacementFlow(row)
            BY <2>2, RowPlaced
        <3>2. K = J
            BY <1>1, <2>2, <3>1
        <3> QED BY <1>1, <1>3, <3>2
    <2> QED BY <1>3, <2>1, <2>2 DEF QuietRow
<1>4. ASSUME NEW i \in Ids, NEW row \in Entry, MovedBy(i, row) PROVE SumFunctionOnSet(g, Ids) = K
    <2>1. K = J + PlacementFlow(row)
        BY <1>4, RowPlaced DEF MovedBy
    <2>2. (\A k \in Ids \ {i} : g[k] = f[k]) /\ g[i] = f[i] + PlacementFlow(row)
        BY <1>4 DEF MovedBy
    <2>3. PlacementFlow(row) \in Int
        BY PlacementsTyped
    <2> HIDE DEF f, g, J, K
    <2>3a. \A k \in Ids : f[k] \in Int /\ g[k] \in Int
        BY <1>2, <2>2, <2>3
    <2>4. SumFunctionOnSet(g, Ids) = SumFunctionOnSet(f, Ids) - f[i] + g[i]
        BY <2>2, <2>3a, SumOfChange
    <2>5. f[i] \in Int
        BY <1>2
    <2> QED BY <1>1, <2>1, <2>2, <2>3, <2>4, <2>5
<1>5. SumFunctionOnSet(g, Ids) = K
    BY <1>3, <1>4 DEF PlacementStep
<1> QED BY <1>5 DEF PlacementsAgree

(* What each row adds to the placements.                                    *)
LEMMA RowFlows ==
    ASSUME InvestInv, NEW a \in Int, NEW target \in Target
    PROVE  /\ \A type \in DepositTypes : PlacementFlow(RowNow(type, a, target)) = a
           /\ \A type \in WithdrawalTypes : PlacementFlow(RowNow(type, a, target)) = - a
           /\ \A type \in JournalTypes \ (DepositTypes \cup WithdrawalTypes) :
                 PlacementFlow(RowNow(type, a, target)) = 0
           /\ \A type \in JournalTypes : RowNow(type, a, target) \in Entry
           /\ \A type : Record(type, a, target) => journal' = Append(journal, RowNow(type, a, target))
<1>1. day \in Nat
    BY InvestBoundsAssumption DEF InvestInv, TypeOK, Days
<1>2. \A type \in JournalTypes : RowNow(type, a, target) \in Entry
    BY <1>1, Zenon DEF RowNow, Entry
<1>3. \A type : RowNow(type, a, target).type = type /\ RowNow(type, a, target).amount = a
    BY DEF RowNow
<1>4. \A type \in DepositTypes : PlacementFlow(RowNow(type, a, target)) = a
    BY <1>3 DEF PlacementFlow, SignedFlow, DepositTypes, WithdrawalTypes, AccrualTypes
<1>5. \A type \in WithdrawalTypes : PlacementFlow(RowNow(type, a, target)) = - a
    BY <1>3 DEF PlacementFlow, SignedFlow, DepositTypes, WithdrawalTypes, AccrualTypes
<1>6. \A type \in JournalTypes \ (DepositTypes \cup WithdrawalTypes) :
         PlacementFlow(RowNow(type, a, target)) = 0
    BY <1>3 DEF PlacementFlow, SignedFlow
<1>7. \A type : Record(type, a, target) => journal' = Append(journal, RowNow(type, a, target))
    BY DEF Record, RowNow
<1> QED BY <1>2, <1>4, <1>5, <1>6, <1>7

LEMMA QuietRecord ==
    ASSUME InvestInv, NEW type \in JournalTypes \ (DepositTypes \cup WithdrawalTypes),
           NEW a \in Int, NEW target \in Target, Record(type, a, target)
    PROVE  QuietRow
<1>1. /\ RowNow(type, a, target) \in Entry /\ PlacementFlow(RowNow(type, a, target)) = 0
      /\ journal' = Append(journal, RowNow(type, a, target))
    BY RowFlows
<1> QED BY <1>1 DEF QuietRow

(* One position changes.                                                    *)
LEMMA OnePlaced ==
    ASSUME InvestInv, NEW i \in Ids, NEW new, positions' = [positions EXCEPT ![i] = new]
    PROVE  /\ \A k \in Ids \ {i} : Placed'[k] = Placed[k]
           /\ Placed'[i] = IF new.status = "ACTIVE" THEN new.principal ELSE - new.accrued
           /\ Placed[i] = IF IsActive(i) THEN positions[i].principal ELSE - positions[i].accrued
<1>1. positions \in [Ids -> Position]
    BY DEF InvestInv, TypeOK
<1>2. positions'[i] = new /\ \A k \in Ids \ {i} : positions'[k] = positions[k]
    BY <1>1
<1> QED BY <1>2 DEF Placed, IsActive

(* A deposit opens a position, or tops up one that is active.               *)
LEMMA DepositPlaces ==
    ASSUME InvestInv, NEW i \in Ids, NEW a \in Nat, NEW type \in DepositTypes,
           Record(type, a, "AVAILABLE"), NEW new, positions' = [positions EXCEPT ![i] = new],
           new.status = "ACTIVE",
           Placed[i] + a = new.principal
    PROVE  PlacementStep
<1> DEFINE row == RowNow(type, a, "AVAILABLE")
<1>1. type \in JournalTypes /\ "AVAILABLE" \in Target /\ a \in Int
    BY DEF DepositTypes, JournalTypes, Target
<1>2. row \in Entry /\ PlacementFlow(row) = a /\ journal' = Append(journal, row)
    BY <1>1, RowFlows
<1>3. (\A k \in Ids \ {i} : Placed'[k] = Placed[k]) /\ Placed'[i] = new.principal
    BY OnePlaced
<1> HIDE DEF row
<1>4. MovedBy(i, row)
    BY <1>2, <1>3 DEF MovedBy
<1> QED BY <1>2, <1>4 DEF PlacementStep

LEMMA OpeningPlaces ==
    ASSUME InvestInv, YieldBooks, NEW i \in Ids, NEW a \in Nat, NEW type \in DepositTypes,
           Record(type, a, "AVAILABLE"), positions[i].status = "none",
           NEW new, positions' = [positions EXCEPT ![i] = new],
           new.status = "ACTIVE", new.principal = a
    PROVE  PlacementStep
<1>1. positions[i].accrued = 0
    BY DEF YieldBooks, OpenedOnce
<1>2. Placed[i] = 0
    BY <1>1 DEF Placed, IsActive
<1>3. Placed[i] + a = new.principal
    BY <1>2
<1> QED BY <1>3, DepositPlaces

LEMMA ToppingPlaces ==
    ASSUME InvestInv, NEW i \in Ids, NEW a \in Nat, NEW type \in DepositTypes,
           Record(type, a, "AVAILABLE"), IsActive(i),
           positions' = [positions EXCEPT ![i] = ToppedUp(i, a)]
    PROVE  PlacementStep
<1>1. positions[i] \in Position
    BY DEF InvestInv, TypeOK
<1>2. /\ ToppedUp(i, a).status = positions[i].status
      /\ ToppedUp(i, a).principal = positions[i].principal + a
    BY <1>1, Zenon DEF ToppedUp, Position
<1>3. Placed[i] = positions[i].principal
    BY DEF Placed
<1> DEFINE new == ToppedUp(i, a)
<1>4. new.status = "ACTIVE" /\ Placed[i] + a = new.principal
    BY <1>2, <1>3 DEF IsActive
<1> HIDE DEF new
<1>5. positions' = [positions EXCEPT ![i] = new]
    BY DEF new
<1> QED BY <1>4, <1>5, DepositPlaces

(* A payment of the value that is due.                                      *)
LEMMA PaymentPlaces ==
    ASSUME InvestInv, NEW t \in Task, ~ Stale(t), NEW status \in {"CLOSED", "MATURED"},
           positions' = Ended(t.id, status), NEW type \in WithdrawalTypes,
           Record(type, t.value, "AVAILABLE")
    PROVE  PlacementStep
<1> DEFINE row == RowNow(type, t.value, "AVAILABLE")
           i   == t.id
           new == [positions[t.id] EXCEPT !.status = status]
<1>1. i \in Ids /\ t.value \in Int /\ positions \in [Ids -> Position] /\ positions[i] \in Position
    BY DEF Task, InvestInv, TypeOK
<1>2. type \in JournalTypes /\ "AVAILABLE" \in Target
    BY DEF WithdrawalTypes, JournalTypes, Target
<1>3. row \in Entry /\ PlacementFlow(row) = - t.value /\ journal' = Append(journal, row)
    BY <1>1, <1>2, RowFlows
<1>4. /\ new.status = status /\ new.accrued = positions[i].accrued
      /\ positions' = [positions EXCEPT ![i] = new]
    <2>1. new.status = status /\ new.accrued = positions[i].accrued
        BY <1>1, Zenon DEF Position
    <2>2. positions' = [positions EXCEPT ![i] = new]
        BY DEF Ended
    <2> QED BY <2>1, <2>2
<1>5. IsActive(i) /\ t.value = positions[i].principal + positions[i].accrued
    BY DEF Stale, Value
<1>6. positions[i].principal \in Int /\ positions[i].accrued \in Int
    BY <1>1 DEF Position
<1> HIDE DEF row, new, i
<1>7. /\ \A k \in Ids \ {i} : Placed'[k] = Placed[k]
      /\ Placed'[i] = - positions[i].accrued
      /\ Placed[i] = positions[i].principal
    <2>1. positions' = [positions EXCEPT ![i] = new]
        BY <1>4
    <2>2. /\ \A k \in Ids \ {i} : Placed'[k] = Placed[k]
          /\ Placed'[i] = IF new.status = "ACTIVE" THEN new.principal ELSE - new.accrued
          /\ Placed[i] = IF IsActive(i) THEN positions[i].principal ELSE - positions[i].accrued
        BY <1>1, <2>1, OnePlaced
    <2>3. new.status # "ACTIVE"
        BY <1>4
    <2> QED BY <1>4, <1>5, <2>2, <2>3
<1>8. Placed'[i] = Placed[i] + PlacementFlow(row)
    BY <1>1, <1>3, <1>5, <1>6, <1>7
<1>9. MovedBy(i, row)
    BY <1>3, <1>7, <1>8 DEF MovedBy
<1> QED BY <1>1, <1>3, <1>9 DEF PlacementStep

LEMMA ClientPlaces ==
    ASSUME InvestInv, YieldBooks, PaysAPosition, ClientStep, strays' = {}
    PROVE  PlacementStep
<1> USE SumsAssumption
<1>0. ASSUME UNCHANGED positions, QuietRow PROVE PlacementStep
    BY <1>0 DEF PlacementStep, Placed, IsActive
<1>1. ASSUME NEW a \in Receipts, NEW target \in Target, Receive(a, target) PROVE PlacementStep
    <2>1. /\ UNCHANGED positions /\ a \in Int /\ Record("DEPOSIT", a, target)
          /\ "DEPOSIT" \in JournalTypes \ (DepositTypes \cup WithdrawalTypes)
        BY <1>1 DEF Receive, JournalTypes, DepositTypes, WithdrawalTypes
    <2> QED BY <1>0, <2>1, QuietRecord
<1>2. ASSUME NEW a \in Amounts, TransferToWallet(a) \/ TransferFromWallet(a) PROVE PlacementStep
    <2>1. /\ UNCHANGED positions /\ a \in Int /\ "AVAILABLE" \in Target
          /\ \/ Record("INVESTMENT_WALLET_TRANSFER_IN", a, "AVAILABLE")
             \/ Record("INVESTMENT_WALLET_TRANSFER_OUT", a, "AVAILABLE")
        BY <1>2 DEF TransferToWallet, TransferFromWallet, Target
    <2>2. {"INVESTMENT_WALLET_TRANSFER_IN", "INVESTMENT_WALLET_TRANSFER_OUT"}
             \subseteq JournalTypes \ (DepositTypes \cup WithdrawalTypes)
        BY DEF JournalTypes, DepositTypes, WithdrawalTypes
    <2> QED BY <1>0, <2>1, <2>2, QuietRecord
<1>3. ASSUME NEW b \in Baskets, NEW i \in Ids, NEW a \in Amounts, DepositBasket(b, i, a)
      PROVE  PlacementStep
    <2>1. /\ a \in Nat /\ "INVESTMENT_DEPOSIT" \in DepositTypes
          /\ Record("INVESTMENT_DEPOSIT", a, "AVAILABLE")
        BY <1>3 DEF DepositBasket, DepositTypes
    <2>2. CASE positions[i].status = "none"
        <3>1. positions' = [positions EXCEPT ![i] = Opened(b, a, 0)]
            BY <1>3, <2>2 DEF DepositBasket
        <3> QED BY <2>1, <2>2, <3>1, OpeningPlaces DEF Opened
    <2>3. CASE positions[i].status # "none"
        <3>1. positions' = [positions EXCEPT ![i] = ToppedUp(i, a)] /\ IsActive(i)
            BY <1>3, <2>3 DEF DepositBasket, DepositRow, NextId
        <3> QED BY <2>1, <3>1, ToppingPlaces
    <2> QED BY <2>2, <2>3
<1>4. ASSUME NEW x \in Plans, NEW i \in Ids, NEW a \in Amounts, DepositPlan(x, i, a)
      PROVE  PlacementStep
    <2>1. /\ a \in Nat /\ "FIXED_TERM_DEPOSIT" \in DepositTypes
          /\ Record("FIXED_TERM_DEPOSIT", a, "AVAILABLE")
          /\ positions[i].status = "none"
          /\ positions' = [positions EXCEPT ![i] = Opened(x, a, day + Term)]
        BY <1>4 DEF DepositPlan, DepositTypes, NextId
    <2> QED BY <2>1, OpeningPlaces DEF Opened
<1>5. ASSUME NEW w \in Withdrawers, NEW i \in Ids, FindActive(w, i) PROVE PlacementStep
    BY <1>0, <1>5 DEF FindActive, QuietRow
<1>6. ASSUME NEW w \in Withdrawers, Withdraw(w) PROVE PlacementStep
    <2> DEFINE t == withdrawal[w].task
    <2>1. t \in Task
        BY <1>6 DEF Withdraw, PaysAPosition
    <2>2. /\ ~ Stale(t) /\ positions' = Ended(t.id, "CLOSED")
          /\ Record("INVESTMENT_WITHDRAWAL", t.value, "AVAILABLE")
          /\ "INVESTMENT_WITHDRAWAL" \in WithdrawalTypes
        BY <1>6 DEF Withdraw, WithdrawnAmount, WithdrawalTypes
    <2> HIDE DEF t
    <2> QED BY <2>1, <2>2, PaymentPlaces
<1> QED BY <1>1, <1>2, <1>3, <1>4, <1>5, <1>6 DEF ClientStep

(* An increment of an active position is its yield and nothing else.        *)
LEMMA AccruePlaces ==
    ASSUME InvestInv, NEW p \in Passes, NEW t \in pass[p].todo, Accrue(p, t), strays' = {}
    PROVE  PlacementStep
<1> DEFINE i == t.id
           y == DailyYield(t, pass[p].rates[t.product])
<1>1. i \in Ids /\ t.value \in Int /\ positions \in [Ids -> Position]
    BY TasksTyped DEF InvestInv, TypeOK
<1>2. /\ positions' = [positions EXCEPT ![i].accrued = positions[i].accrued + y]
      /\ journal' = journal
      /\ y = 0 \/ IsActive(i)
    BY DEF Accrue, Accrued
<1> HIDE DEF i, y
<1>3. /\ \A k \in Ids \ {i} : positions'[k] = positions[k]
      /\ positions'[i].status = positions[i].status
      /\ positions'[i].principal = positions[i].principal
      /\ positions'[i].accrued = positions[i].accrued + y
    BY <1>1, <1>2 DEF Position
<1>4. y = 0 => positions'[i].accrued = positions[i].accrued
    <2>1. positions[i].accrued \in Int
        BY <1>1 DEF Position
    <2> QED BY <1>3, <2>1
<1>5. \A k \in Ids : Placed'[k] = Placed[k]
    BY <1>2, <1>3, <1>4 DEF Placed, IsActive
<1>6. Placed' = Placed
    BY <1>5 DEF Placed
<1> QED BY <1>2, <1>6 DEF PlacementStep, QuietRow

LEMMA PassPlaces ==
    ASSUME InvestInv, NEW p \in Passes, PassAdvances(p), strays' = {}
    PROVE  PlacementStep
<1>1. ASSUME UNCHANGED positions, QuietRow PROVE PlacementStep
    BY <1>1 DEF PlacementStep, Placed, IsActive
<1>2. ASSUME UNCHANGED <<positions, journal>> PROVE PlacementStep
    BY <1>1, <1>2 DEF QuietRow
<1>3. ASSUME JournalYield(p) PROVE PlacementStep
    <2>1. /\ UNCHANGED positions /\ pass[p].yield \in Int /\ "AVAILABLE" \in Target
          /\ Record(YieldType(pass[p].kind), pass[p].yield, "AVAILABLE")
        BY <1>3 DEF JournalYield, ClientUnchanged, InvestInv, TypeOK, Pass, Target
    <2>2. YieldType(pass[p].kind) \in JournalTypes \ (DepositTypes \cup WithdrawalTypes)
        BY DEF YieldType, JournalTypes, DepositTypes, WithdrawalTypes
    <2> QED BY <1>1, <2>1, <2>2, QuietRecord
<1>4. ASSUME NEW t \in pass[p].todo, Settle(p, t) PROVE PlacementStep
    <2>1. t \in Task
        BY TasksTyped DEF InvestInv
    <2>2. ~ Stale(t) /\ PayoutAmount(t) = t.value
        BY <1>4 DEF Settle
    <2>3. /\ positions' = Ended(t.id, "MATURED")
          /\ Record("FIXED_TERM_MATURITY_PAYOUT", t.value, "AVAILABLE")
          /\ "FIXED_TERM_MATURITY_PAYOUT" \in WithdrawalTypes
        BY <1>4, <2>2 DEF Settle, WithdrawalTypes
    <2> QED BY <2>1, <2>2, <2>3, PaymentPlaces
<1>5. ASSUME NEW r, RunTreasury(p, r) PROVE PlacementStep
    BY <1>2, <1>5 DEF RunTreasury
<1>6. ASSUME NEW x, FindRun(p, x) PROVE PlacementStep
    BY <1>2, <1>6 DEF FindRun
<1>7. ASSUME NEW r, CreateRun(p, r) PROVE PlacementStep
    BY <1>2, <1>7 DEF CreateRun
<1>8. CASE CreateRunRefused(p) \/ ReadPositions(p) \/ ReadMatured(p) \/ PassDone(p)
    BY <1>2, <1>8 DEF CreateRunRefused, ReadPositions, ReadMatured, PassDone
<1> QED BY <1>3, <1>4, <1>5, <1>6, <1>7, <1>8, AccruePlaces DEF PassAdvances

\* What went astray is never forgotten.
LEMMA StraysStay ==
    ASSUME [Next]_vars, strays' = {}
    PROVE  strays = {}
<1>1. ASSUME UNCHANGED strays PROVE strays = {}
    BY <1>1
<1>2. CASE ClientStep
    BY <1>2 DEF ClientStep, Receive, TransferToWallet, TransferFromWallet, DepositBasket,
       DepositPlan, FindActive, Withdraw, JobsUnchanged
<1>3. ASSUME NEW p \in Passes, PassAdvances(p) PROVE strays = {}
    BY <1>3 DEF PassAdvances, RunTreasury, FindRun, CreateRun, CreateRunRefused,
       ReadPositions, Accrue, JournalYield, ReadMatured, Settle, PassDone
<1>4. ASSUME NEW p \in Passes, RowFails(p) \/ \E k \in Kinds : StartPass(p, k) PROVE strays = {}
    BY <1>4 DEF RowFails, StartPass
<1>5. CASE NextDay \/ Restart \/ UNCHANGED vars
    BY <1>5 DEF NextDay, Restart, vars
<1> QED BY <1>2, <1>3, <1>4, <1>5 DEF Next

LEMMA StepsPlace ==
    ASSUME InvestInv, YieldBooks, PaysAPosition, [Next]_vars, strays' = {}
    PROVE  PlacementStep
<1>1. ASSUME UNCHANGED <<positions, journal>> PROVE PlacementStep
    BY <1>1 DEF PlacementStep, QuietRow, Placed, IsActive
<1>2. CASE ClientStep
    BY <1>2, ClientPlaces
<1>3. ASSUME NEW p \in Passes, PassAdvances(p) PROVE PlacementStep
    BY <1>3, PassPlaces
<1>4. ASSUME NEW p \in Passes, RowFails(p) \/ \E k \in Kinds : StartPass(p, k) PROVE PlacementStep
    BY <1>1, <1>4 DEF RowFails, StartPass
<1>5. CASE NextDay \/ Restart \/ UNCHANGED vars
    BY <1>1, <1>5 DEF NextDay, Restart, vars
<1> QED BY <1>2, <1>3, <1>4, <1>5 DEF Next

(* A withdrawal pays a position that it read.                               *)
LEMMA PaysStep ==
    ASSUME InvestInv, PaysAPosition, [Next]_vars
    PROVE  PaysAPosition'
<1>1. ASSUME UNCHANGED withdrawal PROVE PaysAPosition'
    BY <1>1 DEF PaysAPosition
<1>2. ASSUME NEW w \in Withdrawers, NEW i \in Ids, FindActive(w, i) PROVE PaysAPosition'
    <2>1. withdrawal' = [withdrawal EXCEPT ![w] = [pc |-> "pay", task |-> TaskOf(i)]]
        BY <1>2 DEF FindActive
    <2>2. TaskOf(i) \in Task
        BY ValueTyped DEF InvestInv
    <2> QED BY <2>1, <2>2 DEF InvestInv, TypeOK, PaysAPosition
<1>3. ASSUME NEW w \in Withdrawers, Withdraw(w) PROVE PaysAPosition'
    <2>1. withdrawal' = [withdrawal EXCEPT ![w] = IdleWithdrawal]
        BY <1>3 DEF Withdraw
    <2> QED BY <2>1 DEF InvestInv, TypeOK, PaysAPosition, IdleWithdrawal
<1>4. CASE ClientStep
    BY <1>1, <1>2, <1>3, <1>4 DEF ClientStep, Receive, TransferToWallet, TransferFromWallet,
       DepositBasket, DepositPlan
<1>5. ASSUME NEW p \in Passes, PassAdvances(p) PROVE PaysAPosition'
    BY <1>1, <1>5 DEF PassAdvances, RunTreasury, FindRun, CreateRun, CreateRunRefused,
       ReadPositions, Accrue, JournalYield, ReadMatured, Settle, PassDone, ClientUnchanged
<1>6. ASSUME NEW p \in Passes, RowFails(p) \/ \E k \in Kinds : StartPass(p, k) PROVE PaysAPosition'
    BY <1>1, <1>6 DEF RowFails, StartPass, ClientUnchanged
<1>7. CASE NextDay \/ UNCHANGED vars
    BY <1>1, <1>7 DEF NextDay, vars
<1>8. CASE Restart
    BY <1>8 DEF Restart, PaysAPosition, IdleWithdrawal
<1> QED BY <1>4, <1>5, <1>6, <1>7, <1>8 DEF Next

LEMMA PortfolioStep ==
    ASSUME IsFiniteSet(Ids), InvestInv, InvestInv', YieldBooks, PortfolioBooks, [Next]_vars
    PROVE  PortfolioBooks'
<1>1. PaysAPosition'
    BY PaysStep DEF PortfolioBooks
<1>2. ASSUME strays' = {} PROVE PlacementsAgree'
    BY <1>2, StraysStay, StepsPlace, PlacementsMove DEF PortfolioBooks
<1> QED BY <1>1, <1>2 DEF PortfolioBooks

LEMMA PortfolioInit ==
    ASSUME Init, IsFiniteSet(Ids)
    PROVE  PortfolioBooks
<1>1. PaysAPosition
    BY DEF Init, PaysAPosition, IdleWithdrawal
<1>2. \A i \in Ids : Placed[i] = 0
    <2>1. \A i \in Ids : ~ IsActive(i) /\ positions[i].accrued = 0
        BY DEF Init, IsActive, NoPosition
    <2> QED BY <2>1 DEF Placed
<1>3. DOMAIN journal = {}
    BY DEF Init
<1>4. SumFunctionOnSet(PlacementFlows, DOMAIN journal) = 0
    BY <1>3, SumOfNone
<1> DEFINE f == Placed
<1>5. \A i \in Ids : f[i] = 0
    BY <1>2
<1> HIDE DEF f
<1>6. SumFunctionOnSet(f, Ids) = 0
    BY <1>5, SumOfZeros
<1> QED BY <1>1, <1>4, <1>6 DEF PortfolioBooks, PlacementsAgree, f

(* The sums that PlacementsAgree and YieldsAgree split, put together.       *)
Worths == [i \in Ids |-> IF IsActive(i) THEN Value(i) ELSE 0]

LEMMA WorthIsBoth ==
    ASSUME InvestInv, IsFiniteSet(Ids)
    PROVE  SumFunctionOnSet(Values, {i \in Ids : IsActive(i)})
             = SumFunctionOnSet(Placed, Ids) + SumFunctionOnSet(Accrueds, Ids)
<1> DEFINE T == {i \in Ids : IsActive(i)}
           f == Placed
           g == Accrueds
           h == Worths
           v == Values
<1>1. \A i \in Ids : positions[i].principal \in Int /\ positions[i].accrued \in Int
    BY DEF InvestInv, TypeOK, Position
<1>2. \A i \in Ids : f[i] \in Int /\ g[i] \in Int /\ h[i] = f[i] + g[i]
    <2> SUFFICES ASSUME NEW i \in Ids PROVE f[i] \in Int /\ g[i] \in Int /\ h[i] = f[i] + g[i]
        OBVIOUS
    <2>1. g[i] = positions[i].accrued
        BY DEF Accrueds
    <2>2. CASE IsActive(i)
        BY <1>1, <2>1, <2>2 DEF Placed, Worths, Value
    <2>3. CASE ~ IsActive(i)
        BY <1>1, <2>1, <2>3 DEF Placed, Worths
    <2> QED BY <2>2, <2>3
<1>3. /\ T \in SUBSET Ids /\ (\A i \in T : v[i] = h[i]) /\ \A i \in Ids \ T : h[i] = 0
    BY DEF Worths, Values
<1>4. \A i \in T : h[i] \in Int
    BY <1>2
<1>5. IsFiniteSet(T)
    BY <1>3, FS_Subset
<1> HIDE DEF T, f, g, h, v
<1>6. SumFunctionOnSet(h, Ids) = SumFunctionOnSet(f, Ids) + SumFunctionOnSet(g, Ids)
    BY <1>2, SumOfBoth
<1>7. SumFunctionOnSet(h, Ids) = SumFunctionOnSet(h, T)
    BY <1>3, <1>4, SumOfPart
<1>8. SumFunctionOnSet(v, T) = SumFunctionOnSet(h, T)
    BY <1>3, <1>5, SumOfEquals
<1> QED BY <1>6, <1>7, <1>8 DEF T, f, g, v

LEMMA FlowIsBoth ==
    ASSUME InvestInv
    PROVE  Flow(journal, DOMAIN journal)
             = SumFunctionOnSet(PlacementFlows, DOMAIN journal)
                 + SumFunctionOnSet(YieldAmounts, YieldRows)
<1> DEFINE S == DOMAIN journal
           T == YieldRows
           f == PlacementFlows
           a == YieldAmounts
           g == [n \in S |-> IF n \in T THEN a[n] ELSE 0]
           h == FlowsOf(journal)
<1>1. journal \in Journal
    BY DEF InvestInv, TypeOK, Journal
<1>2. IsFiniteSet(S) /\ \A n \in S : f[n] \in Int
    BY PlacementsTyped
<1>3. T \in SUBSET S /\ IsFiniteSet(T) /\ \A n \in T : a[n] \in Int
    BY SumsTyped DEF YieldRows
<1>4. \A n \in S : h[n] = f[n] + g[n]
    <2> SUFFICES ASSUME NEW n \in S PROVE h[n] = f[n] + g[n]
        OBVIOUS
    <2>1. h[n] = SignedFlow(journal[n]) /\ f[n] = PlacementFlow(journal[n])
        BY DEF FlowsOf, PlacementFlows
    <2>2. CASE n \in T
        <3>1. journal[n].type \in AccrualTypes /\ g[n] = journal[n].amount
            BY <2>2 DEF YieldRows, YieldAmounts, Amount
        <3>2. f[n] = 0
            BY <2>1, <3>1 DEF PlacementFlow
        <3>3. h[n] = journal[n].amount
            BY <2>1, <3>1 DEF SignedFlow, DepositTypes, WithdrawalTypes, AccrualTypes
        <3>4. g[n] \in Int
            BY <1>3, <2>2
        <3> HIDE DEF g
        <3> QED BY <3>1, <3>2, <3>3, <3>4
    <2>3. CASE n \notin T
        <3>1. journal[n].type \notin AccrualTypes /\ g[n] = 0
            BY <2>3 DEF YieldRows
        <3>2. h[n] = f[n] /\ f[n] \in Int
            BY <1>2, <2>1, <3>1 DEF PlacementFlow
        <3> HIDE DEF g
        <3> QED BY <3>1, <3>2
    <2> QED BY <2>2, <2>3
<1>5. /\ \A n \in S : g[n] \in Int
      /\ \A n \in T : g[n] = a[n]
      /\ \A n \in S \ T : g[n] = 0
    BY <1>3
<1> HIDE DEF S, T, f, a, g, h
<1>6. SumFunctionOnSet(h, S) = SumFunctionOnSet(f, S) + SumFunctionOnSet(g, S)
    BY <1>2, <1>4, <1>5, SumOfBoth
<1>7. SumFunctionOnSet(g, S) = SumFunctionOnSet(g, T)
    <2>1. \A n \in T : g[n] \in Int
        BY <1>3, <1>5
    <2> QED BY <1>2, <1>3, <1>5, <2>1, SumOfPart
<1>8. SumFunctionOnSet(g, T) = SumFunctionOnSet(a, T)
    BY <1>3, <1>5, SumOfEquals
<1> QED BY <1>6, <1>7, <1>8 DEF Flow, S, T, f, a, h

(* The value of the portfolio that the performance shows, which it works    *)
(* out from the rows of the journal alone, is that of the active positions, *)
(* whatever passes, withdrawals, failures and restarts interleave, as long  *)
(* as no payment and no yield has gone one of the four ways astray that the *)
(* code has (buildInvestmentPerformance; withdraw, settlePosition,          *)
(* accrueYieldForPosition and accrueFixedTermPosition).                     *)
THEOREM PortfolioIsExplained ==
    ASSUME IsFiniteSet(Ids), IsFiniteSet(Passes)
    PROVE  Spec => []PortfolioExplained
<1>1. Init => PortfolioBooks /\ YieldBooks
    BY PortfolioInit, YieldsInit
<1>2. InvestInv /\ InvestInv' /\ PortfolioBooks /\ YieldBooks /\ [Next]_vars
         => PortfolioBooks' /\ YieldBooks'
    BY PortfolioStep, YieldsStep
<1>3. InvestInv /\ RowsInOrder /\ PortfolioBooks /\ YieldBooks => PortfolioExplained
    <2> SUFFICES ASSUME InvestInv, RowsInOrder, PortfolioBooks, YieldBooks, AtRest, strays = {}
                 PROVE  Performance(journal, day).currentValue
                          = SumFunctionOnSet(Values, {i \in Ids : IsActive(i)})
        BY DEF PortfolioExplained
    <2>1. /\ journal \in Journal /\ day \in Int
          /\ \A n \in DOMAIN journal : journal[n].day \in Nat /\ journal[n].day <= day
        BY RowsTyped DEF InvestInv, TypeOK, Days, Journal, RowsInOrder
    <2>2. RowsBefore(journal, day + 1) = DOMAIN journal
        BY <2>1 DEF RowsBefore
    <2>3. Performance(journal, day).currentValue = Flow(journal, DOMAIN journal)
        BY <2>1, <2>2, PerformanceIsFlow
    <2>4. SumFunctionOnSet(YieldsInFlight, Passes) = 0
        <3> DEFINE f == YieldsInFlight
        <3>1. \A p \in Passes : f[p] = 0
            BY DEF AtRest, YieldBooks, OneYieldAtWork, YieldsInFlight
        <3> HIDE DEF f
        <3>2. SumFunctionOnSet(f, Passes) = 0
            BY <3>1, SumOfZeros
        <3> QED BY <3>2 DEF f
    <2>5. /\ SumFunctionOnSet(Accrueds, Ids)
               = SumFunctionOnSet(YieldAmounts, YieldRows) + SumFunctionOnSet(YieldsInFlight, Passes)
          /\ SumFunctionOnSet(Placed, Ids) = SumFunctionOnSet(PlacementFlows, DOMAIN journal)
        BY DEF YieldBooks, YieldsAgree, PortfolioBooks, PlacementsAgree
    <2>6. SumFunctionOnSet(YieldAmounts, YieldRows) \in Int
        BY SumsAreIntegers
    <2> QED BY <2>3, <2>4, <2>5, <2>6, WorthIsBoth, FlowIsBoth
<1> QED BY <1>1, <1>2, <1>3, InvestInvariant, RowsAreInOrder, PTL DEF Spec
=============================================================================
