----------------------------- MODULE FiniteSums -----------------------------
EXTENDS FiniteSetsExt, FiniteSetTheorems, TLAPS

LEMMA LeastNatural ==
    ASSUME NEW T, T \subseteq Nat, T # {}
    PROVE  \E n \in T : \A m \in T : n <= m
<1>1. \E n \in T : \A m \in T : <<m, n>> \notin OpToRel(<, Nat)
    BY NatLessThanWellFounded, WFMin
<1>2. \A m, n \in Nat : m < n => <<m, n>> \in OpToRel(<, Nat)
    BY DEF OpToRel
<1>3. PICK n \in T : \A m \in T : <<m, n>> \notin OpToRel(<, Nat)
    BY <1>1
<1>4. ASSUME NEW m \in T PROVE n <= m
    <2>1. m \in Nat /\ n \in Nat
        OBVIOUS
    <2>2. ~ (m < n)
        BY <1>2, <1>3, <2>1, Zenon
    <2> QED BY <2>1, <2>2
<1> QED BY <1>4

LEMMA SmallestSet ==
    ASSUME NEW S, IsFiniteSet(S), NEW B, B \subseteq SUBSET S, B # {}
    PROVE  \E s \in B : \A t \in B : t \subseteq s => t = s
<1>1. \A s \in B : IsFiniteSet(s) /\ Cardinality(s) \in Nat
    BY FS_Subset, FS_CardinalityType
<1> DEFINE T == {Cardinality(s) : s \in B}
<1>2. T \subseteq Nat /\ T # {}
    BY <1>1
<1> HIDE DEF T
<1>3. PICK n \in T : \A m \in T : n <= m
    BY <1>2, LeastNatural
<1>4. /\ \E s \in B : n = Cardinality(s)
      /\ \A t \in B : n <= Cardinality(t)
    BY <1>3 DEF T
<1>5. PICK s \in B : n = Cardinality(s)
    BY <1>4
<1>6. ASSUME NEW t \in B, t \subseteq s PROVE t = s
    BY <1>1, <1>4, <1>5, <1>6, FS_Subset
<1> QED BY <1>5, <1>6

\* Induction on finite sets, with the set of those that have the property for a property.
LEMMA SetInduction ==
    ASSUME NEW S, IsFiniteSet(S), NEW Good,
           \A s \in SUBSET S : (\A t \in SUBSET s : t # s => t \in Good) => s \in Good
    PROVE  \A s \in SUBSET S : s \in Good
<1> DEFINE Bad == (SUBSET S) \ Good
<1>1. Bad \subseteq SUBSET S
    OBVIOUS
<1>2. ASSUME Bad # {} PROVE FALSE
    <2> HIDE DEF Bad
    <2>1. PICK s \in Bad : \A t \in Bad : t \subseteq s => t = s
        BY <1>1, <1>2, SmallestSet
    <2> USE DEF Bad
    <2>2. \A t \in SUBSET s : t # s => t \in Good
        BY <1>1, <2>1
    <2> QED BY <1>1, <2>2
<1> QED BY <1>2

Chosen(s) == CHOOSE x \in s : TRUE

\* The equation by which SumFunctionOnSet is defined, on sets of at most n elements.
SumsUpTo(g, f, S, n) ==
    \A s \in SUBSET S :
        Cardinality(s) <= n => g[s] = IF s = {} THEN 0 ELSE f[Chosen(s)] + g[s \ {Chosen(s)}]

Summing(g, f, S) == g = [s \in SUBSET S |-> IF s = {} THEN 0 ELSE f[Chosen(s)] + g[s \ {Chosen(s)}]]

LEMMA SumIsSumming ==
    ASSUME NEW f, NEW S
    PROVE  SumFunctionOnSet(f, S) = (CHOOSE g : Summing(g, f, S))[S]
BY DEF SumFunctionOnSet, FoldFunctionOnSet, MapThenFoldSet, Summing, Chosen

LEMMA ChosenIn ==
    ASSUME NEW S, IsFiniteSet(S), NEW s \in SUBSET S, s # {}
    PROVE  /\ Chosen(s) \in s /\ s \ {Chosen(s)} \in SUBSET S
           /\ Cardinality(s) \in Nat /\ Cardinality(s \ {Chosen(s)}) = Cardinality(s) - 1
<1>1. Chosen(s) \in s
    BY DEF Chosen
<1>2. IsFiniteSet(s) /\ Cardinality(s) \in Nat
    BY FS_Subset, FS_CardinalityType
<1> HIDE DEF Chosen
<1>3. Cardinality(s \ {Chosen(s)}) = Cardinality(s) - 1
    BY <1>1, <1>2, FS_RemoveElement
<1> QED BY <1>1, <1>2, <1>3

\* Once more elements are added one at a time, as many as there are.
LEMMA SummingExists ==
    ASSUME NEW f, NEW S, IsFiniteSet(S)
    PROVE  \E g : Summing(g, f, S)
<1> DEFINE Next(g) == [s \in SUBSET S |-> IF s = {} THEN 0 ELSE f[Chosen(s)] + g[s \ {Chosen(s)}]]
           Fails == {n \in Nat : ~ \E g : SumsUpTo(g, f, S, n)}
<1>0. \A s \in SUBSET S : Cardinality(s) \in Nat /\ Cardinality(s) <= Cardinality(S)
    BY FS_Subset, FS_CardinalityType
<1>1. ASSUME NEW g, NEW n \in Nat, SumsUpTo(g, f, S, n)
      PROVE  SumsUpTo(Next(g), f, S, n + 1)
    <2> SUFFICES ASSUME NEW s \in SUBSET S, Cardinality(s) <= n + 1
                 PROVE  Next(g)[s] = IF s = {} THEN 0 ELSE f[Chosen(s)] + Next(g)[s \ {Chosen(s)}]
        BY DEF SumsUpTo
    <2>1. CASE s = {}
        BY <2>1
    <2>2. CASE s # {}
        <3> DEFINE t == s \ {Chosen(s)}
        <3>1. t \in SUBSET S /\ Cardinality(t) <= n
            BY <1>0, <2>2, ChosenIn
        <3>2. g[t] = Next(g)[t]
            BY <1>1, <3>1 DEF SumsUpTo
        <3>3. Next(g)[s] = f[Chosen(s)] + g[t]
            BY <2>2
        <3> QED BY <2>2, <3>2, <3>3
    <2> QED BY <2>1, <2>2
<1>2. \E g : SumsUpTo(g, f, S, 0)
    <2>1. \A s \in SUBSET S : Cardinality(s) <= 0 => s = {}
        BY <1>0, FS_EmptySet, FS_Subset
    <2>2. SumsUpTo([s \in SUBSET S |-> 0], f, S, 0)
        BY <2>1 DEF SumsUpTo
    <2> QED BY <2>2
<1>3. Fails = {}
    <2> SUFFICES ASSUME Fails # {} PROVE FALSE
        OBVIOUS
    <2>1. PICK n \in Fails : \A m \in Fails : n <= m
        BY LeastNatural
    <2>2. n # 0 /\ n \in Nat
        BY <1>2
    <2>3. n - 1 \in Nat /\ n - 1 \notin Fails
        BY <2>1, <2>2
    <2>4. PICK g : SumsUpTo(g, f, S, n - 1)
        BY <2>3
    <2>5. SumsUpTo(Next(g), f, S, (n - 1) + 1)
        BY <1>1, <2>3, <2>4
    <2>6. (n - 1) + 1 = n
        BY <2>2
    <2> HIDE DEF Next
    <2> QED BY <2>5, <2>6
<1>4. PICK g : SumsUpTo(g, f, S, Cardinality(S))
    BY <1>0, <1>3
<1>5. Summing(Next(g), f, S)
    <2>1. \A s \in SUBSET S : g[s] = Next(g)[s]
        BY <1>0, <1>4 DEF SumsUpTo
    <2>2. \A s \in SUBSET S : s # {} => s \ {Chosen(s)} \in SUBSET S
        BY ChosenIn
    <2>3. \A s \in SUBSET S : Next(g)[s] = IF s = {} THEN 0 ELSE f[Chosen(s)] + Next(g)[s \ {Chosen(s)}]
        BY <2>1, <2>2
    <2> QED BY <2>3 DEF Summing
<1> QED BY <1>5

\* Two such functions agree where both are defined.
LEMMA SummingAgrees ==
    ASSUME NEW f, NEW S, IsFiniteSet(S), NEW T \in SUBSET S,
           NEW g, Summing(g, f, S), NEW h, Summing(h, f, T)
    PROVE  \A s \in SUBSET T : g[s] = h[s]
<1> DEFINE Good == {s \in SUBSET T : g[s] = h[s]}
<1>1. IsFiniteSet(T)
    BY FS_Subset
<1>2. ASSUME NEW s \in SUBSET T, \A t \in SUBSET s : t # s => t \in Good
      PROVE  s \in Good
    <2>1. /\ g[s] = IF s = {} THEN 0 ELSE f[Chosen(s)] + g[s \ {Chosen(s)}]
          /\ h[s] = IF s = {} THEN 0 ELSE f[Chosen(s)] + h[s \ {Chosen(s)}]
        BY DEF Summing
    <2>2. CASE s = {}
        BY <2>1, <2>2
    <2>3. CASE s # {}
        <3>1. Chosen(s) \in s
            BY <1>1, <2>3, ChosenIn
        <3>2. s \ {Chosen(s)} \in Good
            BY <1>2, <3>1
        <3> QED BY <2>1, <2>3, <3>2
    <2> QED BY <2>2, <2>3
<1> HIDE DEF Good
<1>3. \A s \in SUBSET T : s \in Good
    BY <1>1, <1>2, SetInduction
<1> QED BY <1>3 DEF Good

LEMMA SumUnfolds ==
    ASSUME NEW f, NEW S, IsFiniteSet(S), S # {}
    PROVE  SumFunctionOnSet(f, S) = f[Chosen(S)] + SumFunctionOnSet(f, S \ {Chosen(S)})
<1> DEFINE T == S \ {Chosen(S)}
           g == CHOOSE k : Summing(k, f, S)
           h == CHOOSE k : Summing(k, f, T)
<1>1. T \in SUBSET S /\ IsFiniteSet(T)
    BY FS_Subset
<1>2. Summing(g, f, S)
    BY SummingExists
<1>3. Summing(h, f, T)
    BY <1>1, SummingExists
<1>4. SumFunctionOnSet(f, S) = g[S] /\ SumFunctionOnSet(f, T) = h[T]
    BY SumIsSumming
<1> HIDE DEF g, h
<1>5. g[S] = f[Chosen(S)] + g[T]
    BY <1>2 DEF Summing
<1>6. \A t \in SUBSET S : \A k : Summing(k, f, t) => \A s \in SUBSET t : g[s] = k[s]
    BY <1>2, SummingAgrees
<1>7. g[T] = h[T]
    BY <1>1, <1>3, <1>6
<1>8. SumFunctionOnSet(f, S) = f[Chosen(S)] + SumFunctionOnSet(f, T)
    BY <1>4, <1>5, <1>7
<1> QED BY <1>8

\* Nothing adds up to zero.
LEMMA SumOfNone ==
    ASSUME NEW f
    PROVE  SumFunctionOnSet(f, {}) = 0
<1> DEFINE g == CHOOSE k : Summing(k, f, {})
<1>1. Summing(g, f, {})
    BY SummingExists, FS_EmptySet
<1>2. SumFunctionOnSet(f, {}) = g[{}]
    BY SumIsSumming
<1> HIDE DEF g
<1> QED BY <1>1, <1>2 DEF Summing

\* A sum of integers is an integer.
LEMMA SumIsInteger ==
    ASSUME NEW f, NEW S, IsFiniteSet(S), \A x \in S : f[x] \in Int
    PROVE  SumFunctionOnSet(f, S) \in Int
<1> DEFINE Good == {s \in SUBSET S : SumFunctionOnSet(f, s) \in Int}
<1>1. ASSUME NEW s \in SUBSET S, \A t \in SUBSET s : t # s => t \in Good
      PROVE  s \in Good
    <2>1. CASE s = {}
        BY <2>1, SumOfNone
    <2>2. CASE s # {}
        <3>1. IsFiniteSet(s) /\ Chosen(s) \in s
            BY <2>2, FS_Subset, ChosenIn
        <3>2. SumFunctionOnSet(f, s \ {Chosen(s)}) \in Int
            BY <1>1, <3>1
        <3>3. SumFunctionOnSet(f, s) = f[Chosen(s)] + SumFunctionOnSet(f, s \ {Chosen(s)})
            BY <2>2, <3>1, SumUnfolds
        <3> QED BY <3>1, <3>2, <3>3
    <2> QED BY <2>1, <2>2
<1> HIDE DEF Good
<1>2. \A s \in SUBSET S : s \in Good
    BY <1>1, SetInduction
<1> QED BY <1>2 DEF Good

\* The order does not matter: any element may be taken out.
LEMMA SumSplits ==
    ASSUME NEW f, NEW S, IsFiniteSet(S), \A x \in S : f[x] \in Int
    PROVE  \A x \in S : SumFunctionOnSet(f, S) = f[x] + SumFunctionOnSet(f, S \ {x})
<1> DEFINE Sum(s) == SumFunctionOnSet(f, s)
           Good == {s \in SUBSET S : \A x \in s : Sum(s) = f[x] + Sum(s \ {x})}
<1>0. \A s \in SUBSET S : IsFiniteSet(s) /\ Sum(s) \in Int
    BY FS_Subset, SumIsInteger
<1>1. ASSUME NEW s \in SUBSET S, \A t \in SUBSET s : t # s => t \in Good
      PROVE  s \in Good
    <2> SUFFICES ASSUME NEW x \in s PROVE Sum(s) = f[x] + Sum(s \ {x})
        OBVIOUS
    <2> DEFINE c == Chosen(s)
    <2>1. c \in s
        BY ChosenIn
    <2>2. Sum(s) = f[c] + Sum(s \ {c})
        BY <1>0, SumUnfolds
    <2> HIDE DEF c
    <2>3. CASE x = c
        BY <2>2, <2>3
    <2>4. CASE x # c
        <3>1. s \ {c} \in Good /\ s \ {x} \in Good
            BY <1>1, <2>1
        <3>2. Sum(s \ {c}) = f[x] + Sum((s \ {c}) \ {x})
            BY <2>4, <3>1
        <3>3. Sum(s \ {x}) = f[c] + Sum((s \ {x}) \ {c})
            BY <2>1, <2>4, <3>1
        <3>4. (s \ {c}) \ {x} = (s \ {x}) \ {c}
            OBVIOUS
        <3> DEFINE a == Sum((s \ {c}) \ {x})
        <3>5. a \in Int
            BY <1>0
        <3>6. Sum(s \ {x}) = f[c] + a
            BY <3>3, <3>4
        <3>7. f[c] \in Int /\ f[x] \in Int
            BY <2>1
        <3> HIDE DEF Sum, a
        <3> QED BY <2>2, <3>2, <3>5, <3>6, <3>7 DEF a
    <2> QED BY <2>3, <2>4
<1>2. (\A s \in SUBSET S : s \in Good) => \A x \in S : Sum(S) = f[x] + Sum(S \ {x})
    OBVIOUS
<1> HIDE DEF Good
<1>3. \A s \in SUBSET S : s \in Good
    BY <1>1, SetInduction
<1> QED BY <1>2, <1>3

\* Only the values on the set matter.
LEMMA SumOfEquals ==
    ASSUME NEW f, NEW g, NEW S, IsFiniteSet(S), \A x \in S : f[x] = g[x]
    PROVE  SumFunctionOnSet(f, S) = SumFunctionOnSet(g, S)
<1> DEFINE Good == {s \in SUBSET S : SumFunctionOnSet(f, s) = SumFunctionOnSet(g, s)}
<1>1. ASSUME NEW s \in SUBSET S, \A t \in SUBSET s : t # s => t \in Good
      PROVE  s \in Good
    <2>1. CASE s = {}
        BY <2>1, SumOfNone
    <2>2. CASE s # {}
        <3>1. IsFiniteSet(s) /\ Chosen(s) \in s
            BY <2>2, FS_Subset, ChosenIn
        <3>2. SumFunctionOnSet(f, s \ {Chosen(s)}) = SumFunctionOnSet(g, s \ {Chosen(s)})
            BY <1>1, <3>1
        <3>3. /\ SumFunctionOnSet(f, s) = f[Chosen(s)] + SumFunctionOnSet(f, s \ {Chosen(s)})
              /\ SumFunctionOnSet(g, s) = g[Chosen(s)] + SumFunctionOnSet(g, s \ {Chosen(s)})
            BY <2>2, <3>1, SumUnfolds
        <3>4. f[Chosen(s)] = g[Chosen(s)]
            BY <3>1
        <3> QED BY <3>2, <3>3, <3>4
    <2> QED BY <2>1, <2>2
<1> HIDE DEF Good
<1>2. \A s \in SUBSET S : s \in Good
    BY <1>1, SetInduction
<1> QED BY <1>2 DEF Good

(* A new summand.                                                           *)
LEMMA SumOfMore ==
    ASSUME NEW f, NEW g, NEW S, IsFiniteSet(S), NEW x, x \notin S,
           \A y \in S : f[y] \in Int /\ g[y] = f[y], g[x] \in Int
    PROVE  SumFunctionOnSet(g, S \cup {x}) = SumFunctionOnSet(f, S) + g[x]
<1>1. IsFiniteSet(S \cup {x})
    BY FS_AddElement
<1>6. (S \cup {x}) \ {x} = S
    OBVIOUS
<1>2. \A y \in S \cup {x} : g[y] \in Int
    OBVIOUS
<1>3. SumFunctionOnSet(g, S \cup {x}) = g[x] + SumFunctionOnSet(g, (S \cup {x}) \ {x})
    BY <1>1, <1>2, SumSplits
<1>7. SumFunctionOnSet(g, S \cup {x}) = g[x] + SumFunctionOnSet(g, S)
    BY <1>3, <1>6
<1>4. SumFunctionOnSet(g, S) = SumFunctionOnSet(f, S)
    BY SumOfEquals
<1>5. SumFunctionOnSet(f, S) \in Int
    BY SumIsInteger
<1> QED BY <1>4, <1>5, <1>7

(* A summand less.                                                          *)
LEMMA SumOfLess ==
    ASSUME NEW f, NEW g, NEW S, IsFiniteSet(S), NEW x \in S, f[x] \in Int,
           \A y \in S \ {x} : f[y] \in Int /\ g[y] = f[y]
    PROVE  SumFunctionOnSet(g, S \ {x}) = SumFunctionOnSet(f, S) - f[x]
<1>1. IsFiniteSet(S \ {x})
    BY FS_Subset
<1>0. \A y \in S : f[y] \in Int
    OBVIOUS
<1>2. SumFunctionOnSet(f, S) = f[x] + SumFunctionOnSet(f, S \ {x})
    BY <1>0, SumSplits
<1>3. SumFunctionOnSet(g, S \ {x}) = SumFunctionOnSet(f, S \ {x})
    BY <1>1, SumOfEquals
<1>4. SumFunctionOnSet(f, S \ {x}) \in Int
    BY <1>1, SumIsInteger
<1> QED BY <1>2, <1>3, <1>4

(* When one term changes, the sum changes by as much.                      *)
LEMMA SumOfChange ==
    ASSUME NEW f, NEW g, NEW S, IsFiniteSet(S), NEW x \in S,
           \A y \in S : f[y] \in Int /\ g[y] \in Int, \A y \in S \ {x} : g[y] = f[y]
    PROVE  SumFunctionOnSet(g, S) = SumFunctionOnSet(f, S) - f[x] + g[x]
<1> DEFINE T == S \ {x}
<1>1. IsFiniteSet(T)
    BY FS_Subset
<1>2. SumFunctionOnSet(g, T) = SumFunctionOnSet(f, T)
    BY <1>1, SumOfEquals
<1>3. \A y \in S : f[y] \in Int
    OBVIOUS
<1>4. \A y \in S : g[y] \in Int
    OBVIOUS
<1>5. SumFunctionOnSet(f, S) = f[x] + SumFunctionOnSet(f, T)
    BY <1>3, SumSplits
<1>6. SumFunctionOnSet(g, S) = g[x] + SumFunctionOnSet(g, T)
    BY <1>4, SumSplits
<1>7. \A y \in T : f[y] \in Int
    OBVIOUS
<1>8. SumFunctionOnSet(f, T) \in Int
    BY <1>1, <1>7, SumIsInteger
<1> HIDE DEF T
<1> QED BY <1>2, <1>3, <1>4, <1>5, <1>6, <1>8

(* A sum of zeros.                                                          *)
LEMMA SumOfZeros ==
    ASSUME NEW f, NEW S, IsFiniteSet(S), \A x \in S : f[x] = 0
    PROVE  SumFunctionOnSet(f, S) = 0
<1> DEFINE Good == {s \in SUBSET S : SumFunctionOnSet(f, s) = 0}
<1>1. ASSUME NEW s \in SUBSET S, \A t \in SUBSET s : t # s => t \in Good
      PROVE  s \in Good
    <2>1. CASE s = {}
        BY <2>1, SumOfNone
    <2>2. CASE s # {}
        <3>1. IsFiniteSet(s) /\ Chosen(s) \in s
            BY <2>2, FS_Subset, ChosenIn
        <3>2. SumFunctionOnSet(f, s \ {Chosen(s)}) = 0
            BY <1>1, <3>1
        <3>3. SumFunctionOnSet(f, s) = f[Chosen(s)] + SumFunctionOnSet(f, s \ {Chosen(s)})
            BY <2>2, <3>1, SumUnfolds
        <3> QED BY <3>1, <3>2, <3>3
    <2> QED BY <2>1, <2>2
<1> HIDE DEF Good
<1>2. \A s \in SUBSET S : s \in Good
    BY <1>1, SetInduction
<1> QED BY <1>2 DEF Good

(* A sum of amounts is an amount.                                           *)
LEMMA SumIsAmount ==
    ASSUME NEW f, NEW S, IsFiniteSet(S), \A x \in S : f[x] \in Nat
    PROVE  SumFunctionOnSet(f, S) \in Nat
<1> DEFINE Good == {s \in SUBSET S : SumFunctionOnSet(f, s) \in Nat}
<1>1. ASSUME NEW s \in SUBSET S, \A t \in SUBSET s : t # s => t \in Good
      PROVE  s \in Good
    <2>1. CASE s = {}
        BY <2>1, SumOfNone
    <2>2. CASE s # {}
        <3>1. IsFiniteSet(s) /\ Chosen(s) \in s
            BY <2>2, FS_Subset, ChosenIn
        <3>2. SumFunctionOnSet(f, s \ {Chosen(s)}) \in Nat
            BY <1>1, <3>1
        <3>3. SumFunctionOnSet(f, s) = f[Chosen(s)] + SumFunctionOnSet(f, s \ {Chosen(s)})
            BY <2>2, <3>1, SumUnfolds
        <3> QED BY <3>1, <3>2, <3>3
    <2> QED BY <2>1, <2>2
<1> HIDE DEF Good
<1>2. \A s \in SUBSET S : s \in Good
    BY <1>1, SetInduction
<1> QED BY <1>2 DEF Good

(* So a sum of amounts is at least each of them.                            *)
LEMMA SumCovers ==
    ASSUME NEW f, NEW S, IsFiniteSet(S), \A x \in S : f[x] \in Nat, NEW x \in S
    PROVE  f[x] <= SumFunctionOnSet(f, S)
<1>1. IsFiniteSet(S \ {x})
    BY FS_Subset
<1>2. SumFunctionOnSet(f, S \ {x}) \in Nat
    BY <1>1, SumIsAmount
<1>3. \A y \in S : f[y] \in Int
    OBVIOUS
<1>4. SumFunctionOnSet(f, S) = f[x] + SumFunctionOnSet(f, S \ {x})
    BY <1>3, SumSplits
<1> QED BY <1>2, <1>4

(* A sum over two sets that share nothing is the sum of their sums.         *)
LEMMA SumOfUnion ==
    ASSUME NEW f, NEW S, NEW T, IsFiniteSet(S), IsFiniteSet(T), S \cap T = {},
           \A x \in S \cup T : f[x] \in Int
    PROVE  /\ IsFiniteSet(S \cup T)
           /\ SumFunctionOnSet(f, S \cup T) = SumFunctionOnSet(f, S) + SumFunctionOnSet(f, T)
<1> DEFINE Sum(s) == SumFunctionOnSet(f, s)
           Good == {t \in SUBSET T : IsFiniteSet(S \cup t) /\ Sum(S \cup t) = Sum(S) + Sum(t)}
<1>0. /\ \A t \in SUBSET T : IsFiniteSet(t) /\ Sum(t) \in Int
      /\ Sum(S) \in Int
    BY FS_Subset, SumIsInteger
<1> HIDE DEF Sum
<1>1. ASSUME NEW t \in SUBSET T, \A u \in SUBSET t : u # t => u \in Good
      PROVE  t \in Good
    <2>1. CASE t = {}
        <3>1. Sum(t) = 0
            BY <2>1, SumOfNone DEF Sum
        <3>2. S \cup t = S
            BY <2>1
        <3>3. Sum(S \cup t) = Sum(S) /\ IsFiniteSet(S \cup t)
            BY <3>2, Zenon
        <3> QED BY <1>0, <3>1, <3>3
    <2>2. CASE t # {}
        <3>1. PICK x \in t : TRUE
            BY <2>2
        <3>2. t \ {x} \in Good
            BY <1>1, <3>1
        <3>3. S \cup t = (S \cup (t \ {x})) \cup {x} /\ x \notin S \cup (t \ {x})
            BY <3>1
        <3>4. IsFiniteSet(S \cup t)
            BY <3>2, <3>3, FS_AddElement
        <3>5. Sum(S \cup t) = f[x] + Sum((S \cup t) \ {x})
            BY <3>1, <3>4, SumSplits DEF Sum
        <3>6. Sum(t) = f[x] + Sum(t \ {x})
            BY <1>0, <3>1, SumSplits DEF Sum
        <3>7. (S \cup t) \ {x} = S \cup (t \ {x})
            BY <3>3
        <3>8. f[x] \in Int
            BY <3>1
        <3>9. Sum(S \cup t) = f[x] + (Sum(S) + Sum(t \ {x}))
            BY <3>2, <3>5, <3>7
        <3>10. Sum(S \cup t) = Sum(S) + Sum(t)
            BY <1>0, <3>6, <3>8, <3>9
        <3> QED BY <3>4, <3>10
    <2> QED BY <2>1, <2>2
<1> HIDE DEF Good
<1>2. \A t \in SUBSET T : t \in Good
    BY <1>1, SetInduction
<1> QED BY <1>2 DEF Good, Sum

(* Terms of the other sign give a sum of the other sign.                    *)
LEMMA SumOfNegatives ==
    ASSUME NEW f, NEW g, NEW S, IsFiniteSet(S), \A x \in S : f[x] \in Int /\ g[x] = - f[x]
    PROVE  SumFunctionOnSet(g, S) = - SumFunctionOnSet(f, S)
<1> DEFINE Good == {s \in SUBSET S : SumFunctionOnSet(g, s) = - SumFunctionOnSet(f, s)}
<1>1. ASSUME NEW s \in SUBSET S, \A t \in SUBSET s : t # s => t \in Good
      PROVE  s \in Good
    <2>1. CASE s = {}
        BY <2>1, SumOfNone
    <2>2. CASE s # {}
        <3>1. /\ IsFiniteSet(s) /\ IsFiniteSet(s \ {Chosen(s)}) /\ Chosen(s) \in s
            BY <2>2, FS_Subset, ChosenIn
        <3>2. SumFunctionOnSet(g, s \ {Chosen(s)}) = - SumFunctionOnSet(f, s \ {Chosen(s)})
            BY <1>1, <3>1
        <3>3. /\ SumFunctionOnSet(f, s) = f[Chosen(s)] + SumFunctionOnSet(f, s \ {Chosen(s)})
              /\ SumFunctionOnSet(g, s) = g[Chosen(s)] + SumFunctionOnSet(g, s \ {Chosen(s)})
            BY <2>2, <3>1, SumUnfolds
        <3>4. f[Chosen(s)] \in Int /\ g[Chosen(s)] = - f[Chosen(s)]
            BY <3>1
        <3>5. SumFunctionOnSet(f, s \ {Chosen(s)}) \in Int
            BY <3>1, SumIsInteger
        <3> QED BY <3>2, <3>3, <3>4, <3>5
    <2> QED BY <2>1, <2>2
<1> HIDE DEF Good
<1>2. \A s \in SUBSET S : s \in Good
    BY <1>1, SetInduction
<1> QED BY <1>2 DEF Good

(* What adds nothing may be left out.                                       *)
LEMMA SumOfPart ==
    ASSUME NEW f, NEW S, IsFiniteSet(S), NEW T \in SUBSET S,
           \A x \in T : f[x] \in Int, \A x \in S \ T : f[x] = 0
    PROVE  SumFunctionOnSet(f, S) = SumFunctionOnSet(f, T)
<1>1. IsFiniteSet(T) /\ IsFiniteSet(S \ T) /\ S = T \cup (S \ T) /\ T \cap (S \ T) = {}
    BY FS_Subset
<1>2. SumFunctionOnSet(f, S \ T) = 0
    BY <1>1, SumOfZeros
<1>3. \A x \in T \cup (S \ T) : f[x] \in Int
    OBVIOUS
<1>4. SumFunctionOnSet(f, T \cup (S \ T)) = SumFunctionOnSet(f, T) + SumFunctionOnSet(f, S \ T)
    BY <1>1, <1>3, SumOfUnion
<1>5. SumFunctionOnSet(f, T) \in Int
    BY <1>1, SumIsInteger
<1> QED BY <1>1, <1>2, <1>4, <1>5

(* Terms that add up, one by one, add up in their sums.                     *)
LEMMA SumOfBoth ==
    ASSUME NEW f, NEW g, NEW h, NEW S, IsFiniteSet(S),
           \A x \in S : f[x] \in Int /\ g[x] \in Int /\ h[x] = f[x] + g[x]
    PROVE  SumFunctionOnSet(h, S) = SumFunctionOnSet(f, S) + SumFunctionOnSet(g, S)
<1> DEFINE Good == {s \in SUBSET S : SumFunctionOnSet(h, s)
                                       = SumFunctionOnSet(f, s) + SumFunctionOnSet(g, s)}
<1>1. ASSUME NEW s \in SUBSET S, \A t \in SUBSET s : t # s => t \in Good
      PROVE  s \in Good
    <2>1. CASE s = {}
        BY <2>1, SumOfNone
    <2>2. CASE s # {}
        <3> DEFINE c == Chosen(s)
                   r == s \ {Chosen(s)}
        <3>1. /\ IsFiniteSet(s) /\ IsFiniteSet(r) /\ c \in s /\ r \in SUBSET s
            BY <2>2, FS_Subset, ChosenIn
        <3>2. r \in Good
            BY <1>1, <3>1
        <3>3. /\ SumFunctionOnSet(f, s) = f[c] + SumFunctionOnSet(f, r)
              /\ SumFunctionOnSet(g, s) = g[c] + SumFunctionOnSet(g, r)
              /\ SumFunctionOnSet(h, s) = h[c] + SumFunctionOnSet(h, r)
            BY <2>2, <3>1, SumUnfolds
        <3>4. f[c] \in Int /\ g[c] \in Int /\ h[c] = f[c] + g[c]
            BY <3>1
        <3> HIDE DEF c, r
        <3>5. SumFunctionOnSet(f, r) \in Int /\ SumFunctionOnSet(g, r) \in Int
            BY <3>1, SumIsInteger
        <3> QED BY <3>2, <3>3, <3>4, <3>5
    <2> QED BY <2>1, <2>2
<1> HIDE DEF Good
<1>2. \A s \in SUBSET S : s \in Good
    BY <1>1, SetInduction
<1> QED BY <1>2 DEF Good
=============================================================================
