-------------------------------- MODULE Sums --------------------------------
(* Lemmas about SumFunctionOnSet, the sum of the values a function has on a *)
(* finite set, for every finite set and every function of integers.  The    *)
(* components' totals are such sums: what an app's requests have spent, the *)
(* shares of the usage events, the records that moved money in a wallet,    *)
(* the requests a limiter has let in during a window.                       *)
(*                                                                         *)
(* The library's induction theorems take an operator as a parameter.  The   *)
(* proofs here do without: a set of counterexamples that is not empty has a *)
(* smallest one (SmallestSubset, SmallestNumber, from WFMin), and that one  *)
(* is refuted from the smaller sets, which are no counterexamples.          *)
EXTENDS Integers, FiniteSets, Functions, FiniteSetTheorems, WellFoundedInduction, TLAPS

-----------------------------------------------------------------------------
(* Smallest counterexamples                                                *)

\* Among some subsets of a finite set there is one that contains no other of them.
LEMMA SmallestSubset ==
  ASSUME NEW S, IsFiniteSet(S), NEW F \in SUBSET (SUBSET S), F # {}
  PROVE  \E m \in F : \A t \in F : t \subseteq m => t = m
<1>1. FiniteSubsetsOf(S) = SUBSET S
  BY FS_FiniteSubsetsOfFinite
<1>2. IsWellFoundedOn(StrictSubsetOrdering(S), SUBSET S)
  BY <1>1, FS_StrictSubsetOrderingWellFounded
<1>3. PICK m \in F : \A t \in F : <<t, m>> \notin StrictSubsetOrdering(S)
  BY <1>2, WFMin
<1>4. ASSUME NEW t \in F, t \subseteq m, t # m PROVE FALSE
  <2>1. <<t, m>> \in (SUBSET S) \X (SUBSET S)
    OBVIOUS
  <2>2. <<t, m>>[1] = t /\ <<t, m>>[2] = m
    OBVIOUS
  <2>3. <<t, m>> \in StrictSubsetOrdering(S)
    BY <1>4, <2>1, <2>2 DEF StrictSubsetOrdering
  <2>4. QED
    BY <1>3, <2>3
<1>5. QED
  BY <1>4

\* Some natural numbers have a smallest.
LEMMA SmallestNumber ==
  ASSUME NEW T, T \subseteq Nat, T # {}
  PROVE  \E n \in T : \A m \in T : n <= m
<1>1. PICK n \in T : TRUE
  OBVIOUS
<1> DEFINE F == {0 .. m : m \in {k \in T : k <= n}}
<1>2. PICK U : U = 0 .. n
  OBVIOUS
<1>3. IsFiniteSet(U)
  BY <1>2, FS_Interval
<1>4. F \in SUBSET (SUBSET U) /\ F # {}
  BY <1>2
<1> HIDE DEF F
<1>5. PICK s \in F : \A t \in F : t \subseteq s => t = s
  BY <1>3, <1>4, SmallestSubset
<1>6. PICK m \in T : m <= n /\ s = 0 .. m
  BY DEF F
<1>7. ASSUME NEW k \in T PROVE m <= k
  <2>1. SUFFICES ASSUME k < m PROVE FALSE
    BY <1>6
  <2>2. 0 .. k \in F
    <3>1. k \in {i \in T : i <= n}
      BY <2>1, <1>6
    <3>2. QED
      BY <3>1 DEF F
  <2>3. 0 .. k \subseteq s /\ m \in 0 .. m /\ m \notin 0 .. k
    BY <2>1, <1>6
  <2>4. QED
    BY <1>5, <1>6, <2>2, <2>3
<1>8. QED
  BY <1>7

-----------------------------------------------------------------------------
(* The recursion behind SumFunctionOnSet                                   *)

\* The element a fold takes first (FoldFunctionOnSet).
Chosen(s) == CHOOSE x \in s : TRUE

\* g has the sums of f over the sets of F.
AddsUp(f, g, F) ==
  \A s \in F : g[s] = IF s = {} THEN 0 ELSE f[Chosen(s)] + g[s \ {Chosen(s)}]

\* One step of the recursion, for all subsets of S.
Rule(f, S, g) ==
  [s \in SUBSET S |-> IF s = {} THEN 0 ELSE f[Chosen(s)] + g[s \ {Chosen(s)}]]

Sized(S, n) == {s \in SUBSET S : Cardinality(s) <= n}

\* On the subsets of a finite set, the table of sums exists: it is built for the subsets
\* of no element, and from those of at most n elements for those of at most n + 1.
LEMMA SumTable ==
  ASSUME NEW S, IsFiniteSet(S), NEW f
  PROVE  \E g : g = Rule(f, S, g)
<1> DEFINE Table(g, n) ==
      g = [s \in Sized(S, n) |-> IF s = {} THEN 0 ELSE f[Chosen(s)] + g[s \ {Chosen(s)}]]
<1>a. \A s \in SUBSET S : Cardinality(s) \in Nat /\ Cardinality(s) <= Cardinality(S)
  BY FS_Subset, FS_CardinalityType
<1>b. Cardinality(S) \in Nat
  BY FS_CardinalityType
<1>c. \A s \in SUBSET S : s # {} =>
         /\ Chosen(s) \in s /\ s \ {Chosen(s)} \in SUBSET S
         /\ Cardinality(s \ {Chosen(s)}) = Cardinality(s) - 1
  <2>1. ASSUME NEW s \in SUBSET S, s # {} PROVE Chosen(s) \in s
    BY <2>1 DEF Chosen
  <2>2. QED
    BY <2>1, FS_RemoveElement, FS_Subset
<1>d. \A s \in SUBSET S : Cardinality(s) = 0 => s = {}
  BY FS_EmptySet, FS_Subset
<1>1. \E g : Table(g, 0)
  <2>1. \A s \in Sized(S, 0) : s = {}
    BY <1>a, <1>d DEF Sized
  <2>2. Table([s \in Sized(S, 0) |-> 0], 0)
    BY <2>1
  <2>3. QED
    BY <2>2
<1>2. ASSUME NEW n \in Nat, NEW g, Table(g, n)
      PROVE  \E h : Table(h, n + 1)
  <2> DEFINE h == [s \in Sized(S, n + 1) |->
                     IF s = {} THEN 0 ELSE f[Chosen(s)] + g[s \ {Chosen(s)}]]
  <2>1. Sized(S, n) \subseteq Sized(S, n + 1)
    BY <1>a DEF Sized
  <2>2. \A s \in Sized(S, n + 1) : s # {} => s \ {Chosen(s)} \in Sized(S, n)
    BY <1>a, <1>c DEF Sized
  <2>3. \A s \in Sized(S, n) : h[s] = g[s]
    BY <1>2, <2>1
  <2>4. h = [s \in Sized(S, n + 1) |-> IF s = {} THEN 0 ELSE f[Chosen(s)] + h[s \ {Chosen(s)}]]
    BY <2>2, <2>3
  <2>5. QED
    BY <2>4
<1>3. \A n \in Nat : \E g : Table(g, n)
  <2> DEFINE T == {n \in Nat : ~\E g : Table(g, n)}
  <2>1. SUFFICES ASSUME T # {} PROVE FALSE
    OBVIOUS
  <2> HIDE DEF Table
  <2>2. PICK n \in T : \A m \in T : n <= m
    BY <2>1, SmallestNumber
  <2>3. n # 0
    BY <1>1
  <2>4. n - 1 \in Nat /\ n - 1 \notin T
    BY <2>2, <2>3
  <2>5. \E g : Table(g, n - 1)
    BY <2>4
  <2>6. \E h : Table(h, (n - 1) + 1)
    BY <1>2, <2>4, <2>5
  <2>7. QED
    BY <2>6
<1>4. Sized(S, Cardinality(S)) = SUBSET S
  BY <1>a DEF Sized
<1>5. QED
  BY <1>b, <1>3, <1>4 DEF Rule

\* A sum is read from such a table.
LEMMA SumUnfolds ==
  ASSUME NEW S, IsFiniteSet(S), NEW f
  PROVE  \E g : /\ AddsUp(f, g, SUBSET S)
                /\ SumFunctionOnSet(f, S) = g[S]
<1> DEFINE g == CHOOSE h : h = Rule(f, S, h)
<1>1. \E h : h = Rule(f, S, h)
  BY SumTable
<1>2. SumFunctionOnSet(f, S) = g[S]
  BY DEF SumFunctionOnSet, FoldFunctionOnSet, MapThenFoldSet, Chosen, Rule
<1>3. g = Rule(f, S, g)
  BY <1>1
<1>4. AddsUp(f, g, SUBSET S)
  BY <1>3 DEF AddsUp, Rule
<1>5. QED
  BY <1>2, <1>4

\* Two tables agree on every set on which the functions do.
LEMMA SameTable ==
  ASSUME NEW S, IsFiniteSet(S), NEW f, NEW g, NEW U \in SUBSET S, NEW T \in SUBSET U,
         NEW h, NEW k, AddsUp(f, h, SUBSET S), AddsUp(g, k, SUBSET U),
         \A x \in T : f[x] = g[x]
  PROVE  h[T] = k[T]
<1> DEFINE F == {s \in SUBSET T : h[s] # k[s]}
<1>1. SUFFICES ASSUME F # {} PROVE FALSE
  OBVIOUS
<1>2. IsFiniteSet(T) /\ F \in SUBSET (SUBSET T)
  BY FS_Subset
<1>3. PICK s \in F : \A t \in F : t \subseteq s => t = s
  <2> HIDE DEF F
  <2>1. QED
    BY <1>1, <1>2, SmallestSubset
<1>4. s # {}
  BY DEF AddsUp
<1>5. Chosen(s) \in s
  BY <1>4 DEF Chosen
<1>6. h[s \ {Chosen(s)}] = k[s \ {Chosen(s)}]
  BY <1>3, <1>5
<1>7. QED
  BY <1>4, <1>5, <1>6 DEF AddsUp

\* Functions that agree on a set have the same sum there.
LEMMA SumAgrees ==
  ASSUME NEW S, IsFiniteSet(S), NEW f, NEW g, \A x \in S : f[x] = g[x]
  PROVE  SumFunctionOnSet(f, S) = SumFunctionOnSet(g, S)
<1>1. PICK h : AddsUp(f, h, SUBSET S) /\ SumFunctionOnSet(f, S) = h[S]
  BY SumUnfolds
<1>2. PICK k : AddsUp(g, k, SUBSET S) /\ SumFunctionOnSet(g, S) = k[S]
  BY SumUnfolds
<1>3. h[S] = k[S]
  BY <1>1, <1>2, SameTable
<1>4. QED
  BY <1>1, <1>2, <1>3

\* The sum over a set is the chosen element's value and the sum over the others.
LEMMA SumChosen ==
  ASSUME NEW S, IsFiniteSet(S), NEW f
  PROVE  SumFunctionOnSet(f, S) =
           IF S = {} THEN 0
           ELSE f[Chosen(S)] + SumFunctionOnSet(f, S \ {Chosen(S)})
<1>1. PICK h : AddsUp(f, h, SUBSET S) /\ SumFunctionOnSet(f, S) = h[S]
  BY SumUnfolds
<1>2. CASE S = {}
  BY <1>1, <1>2 DEF AddsUp
<1>3. CASE S # {}
  <2> DEFINE T == S \ {Chosen(S)}
  <2>1. IsFiniteSet(T) /\ T \in SUBSET S
    BY FS_Subset
  <2> HIDE DEF T
  <2>2. PICK k : AddsUp(f, k, SUBSET T) /\ SumFunctionOnSet(f, T) = k[T]
    BY <2>1, SumUnfolds
  <2>3. h[T] = k[T]
    BY <1>1, <2>1, <2>2, SameTable
  <2>4. h[S] = f[Chosen(S)] + h[T]
    BY <1>1, <1>3 DEF AddsUp, T
  <2>5. QED
    BY <1>1, <1>3, <2>2, <2>3, <2>4 DEF T
<1>4. QED
  BY <1>2, <1>3

-----------------------------------------------------------------------------
(* What the other proofs use                                               *)

\* The sum over no element.
LEMMA SumEmpty == \A f : SumFunctionOnSet(f, {}) = 0
BY SumChosen, FS_EmptySet

\* A sum of integers is an integer.
LEMMA SumInt ==
  ASSUME NEW S, IsFiniteSet(S), NEW f, \A x \in S : f[x] \in Int
  PROVE  SumFunctionOnSet(f, S) \in Int
<1> DEFINE F == {s \in SUBSET S : SumFunctionOnSet(f, s) \notin Int}
<1>1. SUFFICES ASSUME F # {} PROVE FALSE
  OBVIOUS
<1>2. PICK s \in F : \A t \in F : t \subseteq s => t = s
  <2>1. F \in SUBSET (SUBSET S)
    OBVIOUS
  <2> HIDE DEF F
  <2>2. QED
    BY <1>1, <2>1, SmallestSubset
<1>3. s \in SUBSET S /\ SumFunctionOnSet(f, s) \notin Int
  OBVIOUS
<1>4. IsFiniteSet(s)
  BY <1>3, FS_Subset
<1>5. s # {}
  BY <1>3, SumEmpty
<1>6. PICK r \in s : r = Chosen(s)
  BY <1>5 DEF Chosen
<1>7. SumFunctionOnSet(f, s \ {r}) \in Int
  BY <1>2
<1>8. SumFunctionOnSet(f, s) = f[r] + SumFunctionOnSet(f, s \ {r})
  BY <1>4, <1>5, <1>6, SumChosen
<1>9. f[r] \in Int
  BY <1>3
<1>10. QED
  BY <1>3, <1>7, <1>8, <1>9

\* Any element may be taken out, not just the chosen one.
LEMMA SumElement ==
  ASSUME NEW S, IsFiniteSet(S), NEW f, \A x \in S : f[x] \in Int, NEW r \in S
  PROVE  SumFunctionOnSet(f, S) = f[r] + SumFunctionOnSet(f, S \ {r})
<1> DEFINE Off(s) == \E x \in s : SumFunctionOnSet(f, s) # f[x] + SumFunctionOnSet(f, s \ {x})
           F == {s \in SUBSET S : Off(s)}
<1>1. SUFFICES ASSUME F # {} PROVE FALSE
  OBVIOUS
<1>2. PICK s \in F : \A t \in F : t \subseteq s => t = s
  <2>1. F \in SUBSET (SUBSET S)
    OBVIOUS
  <2> HIDE DEF F
  <2>2. QED
    BY <1>1, <2>1, SmallestSubset
<1>3. PICK x \in s : SumFunctionOnSet(f, s) # f[x] + SumFunctionOnSet(f, s \ {x})
  OBVIOUS
<1> DEFINE c == Chosen(s)
<1>4. c \in s
  BY <1>3 DEF Chosen
<1>5. IsFiniteSet(s)
  BY FS_Subset
<1>6. SumFunctionOnSet(f, s) = f[c] + SumFunctionOnSet(f, s \ {c})
  BY <1>4, <1>5, SumChosen
<1>7. c # x
  BY <1>3, <1>6
<1> HIDE DEF c
<1>8. ~Off(s \ {c}) /\ ~Off(s \ {x})
  BY <1>2, <1>3, <1>4
<1>9. PICK rest : rest = (s \ {c}) \ {x}
  OBVIOUS
<1>10. rest = (s \ {x}) \ {c}
  BY <1>9
<1>11. SumFunctionOnSet(f, s \ {c}) = f[x] + SumFunctionOnSet(f, rest)
  BY <1>3, <1>7, <1>8, <1>9
<1>12. SumFunctionOnSet(f, s \ {x}) = f[c] + SumFunctionOnSet(f, rest)
  BY <1>4, <1>7, <1>8, <1>10
<1>13. IsFiniteSet(rest) /\ rest \subseteq S
  BY <1>9, FS_Subset
<1>14. SumFunctionOnSet(f, rest) \in Int
  BY <1>13, SumInt
<1>15. f[x] \in Int /\ f[c] \in Int
  BY <1>3, <1>4
<1> HIDE DEF F, Off
<1>16. QED
  BY <1>3, <1>6, <1>11, <1>12, <1>14, <1>15

\* One element more adds its value.
LEMMA SumMore ==
  ASSUME NEW S, IsFiniteSet(S), NEW f, NEW x, x \notin S,
         \A y \in S \cup {x} : f[y] \in Int
  PROVE  SumFunctionOnSet(f, S \cup {x}) = SumFunctionOnSet(f, S) + f[x]
<1>1. PICK U : U = S \cup {x}
  OBVIOUS
<1>2. U \ {x} = S /\ x \in U
  BY <1>1
<1>3. IsFiniteSet(U)
  BY <1>1, FS_AddElement
<1>4. SumFunctionOnSet(f, U) = f[x] + SumFunctionOnSet(f, S)
  BY <1>1, <1>2, <1>3, SumElement
<1>5. SumFunctionOnSet(f, S) \in Int /\ f[x] \in Int
  BY SumInt
<1>6. QED
  BY <1>1, <1>4, <1>5

\* A value that changes changes the sum by as much.
LEMMA SumChange ==
  ASSUME NEW S, IsFiniteSet(S), NEW f, NEW g, NEW r \in S,
         \A x \in S : f[x] \in Int /\ g[x] \in Int,
         \A x \in S \ {r} : g[x] = f[x]
  PROVE  SumFunctionOnSet(g, S) = SumFunctionOnSet(f, S) - f[r] + g[r]
<1>1. PICK T : T = S \ {r}
  OBVIOUS
<1>2. IsFiniteSet(T)
  BY <1>1, FS_Subset
<1>3. SumFunctionOnSet(f, S) = f[r] + SumFunctionOnSet(f, T)
  BY <1>1, SumElement
<1>4. SumFunctionOnSet(g, S) = g[r] + SumFunctionOnSet(g, T)
  BY <1>1, SumElement
<1>5. SumFunctionOnSet(f, T) = SumFunctionOnSet(g, T)
  BY <1>1, <1>2, SumAgrees
<1>6. SumFunctionOnSet(f, T) \in Int
  BY <1>1, <1>2, SumInt
<1>7. f[r] \in Int /\ g[r] \in Int
  OBVIOUS
<1>8. QED
  BY <1>3, <1>4, <1>5, <1>6, <1>7

\* A sum of smaller values is smaller.
LEMMA SumAtMost ==
  ASSUME NEW S, IsFiniteSet(S), NEW f, NEW g,
         \A x \in S : f[x] \in Int /\ g[x] \in Int /\ f[x] <= g[x]
  PROVE  SumFunctionOnSet(f, S) <= SumFunctionOnSet(g, S)
<1> DEFINE F == {s \in SUBSET S : ~(SumFunctionOnSet(f, s) <= SumFunctionOnSet(g, s))}
<1>1. SUFFICES ASSUME F # {} PROVE FALSE
  OBVIOUS
<1>2. PICK s \in F : \A t \in F : t \subseteq s => t = s
  <2>1. F \in SUBSET (SUBSET S)
    OBVIOUS
  <2> HIDE DEF F
  <2>2. QED
    BY <1>1, <2>1, SmallestSubset
<1>3. PICK r \in s : TRUE
  BY SumEmpty
<1>4. PICK T : T = s \ {r}
  OBVIOUS
<1>5. IsFiniteSet(s) /\ IsFiniteSet(T) /\ T \subseteq S
  BY <1>4, FS_Subset
<1>6. SumFunctionOnSet(f, T) <= SumFunctionOnSet(g, T)
  BY <1>2, <1>3, <1>4
<1>7. /\ SumFunctionOnSet(f, s) = f[r] + SumFunctionOnSet(f, T)
      /\ SumFunctionOnSet(g, s) = g[r] + SumFunctionOnSet(g, T)
  BY <1>4, <1>5, SumElement
<1>8. SumFunctionOnSet(f, T) \in Int /\ SumFunctionOnSet(g, T) \in Int
  BY <1>5, SumInt
<1>9. f[r] \in Int /\ g[r] \in Int /\ f[r] <= g[r]
  OBVIOUS
<1>10. SumFunctionOnSet(f, s) <= SumFunctionOnSet(g, s)
  <2> HIDE DEF F
  <2>1. QED
    BY <1>6, <1>7, <1>8, <1>9
<1>11. QED
  BY <1>10

\* A sum of zeros is zero.
LEMMA SumZero ==
  ASSUME NEW S, IsFiniteSet(S), NEW f, \A x \in S : f[x] = 0
  PROVE  SumFunctionOnSet(f, S) = 0
<1> DEFINE F == {s \in SUBSET S : SumFunctionOnSet(f, s) # 0}
<1>1. SUFFICES ASSUME F # {} PROVE FALSE
  OBVIOUS
<1>2. PICK s \in F : \A t \in F : t \subseteq s => t = s
  <2>1. F \in SUBSET (SUBSET S)
    OBVIOUS
  <2> HIDE DEF F
  <2>2. QED
    BY <1>1, <2>1, SmallestSubset
<1>3. PICK r \in s : TRUE
  BY SumEmpty
<1>4. IsFiniteSet(s) /\ \A x \in s : f[x] = 0
  BY FS_Subset
<1>5. SumFunctionOnSet(f, s) = f[r] + SumFunctionOnSet(f, s \ {r})
  BY <1>4, SumElement
<1>6. SumFunctionOnSet(f, s \ {r}) = 0
  BY <1>2, <1>3
<1>7. f[r] = 0
  OBVIOUS
<1>8. QED
  BY <1>5, <1>6, <1>7

\* Part of a set whose other values are natural numbers has a smaller sum.
LEMMA SumPart ==
  ASSUME NEW S, IsFiniteSet(S), NEW f, \A x \in S : f[x] \in Int,
         NEW T \in SUBSET S, \A x \in S \ T : f[x] >= 0
  PROVE  SumFunctionOnSet(f, T) <= SumFunctionOnSet(f, S)
<1> DEFINE F == {s \in SUBSET S : T \subseteq s /\ ~(SumFunctionOnSet(f, T) <= SumFunctionOnSet(f, s))}
<1>1. SUFFICES ASSUME F # {} PROVE FALSE
  OBVIOUS
<1>2. PICK s \in F : \A t \in F : t \subseteq s => t = s
  <2>1. F \in SUBSET (SUBSET S)
    OBVIOUS
  <2> HIDE DEF F
  <2>2. QED
    BY <1>1, <2>1, SmallestSubset
<1>3. s \subseteq S /\ T \subseteq s /\ ~(SumFunctionOnSet(f, T) <= SumFunctionOnSet(f, s))
  OBVIOUS
<1>4. IsFiniteSet(T) /\ IsFiniteSet(s)
  BY <1>3, FS_Subset
<1>5. SumFunctionOnSet(f, T) \in Int
  BY <1>4, SumInt
<1>6. PICK r \in s : r \notin T
  <2>1. T # s
    BY <1>3, <1>5
  <2>2. QED
    BY <1>3, <2>1
<1>7. PICK t : t = s \ {r}
  OBVIOUS
<1>8. SumFunctionOnSet(f, T) <= SumFunctionOnSet(f, t)
  BY <1>2, <1>3, <1>6, <1>7
<1>9. IsFiniteSet(t) /\ t \subseteq S
  BY <1>3, <1>4, <1>7, FS_Subset
<1>10. SumFunctionOnSet(f, t) \in Int
  BY <1>9, SumInt
<1>11. SumFunctionOnSet(f, s) = f[r] + SumFunctionOnSet(f, t)
  BY <1>3, <1>4, <1>7, SumElement
<1>12. f[r] \in Int /\ f[r] >= 0
  BY <1>3, <1>6
<1>13. QED
  BY <1>3, <1>5, <1>8, <1>10, <1>11, <1>12

\* If they are zero, the sums are the same.
LEMMA SumRest ==
  ASSUME NEW S, IsFiniteSet(S), NEW f, \A x \in S : f[x] \in Int,
         NEW T \in SUBSET S, \A x \in S \ T : f[x] = 0
  PROVE  SumFunctionOnSet(f, S) = SumFunctionOnSet(f, T)
<1> DEFINE F == {s \in SUBSET S : T \subseteq s /\ SumFunctionOnSet(f, s) # SumFunctionOnSet(f, T)}
<1>1. SUFFICES ASSUME F # {} PROVE FALSE
  OBVIOUS
<1>2. PICK s \in F : \A t \in F : t \subseteq s => t = s
  <2>1. F \in SUBSET (SUBSET S)
    OBVIOUS
  <2> HIDE DEF F
  <2>2. QED
    BY <1>1, <2>1, SmallestSubset
<1>3. s \subseteq S /\ T \subseteq s /\ SumFunctionOnSet(f, s) # SumFunctionOnSet(f, T)
  OBVIOUS
<1>4. PICK r \in s : r \notin T
  BY <1>3
<1>5. PICK t : t = s \ {r}
  OBVIOUS
<1>6. SumFunctionOnSet(f, t) = SumFunctionOnSet(f, T)
  BY <1>2, <1>3, <1>4, <1>5
<1>7. IsFiniteSet(s) /\ IsFiniteSet(t) /\ t \subseteq S
  BY <1>3, <1>5, FS_Subset
<1>8. SumFunctionOnSet(f, s) = f[r] + SumFunctionOnSet(f, t)
  BY <1>3, <1>5, <1>7, SumElement
<1>9. SumFunctionOnSet(f, t) \in Int
  BY <1>7, SumInt
<1>10. f[r] = 0
  BY <1>3, <1>4
<1>11. QED
  BY <1>3, <1>6, <1>8, <1>9, <1>10

\* The numbers up to the next: one term more.
LEMMA SumNext ==
  ASSUME NEW n \in Nat, NEW f, \A x \in 1 .. n + 1 : f[x] \in Int
  PROVE  SumFunctionOnSet(f, 1 .. n + 1) = SumFunctionOnSet(f, 1 .. n) + f[n + 1]
<1>1. PICK S, y : S = 1 .. n /\ y = n + 1
  OBVIOUS
<1>2. IsFiniteSet(S)
  BY <1>1, FS_Interval
<1>3. y \notin S
  BY <1>1
<1>4. S \cup {y} = 1 .. n + 1
  BY <1>1
<1>5. \A x \in S \cup {y} : f[x] \in Int
  BY <1>4
<1>6. SumFunctionOnSet(f, S \cup {y}) = SumFunctionOnSet(f, S) + f[y]
  BY <1>2, <1>3, <1>5, SumMore
<1>7. QED
  BY <1>1, <1>4, <1>6

\* Terms that move up by one, behind a zero, have the same sum.
LEMMA SumShifted ==
  ASSUME NEW n \in Nat, NEW f, NEW g, \A x \in 1 .. n : f[x] \in Int,
         g[1] = 0, \A x \in 1 .. n : g[x + 1] = f[x]
  PROVE  SumFunctionOnSet(g, 1 .. n + 1) = SumFunctionOnSet(f, 1 .. n)
<1> DEFINE T == {m \in 0 .. n :
                   SumFunctionOnSet(g, 1 .. m + 1) # SumFunctionOnSet(f, 1 .. m)}
<1>1. SUFFICES ASSUME T # {} PROVE FALSE
  OBVIOUS
<1>2. PICK m \in T : \A k \in T : m <= k
  <2>1. T \subseteq Nat
    OBVIOUS
  <2> HIDE DEF T
  <2>2. QED
    BY <1>1, <2>1, SmallestNumber
<1>3. \A x \in 1 .. n + 1 : g[x] \in Int
  <2>1. ASSUME NEW x \in 1 .. n + 1, x # 1 PROVE g[x] \in Int
    <3>1. x - 1 \in 1 .. n /\ (x - 1) + 1 = x
      BY <2>1
    <3>2. QED
      BY <3>1
  <2>2. QED
    BY <2>1
<1>4. m \in 0 .. n /\ SumFunctionOnSet(g, 1 .. m + 1) # SumFunctionOnSet(f, 1 .. m)
  OBVIOUS
<1>5. SumFunctionOnSet(g, 1 .. m + 1) = SumFunctionOnSet(g, 1 .. m) + g[m + 1]
  BY <1>3, <1>4, SumNext
<1>6. CASE m = 0
  <2>1. 1 .. 0 = {}
    OBVIOUS
  <2>2. QED
    BY <1>4, <1>5, <1>6, <2>1, SumEmpty
<1>7. CASE m # 0
  <2>1. PICK k \in 0 .. n : m = k + 1
    <3>1. m - 1 \in 0 .. n /\ m = (m - 1) + 1
      BY <1>4, <1>7
    <3>2. QED
      BY <3>1
  <2>2. SumFunctionOnSet(g, 1 .. k + 1) = SumFunctionOnSet(f, 1 .. k)
    BY <1>2, <2>1
  <2>3. SumFunctionOnSet(f, 1 .. k + 1) = SumFunctionOnSet(f, 1 .. k) + f[k + 1]
    BY <1>4, <2>1, SumNext
  <2>4. g[m + 1] = f[m]
    BY <1>4, <1>7
  <2>5. QED
    BY <1>4, <1>5, <2>1, <2>2, <2>3, <2>4
<1>8. QED
  BY <1>6, <1>7
=============================================================================
