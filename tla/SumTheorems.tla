---------------------------- MODULE SumTheorems -----------------------------
(***************************************************************************)
(* What the sum of a function over a finite set is, and how it changes     *)
(* with one or two of the values: the ledger of the runtime and the assets *)
(* of the XCM executor are such sums.                                      *)
(*                                                                         *)
(* Induction is by a counterexample that is smallest: the library's        *)
(* theorems on well-founded orders name one without a predicate as their   *)
(* parameter.                                                              *)
(***************************************************************************)
EXTENDS Functions, FiniteSetTheorems, TLAPS

-----------------------------------------------------------------------------
(* Smallest counterexamples *)

LEMMA LeastNatural ==
    ASSUME NEW Bad \in SUBSET Nat, Bad # {}
    PROVE  \E n \in Bad : \A m \in Bad : n <= m
<1> DEFINE Less == {p \in Nat \X Nat : p[1] < p[2]}
<1>1. IsWellFoundedOn(Less, Nat)
    BY NatLessThanWellFounded DEF OpToRel
<1> HIDE DEF Less
<1>2. PICK n \in Bad : \A m \in Bad : <<m, n>> \notin Less
    BY <1>1, WFMin
<1>3. ASSUME NEW m \in Bad
      PROVE  n <= m
    <2>1. m \in Nat /\ n \in Nat
        OBVIOUS
    <2>2. m < n => <<m, n>> \in Less
        BY <2>1 DEF Less
    <2> QED BY <1>2, <2>1, <2>2
<1> QED BY <1>3

LEMMA MinimalSubset ==
    ASSUME NEW D, IsFiniteSet(D), NEW Bad \in SUBSET SUBSET D, Bad # {}
    PROVE  \E s \in Bad : \A x \in s : s \ {x} \notin Bad
<1> DEFINE Less == StrictSubsetOrdering(D)
<1>1. Bad \subseteq FiniteSubsetsOf(D)
    BY FS_Subset DEF FiniteSubsetsOf
<1>2. IsWellFoundedOn(Less, FiniteSubsetsOf(D))
    BY FS_StrictSubsetOrderingWellFounded
<1> HIDE DEF Less
<1>3. PICK s \in Bad : \A t \in Bad : <<t, s>> \notin Less
    BY <1>1, <1>2, WFMin
<1>4. ASSUME NEW x \in s, s \ {x} \in Bad
      PROVE  FALSE
    <2>1. <<s \ {x}, s>> \in Less
        BY DEF Less, StrictSubsetOrdering
    <2> QED BY <1>3, <1>4, <2>1
<1> QED BY <1>4

-----------------------------------------------------------------------------
(* The recursion that SumFunction is made of *)

\* The element that the library's folds take out of a set first.
Some(s) == CHOOSE x \in s : TRUE

LEMMA SomeIn ==
    ASSUME NEW s, s # {}
    PROVE  Some(s) \in s
BY DEF Some

\* The sums of f over all subsets of its domain.
Sums(f) ==
    LET iter[s \in SUBSET DOMAIN f] ==
            IF s = {} THEN 0 ELSE f[Some(s)] + iter[s \ {Some(s)}]
    IN  iter

LEMMA SumIsLast ==
    ASSUME NEW f
    PROVE  SumFunction(f) = Sums(f)[DOMAIN f]
BY DEF SumFunction, SumFunctionOnSet, FoldFunctionOnSet, MapThenFoldSet, Sums, Some

\* A function g on sets that obeys the recursion.
Recurs(f, g, sets) ==
    \A s \in sets : g[s] = IF s = {} THEN 0 ELSE f[Some(s)] + g[s \ {Some(s)}]

\* The subsets of D with n elements at most.
UpTo(D, n) == {s \in SUBSET D : Cardinality(s) <= n}

LEMMA OneLess ==
    ASSUME NEW D, IsFiniteSet(D), NEW n \in Nat, NEW s \in UpTo(D, n), s # {}
    PROVE  /\ n # 0 /\ Some(s) \in D
           /\ s \ {Some(s)} \in UpTo(D, n - 1) /\ s \ {Some(s)} \in UpTo(D, n)
<1>1. s \in SUBSET D /\ IsFiniteSet(s) /\ Cardinality(s) <= n /\ Some(s) \in s
    BY FS_Subset, SomeIn DEF UpTo
<1>2. Cardinality(s) \in Nat \ {0}
    BY <1>1, FS_CardinalityType, FS_EmptySet
<1>3. Cardinality(s \ {Some(s)}) = Cardinality(s) - 1
    BY <1>1, FS_RemoveElement
<1> QED BY <1>1, <1>2, <1>3 DEF UpTo

\* The recursion has a solution up to every size: one more step of it extends
\* the solution for the size below.
LEMMA PartialSums ==
    ASSUME NEW D, IsFiniteSet(D), NEW f \in [D -> Int], NEW n \in Nat
    PROVE  \E g \in [UpTo(D, n) -> Int] : Recurs(f, g, UpTo(D, n))
<1> DEFINE Solved(k) == \E g \in [UpTo(D, k) -> Int] : Recurs(f, g, UpTo(D, k))
           Bad == {k \in Nat : ~Solved(k)}
<1>1. SUFFICES ASSUME Bad # {}
               PROVE  FALSE
    BY <1>1
<1> HIDE DEF Bad
<1>2. PICK k \in Bad : \A m \in Bad : k <= m
    <2>1. Bad \in SUBSET Nat
        BY DEF Bad
    <2> QED BY <1>1, <2>1, LeastNatural
<1>3. k \in Nat /\ ~Solved(k)
    BY DEF Bad
<1>4. CASE k = 0
    <2> DEFINE g == [s \in UpTo(D, 0) |-> 0]
    <2>1. \A s \in UpTo(D, 0) : s = {}
        BY OneLess
    <2>2. g \in [UpTo(D, 0) -> Int] /\ Recurs(f, g, UpTo(D, 0))
        BY <2>1 DEF Recurs
    <2> QED BY <1>3, <1>4, <2>2
<1>5. CASE k # 0
    <2>1. k - 1 \in Nat /\ k - 1 \notin Bad
        BY <1>2, <1>3, <1>5
    <2>2. PICK g \in [UpTo(D, k - 1) -> Int] : Recurs(f, g, UpTo(D, k - 1))
        BY <2>1 DEF Bad
    <2> DEFINE h == [s \in UpTo(D, k) |->
                        IF s = {} THEN 0 ELSE f[Some(s)] + g[s \ {Some(s)}]]
    <2>3. ASSUME NEW s \in UpTo(D, k), s # {}
          PROVE  /\ Some(s) \in D
                 /\ s \ {Some(s)} \in UpTo(D, k - 1) /\ s \ {Some(s)} \in UpTo(D, k)
        BY <1>3, <2>3, OneLess
    <2>4. h \in [UpTo(D, k) -> Int]
        BY <2>3
    <2>5. ASSUME NEW s \in UpTo(D, k - 1), s \in UpTo(D, k)
          PROVE  h[s] = g[s]
        BY <2>2, <2>5 DEF Recurs
    <2>6. Recurs(f, h, UpTo(D, k))
        BY <2>3, <2>5 DEF Recurs
    <2> QED BY <1>3, <2>4, <2>6
<1> QED BY <1>4, <1>5

\* So Sums(f), which is some solution if there is one, obeys the recursion,
\* and its values are numbers because it is the only solution.
LEMMA SumsRecur ==
    ASSUME NEW D, IsFiniteSet(D), NEW f \in [D -> Int]
    PROVE  Sums(f) \in [SUBSET D -> Int] /\ Recurs(f, Sums(f), SUBSET D)
<1> DEFINE n == Cardinality(D)
           Step(g) == [s \in SUBSET D |->
                         IF s = {} THEN 0 ELSE f[Some(s)] + g[s \ {Some(s)}]]
<1>1. PICK g \in [SUBSET D -> Int] : Recurs(f, g, SUBSET D)
    <2>1. \E g \in [UpTo(D, n) -> Int] : Recurs(f, g, UpTo(D, n))
        BY FS_CardinalityType, PartialSums
    <2>2. UpTo(D, n) = SUBSET D
        BY FS_Subset DEF UpTo
    <2> QED BY <2>1, <2>2
<1>2. g = Step(g)
    BY <1>1 DEF Recurs
<1>3. Sums(f) = CHOOSE h : h = Step(h)
    BY DEF Sums
<1>4. Sums(f) = Step(Sums(f))
    BY <1>2, <1>3
<1>5. Recurs(f, Sums(f), SUBSET D)
    BY <1>4 DEF Recurs
<1> DEFINE Bad == {s \in SUBSET D : Sums(f)[s] # g[s]}
<1>6. ASSUME Bad # {}
      PROVE  FALSE
    <2> HIDE DEF Bad
    <2>1. PICK s \in Bad : \A x \in s : s \ {x} \notin Bad
        <3>1. Bad \in SUBSET SUBSET D
            BY DEF Bad
        <3> QED BY <1>6, <3>1, MinimalSubset
    <2>2. s \in SUBSET D /\ Sums(f)[s] # g[s]
        BY DEF Bad
    <2>3. s # {}
        BY <1>1, <1>5, <2>2 DEF Recurs
    <2>4. Sums(f)[s \ {Some(s)}] = g[s \ {Some(s)}]
        BY <2>1, <2>2, <2>3, SomeIn DEF Bad
    <2> QED BY <1>1, <1>5, <2>2, <2>3, <2>4 DEF Recurs
<1>7. Sums(f) = g
    BY <1>1, <1>4, <1>6
<1> QED BY <1>1, <1>5, <1>7

\* Any element may be taken out first.
LEMMA SumsOfAny ==
    ASSUME NEW D, IsFiniteSet(D), NEW f \in [D -> Int],
           NEW s \in SUBSET D, NEW x \in s
    PROVE  Sums(f)[s] = f[x] + Sums(f)[s \ {x}]
<1> DEFINE Holds(t) == \A y \in t : Sums(f)[t] = f[y] + Sums(f)[t \ {y}]
           Bad == {t \in SUBSET D : ~Holds(t)}
<1>1. Sums(f) \in [SUBSET D -> Int] /\ Recurs(f, Sums(f), SUBSET D)
    BY SumsRecur
<1>2. SUFFICES ASSUME Bad # {}
               PROVE  FALSE
    BY <1>2
<1> HIDE DEF Bad
<1>3. PICK t \in Bad : \A y \in t : t \ {y} \notin Bad
    <2>1. Bad \in SUBSET SUBSET D
        BY DEF Bad
    <2> QED BY <1>2, <2>1, MinimalSubset
<1>4. t \in SUBSET D
    BY DEF Bad
<1>5. PICK y \in t : Sums(f)[t] # f[y] + Sums(f)[t \ {y}]
    BY DEF Bad
<1> DEFINE c == Some(t)
<1>6. c \in t /\ Sums(f)[t] = f[c] + Sums(f)[t \ {c}]
    BY <1>1, <1>4, SomeIn DEF Recurs
<1> HIDE DEF c
<1>7. y # c
    BY <1>5, <1>6
<1>8. \A z \in t : Holds(t \ {z})
    BY <1>3, <1>4 DEF Bad
<1>9. Sums(f)[t \ {c}] = f[y] + Sums(f)[(t \ {c}) \ {y}]
    BY <1>6, <1>7, <1>8
<1>10. Sums(f)[t \ {y}] = f[c] + Sums(f)[(t \ {y}) \ {c}]
    BY <1>6, <1>7, <1>8
<1>11. (t \ {c}) \ {y} = (t \ {y}) \ {c}
    OBVIOUS
<1>12. f[c] \in Int /\ f[y] \in Int /\ Sums(f)[(t \ {c}) \ {y}] \in Int
    BY <1>1, <1>4, <1>6
<1>13. Sums(f)[t] = f[c] + (f[y] + Sums(f)[(t \ {c}) \ {y}])
    BY <1>6, <1>9
<1>14. f[y] + Sums(f)[t \ {y}] = f[y] + (f[c] + Sums(f)[(t \ {c}) \ {y}])
    BY <1>10, <1>11
<1> QED BY <1>5, <1>12, <1>13, <1>14

\* Functions that agree on a set have the same sum over it.
LEMMA SumsAgree ==
    ASSUME NEW D, IsFiniteSet(D), NEW f \in [D -> Int], NEW g \in [D -> Int],
           NEW s \in SUBSET D, \A x \in s : f[x] = g[x]
    PROVE  Sums(f)[s] = Sums(g)[s]
<1> DEFINE Bad == {t \in SUBSET s : Sums(f)[t] # Sums(g)[t]}
<1>1. Recurs(f, Sums(f), SUBSET D) /\ Recurs(g, Sums(g), SUBSET D)
    BY SumsRecur
<1>2. SUFFICES ASSUME Bad # {}
               PROVE  FALSE
    BY <1>2
<1> HIDE DEF Bad
<1>3. PICK t \in Bad : \A x \in t : t \ {x} \notin Bad
    <2>1. Bad \in SUBSET SUBSET D
        BY DEF Bad
    <2> QED BY <1>2, <2>1, MinimalSubset
<1>4. t \in SUBSET s /\ t \in SUBSET D /\ Sums(f)[t] # Sums(g)[t]
    BY DEF Bad
<1>5. t # {}
    BY <1>1, <1>4 DEF Recurs
<1>6. Some(t) \in t /\ f[Some(t)] = g[Some(t)]
    BY <1>4, <1>5, SomeIn
<1>7. Sums(f)[t \ {Some(t)}] = Sums(g)[t \ {Some(t)}]
    BY <1>3, <1>4, <1>6 DEF Bad
<1>8. /\ Sums(f)[t] = f[Some(t)] + Sums(f)[t \ {Some(t)}]
      /\ Sums(g)[t] = g[Some(t)] + Sums(g)[t \ {Some(t)}]
    BY <1>1, <1>4, <1>5 DEF Recurs
<1> QED BY <1>4, <1>6, <1>7, <1>8

-----------------------------------------------------------------------------
(* How a sum changes *)

LEMMA SumOfOneChange ==
    ASSUME NEW D, IsFiniteSet(D), NEW f \in [D -> Int], NEW g \in [D -> Int],
           NEW a \in D, \A x \in D \ {a} : g[x] = f[x]
    PROVE  /\ SumFunction(f) \in Int /\ SumFunction(g) \in Int
           /\ SumFunction(g) - g[a] = SumFunction(f) - f[a]
<1>1. D = DOMAIN f /\ D = DOMAIN g /\ D \in SUBSET D /\ D \ {a} \in SUBSET D
    OBVIOUS
<1>2. SumFunction(f) = Sums(f)[D] /\ SumFunction(g) = Sums(g)[D]
    BY <1>1, SumIsLast
<1>3. Sums(f) \in [SUBSET D -> Int] /\ Sums(g) \in [SUBSET D -> Int]
    BY SumsRecur
<1>4. /\ Sums(f)[D] = f[a] + Sums(f)[D \ {a}]
      /\ Sums(g)[D] = g[a] + Sums(g)[D \ {a}]
    BY <1>1, SumsOfAny
<1>5. Sums(f)[D \ {a}] = Sums(g)[D \ {a}]
    BY <1>1, SumsAgree
<1>6. /\ Sums(f)[D \ {a}] \in Int /\ Sums(f)[D] \in Int /\ Sums(g)[D] \in Int
      /\ f[a] \in Int /\ g[a] \in Int
    BY <1>1, <1>3
<1> QED BY <1>2, <1>4, <1>5, <1>6

LEMMA SumOfTwoChanges ==
    ASSUME NEW D, IsFiniteSet(D), NEW f \in [D -> Int], NEW g \in [D -> Int],
           NEW a \in D, NEW b \in D, a # b, \A x \in D \ {a, b} : g[x] = f[x]
    PROVE  /\ SumFunction(f) \in Int /\ SumFunction(g) \in Int
           /\ SumFunction(g) - g[a] - g[b] = SumFunction(f) - f[a] - f[b]
<1> DEFINE h == [f EXCEPT ![a] = g[a]]
<1>1. h \in [D -> Int] /\ h[a] = g[a] /\ h[b] = f[b]
    OBVIOUS
<1>2. (\A x \in D \ {a} : h[x] = f[x]) /\ (\A x \in D \ {b} : g[x] = h[x])
    OBVIOUS
<1> HIDE DEF h
<1>3. /\ SumFunction(f) \in Int /\ SumFunction(h) \in Int
      /\ SumFunction(h) - h[a] = SumFunction(f) - f[a]
    BY <1>1, <1>2, SumOfOneChange
<1>4. /\ SumFunction(g) \in Int
      /\ SumFunction(g) - g[b] = SumFunction(h) - h[b]
    BY <1>1, <1>2, SumOfOneChange
<1> QED BY <1>1, <1>3, <1>4

\* A sum of zeros is zero.
LEMMA SumOfZeros ==
    ASSUME NEW D, IsFiniteSet(D)
    PROVE  SumFunction([x \in D |-> 0]) = 0
<1> DEFINE f == [x \in D |-> 0]
           Bad == {t \in SUBSET D : Sums(f)[t] # 0}
<1>1. f \in [D -> Int] /\ DOMAIN f = D /\ \A x \in D : f[x] = 0
    OBVIOUS
<1> HIDE DEF f
<1>2. Sums(f) \in [SUBSET D -> Int] /\ Recurs(f, Sums(f), SUBSET D)
    BY <1>1, SumsRecur
<1>3. SumFunction(f) = Sums(f)[D]
    BY <1>1, SumIsLast
<1>4. ASSUME Bad # {}
      PROVE  FALSE
    <2>1. PICK t \in Bad : \A x \in t : t \ {x} \notin Bad
        BY <1>4, MinimalSubset
    <2>2. t \in SUBSET D /\ Sums(f)[t] # 0
        OBVIOUS
    <2>3. t # {}
        BY <1>2, <2>2 DEF Recurs
    <2>4. Some(t) \in t /\ t \ {Some(t)} \in SUBSET D
        BY <2>2, <2>3, SomeIn
    <2>5. Sums(f)[t \ {Some(t)}] = 0
        BY <2>1, <2>4
    <2>6. Sums(f)[t] = f[Some(t)] + Sums(f)[t \ {Some(t)}]
        BY <1>2, <2>2, <2>3 DEF Recurs
    <2> QED BY <1>1, <2>2, <2>4, <2>5, <2>6
<1>5. D \in SUBSET D /\ D \notin Bad
    BY <1>4
<1> QED BY <1>3, <1>5 DEF f
=============================================================================
