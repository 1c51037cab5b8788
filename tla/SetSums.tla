------------------------------ MODULE SetSums ------------------------------
(***************************************************************************)
(* Facts about SumFunctionOnSet (module Functions) over finite sets.       *)
(*                                                                         *)
(* The sum is a recursive function over subsets.  Its induction is done    *)
(* with sets instead of an operator parameter: the subsets for which a     *)
(* fact fails form a set, and if that set is not empty it has a minimal    *)
(* member, because strict inclusion is well-founded on the subsets of a    *)
(* finite set.                                                             *)
(***************************************************************************)
EXTENDS Integers, FiniteSets, Functions, FiniteSetTheorems, WellFoundedInduction, TLAPS

\* The element the sum takes from a set first.
First(s) == CHOOSE x \in s : TRUE

\* g[s] is the sum of f over s, for every subset s of S.
IsSum(g, f, S) ==
    g = [s \in SUBSET S |-> IF s = {} THEN 0 ELSE f[First(s)] + g[s \ {First(s)}]]

TheSum(f, S) == CHOOSE g : IsSum(g, f, S)

\* A nonempty set of subsets of a finite set has a member none of whose strict
\* subsets is a member.
LEMMA MinimalSubset ==
  ASSUME NEW S, IsFiniteSet(S), NEW T, T \subseteq SUBSET S, T # {}
  PROVE  \E m \in T : \A t \in T : t \subseteq m => t = m
<1>1. IsWellFoundedOn(StrictSubsetOrdering(S), SUBSET S)
  BY FS_StrictSubsetOrderingWellFounded, FS_FiniteSubsetsOfFinite
<1>2. PICK m \in T : \A t \in T : ~ (<<t, m>> \in StrictSubsetOrdering(S))
  BY <1>1, WFMin, Zenon
<1>3. ASSUME NEW t \in T, t \subseteq m PROVE t = m
  BY <1>2, <1>3 DEF StrictSubsetOrdering
<1> QED BY <1>3

LEMMA FirstIn ==
  ASSUME NEW s, s # {}
  PROVE  First(s) \in s
BY DEF First

\* The equation of IsSum at one subset.
LEMMA IsSumAt ==
  ASSUME NEW g, NEW f, NEW S, IsSum(g, f, S), NEW s \in SUBSET S
  PROVE  /\ s = {} => g[s] = 0
         /\ s # {} => g[s] = f[First(s)] + g[s \ {First(s)}]
<1>1. g[s] = IF s = {} THEN 0 ELSE f[First(s)] + g[s \ {First(s)}]
  BY Zenon DEF IsSum
<1> QED BY <1>1, Zenon

\* Two sums of the same numbers agree on the subsets both are defined on.
LEMMA SumUnique ==
  ASSUME NEW f, NEW A, IsFiniteSet(A), NEW B, NEW g, NEW h, IsSum(g, f, A), IsSum(h, f, B)
  PROVE  \A s : s \subseteq A /\ s \subseteq B => g[s] = h[s]
<1> DEFINE Bad == {s \in SUBSET A : s \subseteq B /\ g[s] # h[s]}
<1>1. SUFFICES ASSUME Bad # {} PROVE FALSE
  BY Zenon DEF Bad
<1>2. PICK m \in Bad : \A t \in Bad : t \subseteq m => t = m
  <2>1. Bad \subseteq SUBSET A
    OBVIOUS
  <2> HIDE DEF Bad
  <2> QED BY <1>1, <2>1, MinimalSubset
<1>3. m \in SUBSET A /\ m \in SUBSET B /\ g[m] # h[m]
  BY Zenon
<1>4. m # {}
  <2>1. m = {} => g[m] = 0 /\ h[m] = 0
    BY <1>3, IsSumAt
  <2> QED BY <1>3, <2>1
<1>5. g[m] = f[First(m)] + g[m \ {First(m)}] /\ h[m] = f[First(m)] + h[m \ {First(m)}]
  BY <1>3, <1>4, IsSumAt
<1>6. First(m) \in m
  BY <1>4, FirstIn
<1>7. m \ {First(m)} \notin Bad
  <2> HIDE DEF Bad
  <2> QED BY <1>2, <1>6
<1>8. g[m \ {First(m)}] = h[m \ {First(m)}]
  BY <1>3, <1>7, Zenon
<1> QED BY <1>3, <1>5, <1>8, Zenon

\* The sum exists.
LEMMA SumExists ==
  ASSUME NEW f, NEW S, IsFiniteSet(S)
  PROVE  \E g : IsSum(g, f, S)
<1> DEFINE Bad == {s \in SUBSET S : ~ \E g : IsSum(g, f, s)}
<1>1. SUFFICES ASSUME Bad # {} PROVE FALSE
  BY <1>1, Zenon DEF Bad
<1>2. PICK m \in Bad : \A t \in Bad : t \subseteq m => t = m
  <2>1. Bad \subseteq SUBSET S
    OBVIOUS
  <2> HIDE DEF Bad
  <2> QED BY <1>1, <2>1, MinimalSubset
<1>3. m \in SUBSET S /\ ~ \E g : IsSum(g, f, m)
  OBVIOUS
<1>4. ASSUME NEW s \in SUBSET m, s # m
      PROVE  IsSum(TheSum(f, s), f, s)
  BY <1>2, <1>3, <1>4, Zenon DEF TheSum
<1> DEFINE below(s) == IF s = {} THEN 0
                       ELSE f[First(s)] + TheSum(f, s \ {First(s)})[s \ {First(s)}]
           G == [s \in SUBSET m |-> below(s)]
<1>5. ASSUME NEW s \in SUBSET m
      PROVE  G[s] = IF s = {} THEN 0 ELSE f[First(s)] + G[s \ {First(s)}]
  <2>1. CASE s = {}
    BY <2>1, Zenon
  <2>2. CASE s # {}
    <3>1. First(s) \in s
      BY <2>2, FirstIn
    <3> DEFINE t == s \ {First(s)}
    <3>2. t \in SUBSET m /\ t # m
      BY <3>1
    <3>3. G[s] = f[First(s)] + TheSum(f, t)[t]
      BY <2>2, Zenon
    <3>4. G[t] = below(t)
      BY <3>2, Zenon
    <3>5. IsSum(TheSum(f, t), f, t)
      BY <1>4, <3>2, Zenon
    <3>6. TheSum(f, t)[t] = below(t)
      <4>1. CASE t = {}
        BY <4>1, <3>5, IsSumAt, Zenon
      <4>2. CASE t # {}
        <5>1. First(t) \in t
          BY <4>2, FirstIn
        <5> DEFINE u == t \ {First(t)}
        <5>2. u \in SUBSET m /\ u # m /\ u \in SUBSET t /\ IsFiniteSet(t)
          BY <5>1, <3>2, <1>3, FS_Subset
        <5>3. TheSum(f, t)[t] = f[First(t)] + TheSum(f, t)[u]
          <6> HIDE DEF t
          <6> QED BY <4>2, <3>5, IsSumAt
        <5>4. IsSum(TheSum(f, u), f, u)
          BY <1>4, <5>2, Zenon
        <5> HIDE DEF u, t, G
        <5>5. TheSum(f, t)[u] = TheSum(f, u)[u]
          BY SumUnique, <3>5, <5>4, <5>2
        <5> QED BY <5>3, <5>5, <4>2, Zenon DEF u, t
      <4> QED BY <4>1, <4>2
    <3> QED BY <3>3, <3>4, <3>6, <2>2, Zenon
  <2> QED BY <2>1, <2>2
<1>6. IsSum(G, f, m)
  <2>1. G = [s \in SUBSET m |-> G[s]]
    OBVIOUS
  <2> HIDE DEF G
  <2> QED BY <2>1, <1>5, Zenon DEF IsSum
<1> QED BY <1>3, <1>6, Zenon

LEMMA SumUnfold ==
  ASSUME NEW f, NEW S
  PROVE  SumFunctionOnSet(f, S) = TheSum(f, S)[S]
BY Zenon DEF SumFunctionOnSet, FoldFunctionOnSet, MapThenFoldSet, TheSum, IsSum, First

LEMMA TheSumIs ==
  ASSUME NEW f, NEW S, IsFiniteSet(S)
  PROVE  IsSum(TheSum(f, S), f, S)
BY SumExists, Zenon DEF TheSum

\* The sum over the empty set is 0, and over any other set it is the first
\* element's number plus the sum over the rest.
LEMMA SumRecursion ==
  ASSUME NEW f, NEW S, IsFiniteSet(S)
  PROVE  /\ S = {} => SumFunctionOnSet(f, S) = 0
         /\ S # {} => SumFunctionOnSet(f, S) = f[First(S)] + SumFunctionOnSet(f, S \ {First(S)})
<1> DEFINE R == S \ {First(S)}
<1>1. R \in SUBSET S /\ IsFiniteSet(R)
  BY FS_Subset
<1>2. TheSum(f, S)[R] = TheSum(f, R)[R]
  <2>1. IsSum(TheSum(f, S), f, S) /\ IsSum(TheSum(f, R), f, R)
    BY <1>1, TheSumIs
  <2>2. \A s : s \subseteq S /\ s \subseteq R => TheSum(f, S)[s] = TheSum(f, R)[s]
    <3> HIDE DEF R
    <3> QED BY <2>1, SumUnique
  <2> QED BY <2>2
<1>3. IsSum(TheSum(f, S), f, S)
  BY TheSumIs
<1>4. /\ S = {} => TheSum(f, S)[S] = 0
      /\ S # {} => TheSum(f, S)[S] = f[First(S)] + TheSum(f, S)[R]
  BY <1>3, IsSumAt
<1>5. SumFunctionOnSet(f, S) = TheSum(f, S)[S] /\ SumFunctionOnSet(f, R) = TheSum(f, R)[R]
  BY SumUnfold
<1> QED BY <1>2, <1>4, <1>5

\* A sum of integers is an integer.
LEMMA SumInt ==
  ASSUME NEW f, NEW S, IsFiniteSet(S), \A x \in S : f[x] \in Int
  PROVE  SumFunctionOnSet(f, S) \in Int
<1> DEFINE Bad == {s \in SUBSET S : SumFunctionOnSet(f, s) \notin Int}
<1>1. SUFFICES ASSUME Bad # {} PROVE FALSE
  BY Zenon
<1>2. PICK m \in Bad : \A t \in Bad : t \subseteq m => t = m
  <2>1. Bad \subseteq SUBSET S
    OBVIOUS
  <2> HIDE DEF Bad
  <2> QED BY <1>1, <2>1, MinimalSubset
<1>3. m \in SUBSET S /\ SumFunctionOnSet(f, m) \notin Int
  BY Zenon
<1>4. IsFiniteSet(m)
  BY <1>3, FS_Subset
<1>5. m # {}
  BY <1>3, <1>4, SumRecursion
<1>6. First(m) \in m
  BY <1>5, FirstIn
<1>7. m \ {First(m)} \notin Bad
  <2> HIDE DEF Bad
  <2> QED BY <1>2, <1>6
<1>8. SumFunctionOnSet(f, m \ {First(m)}) \in Int
  BY <1>3, <1>7, Zenon
<1>9. SumFunctionOnSet(f, m) = f[First(m)] + SumFunctionOnSet(f, m \ {First(m)})
  BY <1>4, <1>5, SumRecursion
<1>10. f[First(m)] \in Int
  BY <1>3, <1>6
<1> QED BY <1>3, <1>8, <1>9, <1>10

\* The sum does not depend on the order: any element may be taken out.
LEMMA SumTakeOut ==
  ASSUME NEW f, NEW S, IsFiniteSet(S), \A x \in S : f[x] \in Int, NEW a \in S
  PROVE  SumFunctionOnSet(f, S) = f[a] + SumFunctionOnSet(f, S \ {a})
<1> DEFINE Bad == {s \in SUBSET S : \E b \in s :
                      SumFunctionOnSet(f, s) # f[b] + SumFunctionOnSet(f, s \ {b})}
<1>1. SUFFICES ASSUME Bad # {} PROVE FALSE
  BY Zenon
<1>2. PICK m \in Bad : \A t \in Bad : t \subseteq m => t = m
  <2>1. Bad \subseteq SUBSET S
    OBVIOUS
  <2> HIDE DEF Bad
  <2> QED BY <1>1, <2>1, MinimalSubset
<1>3. m \in SUBSET S
  BY Zenon
<1>4. PICK b \in m : SumFunctionOnSet(f, m) # f[b] + SumFunctionOnSet(f, m \ {b})
  BY Zenon
<1> DEFINE c == First(m)
<1>5. c \in m
  BY <1>4, FirstIn
<1>6. IsFiniteSet(m) /\ IsFiniteSet(m \ {b}) /\ IsFiniteSet(m \ {c})
  BY <1>3, FS_Subset
<1>7. SumFunctionOnSet(f, m) = f[c] + SumFunctionOnSet(f, m \ {c})
  BY <1>4, <1>6, SumRecursion
<1>8. b # c
  BY <1>4, <1>7
<1>9. m \ {c} \notin Bad /\ m \ {b} \notin Bad
  <2> HIDE DEF Bad, c
  <2> QED BY <1>2, <1>4, <1>5
<1> HIDE DEF c
<1>10. SumFunctionOnSet(f, m \ {c}) = f[b] + SumFunctionOnSet(f, (m \ {c}) \ {b})
  <2>1. m \ {c} \in SUBSET S /\ b \in m \ {c}
    BY <1>3, <1>8
  <2> QED BY <1>9, <2>1, Zenon
<1>11. SumFunctionOnSet(f, m \ {b}) = f[c] + SumFunctionOnSet(f, (m \ {b}) \ {c})
  <2>1. m \ {b} \in SUBSET S /\ c \in m \ {b}
    BY <1>3, <1>5, <1>8
  <2> QED BY <1>9, <2>1, Zenon
<1>12. (m \ {b}) \ {c} = (m \ {c}) \ {b}
  OBVIOUS
<1>13. /\ f[b] \in Int /\ f[c] \in Int
       /\ SumFunctionOnSet(f, (m \ {c}) \ {b}) \in Int
  <2>1. IsFiniteSet((m \ {c}) \ {b})
    BY <1>6, FS_Subset
  <2> QED BY <1>3, <1>5, <2>1, SumInt
<1> QED BY <1>4, <1>7, <1>10, <1>11, <1>12, <1>13

\* Functions that agree on the set have the same sum.
LEMMA SumSame ==
  ASSUME NEW f, NEW g, NEW S, IsFiniteSet(S), \A x \in S : f[x] = g[x]
  PROVE  SumFunctionOnSet(f, S) = SumFunctionOnSet(g, S)
<1> DEFINE Bad == {s \in SUBSET S : SumFunctionOnSet(f, s) # SumFunctionOnSet(g, s)}
<1>1. SUFFICES ASSUME Bad # {} PROVE FALSE
  BY Zenon
<1>2. PICK m \in Bad : \A t \in Bad : t \subseteq m => t = m
  <2>1. Bad \subseteq SUBSET S
    OBVIOUS
  <2> HIDE DEF Bad
  <2> QED BY <1>1, <2>1, MinimalSubset
<1>3. m \in SUBSET S /\ SumFunctionOnSet(f, m) # SumFunctionOnSet(g, m)
  BY Zenon
<1>4. IsFiniteSet(m)
  BY <1>3, FS_Subset
<1>5. m # {}
  BY <1>3, <1>4, SumRecursion
<1>6. First(m) \in m
  BY <1>5, FirstIn
<1>7. m \ {First(m)} \notin Bad
  <2> HIDE DEF Bad
  <2> QED BY <1>2, <1>6
<1>8. SumFunctionOnSet(f, m \ {First(m)}) = SumFunctionOnSet(g, m \ {First(m)})
  BY <1>3, <1>7, Zenon
<1>9. /\ SumFunctionOnSet(f, m) = f[First(m)] + SumFunctionOnSet(f, m \ {First(m)})
      /\ SumFunctionOnSet(g, m) = g[First(m)] + SumFunctionOnSet(g, m \ {First(m)})
  BY <1>4, <1>5, SumRecursion
<1> QED BY <1>3, <1>6, <1>8, <1>9

\* When one number changes, the sum changes by as much.
LEMMA SumChange ==
  ASSUME NEW f, NEW g, NEW S, IsFiniteSet(S), NEW a \in S,
         \A x \in S : f[x] \in Int /\ g[x] \in Int,
         \A x \in S \ {a} : f[x] = g[x]
  PROVE  /\ SumFunctionOnSet(f, S) \in Int
         /\ SumFunctionOnSet(g, S) = SumFunctionOnSet(f, S) + g[a] - f[a]
<1>1. /\ SumFunctionOnSet(f, S) = f[a] + SumFunctionOnSet(f, S \ {a})
      /\ SumFunctionOnSet(g, S) = g[a] + SumFunctionOnSet(g, S \ {a})
  BY SumTakeOut
<1>2. IsFiniteSet(S \ {a})
  BY FS_Subset
<1>3. SumFunctionOnSet(f, S \ {a}) = SumFunctionOnSet(g, S \ {a})
  BY <1>2, SumSame
<1>4. SumFunctionOnSet(f, S \ {a}) \in Int
  BY <1>2, SumInt
<1> QED BY <1>1, <1>3, <1>4

\* A sum of natural numbers is one, and at least each of them.
LEMMA SumNat ==
  ASSUME NEW f, NEW S, IsFiniteSet(S), \A x \in S : f[x] \in Nat
  PROVE  /\ SumFunctionOnSet(f, S) \in Nat
         /\ \A a \in S : f[a] <= SumFunctionOnSet(f, S)
<1> DEFINE Bad == {s \in SUBSET S : SumFunctionOnSet(f, s) \notin Nat}
<1>1. Bad = {}
  <2>1. SUFFICES ASSUME Bad # {} PROVE FALSE
    BY Zenon
  <2>2. PICK m \in Bad : \A t \in Bad : t \subseteq m => t = m
    <3>1. Bad \subseteq SUBSET S
      OBVIOUS
    <3> HIDE DEF Bad
    <3> QED BY <2>1, <3>1, MinimalSubset
  <2>3. m \in SUBSET S /\ SumFunctionOnSet(f, m) \notin Nat
    BY Zenon
  <2>4. IsFiniteSet(m)
    BY <2>3, FS_Subset
  <2>5. m # {}
    <3>1. 0 \in Nat
      OBVIOUS
    <3> QED BY <2>3, <2>4, <3>1, SumRecursion
  <2>6. First(m) \in m
    BY <2>5, FirstIn
  <2>7. m \ {First(m)} \notin Bad
    <3> HIDE DEF Bad
    <3> QED BY <2>2, <2>6
  <2>8. SumFunctionOnSet(f, m \ {First(m)}) \in Nat
    BY <2>3, <2>7, Zenon
  <2>9. SumFunctionOnSet(f, m) = f[First(m)] + SumFunctionOnSet(f, m \ {First(m)})
    BY <2>4, <2>5, SumRecursion
  <2>10. f[First(m)] \in Nat
    BY <2>3, <2>6
  <2> QED BY <2>3, <2>8, <2>9, <2>10
<1>2. \A s \in SUBSET S : SumFunctionOnSet(f, s) \in Nat
  BY <1>1, Zenon
<1>3. ASSUME NEW a \in S PROVE f[a] <= SumFunctionOnSet(f, S)
  <2>1. SumFunctionOnSet(f, S) = f[a] + SumFunctionOnSet(f, S \ {a})
    BY SumTakeOut
  <2>2. SumFunctionOnSet(f, S \ {a}) \in Nat /\ f[a] \in Nat
    BY <1>2
  <2> QED BY <2>1, <2>2
<1> QED BY <1>2, <1>3

\* A sum of zeros is 0.
LEMMA SumZero ==
  ASSUME NEW f, NEW S, IsFiniteSet(S), \A x \in S : f[x] = 0
  PROVE  SumFunctionOnSet(f, S) = 0
<1> DEFINE Bad == {s \in SUBSET S : SumFunctionOnSet(f, s) # 0}
<1>1. SUFFICES ASSUME Bad # {} PROVE FALSE
  BY Zenon
<1>2. PICK m \in Bad : \A t \in Bad : t \subseteq m => t = m
  <2>1. Bad \subseteq SUBSET S
    OBVIOUS
  <2> HIDE DEF Bad
  <2> QED BY <1>1, <2>1, MinimalSubset
<1>3. m \in SUBSET S /\ SumFunctionOnSet(f, m) # 0
  BY Zenon
<1>4. IsFiniteSet(m)
  BY <1>3, FS_Subset
<1>5. m # {}
  BY <1>3, <1>4, SumRecursion
<1>6. First(m) \in m
  BY <1>5, FirstIn
<1>7. m \ {First(m)} \notin Bad
  <2> HIDE DEF Bad
  <2> QED BY <1>2, <1>6
<1>8. SumFunctionOnSet(f, m \ {First(m)}) = 0
  BY <1>3, <1>7, Zenon
<1>9. SumFunctionOnSet(f, m) = f[First(m)] + SumFunctionOnSet(f, m \ {First(m)})
  BY <1>4, <1>5, SumRecursion
<1> QED BY <1>3, <1>6, <1>8, <1>9

\* Larger numbers have a larger sum.
LEMMA SumLeq ==
  ASSUME NEW f, NEW g, NEW S, IsFiniteSet(S),
         \A x \in S : f[x] \in Int /\ g[x] \in Int /\ f[x] <= g[x]
  PROVE  SumFunctionOnSet(f, S) <= SumFunctionOnSet(g, S)
<1> DEFINE Bad == {s \in SUBSET S : ~ (SumFunctionOnSet(f, s) <= SumFunctionOnSet(g, s))}
<1>1. SUFFICES ASSUME Bad # {} PROVE FALSE
  BY Zenon
<1>2. PICK m \in Bad : \A t \in Bad : t \subseteq m => t = m
  <2>1. Bad \subseteq SUBSET S
    OBVIOUS
  <2> HIDE DEF Bad
  <2> QED BY <1>1, <2>1, MinimalSubset
<1>3. m \in SUBSET S /\ ~ (SumFunctionOnSet(f, m) <= SumFunctionOnSet(g, m))
  BY Zenon
<1>4. IsFiniteSet(m)
  BY <1>3, FS_Subset
<1>5. m # {}
  <2>1. 0 <= 0
    OBVIOUS
  <2> QED BY <1>3, <1>4, <2>1, SumRecursion
<1>6. First(m) \in m
  BY <1>5, FirstIn
<1>7. m \ {First(m)} \notin Bad
  <2> HIDE DEF Bad
  <2> QED BY <1>2, <1>6
<1>8. SumFunctionOnSet(f, (m \ {First(m)})) <= SumFunctionOnSet(g, (m \ {First(m)}))
  BY <1>3, <1>7, Zenon
<1>9. /\ SumFunctionOnSet(f, m) = f[First(m)] + SumFunctionOnSet(f, m \ {First(m)})
      /\ SumFunctionOnSet(g, m) = g[First(m)] + SumFunctionOnSet(g, m \ {First(m)})
  BY <1>4, <1>5, SumRecursion
<1>10. /\ SumFunctionOnSet(f, m \ {First(m)}) \in Int /\ SumFunctionOnSet(g, m \ {First(m)}) \in Int
       /\ f[First(m)] \in Int /\ g[First(m)] \in Int /\ f[First(m)] <= g[First(m)]
  <2>1. IsFiniteSet(m \ {First(m)})
    BY <1>4, FS_Subset
  <2> QED BY <1>3, <1>6, <2>1, SumInt
<1> QED BY <1>3, <1>8, <1>9, <1>10

\* Numbers that are 0 outside a part sum up to the sum over that part.
LEMMA SumPart ==
  ASSUME NEW f, NEW g, NEW S, IsFiniteSet(S), NEW A \in SUBSET S,
         \A x \in A : f[x] \in Int /\ g[x] = f[x], \A x \in S \ A : g[x] = 0
  PROVE  SumFunctionOnSet(f, A) = SumFunctionOnSet(g, S)
<1> DEFINE Bad == {s \in SUBSET S : ~ (SumFunctionOnSet(f, A \cap s) = SumFunctionOnSet(g, s))}
<1>1. SUFFICES ASSUME Bad # {} PROVE FALSE
  <2>1. A \cap S = A
    OBVIOUS
  <2> QED BY <2>1, Zenon
<1>2. PICK m \in Bad : \A t \in Bad : t \subseteq m => t = m
  <2>1. Bad \subseteq SUBSET S
    OBVIOUS
  <2> HIDE DEF Bad
  <2> QED BY <1>1, <2>1, MinimalSubset
<1>3. m \in SUBSET S /\ ~ (SumFunctionOnSet(f, A \cap m) = SumFunctionOnSet(g, m))
  BY Zenon
<1>4. IsFiniteSet(m)
  BY <1>3, FS_Subset
<1>5. m # {}
  <2>1. A \cap {} = {} /\ IsFiniteSet({})
    BY FS_EmptySet
  <2> QED BY <1>3, <1>4, <2>1, SumRecursion
<1>6. First(m) \in m
  BY <1>5, FirstIn
<1>7. m \ {First(m)} \notin Bad
  <2> HIDE DEF Bad
  <2> QED BY <1>2, <1>6
<1>8. SumFunctionOnSet(f, A \cap (m \ {First(m)})) = SumFunctionOnSet(g, (m \ {First(m)}))
  BY <1>3, <1>7, Zenon
<1> DEFINE a == First(m)  B == A \cap m  R == A \cap (m \ {First(m)})
<1>9. SumFunctionOnSet(g, m) = g[a] + SumFunctionOnSet(g, m \ {a})
  BY <1>4, <1>5, SumRecursion
<1>10. IsFiniteSet(B) /\ IsFiniteSet(R)
  BY <1>4, FS_Subset
<1>11. SumFunctionOnSet(f, R) \in Int
  BY <1>10, SumInt
<1>12. CASE a \in A
  <2>1. R = B \ {a} /\ a \in B
    BY <1>6, <1>12
  <2>2. SumFunctionOnSet(f, B) = f[a] + SumFunctionOnSet(f, B \ {a})
    BY <1>10, <2>1, SumTakeOut
  <2>3. g[a] = f[a]
    BY <1>12
  <2> QED BY <1>3, <1>8, <1>9, <2>1, <2>2, <2>3
<1>13. CASE a \notin A
  <2>1. R = B /\ g[a] = 0
    BY <1>3, <1>6, <1>13
  <2>2. SumFunctionOnSet(f, B) = SumFunctionOnSet(f, R)
    BY <2>1, Zenon
  <2>3. SumFunctionOnSet(g, m) = SumFunctionOnSet(f, R)
    BY <1>8, <1>9, <1>11, <2>1
  <2> QED BY <1>3, <2>2, <2>3, Zenon
<1> QED BY <1>12, <1>13
=============================================================================
