----------------------------- MODULE SumTheorems -----------------------------
(***************************************************************************)
(* The sum of a function over a finite set, SumFunctionOnSet, defined by   *)
(* recursion over the subsets: that the recursion defines a function, and  *)
(* that the order in which it takes the elements does not matter.  Each    *)
(* induction is by a smallest counterexample among the finite subsets.     *)
(***************************************************************************)
EXTENDS Functions, FiniteSetTheorems, TLAPS

Pick(s) == CHOOSE x \in s : TRUE
(* h holds the partial sums of the subsets of S.                           *)
Sums(h, f, S) == h = [s \in SUBSET S |-> IF s = {} THEN 0 ELSE f[Pick(s)] + h[s \ {Pick(s)}]]
TheSums(f, S) == CHOOSE h : Sums(h, f, S)

LEMMA SumIsRecursive ==
    ASSUME NEW f, NEW S
    PROVE  SumFunctionOnSet(f, S) = TheSums(f, S)[S]
  BY DEF SumFunctionOnSet, FoldFunctionOnSet, MapThenFoldSet, TheSums, Sums, Pick

(* A set of subsets of a finite set that is not empty has a smallest one.  *)
LEMMA SmallestSubset ==
    ASSUME NEW S, IsFiniteSet(S), NEW T, T \subseteq SUBSET S, T # {}
    PROVE  \E s \in T : \A u \in T : u \subseteq s => u = s
<1>1. IsWellFoundedOn(StrictSubsetOrdering(S), SUBSET S)
  BY FS_StrictSubsetOrderingWellFounded, FS_FiniteSubsetsOfFinite
<1>2. PICK s \in T : \A u \in T : ~ (<<u, s>> \in StrictSubsetOrdering(S))
  BY <1>1, WFMin
<1>3. ASSUME NEW u \in T, u \subseteq s, u # s PROVE FALSE
  <2>1. <<u, s>> \in (SUBSET S) \X (SUBSET S)
    OBVIOUS
  <2>2. <<u, s>> \in StrictSubsetOrdering(S)
    BY <1>3, <2>1 DEF StrictSubsetOrdering
  <2> QED BY <1>2, <2>2
<1> QED BY <1>3

LEMMA PickInSet == \A s : s # {} => Pick(s) \in s
  BY DEF Pick

LEMMA SumsValue ==
    ASSUME NEW h, NEW f, NEW S, Sums(h, f, S), NEW s \in SUBSET S
    PROVE  /\ s = {} => h[s] = 0
           /\ s # {} => h[s] = f[Pick(s)] + h[s \ {Pick(s)}]
<1> DEFINE F(t) == IF t = {} THEN 0 ELSE f[Pick(t)] + h[t \ {Pick(t)}]
<1>1. h = [t \in SUBSET S |-> F(t)]
  BY DEF Sums
<1> HIDE DEF F
<1>2. h[s] = F(s)
  BY <1>1
<1> QED BY <1>2 DEF F

(* Two partial sums agree where both are defined.                          *)
LEMMA SumsAgree ==
    ASSUME NEW f, NEW A, NEW B, IsFiniteSet(A), NEW g, NEW h, Sums(g, f, A), Sums(h, f, B)
    PROVE  \A s \in SUBSET A : s \subseteq B => g[s] = h[s]
<1> DEFINE T == {s \in SUBSET A : s \subseteq B /\ g[s] # h[s]}
<1> SUFFICES ASSUME T # {} PROVE FALSE
  OBVIOUS
<1>1. PICK s \in T : \A u \in T : u \subseteq s => u = s
  <2>1. T \subseteq SUBSET A
    OBVIOUS
  <2> HIDE DEF T
  <2> QED BY <2>1, SmallestSubset
<1>2. s \in SUBSET A /\ s \in SUBSET B /\ g[s] # h[s]
  BY <1>1
<1>3. s # {}
  BY <1>2, SumsValue
<1> DEFINE u == s \ {Pick(s)}
<1>4. u \subseteq s /\ u # s
  BY <1>3, PickInSet
<1>5. g[u] = h[u]
  BY <1>1, <1>2, <1>4
<1>6. g[s] = f[Pick(s)] + g[u] /\ h[s] = f[Pick(s)] + h[u]
  BY <1>2, <1>3, SumsValue
<1> QED BY <1>2, <1>5, <1>6

(* The partial sums exist.                                                 *)
LEMMA SumsExist ==
    ASSUME NEW f, NEW S, IsFiniteSet(S)
    PROVE  Sums(TheSums(f, S), f, S)
<1> DEFINE T == {s \in SUBSET S : ~ \E h : Sums(h, f, s)}
<1>1. ASSUME T # {} PROVE FALSE
  <2>1. PICK s \in T : \A u \in T : u \subseteq s => u = s
    <3>1. T \subseteq SUBSET S
      OBVIOUS
    <3> HIDE DEF T
    <3> QED BY <1>1, <3>1, SmallestSubset
  <2>2. s \in SUBSET S /\ ~ \E h : Sums(h, f, s)
    BY <2>1
  <2>3. \A u \in SUBSET s : u # s => Sums(TheSums(f, u), f, u) /\ IsFiniteSet(u)
    <3> TAKE u \in SUBSET s
    <3>1. ASSUME u # s PROVE Sums(TheSums(f, u), f, u)
      <4>1. \E h : Sums(h, f, u)
        BY <2>1, <2>2, <3>1
      <4> QED BY <4>1 DEF TheSums
    <3>2. u \in SUBSET S
      BY <2>2
    <3> QED BY <3>1, <3>2, FS_Subset
  <2> DEFINE less(t) == t \ {Pick(t)}
             F(t) == IF t = {} THEN 0 ELSE f[Pick(t)] + TheSums(f, less(t))[less(t)]
             h == [t \in SUBSET s |-> F(t)]
  <2>4. \A t \in SUBSET s : t # {} => less(t) \in SUBSET s /\ less(t) # s /\ less(t) # t /\ less(t) \in SUBSET t
    BY PickInSet
  <2>5. ASSUME NEW u \in SUBSET s, u # s
        PROVE  h[u] = TheSums(f, u)[u]
    <3>1. Sums(TheSums(f, u), f, u) /\ IsFiniteSet(u) /\ u \in SUBSET u
      BY <2>3, <2>5
    <3>2. CASE u = {}
      <4>1. TheSums(f, u)[u] = 0
        BY <3>1, <3>2, SumsValue
      <4>2. h[u] = F(u) /\ F(u) = 0
        BY <3>2
      <4> QED BY <4>1, <4>2
    <3>3. CASE u # {}
      <4> DEFINE v == less(u)
      <4>1. TheSums(f, u)[u] = f[Pick(u)] + TheSums(f, u)[v]
        BY <3>1, <3>3, SumsValue
      <4>2. v \in SUBSET s /\ v # s /\ v \in SUBSET u /\ v \in SUBSET v
        BY <2>4, <3>3
      <4>3. Sums(TheSums(f, v), f, v) /\ IsFiniteSet(v)
        BY <2>3, <4>2
      <4> HIDE DEF v
      <4>4. TheSums(f, v)[v] = TheSums(f, u)[v]
        BY <3>1, <4>2, <4>3, SumsAgree
      <4>5. h[u] = f[Pick(u)] + TheSums(f, v)[v]
        BY <3>3 DEF v
      <4> QED BY <4>1, <4>4, <4>5
    <3> QED BY <3>2, <3>3
  <2>6. Sums(h, f, s)
    <3> DEFINE G(t) == IF t = {} THEN 0 ELSE f[Pick(t)] + h[less(t)]
    <3>1. \A t \in SUBSET s : F(t) = G(t)
      <4> HIDE DEF h
      <4> QED BY <2>4, <2>5
    <3>2. h = [t \in SUBSET s |-> G(t)]
      <4> HIDE DEF F, G
      <4> QED BY <3>1
    <3>3. Sums(h, f, s) <=> h = [t \in SUBSET s |-> G(t)]
      BY DEF Sums
    <3> QED BY <3>2, <3>3
  <2> QED BY <2>2, <2>6
<1>2. \E h : Sums(h, f, S)
  BY <1>1
<1> QED BY <1>2 DEF TheSums

LEMMA SumOfNone == ASSUME NEW f PROVE SumFunctionOnSet(f, {}) = 0
<1>1. IsFiniteSet({})
  BY FS_EmptySet
<1> QED BY <1>1, SumIsRecursive, SumsExist, SumsValue

LEMMA SumFirst ==
    ASSUME NEW f, NEW S, IsFiniteSet(S), S # {}
    PROVE  SumFunctionOnSet(f, S) = f[Pick(S)] + SumFunctionOnSet(f, S \ {Pick(S)})
<1> DEFINE u == S \ {Pick(S)}
<1>1. u \in SUBSET S /\ S \in SUBSET S /\ u \in SUBSET u
  OBVIOUS
<1>2. IsFiniteSet(u)
  BY <1>1, FS_Subset
<1>3. Sums(TheSums(f, S), f, S) /\ Sums(TheSums(f, u), f, u)
  BY <1>2, SumsExist
<1>4. TheSums(f, S)[S] = f[Pick(S)] + TheSums(f, S)[u]
  BY <1>1, <1>3, SumsValue
<1> HIDE DEF u
<1>5. TheSums(f, u)[u] = TheSums(f, S)[u]
  BY <1>1, <1>2, <1>3, SumsAgree
<1>6. SumFunctionOnSet(f, S) = f[Pick(S)] + SumFunctionOnSet(f, u)
  BY <1>4, <1>5, SumIsRecursive
<1> QED BY <1>6 DEF u

(* The sum of naturals is one, and any element can be taken first.         *)
THEOREM SumIsNatural ==
    ASSUME NEW S, IsFiniteSet(S), NEW f, \A x \in S : f[x] \in Nat
    PROVE  SumFunctionOnSet(f, S) \in Nat
<1> DEFINE Bad == {s \in SUBSET S : SumFunctionOnSet(f, s) \notin Nat}
<1> SUFFICES ASSUME Bad # {} PROVE FALSE
  OBVIOUS
<1>1. PICK s \in Bad : \A u \in Bad : u \subseteq s => u = s
  <2>1. Bad \subseteq SUBSET S
    OBVIOUS
  <2> HIDE DEF Bad
  <2> QED BY <2>1, SmallestSubset
<1>2. s \in SUBSET S /\ SumFunctionOnSet(f, s) \notin Nat /\ IsFiniteSet(s)
  BY <1>1, FS_Subset
<1>3. s # {}
  BY <1>2, SumOfNone
<1> DEFINE u == s \ {Pick(s)}
<1>4. u \in SUBSET S /\ u \subseteq s /\ u # s /\ Pick(s) \in S
  BY <1>2, <1>3, PickInSet
<1>5. SumFunctionOnSet(f, u) \in Nat
  BY <1>1, <1>4
<1>6. SumFunctionOnSet(f, s) = f[Pick(s)] + SumFunctionOnSet(f, u)
  BY <1>2, <1>3, SumFirst
<1> QED BY <1>2, <1>4, <1>5, <1>6

(* A sum is one part and the sum of the others.                            *)
THEOREM SumWithout ==
    ASSUME NEW S, IsFiniteSet(S), NEW f, \A x \in S : f[x] \in Nat, NEW y \in S
    PROVE  SumFunctionOnSet(f, S) = f[y] + SumFunctionOnSet(f, S \ {y})
<1> DEFINE Bad == {s \in SUBSET S : \E z \in s : SumFunctionOnSet(f, s) # f[z] + SumFunctionOnSet(f, s \ {z})}
<1>1. ASSUME Bad # {} PROVE FALSE
  <2>1. PICK s \in Bad : \A u \in Bad : u \subseteq s => u = s
    <3>1. Bad \subseteq SUBSET S
      OBVIOUS
    <3> HIDE DEF Bad
    <3> QED BY <1>1, <3>1, SmallestSubset
  <2>2. PICK z \in s : SumFunctionOnSet(f, s) # f[z] + SumFunctionOnSet(f, s \ {z})
    BY <2>1
  <2>3. s \in SUBSET S /\ IsFiniteSet(s) /\ s # {}
    BY <2>1, <2>2, FS_Subset
  <2> DEFINE x == Pick(s)
  <2>4. x \in s /\ x # z
    <3>1. SumFunctionOnSet(f, s) = f[x] + SumFunctionOnSet(f, s \ {x})
      BY <2>3, SumFirst
    <3> QED BY <2>2, <2>3, <3>1, PickInSet
  <2>5. SumFunctionOnSet(f, s) = f[x] + SumFunctionOnSet(f, s \ {x})
    BY <2>3, SumFirst
  <2> HIDE DEF x
  <2> DEFINE sx == s \ {x}
             sz == s \ {z}
             both == s \ {x, z}
  <2>6. /\ sx \in SUBSET S /\ sz \in SUBSET S /\ both \in SUBSET S /\ sx # s /\ sz # s /\ z \in sx /\ x \in sz
        /\ sx \ {z} = both /\ sz \ {x} = both /\ sx \subseteq s /\ sz \subseteq s
    BY <2>2, <2>3, <2>4
  <2>7. SumFunctionOnSet(f, sx) = f[z] + SumFunctionOnSet(f, sx \ {z})
        /\ SumFunctionOnSet(f, sz) = f[x] + SumFunctionOnSet(f, sz \ {x})
    <3> HIDE DEF sx, sz
    <3> QED BY <2>1, <2>6
  <2> DEFINE S0 == SumFunctionOnSet(f, both)
             Sx == SumFunctionOnSet(f, sx)
             Sz == SumFunctionOnSet(f, sz)
  <2>8. S0 \in Nat /\ f[x] \in Nat /\ f[z] \in Nat
    <3>1. IsFiniteSet(both)
      BY <2>6, FS_Subset
    <3> QED BY <2>2, <2>3, <2>4, <2>6, <3>1, SumIsNatural
  <2>9. Sx = f[z] + S0 /\ Sz = f[x] + S0
    BY <2>6, <2>7
  <2>10. SumFunctionOnSet(f, s) = f[x] + Sx /\ SumFunctionOnSet(f, s) # f[z] + Sz
    BY <2>2, <2>5
  <2> HIDE DEF Sx, Sz, S0
  <2> QED BY <2>8, <2>9, <2>10
<1>2. S \notin Bad
  BY <1>1
<1> QED BY <1>2

(* A sum grows with its parts, and with the set.                           *)
THEOREM SumGrows ==
    ASSUME NEW S, IsFiniteSet(S), NEW f, NEW g,
           \A x \in S : f[x] \in Nat /\ g[x] \in Nat /\ f[x] <= g[x]
    PROVE  SumFunctionOnSet(f, S) <= SumFunctionOnSet(g, S)
<1> DEFINE Bad == {s \in SUBSET S : ~ (SumFunctionOnSet(f, s) <= SumFunctionOnSet(g, s))}
<1> SUFFICES ASSUME Bad # {} PROVE FALSE
  <2>1. S \in SUBSET S
    OBVIOUS
  <2> QED BY <2>1
<1>1. PICK s \in Bad : \A u \in Bad : u \subseteq s => u = s
  <2>1. Bad \subseteq SUBSET S
    OBVIOUS
  <2> HIDE DEF Bad
  <2> QED BY <2>1, SmallestSubset
<1>2. s \in SUBSET S /\ ~ (SumFunctionOnSet(f, s) <= SumFunctionOnSet(g, s)) /\ IsFiniteSet(s)
  BY <1>1, FS_Subset
<1>3. s # {}
  BY <1>2, SumOfNone
<1> DEFINE x == Pick(s)
           u == s \ {x}
<1>4. u \in SUBSET S /\ u \subseteq s /\ u # s /\ x \in S /\ x \in s
  BY <1>2, <1>3, PickInSet
<1>5. SumFunctionOnSet(f, u) <= SumFunctionOnSet(g, u)
  BY <1>1, <1>4
<1>6. SumFunctionOnSet(f, u) \in Nat /\ SumFunctionOnSet(g, u) \in Nat
  <2>1. IsFiniteSet(u)
    BY <1>4, FS_Subset
  <2> QED BY <1>4, <2>1, SumIsNatural
<1>7. SumFunctionOnSet(f, s) = f[x] + SumFunctionOnSet(f, u) /\ SumFunctionOnSet(g, s) = g[x] + SumFunctionOnSet(g, u)
  BY <1>2, <1>3, SumFirst
<1>8. f[x] \in Nat /\ g[x] \in Nat /\ f[x] <= g[x]
  BY <1>4
<1> HIDE DEF x, u
<1> QED BY <1>2, <1>5, <1>6, <1>7, <1>8

(* Functions that agree on a set have the same sum over it.                *)
THEOREM SumOfSame ==
    ASSUME NEW S, IsFiniteSet(S), NEW f, NEW g, \A x \in S : f[x] \in Nat /\ f[x] = g[x]
    PROVE  SumFunctionOnSet(f, S) = SumFunctionOnSet(g, S)
<1>1. \A x \in S : f[x] \in Nat /\ g[x] \in Nat /\ f[x] <= g[x] /\ g[x] <= f[x]
  OBVIOUS
<1>2. SumFunctionOnSet(f, S) \in Nat /\ SumFunctionOnSet(g, S) \in Nat
  BY <1>1, SumIsNatural
<1>3. SumFunctionOnSet(f, S) <= SumFunctionOnSet(g, S) /\ SumFunctionOnSet(g, S) <= SumFunctionOnSet(f, S)
  BY <1>1, SumGrows
<1> QED BY <1>2, <1>3

(* A part is no more than the sum.                                         *)
THEOREM SumOfPart ==
    ASSUME NEW S, IsFiniteSet(S), NEW f, \A x \in S : f[x] \in Nat, NEW y \in S
    PROVE  SumFunctionOnSet(f, S \ {y}) <= SumFunctionOnSet(f, S)
<1>1. S \ {y} \in SUBSET S
  OBVIOUS
<1>2. IsFiniteSet(S \ {y})
  BY <1>1, FS_Subset
<1>3. SumFunctionOnSet(f, S \ {y}) \in Nat /\ f[y] \in Nat
  BY <1>2, SumIsNatural
<1>4. SumFunctionOnSet(f, S) = f[y] + SumFunctionOnSet(f, S \ {y})
  BY SumWithout
<1> QED BY <1>3, <1>4

(* One part is changed.                                                    *)
THEOREM SumChanged ==
    ASSUME NEW S, IsFiniteSet(S), NEW f \in [S -> Nat], NEW y \in S, NEW n \in Nat
    PROVE  SumFunctionOnSet([f EXCEPT ![y] = n], S) + f[y] = SumFunctionOnSet(f, S) + n
<1> DEFINE g == [f EXCEPT ![y] = n]
           u == S \ {y}
<1>1. u \in SUBSET S
  OBVIOUS
<1>2. IsFiniteSet(u)
  BY <1>1, FS_Subset
<1>3. /\ \A x \in S : g[x] \in Nat /\ f[x] \in Nat
      /\ \A x \in u : g[x] = f[x]
      /\ g[y] = n
  OBVIOUS
<1> HIDE DEF g, u
<1>4. SumFunctionOnSet(f, u) = SumFunctionOnSet(g, u) /\ SumFunctionOnSet(f, u) \in Nat
  BY <1>1, <1>2, <1>3, SumOfSame, SumIsNatural
<1>5. SumFunctionOnSet(f, S) = f[y] + SumFunctionOnSet(f, u) /\ SumFunctionOnSet(g, S) = g[y] + SumFunctionOnSet(g, u)
  BY <1>3, SumWithout DEF u
<1>6. f[y] \in Nat
  OBVIOUS
<1>7. SumFunctionOnSet(g, S) + f[y] = SumFunctionOnSet(f, S) + n
  BY <1>3, <1>4, <1>5, <1>6
<1> QED BY <1>7 DEF g

(* Every non-empty set of naturals has a least element.                    *)
LEMMA LeastNatural ==
    ASSUME NEW T \in SUBSET Nat, T # {}
    PROVE  \E n \in T : \A m \in T : n <= m
<1> DEFINE Less == OpToRel(<, Nat)
<1>1. IsWellFoundedOn(Less, Nat)
  BY NatLessThanWellFounded
<1>2. \A m, n \in Nat : <<m, n>> \in Less <=> m < n
  BY DEF OpToRel
<1> HIDE DEF Less
<1>3. PICK n \in T : \A m \in T : ~ (<<m, n>> \in Less)
  BY <1>1, WFMin
<1>4. \A m \in T : n <= m
  <2> TAKE m \in T
  <2>1. m \in Nat /\ n \in Nat
    BY <1>3
  <2>2. ~ (m < n)
    BY <1>2, <1>3, <2>1, Zenon
  <2> QED BY <2>1, <2>2
<1> QED
  BY <1>3, <1>4

(* The same for a function that was defined otherwise.                     *)
THEOREM SumExchanged ==
    ASSUME NEW S, IsFiniteSet(S), NEW f \in [S -> Nat], NEW g \in [S -> Nat], NEW y \in S,
           \A x \in S \ {y} : g[x] = f[x]
    PROVE  SumFunctionOnSet(g, S) + f[y] = SumFunctionOnSet(f, S) + g[y]
<1>1. g[y] \in Nat /\ g = [f EXCEPT ![y] = g[y]]
  OBVIOUS
<1>2. \A n \in Nat : SumFunctionOnSet([f EXCEPT ![y] = n], S) + f[y] = SumFunctionOnSet(f, S) + n
  BY SumChanged
<1>3. SumFunctionOnSet([f EXCEPT ![y] = g[y]], S) + f[y] = SumFunctionOnSet(f, S) + g[y]
  BY <1>1, <1>2, Zenon
<1> QED BY <1>1, <1>3, Zenon

(* The sum over a sequence without its first element.                      *)
THEOREM SumOfTail ==
    ASSUME NEW N \in Nat, NEW f, NEW g, \A i \in 1..(N + 1) : f[i] \in Nat,
           \A i \in 1..N : g[i] = f[i + 1]
    PROVE  SumFunctionOnSet(g, 1..N) <= SumFunctionOnSet(f, 1..(N + 1))
<1> DEFINE Bad == {n \in 0..N : SumFunctionOnSet(g, 1..n) # SumFunctionOnSet(f, 2..(n + 1))}
<1>1. ASSUME Bad # {} PROVE FALSE
  <2>1. PICK n \in Bad : \A m \in Bad : n <= m
    <3>1. Bad \in SUBSET Nat
      OBVIOUS
    <3> HIDE DEF Bad
    <3> QED BY <1>1, <3>1, LeastNatural
  <2>2. n \in 0..N /\ SumFunctionOnSet(g, 1..n) # SumFunctionOnSet(f, 2..(n + 1))
    BY <2>1
  <2>3. n # 0
    <3> SUFFICES ASSUME n = 0 PROVE FALSE
      OBVIOUS
    <3>1. 1..n = {} /\ 2..(n + 1) = {}
      OBVIOUS
    <3> QED BY <2>2, <3>1, SumOfNone
  <2>4. n - 1 \in 0..N /\ ~ (n <= n - 1) /\ (n - 1) + 1 = n /\ n \in 1..N
    BY <2>2, <2>3
  <2>5. SumFunctionOnSet(g, 1..(n - 1)) = SumFunctionOnSet(f, 2..n)
    BY <2>1, <2>4
  <2>6. SumFunctionOnSet(g, 1..n) = g[n] + SumFunctionOnSet(g, 1..(n - 1))
    <3>1. IsFiniteSet(1..n) /\ n \in 1..n /\ (1..n) \ {n} = 1..(n - 1) /\ \A i \in 1..n : g[i] \in Nat
      <4>1. IsFiniteSet(1..n)
        BY <2>4, FS_Interval
      <4>2. n \in 1..n /\ (1..n) \ {n} = 1..(n - 1)
        BY <2>4
      <4>3. \A i \in 1..n : i \in 1..N /\ i + 1 \in 1..(N + 1)
        BY <2>4
      <4> QED BY <4>1, <4>2, <4>3
    <3> DEFINE A == 1..n
               B == 1..(n - 1)
    <3>2. IsFiniteSet(A) /\ n \in A /\ A \ {n} = B /\ \A i \in A : g[i] \in Nat
      BY <3>1
    <3> HIDE DEF A, B
    <3>3. SumFunctionOnSet(g, A) = g[n] + SumFunctionOnSet(g, A \ {n})
      BY <3>2, SumWithout
    <3> QED BY <3>2, <3>3 DEF A, B
  <2>7. SumFunctionOnSet(f, 2..(n + 1)) = f[n + 1] + SumFunctionOnSet(f, 2..n)
    <3>1. IsFiniteSet(2..(n + 1)) /\ n + 1 \in 2..(n + 1) /\ (2..(n + 1)) \ {n + 1} = 2..n /\ \A i \in 2..(n + 1) : f[i] \in Nat
      <4>1. IsFiniteSet(2..(n + 1))
        BY <2>4, FS_Interval
      <4>2. n + 1 \in 2..(n + 1) /\ (2..(n + 1)) \ {n + 1} = 2..n /\ \A i \in 2..(n + 1) : i \in 1..(N + 1)
        BY <2>4
      <4> QED BY <4>1, <4>2
    <3> DEFINE A == 2..(n + 1)
               B == 2..n
               y == n + 1
    <3>2. IsFiniteSet(A) /\ y \in A /\ A \ {y} = B /\ \A i \in A : f[i] \in Nat
      BY <3>1
    <3> HIDE DEF A, B, y
    <3>3. SumFunctionOnSet(f, A) = f[y] + SumFunctionOnSet(f, A \ {y})
      BY <3>2, SumWithout
    <3> QED BY <3>2, <3>3 DEF A, B, y
  <2> QED BY <2>2, <2>4, <2>5, <2>6, <2>7
<1>2. SumFunctionOnSet(g, 1..N) = SumFunctionOnSet(f, 2..(N + 1))
  <2>1. N \in 0..N /\ N \notin Bad
    BY <1>1
  <2> QED BY <2>1
<1>3. IsFiniteSet(1..(N + 1)) /\ 1 \in 1..(N + 1) /\ (1..(N + 1)) \ {1} = 2..(N + 1)
  <2>1. IsFiniteSet(1..(N + 1))
    BY FS_Interval
  <2>2. 1 \in 1..(N + 1) /\ (1..(N + 1)) \ {1} = 2..(N + 1)
    OBVIOUS
  <2> QED BY <2>1, <2>2
<1> QED BY <1>2, <1>3, SumOfPart
=============================================================================
