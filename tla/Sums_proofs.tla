------------------------------ MODULE Sums_proofs ------------------------------
(***************************************************************************)
(* Natural numbers, finite sets and sums over them, as the proofs of the   *)
(* components need them: where an initial segment ends, that a set has a   *)
(* least element, that a family of finite sets has a minimal member, and   *)
(* what SumFunctionOnSet adds up to, whatever the order it adds in.  What  *)
(* one would prove by induction follows from the cardinality of intervals  *)
(* and from minimal members.                                               *)
(***************************************************************************)
EXTENDS Integers, FiniteSets, Functions, FiniteSetTheorems, TLAPS

(* An initial segment of an interval ends somewhere.                       *)
LEMMA InitialSegment ==
  ASSUME NEW n \in Nat, NEW S \in SUBSET (1 .. n),
         \A i \in S : \A j \in 1 .. i : j \in S
  PROVE  \E k \in 0 .. n : S = 1 .. k
<1> DEFINE k == Cardinality(S)
<1>1. IsFiniteSet(1 .. n) /\ Cardinality(1 .. n) = n
  BY FS_Interval
<1>2. IsFiniteSet(S) /\ k <= n /\ k \in Nat
  BY <1>1, FS_Subset, FS_CardinalityType
<1>3. ASSUME NEW i \in S PROVE i <= k
  <2>1. i \in 1 .. n /\ 1 .. i \in SUBSET S
    BY <1>3
  <2>2. Cardinality(1 .. i) = i
    BY <2>1, FS_Interval
  <2>3. QED
    BY <1>2, <2>1, <2>2, FS_Subset
<1>4. ASSUME NEW i \in 1 .. n, i \notin S PROVE k < i
  <2>1. S \in SUBSET (1 .. (i - 1))
    <3> SUFFICES ASSUME NEW j \in S PROVE j \in 1 .. (i - 1)
      OBVIOUS
    <3>1. j \in 1 .. n /\ ~(i <= j)
      BY <1>4
    <3>2. QED
      BY <3>1
  <2>2. IsFiniteSet(1 .. (i - 1)) /\ Cardinality(1 .. (i - 1)) = i - 1
    BY FS_Interval
  <2>3. k <= i - 1
    BY <2>1, <2>2, FS_Subset
  <2>4. QED
    BY <1>2, <2>3
<1> HIDE DEF k
<1>5. S = 1 .. k
  <2>1. \A j \in S : j \in 1 .. k
    BY <1>2, <1>3
  <2>2. \A j \in 1 .. k : j \in 1 .. n /\ ~(k < j)
    BY <1>2
  <2>3. \A j \in 1 .. k : j \in S
    BY <1>4, <2>2
  <2>4. QED
    BY <2>1, <2>3
<1>6. QED
  BY <1>2, <1>5

(* A set of natural numbers has a least element.                           *)
LEMMA LeastElement ==
  ASSUME NEW S \in SUBSET Nat, S # {}
  PROVE  \E m \in S : \A i \in S : m <= i
<1>1. PICK n \in S : n \in Nat
  OBVIOUS
<1> DEFINE T == {j \in 1 .. n : \A i \in S : j <= i}
<1>2. T \in SUBSET (1 .. n) /\ \A i \in T : \A j \in 1 .. i : j \in T
  BY <1>1
<1> HIDE DEF T
<1>3. PICK k \in 0 .. n : T = 1 .. k
  BY <1>1, <1>2, InitialSegment
<1>4. \A i \in S : k <= i
  <2>1. CASE k = 0
    BY <2>1
  <2>2. CASE k # 0
    <3>1. k \in T
      BY <1>1, <1>3, <2>2
    <3>2. QED
      BY <3>1 DEF T
  <2>3. QED
    BY <2>1, <2>2
<1>5. k \in S
  <2>1. CASE k = n
    BY <1>1, <2>1
  <2>2. CASE k # n
    <3>1. k + 1 \in 1 .. n /\ k + 1 \notin T
      BY <1>1, <1>3, <2>2
    <3>2. PICK i \in S : ~(k + 1 <= i)
      BY <3>1 DEF T
    <3>3. i = k
      BY <1>1, <1>4, <3>2
    <3>4. QED
      BY <3>3
  <2>3. QED
    BY <2>1, <2>2
<1>6. QED
  BY <1>4, <1>5

(* Among some subsets of a finite set there is a minimal one.              *)
LEMMA MinimalMember ==
  ASSUME NEW S, IsFiniteSet(S), NEW F \in SUBSET (SUBSET S), F # {}
  PROVE  \E T \in F : IsFiniteSet(T) /\ \A x \in T : T \ {x} \notin F
<1>1. \A T \in F : IsFiniteSet(T) /\ Cardinality(T) \in Nat
  BY FS_Subset, FS_CardinalityType
<1> DEFINE sizes == {Cardinality(T) : T \in F}
<1>2. sizes \in SUBSET Nat /\ sizes # {}
  BY <1>1
<1>3. PICK m \in sizes : \A i \in sizes : m <= i
  BY <1>2, LeastElement
<1>4. PICK T \in F : m = Cardinality(T)
  BY <1>3
<1>5. ASSUME NEW x \in T, T \ {x} \in F PROVE FALSE
  <2>1. Cardinality(T \ {x}) = Cardinality(T) - 1
    BY <1>1, <1>5, FS_RemoveElement
  <2>2. m <= Cardinality(T \ {x})
    BY <1>3, <1>5
  <2>3. QED
    BY <1>1, <1>4, <2>1, <2>2
<1>6. QED
  BY <1>1, <1>5

(***************************************************************************)
(* Sums.                                                                   *)
(***************************************************************************)

Pick(s) == CHOOSE x \in s : TRUE

(* What SumFunctionOnSet recurs over.                                      *)
IsSum(f, S, g) ==
  g = [s \in SUBSET S |-> IF s = {} THEN 0 ELSE f[Pick(s)] + g[s \ {Pick(s)}]]

LEMMA SumIs ==
  ASSUME NEW f, NEW S
  PROVE  SumFunctionOnSet(f, S) = (CHOOSE g : IsSum(f, S, g))[S]
  BY DEF SumFunctionOnSet, FoldFunctionOnSet, MapThenFoldSet, IsSum, Pick

LEMMA Picked == ASSUME NEW S, S # {} PROVE Pick(S) \in S
  BY DEF Pick

(* One step of the recursion.                                              *)
LEMMA IsSumStep ==
  ASSUME NEW f, NEW S, NEW g, IsSum(f, S, g), NEW U \in SUBSET S
  PROVE  g[U] = IF U = {} THEN 0 ELSE f[Pick(U)] + g[U \ {Pick(U)}]
  BY DEF IsSum

(* Two such functions agree where both are defined.                        *)
LEMMA SumUnique ==
  ASSUME NEW f, NEW S, IsFiniteSet(S), NEW T \in SUBSET S,
         NEW g, IsSum(f, S, g), NEW h, IsSum(f, T, h), NEW U \in SUBSET T
  PROVE  g[U] = h[U]
<1> DEFINE F == {V \in SUBSET T : g[V] # h[V]}
<1>1. SUFFICES ASSUME F # {} PROVE FALSE
  OBVIOUS
<1>2. IsFiniteSet(T)
  BY FS_Subset
<1>3. PICK V \in F : \A x \in V : V \ {x} \notin F
  <2> HIDE DEF F
  <2>1. F \in SUBSET (SUBSET T)
    BY DEF F
  <2>2. QED
    BY <1>1, <1>2, <2>1, MinimalMember
<1>4. V # {}
  BY <1>3, IsSumStep
<1>5. g[V \ {Pick(V)}] = h[V \ {Pick(V)}]
  BY <1>3, <1>4, Picked
<1>6. QED
  BY <1>3, <1>4, <1>5, IsSumStep

(* And there is one on every finite set.                                   *)
LEMMA SumExists ==
  ASSUME NEW f, NEW S, IsFiniteSet(S)
  PROVE  \E g : IsSum(f, S, g)
<1> DEFINE F == {T \in SUBSET S : ~ \E g : IsSum(f, T, g)}
<1>1. SUFFICES ASSUME F # {} PROVE FALSE
  OBVIOUS
<1>2. PICK T \in F : IsFiniteSet(T) /\ \A x \in T : T \ {x} \notin F
  <2> HIDE DEF F
  <2>1. F \in SUBSET (SUBSET S)
    BY DEF F
  <2>2. QED
    BY <1>1, <2>1, MinimalMember
<1> DEFINE Sub(U) == CHOOSE g : IsSum(f, U, g)
           g == [s \in SUBSET T |-> IF s = {} THEN 0
                   ELSE f[Pick(s)] + Sub(s \ {Pick(s)})[s \ {Pick(s)}]]
<1>3. ASSUME NEW U \in SUBSET T, U # T PROVE IsSum(f, U, Sub(U))
  <2>1. PICK x \in T : x \notin U
    BY <1>3
  <2>2. PICK h : IsSum(f, T \ {x}, h)
    BY <1>2, <2>1
  <2> DEFINE r == [s \in SUBSET U |-> h[s]]
  <2>3. IsSum(f, U, r)
    <3>1. ASSUME NEW s \in SUBSET U
          PROVE  r[s] = IF s = {} THEN 0 ELSE f[Pick(s)] + r[s \ {Pick(s)}]
      <4>1. s \in SUBSET (T \ {x}) /\ s \ {Pick(s)} \in SUBSET U
        BY <1>3, <2>1
      <4>2. h[s] = IF s = {} THEN 0 ELSE f[Pick(s)] + h[s \ {Pick(s)}]
        BY <2>2, <4>1, IsSumStep
      <4>3. QED
        BY <4>1, <4>2
    <3> DEFINE e == [s \in SUBSET U |->
                       IF s = {} THEN 0 ELSE f[Pick(s)] + r[s \ {Pick(s)}]]
    <3>2. r = e
      BY <3>1
    <3>3. QED
      BY <3>2 DEF IsSum
  <2>4. QED
    BY <2>3
<1>4. ASSUME NEW s \in SUBSET T, s # T PROVE g[s] = Sub(s)[s]
  <2>1. IsSum(f, s, Sub(s)) /\ IsFiniteSet(s)
    BY <1>2, <1>3, <1>4, FS_Subset
  <2> HIDE DEF Sub
  <2>2. CASE s = {}
    BY <2>1, <2>2, IsSumStep
  <2>3. CASE s # {}
    <3> DEFINE u == s \ {Pick(s)}
    <3>1. u \in SUBSET T /\ u # T /\ u \in SUBSET s /\ s \in SUBSET s
      BY <2>3, Picked
    <3>2. IsSum(f, u, Sub(u)) /\ u \in SUBSET u
      BY <1>3, <3>1
    <3>3. Sub(s)[u] = Sub(u)[u]
      BY <2>1, <3>1, <3>2, SumUnique
    <3>4. Sub(s)[s] = f[Pick(s)] + Sub(s)[u]
      BY <2>1, <2>3, <3>1, IsSumStep
    <3>5. g[s] = f[Pick(s)] + Sub(u)[u]
      BY <2>3
    <3>6. QED
      BY <3>3, <3>4, <3>5
  <2>4. QED
    BY <2>2, <2>3
<1>5. IsSum(f, T, g)
  <2>1. ASSUME NEW s \in SUBSET T
        PROVE  g[s] = IF s = {} THEN 0 ELSE f[Pick(s)] + g[s \ {Pick(s)}]
    <3>1. CASE s = {}
      BY <3>1
    <3>2. CASE s # {}
      <4> DEFINE u == s \ {Pick(s)}
      <4>1. u \in SUBSET T /\ u # T
        BY <3>2, Picked
      <4>2. g[u] = Sub(u)[u]
        BY <1>4, <4>1
      <4>3. g[s] = f[Pick(s)] + Sub(u)[u]
        BY <3>2
      <4>4. QED
        BY <3>2, <4>2, <4>3
    <3>3. QED
      BY <3>1, <3>2
  <2> HIDE DEF g
  <2> DEFINE e == [s \in SUBSET T |-> IF s = {} THEN 0 ELSE f[Pick(s)] + g[s \ {Pick(s)}]]
  <2>2. g = [s \in SUBSET T |-> g[s]]
    BY DEF g
  <2>3. g = e
    BY <2>1, <2>2
  <2>4. QED
    BY <2>3 DEF IsSum
<1>6. QED
  BY <1>2, <1>5

(* So the sum obeys its recursion.                                         *)
LEMMA SumStep ==
  ASSUME NEW f, NEW S, IsFiniteSet(S)
  PROVE  SumFunctionOnSet(f, S) =
           IF S = {} THEN 0 ELSE f[Pick(S)] + SumFunctionOnSet(f, S \ {Pick(S)})
<1> DEFINE g == CHOOSE g : IsSum(f, S, g)
           T == S \ {Pick(S)}
           h == CHOOSE h : IsSum(f, T, h)
<1>1. IsFiniteSet(T) /\ T \in SUBSET S /\ S \in SUBSET S /\ T \in SUBSET T
  BY FS_Subset
<1>2. IsSum(f, S, g) /\ IsSum(f, T, h)
  BY <1>1, SumExists
<1>3. SumFunctionOnSet(f, S) = g[S] /\ SumFunctionOnSet(f, T) = h[T]
  BY SumIs
<1> HIDE DEF g, h, T
<1>4. g[T] = h[T]
  BY <1>1, <1>2, SumUnique
<1>5. g[S] = IF S = {} THEN 0 ELSE f[Pick(S)] + g[T]
  BY <1>1, <1>2, IsSumStep DEF T
<1>6. QED
  BY <1>3, <1>4, <1>5 DEF T

LEMMA SumEmpty == ASSUME NEW f PROVE SumFunctionOnSet(f, {}) = 0
  BY SumStep, FS_EmptySet

LEMMA SumType ==
  ASSUME NEW f, NEW S, IsFiniteSet(S), \A x \in S : f[x] \in Int
  PROVE  SumFunctionOnSet(f, S) \in Int
<1> DEFINE F == {T \in SUBSET S : SumFunctionOnSet(f, T) \notin Int}
<1>1. SUFFICES ASSUME F # {} PROVE FALSE
  OBVIOUS
<1>2. PICK T \in F : IsFiniteSet(T) /\ \A x \in T : T \ {x} \notin F
  <2> HIDE DEF F
  <2>1. F \in SUBSET (SUBSET S)
    BY DEF F
  <2>2. QED
    BY <1>1, <2>1, MinimalMember
<1>3. T # {}
  BY <1>2, SumEmpty
<1>4. Pick(T) \in T /\ SumFunctionOnSet(f, T \ {Pick(T)}) \in Int
  BY <1>2, <1>3, Picked
<1>5. QED
  BY <1>2, <1>3, <1>4, SumStep

(* Any element may be taken out first.                                     *)
LEMMA SumWithout ==
  ASSUME NEW f, NEW S, IsFiniteSet(S), \A x \in S : f[x] \in Int, NEW x \in S
  PROVE  /\ SumFunctionOnSet(f, S) = f[x] + SumFunctionOnSet(f, S \ {x})
         /\ SumFunctionOnSet(f, S) \in Int
         /\ SumFunctionOnSet(f, S \ {x}) \in Int
<1> DEFINE Sum(T) == SumFunctionOnSet(f, T)
           F == {T \in SUBSET S : \E y \in T : Sum(T) # f[y] + Sum(T \ {y})}
<1>1. ASSUME F # {} PROVE FALSE
  <2>1. PICK T \in F : IsFiniteSet(T) /\ \A y \in T : T \ {y} \notin F
    <3> HIDE DEF F
    <3>1. F \in SUBSET (SUBSET S)
      BY DEF F
    <3>2. QED
      BY <1>1, <3>1, MinimalMember
  <2>2. PICK y \in T : Sum(T) # f[y] + Sum(T \ {y})
    BY <2>1
  <2> DEFINE p == Pick(T)
             R == (T \ {p}) \ {y}
  <2>3. p \in T /\ Sum(T) = f[p] + Sum(T \ {p})
    BY <2>1, <2>2, Picked, SumStep
  <2>4. p # y
    BY <2>2, <2>3
  <2>5. T \ {p} \notin F /\ T \ {y} \notin F
    BY <2>1, <2>2, <2>3
  <2>6. /\ y \in T \ {p} /\ p \in T \ {y}
        /\ T \ {p} \in SUBSET S /\ T \ {y} \in SUBSET S
        /\ R = (T \ {y}) \ {p}
    BY <2>2, <2>3, <2>4
  <2>7. Sum(T \ {p}) = f[y] + Sum(R) /\ Sum(T \ {y}) = f[p] + Sum(R)
    BY <2>5, <2>6
  <2>8. f[y] \in Int /\ f[p] \in Int /\ Sum(R) \in Int
    <3>1. IsFiniteSet(R) /\ R \in SUBSET S
      BY FS_Subset, <2>6
    <3>2. QED
      BY <2>1, <2>2, <2>3, <3>1, SumType
  <2> HIDE DEF Sum, p, R
  <2>9. QED
    BY <2>2, <2>3, <2>7, <2>8
<1>2. S \in SUBSET S /\ IsFiniteSet(S \ {x})
  BY FS_Subset
<1>3. QED
  BY <1>1, <1>2, SumType

(* A new element adds its value.                                           *)
LEMMA SumWith ==
  ASSUME NEW f, NEW S, IsFiniteSet(S), NEW x, x \notin S,
         \A y \in S \cup {x} : f[y] \in Int
  PROVE  SumFunctionOnSet(f, S \cup {x}) = SumFunctionOnSet(f, S) + f[x]
<1> DEFINE T == S \cup {x}
<1>1. IsFiniteSet(T) /\ x \in T /\ \A y \in T : f[y] \in Int
  BY FS_AddElement
<1>2. T \ {x} = S
  OBVIOUS
<1> HIDE DEF T
<1>3. /\ SumFunctionOnSet(f, T) = f[x] + SumFunctionOnSet(f, T \ {x})
      /\ SumFunctionOnSet(f, T \ {x}) \in Int
  BY <1>1, SumWithout
<1>4. SumFunctionOnSet(f, T) = SumFunctionOnSet(f, T \ {x}) + f[x]
  BY <1>1, <1>3
<1>5. SumFunctionOnSet(f, T) = SumFunctionOnSet(f, S) + f[x]
  BY <1>2, <1>4
<1>6. QED
  BY <1>5 DEF T

(* Only the values on the set matter.                                      *)
LEMMA SumSame ==
  ASSUME NEW f, NEW h, NEW S, IsFiniteSet(S), \A x \in S : f[x] = h[x]
  PROVE  SumFunctionOnSet(f, S) = SumFunctionOnSet(h, S)
<1> DEFINE F == {T \in SUBSET S : SumFunctionOnSet(f, T) # SumFunctionOnSet(h, T)}
<1>1. SUFFICES ASSUME F # {} PROVE FALSE
  OBVIOUS
<1>2. PICK T \in F : IsFiniteSet(T) /\ \A x \in T : T \ {x} \notin F
  <2> HIDE DEF F
  <2>1. F \in SUBSET (SUBSET S)
    BY DEF F
  <2>2. QED
    BY <1>1, <2>1, MinimalMember
<1>3. T # {}
  BY <1>2, SumEmpty
<1>4. Pick(T) \in T /\ f[Pick(T)] = h[Pick(T)]
  BY <1>2, <1>3, Picked
<1>5. SumFunctionOnSet(f, T \ {Pick(T)}) = SumFunctionOnSet(h, T \ {Pick(T)})
  BY <1>2, <1>4
<1>6. QED
  BY <1>2, <1>3, <1>4, <1>5, SumStep

(* One changed value changes the sum by as much.                           *)
LEMMA SumChanged ==
  ASSUME NEW f, NEW h, NEW S, IsFiniteSet(S), NEW x \in S,
         \A y \in S : f[y] \in Int /\ h[y] \in Int,
         \A y \in S : y # x => h[y] = f[y]
  PROVE  /\ SumFunctionOnSet(h, S) = SumFunctionOnSet(f, S) - f[x] + h[x]
         /\ SumFunctionOnSet(f, S) \in Int
<1>1. IsFiniteSet(S \ {x})
  BY FS_RemoveElement
<1>2. SumFunctionOnSet(h, S \ {x}) = SumFunctionOnSet(f, S \ {x})
  BY <1>1, SumSame
<1>3. /\ SumFunctionOnSet(f, S) = f[x] + SumFunctionOnSet(f, S \ {x})
      /\ SumFunctionOnSet(h, S) = h[x] + SumFunctionOnSet(h, S \ {x})
      /\ SumFunctionOnSet(f, S \ {x}) \in Int
      /\ SumFunctionOnSet(f, S) \in Int
  BY SumWithout
<1>4. QED
  BY <1>2, <1>3

(* Natural numbers add up to one, and each is at most the sum.             *)
LEMMA SumOfNaturals ==
  ASSUME NEW f, NEW S, IsFiniteSet(S), \A x \in S : f[x] \in Nat
  PROVE  /\ SumFunctionOnSet(f, S) \in Nat
         /\ \A x \in S : f[x] <= SumFunctionOnSet(f, S)
<1> DEFINE F == {T \in SUBSET S : SumFunctionOnSet(f, T) \notin Nat}
<1>1. ASSUME F # {} PROVE FALSE
  <2>1. PICK T \in F : IsFiniteSet(T) /\ \A x \in T : T \ {x} \notin F
    <3> HIDE DEF F
    <3>1. F \in SUBSET (SUBSET S)
      BY DEF F
    <3>2. QED
      BY <1>1, <3>1, MinimalMember
  <2>2. T # {}
    BY <2>1, SumEmpty
  <2>3. Pick(T) \in T /\ SumFunctionOnSet(f, T \ {Pick(T)}) \in Nat
    BY <2>1, <2>2, Picked
  <2>4. QED
    BY <2>1, <2>2, <2>3, SumStep
<1>2. \A T \in SUBSET S : SumFunctionOnSet(f, T) \in Nat
  BY <1>1
<1>3. ASSUME NEW x \in S PROVE f[x] <= SumFunctionOnSet(f, S)
  <2>1. SumFunctionOnSet(f, S) = f[x] + SumFunctionOnSet(f, S \ {x})
    BY SumWithout
  <2>2. SumFunctionOnSet(f, S \ {x}) \in Nat
    BY <1>2
  <2>3. QED
    BY <2>1, <2>2
<1>4. QED
  BY <1>2, <1>3

(* Zeros add up to zero.                                                   *)
LEMMA SumOfZeros ==
  ASSUME NEW f, NEW S, IsFiniteSet(S), \A x \in S : f[x] = 0
  PROVE  SumFunctionOnSet(f, S) = 0
<1> DEFINE F == {T \in SUBSET S : SumFunctionOnSet(f, T) # 0}
<1>1. SUFFICES ASSUME F # {} PROVE FALSE
  OBVIOUS
<1>2. PICK T \in F : IsFiniteSet(T) /\ \A x \in T : T \ {x} \notin F
  <2> HIDE DEF F
  <2>1. F \in SUBSET (SUBSET S)
    BY DEF F
  <2>2. QED
    BY <1>1, <2>1, MinimalMember
<1>3. T # {}
  BY <1>2, SumEmpty
<1>4. Pick(T) \in T /\ SumFunctionOnSet(f, T \ {Pick(T)}) = 0
  BY <1>2, <1>3, Picked
<1>5. QED
  BY <1>2, <1>3, <1>4, SumStep

(* A sum of sums.                                                          *)
LEMMA SumPlus ==
  ASSUME NEW f, NEW g, NEW h, NEW S, IsFiniteSet(S),
         \A x \in S : f[x] \in Int /\ g[x] \in Int /\ h[x] = f[x] + g[x]
  PROVE  SumFunctionOnSet(h, S) = SumFunctionOnSet(f, S) + SumFunctionOnSet(g, S)
<1> DEFINE F == {T \in SUBSET S : SumFunctionOnSet(h, T)
                                   # SumFunctionOnSet(f, T) + SumFunctionOnSet(g, T)}
<1>1. SUFFICES ASSUME F # {} PROVE FALSE
  OBVIOUS
<1>2. PICK T \in F : IsFiniteSet(T) /\ \A x \in T : T \ {x} \notin F
  <2> HIDE DEF F
  <2>1. F \in SUBSET (SUBSET S)
    BY DEF F
  <2>2. QED
    BY <1>1, <2>1, MinimalMember
<1>3. T # {}
  BY <1>2, SumEmpty
<1> DEFINE x == Pick(T)
           U == T \ {x}
<1>4. x \in T /\ x \in S /\ U \in SUBSET S /\ IsFiniteSet(U)
  BY <1>2, <1>3, Picked, FS_RemoveElement
<1>5. SumFunctionOnSet(h, U) = SumFunctionOnSet(f, U) + SumFunctionOnSet(g, U)
  BY <1>2, <1>4
<1>6. SumFunctionOnSet(f, U) \in Int /\ SumFunctionOnSet(g, U) \in Int
  BY <1>4, SumType
<1>7. /\ SumFunctionOnSet(f, T) = f[x] + SumFunctionOnSet(f, U)
      /\ SumFunctionOnSet(g, T) = g[x] + SumFunctionOnSet(g, U)
      /\ SumFunctionOnSet(h, T) = h[x] + SumFunctionOnSet(h, U)
  BY <1>2, <1>3, SumStep
<1>8. f[x] \in Int /\ g[x] \in Int /\ h[x] = f[x] + g[x]
  BY <1>4
<1> HIDE DEF x, U
<1>9. SumFunctionOnSet(h, T) = SumFunctionOnSet(f, T) + SumFunctionOnSet(g, T)
  BY <1>5, <1>6, <1>7, <1>8
<1>10. QED
  BY <1>2, <1>9

(* Smaller values have a smaller sum.                                      *)
LEMMA SumMonotone ==
  ASSUME NEW f, NEW g, NEW S, IsFiniteSet(S),
         \A x \in S : f[x] \in Int /\ g[x] \in Int /\ f[x] <= g[x]
  PROVE  SumFunctionOnSet(f, S) <= SumFunctionOnSet(g, S)
<1> DEFINE more == [x \in S |-> g[x] - f[x]]
<1>1. SumFunctionOnSet(g, S) = SumFunctionOnSet(f, S) + SumFunctionOnSet(more, S)
  BY SumPlus
<1>2. SumFunctionOnSet(more, S) \in Nat
  BY SumOfNaturals
<1>3. SumFunctionOnSet(f, S) \in Int
  BY SumType
<1>4. QED
  BY <1>1, <1>2, <1>3

(* What is added up over a part is added up over the whole with zeros.     *)
LEMMA SumOfPart ==
  ASSUME NEW f, NEW S, IsFiniteSet(S), NEW T \in SUBSET S, \A x \in S : f[x] \in Int
  PROVE  SumFunctionOnSet(f, T) = SumFunctionOnSet([x \in S |-> IF x \in T THEN f[x] ELSE 0], S)
<1> DEFINE g == [x \in S |-> IF x \in T THEN f[x] ELSE 0]
           F == {U \in SUBSET S : T \subseteq U /\ SumFunctionOnSet(g, U) # SumFunctionOnSet(g, T)}
<1>1. SumFunctionOnSet(f, T) = SumFunctionOnSet(g, T)
  BY SumSame, FS_Subset
<1>2. ASSUME F # {} PROVE FALSE
  <2>1. PICK U \in F : IsFiniteSet(U) /\ \A x \in U : U \ {x} \notin F
    <3> HIDE DEF F
    <3>1. F \in SUBSET (SUBSET S)
      BY DEF F
    <3>2. QED
      BY <1>2, <3>1, MinimalMember
  <2>2. PICK x \in U : x \notin T
    BY <2>1
  <2>3. SumFunctionOnSet(g, U \ {x}) = SumFunctionOnSet(g, T)
    BY <2>1, <2>2
  <2>4. \A y \in U : g[y] \in Int
    BY <2>1
  <2>5. /\ SumFunctionOnSet(g, U) = g[x] + SumFunctionOnSet(g, U \ {x})
        /\ SumFunctionOnSet(g, U \ {x}) \in Int
    BY <2>1, <2>2, <2>4, SumWithout
  <2>6. g[x] = 0
    BY <2>1, <2>2
  <2>7. QED
    BY <2>1, <2>3, <2>5, <2>6
<1>3. SumFunctionOnSet(g, S) = SumFunctionOnSet(g, T)
  BY <1>2
<1>4. QED
  BY <1>1, <1>3
==============================================================================
