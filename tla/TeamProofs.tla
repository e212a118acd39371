------------------------------ MODULE TeamProofs ------------------------------
(* Machine-checked: what the people who prepare an order may rely on, for any *)
(* number of pickers, requests in flight, units, stores and lines.            *)
EXTENDS MCTeam, FiniteSetTheorems, WellFoundedInduction, TLAPS

-----------------------------------------------------------------------------
(* Sums over a finite set, which the library defines by recursion on its      *)
(* subsets.                                                                   *)

\* A set of natural numbers has a least one.
LEMMA LeastExists ==
    ASSUME NEW T \in SUBSET Nat, T # {}
    PROVE  \E n \in T : \A m \in T : n <= m
<1> DEFINE F == {0..n : n \in T}
<1>1. F \subseteq FiniteSubsetsOf(Nat) /\ F # {}
  <2>1. \A n \in T : IsFiniteSet(0..n) /\ 0..n \in SUBSET Nat
    BY FS_Interval
  <2>2. QED
    BY <2>1 DEF FiniteSubsetsOf
<1>2. IsWellFoundedOn(StrictSubsetOrdering(Nat), FiniteSubsetsOf(Nat))
  BY FS_StrictSubsetOrderingWellFounded
<1> HIDE DEF F
<1>3. PICK x \in F : \A y \in F : ~(<<y, x>> \in StrictSubsetOrdering(Nat))
  BY <1>1, <1>2, WFMin
<1>4. PICK n \in T : x = 0..n
  BY DEF F
<1>5. ASSUME NEW m \in T, m < n PROVE FALSE
  <2>1. 0..m \in F
    BY DEF F
  <2>2. 0..m \subseteq 0..n /\ 0..m # 0..n /\ 0..m \subseteq Nat /\ 0..n \subseteq Nat
    <3>1. n \in 0..n /\ n \notin 0..m
      BY <1>5
    <3>2. QED
      BY <1>5, <3>1
  <2>3. QED
    BY <1>3, <1>4, <2>1, <2>2 DEF StrictSubsetOrdering
<1>6. QED
  BY <1>4, <1>5

\* Among finite sets there is a smallest one.
LEMMA SmallestSet ==
    ASSUME NEW C, C # {}, \A s \in C : IsFiniteSet(s)
    PROVE  \E s \in C : \A t \in C : Cardinality(s) <= Cardinality(t)
<1> DEFINE N == {Cardinality(s) : s \in C}
<1>1. N \in SUBSET Nat /\ N # {}
  BY FS_CardinalityType
<1>2. PICK n \in N : \A m \in N : n <= m
  BY <1>1, LeastExists
<1>3. QED
  BY <1>2

\* The element that the library takes first.
First1(s) == CHOOSE x \in s : TRUE

StepSum(h, g, s) == IF s = {} THEN 0 ELSE h[First1(s)] + g[s \ {First1(s)}]

\* g is the function of sums over the subsets of S.
IsSum(h, S, g) == g = [s \in SUBSET S |-> StepSum(h, g, s)]

SumOf(h, S) == MapThenSumSet(LAMBDA x : h[x], S)

LEMMA SumDef ==
    ASSUME NEW h, NEW S
    PROVE  SumOf(h, S) = (CHOOSE g : IsSum(h, S, g))[S]
  BY DEF SumOf, MapThenSumSet, MapThenFoldSet, IsSum, StepSum, First1

LEMMA SumsExist ==
    ASSUME NEW S, IsFiniteSet(S), NEW h \in [S -> Nat]
    PROVE  \E g : IsSum(h, S, g) /\ g \in [SUBSET S -> Nat]
<1> DEFINE Sub(n) == {s \in SUBSET S : Cardinality(s) <= n}
           Upto(n, g) == g \in [Sub(n) -> Nat] /\ \A s \in Sub(n) : g[s] = StepSum(h, g, s)
           Bad == {n \in Nat : \A g : ~Upto(n, g)}
<1>0. \A s \in SUBSET S : IsFiniteSet(s) /\ Cardinality(s) \in Nat
  BY FS_Subset, FS_CardinalityType
<1>1. Bad = {}
  <2>1. SUFFICES ASSUME Bad # {} PROVE FALSE
    OBVIOUS
  <2>2. PICK n \in Bad : \A m \in Bad : n <= m
    <3>1. Bad \in SUBSET Nat
      OBVIOUS
    <3> HIDE DEF Bad
    <3>2. QED
      BY <2>1, <3>1, LeastExists
  <2>3. CASE n = 0
    <3> DEFINE g == [s \in Sub(0) |-> 0]
    <3>1. Sub(0) = {{}}
      <4>1. \A s \in SUBSET S : Cardinality(s) <= 0 <=> s = {}
        BY <1>0, FS_EmptySet
      <4>2. QED
        BY <4>1
    <3>2. Upto(0, g)
      BY <3>1 DEF StepSum
    <3>3. QED
      BY <2>2, <2>3, <3>2
  <2>4. CASE n # 0
    <3>1. n - 1 \in Nat /\ n - 1 \notin Bad
      BY <2>2, <2>4
    <3>2. PICK g : Upto(n - 1, g)
      BY <3>1
    <3> DEFINE f == [s \in Sub(n) |-> StepSum(h, g, s)]
    <3>3. \A s \in Sub(n) : s # {} => First1(s) \in S /\ s \ {First1(s)} \in Sub(n - 1)
      <4>1. SUFFICES ASSUME NEW s \in Sub(n), s # {}
                     PROVE  First1(s) \in S /\ s \ {First1(s)} \in Sub(n - 1)
        OBVIOUS
      <4>2. First1(s) \in s
        BY <4>1 DEF First1
      <4>3. Cardinality(s \ {First1(s)}) = Cardinality(s) - 1
        BY <1>0, <4>2, FS_RemoveElement
      <4>4. QED
        BY <1>0, <4>2, <4>3
    <3>4. \A s \in Sub(n - 1) : s \in Sub(n) /\ f[s] = g[s]
      BY <1>0, <3>1, <3>2
    <3>5. f \in [Sub(n) -> Nat]
      <4>1. \A s \in Sub(n) : StepSum(h, g, s) \in Nat
        BY <3>2, <3>3 DEF StepSum
      <4>2. QED
        BY <4>1
    <3>6. \A s \in Sub(n) : f[s] = StepSum(h, f, s)
      <4>1. \A s \in Sub(n) : StepSum(h, f, s) = StepSum(h, g, s)
        BY <3>3, <3>4 DEF StepSum
      <4>2. QED
        BY <4>1
    <3>7. QED
      <4> HIDE DEF f
      <4>1. Upto(n, f)
        BY <3>5, <3>6
      <4>2. QED
        BY <2>2, <4>1
  <2>5. QED
    BY <2>3, <2>4
<1>2. Cardinality(S) \in Nat /\ Cardinality(S) \notin Bad
  BY <1>1, FS_CardinalityType
<1>3. PICK g : Upto(Cardinality(S), g)
  BY <1>2
<1>4. Sub(Cardinality(S)) = SUBSET S
  BY FS_Subset
<1>5. QED
  BY <1>3, <1>4 DEF IsSum

LEMMA SumsNat ==
    ASSUME NEW S, IsFiniteSet(S), NEW h \in [S -> Nat], NEW g, IsSum(h, S, g)
    PROVE  /\ g[{}] = 0
           /\ \A s \in SUBSET S : g[s] \in Nat
<1> DEFINE C == {s \in SUBSET S : g[s] \notin Nat}
<1>0. \A s \in SUBSET S : IsFiniteSet(s) /\ Cardinality(s) \in Nat
  BY FS_Subset, FS_CardinalityType
<1>1. g[{}] = 0
  BY DEF IsSum, StepSum
<1>2. ASSUME C # {} PROVE FALSE
  <2>1. PICK s \in C : \A t \in C : Cardinality(s) <= Cardinality(t)
    <3>1. \A s \in C : IsFiniteSet(s)
      BY <1>0
    <3> HIDE DEF C
    <3>2. QED
      BY <1>2, <3>1, SmallestSet
  <2>2. s # {} /\ First1(s) \in s
    BY <1>1, <2>1 DEF First1
  <2>3. s \ {First1(s)} \in SUBSET S /\ Cardinality(s \ {First1(s)}) = Cardinality(s) - 1
    BY <1>0, <2>1, <2>2, FS_RemoveElement
  <2>4. g[s \ {First1(s)}] \in Nat
    BY <1>0, <2>1, <2>3
  <2>5. g[s] = StepSum(h, g, s) /\ h[First1(s)] \in Nat
    BY <2>1, <2>2 DEF IsSum
  <2>6. g[s] \in Nat
    BY <2>2, <2>4, <2>5 DEF StepSum
  <2>7. QED
    BY <2>1, <2>6
<1>3. QED
  BY <1>1, <1>2

\* Any element may be taken first.
LEMMA SumsRemove ==
    ASSUME NEW S, IsFiniteSet(S), NEW h \in [S -> Nat], NEW g, IsSum(h, S, g)
    PROVE  \A s \in SUBSET S : \A x \in s : g[s] = h[x] + g[s \ {x}]
<1> DEFINE C == {s \in SUBSET S : \E x \in s : g[s] # h[x] + g[s \ {x}]}
<1>0. \A s \in SUBSET S : IsFiniteSet(s) /\ Cardinality(s) \in Nat
  BY FS_Subset, FS_CardinalityType
<1>1. ASSUME C # {} PROVE FALSE
  <2>1. PICK s \in C : \A t \in C : Cardinality(s) <= Cardinality(t)
    <3>1. \A s \in C : IsFiniteSet(s)
      BY <1>0
    <3> HIDE DEF C
    <3>2. QED
      BY <1>1, <3>1, SmallestSet
  <2>2. PICK x \in s : g[s] # h[x] + g[s \ {x}]
    BY <2>1
  <2> DEFINE c == First1(s)
  <2>3. c \in s /\ g[s] = h[c] + g[s \ {c}]
    <3>1. c \in s
      BY <2>2 DEF First1
    <3>2. g[s] = StepSum(h, g, s)
      BY <2>1 DEF IsSum
    <3>3. QED
      BY <3>1, <3>2 DEF StepSum
  <2> HIDE DEF c
  <2>4. c # x
    BY <2>2, <2>3
  <2>5. g[s \ {c}] = h[x] + g[(s \ {c}) \ {x}]
    <3>1. s \ {c} \notin C
      <4>1. Cardinality(s \ {c}) = Cardinality(s) - 1
        BY <1>0, <2>1, <2>3, FS_RemoveElement
      <4>2. ~(Cardinality(s) <= Cardinality(s \ {c}))
        <5>1. Cardinality(s) \in Nat
          BY <1>0, <2>1
        <5>2. QED
          BY <4>1, <5>1
      <4>3. QED
        BY <2>1, <4>2
    <3>2. QED
      BY <2>1, <2>2, <2>4, <3>1
  <2>6. g[s \ {x}] = h[c] + g[(s \ {x}) \ {c}]
    <3>1. s \ {x} \notin C
      <4>1. Cardinality(s \ {x}) = Cardinality(s) - 1
        BY <1>0, <2>1, <2>2, FS_RemoveElement
      <4>2. QED
        BY <1>0, <2>1, <4>1
    <3>2. QED
      BY <2>1, <2>3, <2>4, <3>1
  <2>7. (s \ {x}) \ {c} = (s \ {c}) \ {x}
    OBVIOUS
  <2>8. g[(s \ {c}) \ {x}] \in Nat /\ h[c] \in Nat /\ h[x] \in Nat
    BY <2>1, <2>2, <2>3, SumsNat
  <2>9. g[s \ {x}] = h[c] + g[(s \ {c}) \ {x}]
    BY <2>6, <2>7
  <2>10. g[s] = h[c] + (h[x] + g[(s \ {c}) \ {x}])
    BY <2>3, <2>5
  <2>11. g[s] = h[x] + g[s \ {x}]
    BY <2>8, <2>9, <2>10
  <2>12. QED
    BY <2>2, <2>11
<1>2. QED
  BY <1>1

\* A sum depends on what is summed and on nothing else.
LEMMA SumsAgree ==
    ASSUME NEW S, IsFiniteSet(S), NEW h \in [S -> Nat], NEW k \in [S -> Nat],
           NEW g, IsSum(h, S, g), NEW f, IsSum(k, S, f)
    PROVE  \A T \in SUBSET S : (\A x \in T : h[x] = k[x]) => g[T] = f[T]
<1> DEFINE C == {T \in SUBSET S : (\A x \in T : h[x] = k[x]) /\ g[T] # f[T]}
<1>0. \A s \in SUBSET S : IsFiniteSet(s) /\ Cardinality(s) \in Nat
  BY FS_Subset, FS_CardinalityType
<1>1. ASSUME C # {} PROVE FALSE
  <2>1. PICK s \in C : \A t \in C : Cardinality(s) <= Cardinality(t)
    <3>1. \A s \in C : IsFiniteSet(s)
      BY <1>0
    <3> HIDE DEF C
    <3>2. QED
      BY <1>1, <3>1, SmallestSet
  <2>2. s # {}
    BY <2>1, SumsNat
  <2>3. PICK x \in s : TRUE
    BY <2>2
  <2>4. s \ {x} \notin C
    <3>1. Cardinality(s \ {x}) = Cardinality(s) - 1
      BY <1>0, <2>1, <2>3, FS_RemoveElement
    <3>2. QED
      BY <1>0, <2>1, <3>1
  <2>5. g[s \ {x}] = f[s \ {x}] /\ h[x] = k[x]
    BY <2>1, <2>3, <2>4
  <2>6. s \in SUBSET S
    BY <2>1
  <2>7. g[s] = h[x] + g[s \ {x}]
    BY <2>3, <2>6, SumsRemove
  <2>8. f[s] = k[x] + f[s \ {x}]
    BY <2>3, <2>6, SumsRemove
  <2>9. QED
    BY <2>1, <2>5, <2>7, <2>8
<1>2. QED
  BY <1>1

\* The function that SumOf uses.
LEMMA SumFn ==
    ASSUME NEW S, IsFiniteSet(S), NEW h \in [S -> Nat]
    PROVE  \E g : IsSum(h, S, g) /\ SumOf(h, S) = g[S]
<1> DEFINE g == CHOOSE g : IsSum(h, S, g)
<1>1. IsSum(h, S, g)
  BY SumsExist
<1>2. SumOf(h, S) = g[S]
  BY SumDef
<1> HIDE DEF g
<1>3. QED
  BY <1>1, <1>2

LEMMA SumNat ==
    ASSUME NEW S, IsFiniteSet(S), NEW h \in [S -> Nat]
    PROVE  SumOf(h, S) \in Nat
  BY SumFn, SumsNat

LEMMA SumMember ==
    ASSUME NEW S, IsFiniteSet(S), NEW h \in [S -> Nat], NEW x \in S
    PROVE  h[x] <= SumOf(h, S)
<1>1. PICK g : IsSum(h, S, g) /\ SumOf(h, S) = g[S]
  BY SumFn
<1>2. g[S] = h[x] + g[S \ {x}]
  BY <1>1, SumsRemove
<1>3. g[S \ {x}] \in Nat
  BY <1>1, SumsNat
<1>4. QED
  BY <1>1, <1>2, <1>3

\* Two elements of a sum.
LEMMA SumOfTwo ==
    ASSUME NEW S, IsFiniteSet(S), NEW h \in [S -> Nat], NEW x \in S, NEW y \in S, x # y
    PROVE  h[x] + h[y] <= SumOf(h, S)
<1>1. PICK g : IsSum(h, S, g) /\ SumOf(h, S) = g[S]
  BY SumFn
<1>2. g[S] = h[x] + g[S \ {x}]
  BY <1>1, SumsRemove
<1>3. g[S \ {x}] = h[y] + g[(S \ {x}) \ {y}]
  BY <1>1, SumsRemove
<1>4. g[(S \ {x}) \ {y}] \in Nat
  BY <1>1, SumsNat
<1>5. QED
  BY <1>1, <1>2, <1>3, <1>4

\* One summand is replaced.
LEMMA SumChange ==
    ASSUME NEW S, IsFiniteSet(S), NEW h \in [S -> Nat], NEW k \in [S -> Nat], NEW x \in S,
           \A y \in S : y # x => k[y] = h[y]
    PROVE  SumOf(k, S) = SumOf(h, S) - h[x] + k[x]
<1>1. PICK g : IsSum(h, S, g) /\ SumOf(h, S) = g[S]
  BY SumFn
<1>2. PICK f : IsSum(k, S, f) /\ SumOf(k, S) = f[S]
  BY SumFn
<1>3. g[S] = h[x] + g[S \ {x}] /\ f[S] = k[x] + f[S \ {x}]
  <2>1. g[S] = h[x] + g[S \ {x}]
    BY <1>1, SumsRemove
  <2>2. f[S] = k[x] + f[S \ {x}]
    BY <1>2, SumsRemove
  <2>3. QED
    BY <2>1, <2>2
<1>4. g[S \ {x}] = f[S \ {x}] /\ g[S \ {x}] \in Nat
  BY <1>1, <1>2, SumsAgree, SumsNat
<1>5. h[x] \in Nat /\ k[x] \in Nat
  OBVIOUS
<1> DEFINE n == g[S \ {x}]
<1>6. g[S] = h[x] + n /\ f[S] = k[x] + n /\ n \in Nat
  BY <1>3, <1>4
<1> HIDE DEF n
<1>7. f[S] = g[S] - h[x] + k[x]
  BY <1>5, <1>6
<1>8. QED
  BY <1>1, <1>2, <1>7

\* The sum of nothing, and of nothing but nought.
LEMMA SumNought ==
    ASSUME NEW S, IsFiniteSet(S), NEW h \in [S -> Nat]
    PROVE  SumOf(h, S) = 0 <=> \A x \in S : h[x] = 0
<1>1. ASSUME SumOf(h, S) = 0, NEW x \in S PROVE h[x] = 0
  BY <1>1, SumMember
<1>2. ASSUME \A x \in S : h[x] = 0 PROVE SumOf(h, S) = 0
  <2>1. PICK g : IsSum(h, S, g) /\ SumOf(h, S) = g[S]
    BY SumFn
  <2> DEFINE C == {s \in SUBSET S : g[s] # 0}
  <2>2. ASSUME C # {} PROVE FALSE
    <3>0. \A s \in SUBSET S : IsFiniteSet(s) /\ Cardinality(s) \in Nat
      BY FS_Subset, FS_CardinalityType
    <3>1. PICK s \in C : \A t \in C : Cardinality(s) <= Cardinality(t)
      <4>1. \A s \in C : IsFiniteSet(s)
        BY <3>0
      <4> HIDE DEF C
      <4>2. QED
        BY <2>2, <4>1, SmallestSet
    <3>2. PICK x \in s : TRUE
      BY <2>1, <3>1, SumsNat
    <3>3. s \ {x} \notin C
      <4>1. Cardinality(s \ {x}) = Cardinality(s) - 1
        BY <3>0, <3>1, <3>2, FS_RemoveElement
      <4>2. QED
        BY <3>0, <3>1, <4>1
    <3>4. g[s] = h[x] + g[s \ {x}]
      BY <2>1, <3>1, <3>2, SumsRemove
    <3>5. QED
      BY <1>2, <3>1, <3>2, <3>3, <3>4
  <2>3. QED
    BY <2>1, <2>2
<1>3. QED
  BY <1>1, <1>2

\* Two functions are subtracted.
LEMMA SumMinus ==
    ASSUME NEW S, IsFiniteSet(S), NEW h \in [S -> Nat], NEW k \in [S -> Nat],
           \A x \in S : k[x] <= h[x]
    PROVE  SumOf([x \in S |-> h[x] - k[x]], S) = SumOf(h, S) - SumOf(k, S)
<1> DEFINE m == [x \in S |-> h[x] - k[x]]
<1>0. m \in [S -> Nat] /\ \A x \in S : m[x] = h[x] - k[x]
  OBVIOUS
<1> HIDE DEF m
<1>1. PICK g : IsSum(h, S, g) /\ SumOf(h, S) = g[S]
  BY SumFn
<1>2. PICK f : IsSum(k, S, f) /\ SumOf(k, S) = f[S]
  BY SumFn
<1>3. PICK e : IsSum(m, S, e) /\ SumOf(m, S) = e[S]
  BY <1>0, SumFn
<1> DEFINE C == {s \in SUBSET S : e[s] # g[s] - f[s]}
<1>4. ASSUME C # {} PROVE FALSE
  <2>0. \A s \in SUBSET S : IsFiniteSet(s) /\ Cardinality(s) \in Nat
    BY FS_Subset, FS_CardinalityType
  <2>1. PICK s \in C : \A t \in C : Cardinality(s) <= Cardinality(t)
    <3>1. \A s \in C : IsFiniteSet(s)
      BY <2>0
    <3> HIDE DEF C
    <3>2. QED
      BY <1>4, <3>1, SmallestSet
  <2>2. g[{}] = 0 /\ f[{}] = 0 /\ e[{}] = 0
    BY <1>0, <1>1, <1>2, <1>3, SumsNat
  <2>3. PICK x \in s : TRUE
    <3>1. e[{}] = g[{}] - f[{}]
      BY <2>2
    <3>2. {} \notin C /\ s \in C
      BY <2>1, <3>1
    <3> HIDE DEF C
    <3>3. s # {}
      BY <3>2
    <3>4. QED
      BY <3>3
  <2>4. s \ {x} \notin C
    <3>1. Cardinality(s \ {x}) = Cardinality(s) - 1
      BY <2>0, <2>1, <2>3, FS_RemoveElement
    <3>2. QED
      BY <2>0, <2>1, <3>1
  <2>5. e[s \ {x}] = g[s \ {x}] - f[s \ {x}]
    BY <2>1, <2>4
  <2>13. s \in SUBSET S /\ x \in s
    BY <2>1, <2>3
  <2>6. g[s] = h[x] + g[s \ {x}]
    BY <1>1, <2>13, SumsRemove
  <2>7. f[s] = k[x] + f[s \ {x}]
    BY <1>2, <2>13, SumsRemove
  <2>8. e[s] = m[x] + e[s \ {x}]
    BY <1>0, <1>3, <2>13, SumsRemove
  <2>9. g[s \ {x}] \in Nat /\ f[s \ {x}] \in Nat
    BY <1>1, <1>2, <2>1, SumsNat
  <2>10. x \in S /\ h[x] \in Nat /\ k[x] \in Nat /\ m[x] = h[x] - k[x]
    BY <1>0, <2>1, <2>3
  <2>11. e[s] = g[s] - f[s]
    BY <2>5, <2>6, <2>7, <2>8, <2>9, <2>10
  <2>12. QED
    BY <2>1, <2>11
<1>5. SumOf(m, S) = SumOf(h, S) - SumOf(k, S)
  BY <1>1, <1>2, <1>3, <1>4
<1>6. QED
  BY <1>5 DEF m

-----------------------------------------------------------------------------
(* Picking: what a request carries, and what of what it read is still so.     *)

PickingOps == {"start", "assign", "ask", "delegate", "resolve", "pick", "pickAll", "pickVariant",
               "askUnpick", "resolveUnpick", "complete", "cancel", "deliver", "returned",
               "delegateReturn", "acceptReturn"}
Goods == [who : Pickers \union {Nobody}, from : Pickers \union {Nobody},
          delegated : Pickers \union {Nobody}, status : {"NONE", "ACCEPTED", "PENDING"}]
Wants == [by : Pickers, quantity : Units]

\* What a request has decided.
CarriesUser(q) ==
    /\ q.op \in {"start", "complete"} => q.who \in Pickers
    /\ q.op \in {"assign", "delegate", "delegateReturn"} => q.to \in Pickers
    /\ q.op \in {"ask", "delegate"} => q.mode \in Modes
    /\ q.op = "resolve" => q.ask \in Pickers \X Modes

CarriesUnits(q) ==
    /\ q.op \in {"pick", "pickVariant"} => q.want \in Units /\ q.delta \in Int
    /\ q.op \in {"pick", "pickAll", "pickVariant"} =>
          q.next \in Pickers /\ q.order = q.next /\ q.session = q.next
    /\ q.op = "askUnpick" => q.quantity \in Units
    /\ q.op = "resolveUnpick" => q.w \in Wants

CarriesCut(q) ==
    q.op = "resolveUnpick" /\ q.approved =>
        /\ q.next \in Units
        /\ q.cut \in [Pickers -> Nat]
        /\ SumOf(q.cut, Pickers) = q.w.quantity

Carries(q) ==
    q = None \/ (q.op \in PickingOps /\ q.by \in Pickers /\ CarriesUser(q) /\ CarriesUnits(q) /\ CarriesCut(q))

\* Nobody sends two requests at once, and what is written as it was read is
\* written by a request that runs alone.
Careful == PerPicker <= 1 /\ {"pickVariant", "resolveUnpick"} \intersect Overlap = {}

\* Asking for help runs alone.
AsksAlone == {"ask", "askUnpick"} \intersect Overlap = {}

CompletesAlone == "complete" \notin Overlap

AsRead(q) ==
    /\ q.op \in {"pick", "pickAll", "pickVariant", "askUnpick", "resolveUnpick"} => session # "NONE"
    /\ AsksAlone /\ q.op \in {"ask", "askUnpick"} => stage \in Pickable
    /\ CompletesAlone /\ q.op = "complete" => q.who = primary

UnitsAsRead(q) ==
    /\ q.op \in {"pick", "pickVariant"} => units[q.by] + q.delta >= 0
    /\ q.op = "pickVariant" => picked + q.delta = q.want
    /\ q.op = "resolveUnpick" /\ q.approved =>
          q.next = picked - q.w.quantity /\ \A v \in Pickers : q.cut[v] <= units[v]

PickingRows ==
    /\ stage \in Pickable \union Closed \union {"RETURN_PENDING"}
    /\ session \in {"NONE", "IN_PROGRESS", "COMPLETED", "CANCELLED"}
    /\ primary \in Pickers \union {Nobody} /\ handler \in Pickers \union {Nobody}
    /\ goods \in Goods
    /\ team \subseteq Pickers
    /\ asked \subseteq Pickers \X Modes
    /\ wanted \subseteq Wants
    /\ picked \in Units
    /\ units \in [Pickers -> Nat]

\* The rows that name who picks, and those that ask for help.
WhoPicks ==
    /\ session # "NONE" => handler = primary /\ primary \in Pickers
    /\ wanted # {} => session # "NONE"
    /\ AsksAlone => NothingLeftOpen

CreditHolds == Careful => SumOf(units, Pickers) = picked

\* Requests in flight.
Apart(s, t) ==
    /\ {flight[s].op, flight[t].op} \subseteq Overlap
    /\ PerPicker <= 1 => flight[s].by # flight[t].by

FlightHolds ==
    /\ DOMAIN flight = Slots
    /\ \A s \in Slots : Carries(flight[s])
    /\ \A s, t \in Slots : s # t => flight[s] = None \/ flight[t] = None \/ Apart(s, t)

AllAsRead == \A s \in Slots : AsRead(flight[s])
UnitsAllAsRead == Careful => \A s \in Slots : flight[s] # None => UnitsAsRead(flight[s])

PickingSound == PickingRows /\ WhoPicks /\ CreditHolds /\ FlightHolds /\ AllAsRead /\ UnitsAllAsRead

LEMMA QuantityIsNat == Quantity \in Nat
  BY PickingTeamAssumption

LEMMA NoRequest ==
    ASSUME NEW q, Carries(q)
    PROVE  q.op \in PickingOps => q # None /\ q.by \in Pickers /\ CarriesUser(q) /\ CarriesUnits(q) /\ CarriesCut(q)
  BY DEF Carries, None, PickingOps

\* A request that reads what it carries.
LEMMA BeginKeeps ==
    ASSUME PickingSound, NEW s \in Slots, NEW q, Begin(s, q), q.op \in PickingOps, q.by \in Pickers,
           CarriesUser(q), CarriesUnits(q), CarriesCut(q), AsRead(q), Careful => UnitsAsRead(q)
    PROVE  PickingSound'
<1>1. UNCHANGED orderVars /\ flight' = [flight EXCEPT ![s] = q] /\ flight[s] = None
  BY DEF Begin
<1>2. PickingRows' /\ WhoPicks' /\ CreditHolds'
  BY <1>1 DEF PickingSound, PickingRows, WhoPicks, CreditHolds, orderVars, NothingLeftOpen
<1>3. DOMAIN flight = Slots
  BY DEF PickingSound, FlightHolds
<1>4. \A t \in Slots : flight'[t] = IF t = s THEN q ELSE flight[t]
  BY <1>1, <1>3
<1>5. \A t \in Slots : Carries(flight'[t])
  BY <1>4 DEF PickingSound, FlightHolds, Carries
<1>6. ASSUME NEW t \in Slots, t # s, flight[t] # None
      PROVE  {flight[t].op, q.op} \subseteq Overlap /\ (PerPicker <= 1 => flight[t].by # q.by)
  <2>1. {flight[t].op, q.op} \subseteq Overlap
    BY <1>6 DEF Begin
  <2>2. ASSUME PerPicker <= 1, flight[t].by = q.by PROVE FALSE
    <3>1. t \in Holds(q.by)
      BY <1>6, <2>2 DEF Holds
    <3>2. IsFiniteSet(Holds(q.by))
      <4>1. Holds(q.by) \subseteq Slots
        BY DEF Holds
      <4>2. QED
        BY <4>1, FS_Subset, PickingTeamAssumption
    <3>3. Cardinality(Holds(q.by)) \in Nat /\ Cardinality(Holds(q.by)) # 0
      BY <3>1, <3>2, FS_EmptySet, FS_CardinalityType
    <3>4. Cardinality(Holds(q.by)) < PerPicker /\ PerPicker \in Nat
      BY PickingTeamAssumption DEF Begin
    <3>5. QED
      BY <2>2, <3>3, <3>4
  <2>3. QED
    BY <2>1, <2>2
<1>7. FlightHolds'
  <2>1. ASSUME NEW t \in Slots, NEW u \in Slots, t # u, flight'[t] # None, flight'[u] # None
        PROVE  Apart(t, u)'
    BY <1>4, <1>6, <2>1 DEF PickingSound, FlightHolds, Apart
  <2>2. DOMAIN flight' = Slots
    BY <1>1, <1>3
  <2>3. QED
    BY <1>5, <2>1, <2>2 DEF FlightHolds
<1>8. AllAsRead' /\ UnitsAllAsRead'
  <2>1. AsRead(q)' /\ (Careful => UnitsAsRead(q)')
    BY <1>1 DEF AsRead, UnitsAsRead, orderVars
  <2>2. \A t \in Slots : t # s => (AsRead(flight[t]))' /\ (Careful /\ flight[t] # None => UnitsAsRead(flight[t])')
    BY <1>1, <1>4 DEF AsRead, UnitsAsRead, orderVars, PickingSound, AllAsRead, UnitsAllAsRead
  <2>3. QED
    BY <1>4, <2>1, <2>2 DEF AllAsRead, UnitsAllAsRead, AsRead, UnitsAsRead
<1>9. QED
  BY <1>2, <1>7, <1>8 DEF PickingSound

\* What one request does to the units of the others.
LeavesUnits(s) ==
    Careful /\ flight[s].op \in Overlap =>
        \A u \in Pickers : u # flight[s].by => units'[u] >= units[u]

\* A request that ends leaves the others as they were read.
LEMMA EndKeeps ==
    ASSUME PickingSound, NEW s \in Slots, flight[s] # None, End(s),
           PickingRows', WhoPicks', CreditHolds', LeavesUnits(s),
           session # "NONE" => session' # "NONE"
    PROVE  PickingSound'
<1>1. DOMAIN flight = Slots /\ flight' = [flight EXCEPT ![s] = None]
  BY DEF End, PickingSound, FlightHolds
<1>2. \A t \in Slots : flight'[t] = IF t = s THEN None ELSE flight[t]
  BY <1>1
<1>3. FlightHolds'
  <2>1. \A t \in Slots : Carries(flight'[t])
    BY <1>2 DEF Carries, PickingSound, FlightHolds
  <2>2. ASSUME NEW t \in Slots, NEW u \in Slots, t # u, flight'[t] # None, flight'[u] # None
        PROVE  Apart(t, u)'
    BY <1>2, <2>2 DEF PickingSound, FlightHolds, Apart
  <2>3. DOMAIN flight' = Slots
    BY <1>1
  <2>4. QED
    BY <2>1, <2>2, <2>3 DEF FlightHolds
<1>4. ASSUME NEW t \in Slots, t # s, flight[t] # None
      PROVE  /\ AsRead(flight[t])'
             /\ Careful => UnitsAsRead(flight[t])'
  <2>1. flight'[t] = flight[t]
    BY <1>2, <1>4
  <2> DEFINE q == flight[t]
  <2>2. {flight[s].op, q.op} \subseteq Overlap /\ (PerPicker <= 1 => flight[s].by # q.by)
    BY <1>4 DEF PickingSound, FlightHolds, Apart
  <2>3. AsRead(flight[t])'
    <3>1. AsRead(q)
      BY DEF PickingSound, AllAsRead
    <3>2. AsksAlone => q.op \notin {"ask", "askUnpick"}
      BY <2>2 DEF AsksAlone
    <3>3. CompletesAlone => q.op # "complete"
      BY <2>2 DEF CompletesAlone
    <3>4. QED
      BY <2>1, <3>1, <3>2, <3>3 DEF AsRead
  <2>4. ASSUME Careful PROVE UnitsAsRead(flight[t])'
    <3>1. UnitsAsRead(q)
      BY <1>4, <2>4 DEF PickingSound, UnitsAllAsRead
    <3>2. q.op \notin {"pickVariant", "resolveUnpick"} /\ flight[s].by # q.by
      BY <2>2, <2>4 DEF Careful
    <3>3. Carries(q)
      BY DEF PickingSound, FlightHolds
    <3>4. ASSUME q.op = "pick" PROVE units'[q.by] + q.delta >= 0
      <4>1. q.by \in Pickers /\ q.delta \in Int
        BY <3>3, <3>4, NoRequest DEF CarriesUnits, PickingOps
      <4>2. units'[q.by] >= units[q.by]
        BY <2>2, <2>4, <3>2, <4>1 DEF LeavesUnits
      <4>3. units[q.by] \in Nat /\ units'[q.by] \in Nat
        BY <4>1 DEF PickingSound, PickingRows
      <4>4. units[q.by] + q.delta >= 0
        BY <3>1, <3>4 DEF UnitsAsRead
      <4>5. QED
        BY <4>1, <4>2, <4>3, <4>4
    <3>5. QED
      BY <2>1, <3>2, <3>4 DEF UnitsAsRead
  <2>5. QED
    BY <2>3, <2>4
<1>5. AllAsRead' /\ UnitsAllAsRead'
  <2>1. \A t \in Slots : AsRead(flight[t])'
    <3>1. ASSUME NEW t \in Slots, flight'[t] = None PROVE AsRead(flight[t])'
      BY <3>1 DEF AsRead, None
    <3>2. QED
      BY <1>2, <1>4, <3>1
  <2>2. ASSUME Careful, NEW t \in Slots, flight'[t] # None PROVE UnitsAsRead(flight[t])'
    BY <1>2, <1>4, <2>2
  <2>3. QED
    BY <2>1, <2>2 DEF AllAsRead, UnitsAllAsRead
<1>6. QED
  BY <1>3, <1>5 DEF PickingSound

LEMMA PickingBegins == PickingTeamInit => PickingSound
<1> SUFFICES ASSUME PickingTeamInit PROVE PickingSound
  OBVIOUS
<1>1. PickingRows
  BY QuantityIsNat DEF PickingTeamInit, PickingRows, Pickable, Working, Goods, NoGoods, Units
<1>2. WhoPicks
  BY DEF PickingTeamInit, WhoPicks, NothingLeftOpen
<1>3. CreditHolds
  <2>1. units \in [Pickers -> Nat] /\ \A u \in Pickers : units[u] = 0
    BY DEF PickingTeamInit
  <2>2. SumOf(units, Pickers) = 0
    BY <2>1, SumNought, PickingTeamAssumption
  <2>3. QED
    BY <2>2 DEF CreditHolds, PickingTeamInit
<1>4. \A s \in Slots : flight[s] = None
  BY DEF PickingTeamInit
<1>5. FlightHolds
  BY <1>4 DEF PickingTeamInit, FlightHolds, Carries
<1>6. AllAsRead /\ UnitsAllAsRead
  BY <1>4 DEF AllAsRead, UnitsAllAsRead, AsRead, None
<1>7. QED
  BY <1>1, <1>2, <1>3, <1>5, <1>6 DEF PickingSound

-----------------------------------------------------------------------------
(* The requests arrive.                                                       *)

\* What is read of an order whose picking has begun.
LEMMA PickerRead ==
    ASSUME PickingSound, session # "NONE", NEW u \in Pickers
    PROVE  /\ primary \in Pickers /\ handler = primary /\ NextPicker(u) = primary
           /\ First(handler, First(primary, u)) = primary
  BY PickingTeamAssumption DEF PickingSound, WhoPicks, NextPicker, First

LEMMA BeginWho ==
    ASSUME PickingSound, NEW s \in Slots, NEW u \in Pickers,
           \/ BeginStart(s, u) \/ BeginComplete(s, u) \/ BeginCancel(s, u) \/ BeginDeliver(s, u)
           \/ BeginReturned(s, u) \/ BeginAcceptReturn(s, u)
           \/ \E v \in Pickers : BeginAssign(s, u, v) \/ BeginDelegateReturn(s, u, v)
           \/ \E mode \in Modes :
                 BeginAsk(s, u, mode) \/ \E v \in Pickers : BeginDelegate(s, u, v, mode)
           \/ \E ask \in asked, approved \in BOOLEAN : BeginResolve(s, u, ask, approved)
    PROVE  PickingSound'
<1>1. CASE BeginStart(s, u)
  <2>1. PICK q : q = [op |-> "start", by |-> u, who |-> First(primary, u)]
    OBVIOUS
  <2>2. First(primary, u) \in Pickers
    BY DEF First, PickingSound, PickingRows
  <2>3. QED
    BY <1>1, <2>1, <2>2, BeginKeeps DEF BeginStart, PickingOps, CarriesUser, CarriesUnits, CarriesCut, AsRead, UnitsAsRead
<1>2. CASE BeginComplete(s, u)
  <2>1. PICK q : q = [op |-> "complete", by |-> u, who |-> First(handler, First(primary, u))]
    OBVIOUS
  <2>2. First(handler, First(primary, u)) = primary /\ primary \in Pickers
    BY <1>2, PickerRead DEF BeginComplete
  <2>3. QED
    BY <1>2, <2>1, <2>2, BeginKeeps DEF BeginComplete, PickingOps, CarriesUser, CarriesUnits, CarriesCut, AsRead, UnitsAsRead
<1>3. CASE BeginCancel(s, u)
  <2>1. PICK q : q = [op |-> "cancel", by |-> u, stage |-> stage]
    OBVIOUS
  <2>2. QED
    BY <1>3, <2>1, BeginKeeps DEF BeginCancel, PickingOps, CarriesUser, CarriesUnits, CarriesCut, AsRead, UnitsAsRead
<1>4. CASE BeginDeliver(s, u) \/ BeginReturned(s, u) \/ BeginAcceptReturn(s, u)
  <2>1. PICK op \in {"deliver", "returned", "acceptReturn"} : Begin(s, [op |-> op, by |-> u])
    BY <1>4 DEF BeginDeliver, BeginReturned, BeginAcceptReturn
  <2>2. PICK q : q = [op |-> op, by |-> u]
    OBVIOUS
  <2>3. QED
    BY <2>1, <2>2, BeginKeeps DEF PickingOps, CarriesUser, CarriesUnits, CarriesCut, AsRead, UnitsAsRead
<1>5. CASE \E v \in Pickers : BeginAssign(s, u, v) \/ BeginDelegateReturn(s, u, v)
  <2>1. PICK op \in {"assign", "delegateReturn"}, v \in Pickers : Begin(s, [op |-> op, by |-> u, to |-> v])
    BY <1>5 DEF BeginAssign, BeginDelegateReturn
  <2>2. PICK q : q = [op |-> op, by |-> u, to |-> v]
    OBVIOUS
  <2>3. QED
    BY <2>1, <2>2, BeginKeeps DEF PickingOps, CarriesUser, CarriesUnits, CarriesCut, AsRead, UnitsAsRead
<1>6. CASE \E mode \in Modes : BeginAsk(s, u, mode)
  <2>1. PICK mode \in Modes : BeginAsk(s, u, mode)
    BY <1>6
  <2>2. PICK q : q = [op |-> "ask", by |-> u, mode |-> mode]
    OBVIOUS
  <2>3. QED
    BY <2>1, <2>2, BeginKeeps DEF BeginAsk, PickingOps, CarriesUser, CarriesUnits, CarriesCut, AsRead, UnitsAsRead
<1>7. CASE \E mode \in Modes, v \in Pickers : BeginDelegate(s, u, v, mode)
  <2>1. PICK mode \in Modes, v \in Pickers : BeginDelegate(s, u, v, mode)
    BY <1>7
  <2>2. PICK q : q = [op |-> "delegate", by |-> u, to |-> v, mode |-> mode]
    OBVIOUS
  <2>3. QED
    BY <2>1, <2>2, BeginKeeps DEF BeginDelegate, PickingOps, CarriesUser, CarriesUnits, CarriesCut, AsRead, UnitsAsRead
<1>8. CASE \E ask \in asked, approved \in BOOLEAN : BeginResolve(s, u, ask, approved)
  <2>1. PICK ask \in asked, approved \in BOOLEAN : BeginResolve(s, u, ask, approved)
    BY <1>8
  <2>2. PICK q : q = [op |-> "resolve", by |-> u, ask |-> ask, approved |-> approved]
    OBVIOUS
  <2>3. ask \in Pickers \X Modes
    BY DEF PickingSound, PickingRows
  <2>4. QED
    BY <2>1, <2>2, <2>3, BeginKeeps DEF BeginResolve, PickingOps, CarriesUser, CarriesUnits, CarriesCut, AsRead, UnitsAsRead
<1>9. QED
  BY <1>1, <1>2, <1>3, <1>4, <1>5, <1>6, <1>7, <1>8

LEMMA BeginUnits ==
    ASSUME PickingSound, NEW s \in Slots, NEW u \in Pickers,
           \/ BeginPickAll(s, u)
           \/ \E want \in Units : BeginPick(s, u, want) \/ BeginPickVariant(s, u, want)
           \/ \E quantity \in Units \ {0} : BeginAskUnpick(s, u, quantity)
    PROVE  PickingSound'
<1>0. picked \in Units /\ picked \in Nat /\ units[u] \in Nat /\ Quantity \in Units /\ Units \subseteq Nat
  BY QuantityIsNat DEF PickingSound, PickingRows, Units
<1>1. CASE BeginPickAll(s, u)
  <2>1. PICK q : q = Plan("pickAll", u, Quantity)
    OBVIOUS
  <2>2. NextPicker(u) = primary /\ handler = primary /\ primary \in Pickers
    BY <1>1, PickerRead DEF BeginPickAll
  <2>3. QED
    BY <1>1, <2>1, <2>2, BeginKeeps DEF BeginPickAll, Plan, PickingOps, CarriesUser, CarriesUnits, CarriesCut, AsRead, UnitsAsRead
<1>2. CASE \E want \in Units : BeginPick(s, u, want) \/ BeginPickVariant(s, u, want)
  <2>1. PICK op \in {"pick", "pickVariant"}, want \in Units :
           /\ session # "NONE" /\ Begin(s, Plan(op, u, want))
           /\ want < picked => MayTake(u, picked - want)
    BY <1>2 DEF BeginPick, BeginPickVariant
  <2>2. PICK q : q = Plan(op, u, want)
    OBVIOUS
  <2>3. NextPicker(u) = primary /\ handler = primary /\ primary \in Pickers
    BY <2>1, PickerRead
  <2>4. want \in Nat /\ want - picked \in Int /\ units[u] + (want - picked) >= 0 /\ picked + (want - picked) = want
    BY <1>0, <2>1 DEF MayTake
  <2>5. q.op = op /\ q.by = u /\ q.want = want /\ q.delta = want - picked /\ q.next = primary
        /\ q.order = primary /\ q.session = primary
    BY <2>2, <2>3 DEF Plan
  <2>6. CarriesUser(q) /\ CarriesUnits(q) /\ CarriesCut(q) /\ AsRead(q)
    BY <2>1, <2>3, <2>4, <2>5 DEF CarriesUser, CarriesUnits, CarriesCut, AsRead
  <2>7. UnitsAsRead(q)
    BY <2>1, <2>4, <2>5 DEF UnitsAsRead
  <2>8. QED
    BY <2>1, <2>2, <2>5, <2>6, <2>7, BeginKeeps DEF PickingOps
<1>3. CASE \E quantity \in Units \ {0} : BeginAskUnpick(s, u, quantity)
  <2>1. PICK quantity \in Units \ {0} : BeginAskUnpick(s, u, quantity)
    BY <1>3
  <2>2. PICK q : q = [op |-> "askUnpick", by |-> u, quantity |-> quantity]
    OBVIOUS
  <2>3. QED
    BY <2>1, <2>2, BeginKeeps DEF BeginAskUnpick, PickingOps, CarriesUser, CarriesUnits, CarriesCut, AsRead, UnitsAsRead
<1>4. QED
  BY <1>1, <1>2, <1>3

\* The units of a request that is approved are there, and its shares add up.
LEMMA BeginUnpick ==
    ASSUME PickingSound, NEW s \in Slots, NEW u \in Pickers, NEW w \in wanted, NEW approved \in BOOLEAN,
           BeginResolveUnpick(s, u, w, approved)
    PROVE  PickingSound'
<1>0. /\ picked \in Units /\ picked \in Nat /\ Units \subseteq Nat /\ w \in Wants
      /\ w.by \in Pickers /\ w.quantity \in Units /\ units \in [Pickers -> Nat] /\ session # "NONE"
  BY QuantityIsNat DEF PickingSound, PickingRows, WhoPicks, Wants, Units
<1>1. CASE approved
  <2>1. PICK cut \in Reductions(u, w) :
           Begin(s, [op |-> "resolveUnpick", by |-> u, w |-> w, approved |-> TRUE,
                     cut |-> cut, next |-> picked - w.quantity])
    BY <1>1 DEF BeginResolveUnpick
  <2>2. PICK q : q = [op |-> "resolveUnpick", by |-> u, w |-> w, approved |-> TRUE,
                      cut |-> cut, next |-> picked - w.quantity]
    OBVIOUS
  <2>3. w.quantity <= picked - units[w.by] /\ units[w.by] \in Nat
    BY <1>0, <1>1 DEF BeginResolveUnpick
  <2>4. picked - w.quantity \in Units
    BY <1>0, <2>3, QuantityIsNat DEF Units
  <2>5. /\ cut \in [Pickers -> Nat] /\ \A v \in Pickers : cut[v] <= units[v]
        /\ SumOf(cut, Pickers) = w.quantity
    <3>1. cut \in [Pickers -> 0..w.quantity] /\ (\A v \in Pickers : cut[v] <= units[v])
          /\ MapThenSumSet(LAMBDA v : cut[v], Pickers) = w.quantity
      BY DEF Reductions
    <3>2. cut \in [Pickers -> Nat]
      BY <3>1
    <3>3. QED
      BY <3>1, <3>2 DEF SumOf
  <2>6. /\ q.op = "resolveUnpick" /\ q.by = u /\ q.w = w /\ q.cut = cut /\ q.next = picked - w.quantity
    BY <2>2
  <2>7. CarriesUser(q) /\ CarriesUnits(q) /\ AsRead(q)
    BY <1>0, <2>6 DEF CarriesUser, CarriesUnits, AsRead
  <2>8. CarriesCut(q) /\ UnitsAsRead(q)
    BY <2>4, <2>5, <2>6 DEF CarriesCut, UnitsAsRead
  <2>9. QED
    BY <2>1, <2>2, <2>6, <2>7, <2>8, BeginKeeps DEF PickingOps
<1>2. CASE ~approved
  <2>1. PICK q : q = [op |-> "resolveUnpick", by |-> u, w |-> w, approved |-> FALSE]
    OBVIOUS
  <2>2. Begin(s, q)
    BY <1>2, <2>1 DEF BeginResolveUnpick
  <2>3. q.op = "resolveUnpick" /\ q.by = u /\ q.w = w
    BY <2>1
  <2>4. ~q.approved
    BY <2>1, Zenon
  <2>5. CarriesUser(q) /\ CarriesUnits(q) /\ AsRead(q)
    BY <1>0, <2>3 DEF CarriesUser, CarriesUnits, AsRead
  <2>6. CarriesCut(q) /\ UnitsAsRead(q)
    BY <2>3, <2>4 DEF CarriesCut, UnitsAsRead
  <2>7. QED
    BY <2>2, <2>3, <2>5, <2>6, BeginKeeps DEF PickingOps
<1>3. QED
  BY <1>1, <1>2

-----------------------------------------------------------------------------
(* The requests commit.                                                       *)

LEMMA UnitsKeep ==
    ASSUME PickingSound, UNCHANGED <<units, picked>>, NEW s \in Slots
    PROVE  CreditHolds' /\ LeavesUnits(s)
<1>1. CreditHolds'
  BY DEF PickingSound, CreditHolds
<1>2. \A u \in Pickers : units'[u] >= units[u]
  BY DEF PickingSound, PickingRows
<1>3. QED
  BY <1>1, <1>2 DEF LeavesUnits

\* Without a change to the units.
LEMMA EndPlain ==
    ASSUME PickingSound, NEW s \in Slots, flight[s] # None, End(s), UNCHANGED <<units, picked>>,
           PickingRows', WhoPicks', session # "NONE" => session' # "NONE"
    PROVE  PickingSound'
  BY UnitsKeep, EndKeeps

LEMMA RefuseKeeps ==
    ASSUME PickingSound, NEW s \in Slots, flight[s] # None, Refuse(s)
    PROVE  PickingSound'
<1>1. End(s) /\ UNCHANGED orderVars
  BY DEF Refuse
<1>2. PickingRows' /\ WhoPicks'
  BY <1>1 DEF PickingSound, PickingRows, WhoPicks, NothingLeftOpen, orderVars
<1>3. QED
  BY <1>1, <1>2, EndPlain DEF orderVars

LEMMA StartStep ==
    ASSUME PickingSound, NEW s \in Slots, StartOrderPicking(s)
    PROVE  PickingSound'
<1> DEFINE who == flight[s].who
<1>1. flight[s] # None /\ who \in Pickers /\ flight[s].by \in Pickers
  BY NoRequest DEF StartOrderPicking, Is, PickingSound, FlightHolds, CarriesUser, PickingOps
<1>2. units \in [Pickers -> Nat] /\ picked \in Nat /\ SumOf(units, Pickers) = Total
  BY QuantityIsNat DEF PickingSound, PickingRows, Units, SumOf, Total
<1>3. PickingRows'
  <2>1. units' \in [Pickers -> Nat]
    BY <1>1, <1>2 DEF StartOrderPicking
  <2>2. QED
    BY <1>1, <2>1 DEF StartOrderPicking, PickingSound, PickingRows, Pickable, Working
<1>4. WhoPicks'
  BY <1>1 DEF StartOrderPicking, PickingSound, WhoPicks, NothingLeftOpen, Closed
<1>5. Careful => SumOf(units', Pickers) = picked /\ \A u \in Pickers : units'[u] >= units[u]
  <2>1. SUFFICES ASSUME Careful
                 PROVE  SumOf(units', Pickers) = picked /\ \A u \in Pickers : units'[u] >= units[u]
    OBVIOUS
  <2>2. SumOf(units, Pickers) = picked
    BY <2>1 DEF PickingSound, CreditHolds
  <2>3. CASE Total = 0
    <3>1. units' = [units EXCEPT ![who] = picked]
      BY <2>3 DEF StartOrderPicking
    <3>0. IsFiniteSet(Pickers)
      BY PickingTeamAssumption
    <3>2. \A u \in Pickers : units[u] = 0
      <4>1. SumOf(units, Pickers) = 0
        BY <1>2, <2>3
      <4>2. QED
        BY <1>2, <3>0, <4>1, SumNought
    <3>3. /\ units' \in [Pickers -> Nat] /\ units'[who] = picked
          /\ \A u \in Pickers : u # who => units'[u] = units[u]
      BY <1>1, <1>2, <3>1
    <3>4. SumOf(units', Pickers) = SumOf(units, Pickers) - units[who] + units'[who]
      BY <1>1, <1>2, <3>0, <3>3, SumChange
    <3>5. units[who] = 0 /\ SumOf(units', Pickers) = picked
      <4>1. units[who] = 0 /\ units'[who] = 0 /\ SumOf(units, Pickers) = 0 /\ picked = 0
        BY <1>1, <1>2, <2>2, <2>3, <3>2, <3>3
      <4>2. QED
        BY <3>4, <4>1
    <3>6. \A u \in Pickers : units'[u] >= units[u]
      BY <3>2, <3>3
    <3>7. QED
      BY <3>5, <3>6
  <2>4. CASE Total # 0
    <3>1. units' = units
      BY <2>4 DEF StartOrderPicking
    <3>2. QED
      BY <1>2, <2>2, <3>1
  <2>5. QED
    BY <2>3, <2>4
<1>6. picked' = picked /\ session' # "NONE" /\ End(s)
  BY DEF StartOrderPicking
<1>7. CreditHolds' /\ LeavesUnits(s)
  BY <1>5, <1>6 DEF CreditHolds, LeavesUnits
<1>8. QED
  BY <1>1, <1>3, <1>4, <1>6, <1>7, EndKeeps

LEMMA TakesOverKeeps ==
    ASSUME PickingSound, NEW v \in Pickers, TakesOver(v), NEW s \in Slots, flight[s] # None, End(s),
           UNCHANGED <<stage, session, picked, units, wanted, goods>>, asked' \subseteq asked
    PROVE  PickingSound'
<1>1. PickingRows'
  BY DEF TakesOver, PickingSound, PickingRows
<1>2. WhoPicks'
  BY DEF TakesOver, PickingSound, WhoPicks, NothingLeftOpen
<1>3. QED
  BY <1>1, <1>2, EndPlain

LEMMA JoinsKeeps ==
    ASSUME PickingSound, NEW s \in Slots, flight[s] # None, End(s), team' \subseteq Pickers,
           UNCHANGED <<stage, session, primary, handler, picked, units, wanted, goods>>, asked' \subseteq asked
    PROVE  PickingSound'
<1>1. PickingRows'
  BY DEF PickingSound, PickingRows
<1>2. WhoPicks'
  BY DEF PickingSound, WhoPicks, NothingLeftOpen
<1>3. QED
  BY <1>1, <1>2, EndPlain

LEMMA DeskSteps ==
    ASSUME PickingSound, NEW s \in Slots,
           \/ AssignResponsible(s) \/ DelegatePickingResponsibility(s)
           \/ ResolvePickingResponsibilityRequest(s)
    PROVE  PickingSound'
<1>0. Carries(flight[s]) /\ team \subseteq Pickers
  BY DEF PickingSound, FlightHolds, PickingRows
<1>1. CASE AssignResponsible(s)
  <2>1. flight[s] # None /\ flight[s].to \in Pickers
    BY <1>0, <1>1, NoRequest DEF AssignResponsible, Is, CarriesUser, PickingOps
  <2>2. QED
    BY <1>1, <2>1, TakesOverKeeps DEF AssignResponsible
<1>2. CASE DelegatePickingResponsibility(s)
  <2>1. flight[s] # None /\ flight[s].to \in Pickers
    BY <1>0, <1>2, NoRequest DEF DelegatePickingResponsibility, Is, CarriesUser, PickingOps
  <2>2. asked' \subseteq asked /\ End(s) /\ UNCHANGED <<stage, session, picked, units, wanted, goods>>
    BY <1>2 DEF DelegatePickingResponsibility
  <2>3. CASE flight[s].mode = "TRANSFER"
    BY <1>2, <2>1, <2>2, <2>3, TakesOverKeeps DEF DelegatePickingResponsibility
  <2>4. CASE flight[s].mode # "TRANSFER"
    BY <1>0, <1>2, <2>1, <2>2, <2>4, JoinsKeeps DEF DelegatePickingResponsibility, Joins
  <2>5. QED
    BY <2>3, <2>4
<1>3. CASE ResolvePickingResponsibilityRequest(s)
  <2>1. flight[s] # None /\ flight[s].ask \in Pickers \X Modes
    BY <1>0, <1>3, NoRequest DEF ResolvePickingResponsibilityRequest, Is, CarriesUser, PickingOps
  <2>2. asked' \subseteq asked /\ End(s) /\ UNCHANGED <<stage, session, picked, units, wanted, goods>>
    BY <1>3 DEF ResolvePickingResponsibilityRequest
  <2>3. flight[s].ask[1] \in Pickers
    BY <2>1
  <2>4. TakesOver(flight[s].ask[1]) \/ (team' \subseteq Pickers /\ UNCHANGED <<primary, handler>>)
    BY <1>0, <1>3, <2>3 DEF ResolvePickingResponsibilityRequest, Joins
  <2>5. QED
    BY <2>1, <2>2, <2>3, <2>4, TakesOverKeeps, JoinsKeeps
<1>4. QED
  BY <1>1, <1>2, <1>3

\* What is asked for when nobody else may be at work is asked for of an order
\* that is being picked.
LEMMA AskSteps ==
    ASSUME PickingSound, NEW s \in Slots,
           RequestPickingResponsibility(s) \/ RequestPickingUnpickAction(s)
    PROVE  PickingSound'
<1>0. Carries(flight[s]) /\ AsRead(flight[s])
  BY DEF PickingSound, FlightHolds, AllAsRead
<1>1. CASE RequestPickingResponsibility(s)
  <2>1. flight[s] # None /\ flight[s].by \in Pickers /\ flight[s].mode \in Modes
    BY <1>0, <1>1, NoRequest DEF RequestPickingResponsibility, Is, CarriesUser, PickingOps
  <2>2. AsksAlone => stage \in Pickable
    BY <1>0, <1>1 DEF RequestPickingResponsibility, Is, AsRead
  <2>3. PickingRows'
    BY <1>1, <2>1 DEF RequestPickingResponsibility, PickingSound, PickingRows
  <2>4. WhoPicks'
    BY <1>1, <2>2 DEF RequestPickingResponsibility, PickingSound, WhoPicks, NothingLeftOpen, Pickable, Working, Closed
  <2>5. QED
    BY <1>1, <2>1, <2>3, <2>4, EndPlain DEF RequestPickingResponsibility
<1>2. CASE RequestPickingUnpickAction(s)
  <2>1. flight[s] # None /\ flight[s].by \in Pickers /\ flight[s].quantity \in Units
    BY <1>0, <1>2, NoRequest DEF RequestPickingUnpickAction, Is, CarriesUnits, PickingOps
  <2>2. (AsksAlone => stage \in Pickable) /\ session # "NONE"
    BY <1>0, <1>2 DEF RequestPickingUnpickAction, Is, AsRead
  <2>3. PickingRows'
    BY <1>2, <2>1 DEF RequestPickingUnpickAction, PickingSound, PickingRows, Wants
  <2>4. WhoPicks'
    BY <1>2, <2>2 DEF RequestPickingUnpickAction, PickingSound, WhoPicks, NothingLeftOpen, Pickable, Working, Closed
  <2>5. QED
    BY <1>2, <2>1, <2>3, <2>4, EndPlain DEF RequestPickingUnpickAction
<1>3. QED
  BY <1>1, <1>2

LEMMA EndSteps ==
    ASSUME PickingSound, NEW s \in Slots,
           \/ CompleteOrderPicking(s) \/ CancelOrder(s) \/ DeliverOrder(s) \/ CompleteReturn(s)
           \/ DelegateReturnResponsibility(s) \/ AcceptReturnResponsibility(s)
    PROVE  PickingSound'
<1>0. Carries(flight[s]) /\ PickingRows /\ WhoPicks
  BY DEF PickingSound, FlightHolds
<1>1. CASE CompleteOrderPicking(s)
  <2>1. flight[s] # None /\ flight[s].who \in Pickers
    BY <1>0, <1>1, NoRequest DEF CompleteOrderPicking, Is, CarriesUser, PickingOps
  <2>2. CASE stage \notin Working
    BY <1>1, <2>1, <2>2, RefuseKeeps DEF CompleteOrderPicking
  <2>3. CASE stage \in Working
    <3>1. PickingRows' /\ WhoPicks'
      BY <1>0, <1>1, <2>1, <2>3 DEF CompleteOrderPicking, PickingRows, WhoPicks, NothingLeftOpen, Pickable, Closed
    <3>2. QED
      BY <1>1, <2>1, <2>3, <3>1, EndPlain DEF CompleteOrderPicking
  <2>4. QED
    BY <2>2, <2>3
<1>2. CASE CancelOrder(s)
  <2>1. flight[s] # None /\ flight[s].by \in Pickers
    BY <1>0, <1>2, NoRequest DEF CancelOrder, Is, PickingOps
  <2>2. CASE stage # flight[s].stage
    BY <1>2, <2>1, <2>2, RefuseKeeps DEF CancelOrder
  <2>3. CASE stage = flight[s].stage
    <3>1. SessionStopped /\ End(s) /\ UNCHANGED <<primary, handler, picked, units>>
      BY <1>2, <2>3 DEF CancelOrder
    <3>2. CASE picked = 0
      <4>1. stage' = "CANCELLED" /\ goods' = [NoGoods EXCEPT !.from = flight[s].by] /\ ArtifactsCancelled
        BY <1>2, <2>3, <3>2 DEF CancelOrder
      <4>2. PickingRows' /\ WhoPicks'
        BY <1>0, <2>1, <3>1, <4>1 DEF SessionStopped, ArtifactsCancelled, PickingRows, WhoPicks, NothingLeftOpen, Closed, Goods, NoGoods
      <4>3. QED
        BY <2>1, <3>1, <4>2, EndPlain DEF SessionStopped
    <3>3. CASE picked # 0
      <4>1. /\ stage' = "RETURN_PENDING"
            /\ goods' = [NoGoods EXCEPT !.who = flight[s].by, !.from = flight[s].by, !.status = "ACCEPTED"]
            /\ UNCHANGED <<team, asked, wanted>>
        BY <1>2, <2>3, <3>3 DEF CancelOrder
      <4>2. PickingRows' /\ WhoPicks'
        BY <1>0, <2>1, <3>1, <4>1 DEF SessionStopped, PickingRows, WhoPicks, NothingLeftOpen, Closed, Goods, NoGoods
      <4>3. QED
        BY <2>1, <3>1, <4>2, EndPlain DEF SessionStopped
    <3>4. QED
      BY <3>2, <3>3
  <2>4. QED
    BY <2>2, <2>3
<1>3. CASE DeliverOrder(s)
  <2>1. flight[s] # None
    BY <1>0, <1>3, NoRequest DEF DeliverOrder, Is, PickingOps
  <2>2. CASE stage # "READY"
    BY <1>3, <2>1, <2>2, RefuseKeeps DEF DeliverOrder
  <2>3. CASE stage = "READY"
    <3>1. PickingRows' /\ WhoPicks'
      BY <1>0, <1>3, <2>3 DEF DeliverOrder, ArtifactsCancelled, PickingRows, WhoPicks, NothingLeftOpen, Closed, Goods, NoGoods
    <3>2. QED
      BY <1>3, <2>1, <2>3, <3>1, EndPlain DEF DeliverOrder
  <2>4. QED
    BY <2>2, <2>3
<1>4. CASE CompleteReturn(s)
  <2>1. flight[s] # None
    BY <1>0, <1>4, NoRequest DEF CompleteReturn, Is, PickingOps
  <2>2. CASE stage # "RETURN_PENDING"
    BY <1>4, <2>1, <2>2, RefuseKeeps DEF CompleteReturn
  <2>3. CASE stage = "RETURN_PENDING"
    <3>1. PickingRows' /\ WhoPicks'
      BY <1>0, <1>4, <2>3 DEF CompleteReturn, SessionStopped, ArtifactsCancelled, PickingRows, WhoPicks, NothingLeftOpen, Closed
    <3>2. QED
      BY <1>4, <2>1, <2>3, <3>1, EndPlain DEF CompleteReturn, SessionStopped
  <2>4. QED
    BY <2>2, <2>3
<1>5. CASE DelegateReturnResponsibility(s)
  <2>1. flight[s] # None /\ flight[s].to \in Pickers /\ flight[s].by \in Pickers
    BY <1>0, <1>5, NoRequest DEF DelegateReturnResponsibility, Is, CarriesUser, PickingOps
  <2>2. PickingRows' /\ WhoPicks'
    BY <1>0, <1>5, <2>1 DEF DelegateReturnResponsibility, PickingRows, WhoPicks, NothingLeftOpen, Goods
  <2>3. QED
    BY <1>5, <2>1, <2>2, EndPlain DEF DelegateReturnResponsibility
<1>6. CASE AcceptReturnResponsibility(s)
  <2>1. flight[s] # None /\ flight[s].by \in Pickers
    BY <1>0, <1>6, NoRequest DEF AcceptReturnResponsibility, Is, PickingOps
  <2>2. PickingRows' /\ WhoPicks'
    BY <1>0, <1>6, <2>1 DEF AcceptReturnResponsibility, PickingRows, WhoPicks, NothingLeftOpen, Goods
  <2>3. QED
    BY <1>6, <2>1, <2>2, EndPlain DEF AcceptReturnResponsibility
<1>7. QED
  BY <1>1, <1>2, <1>3, <1>4, <1>5, <1>6

-----------------------------------------------------------------------------
(* Units change hands.                                                        *)

LEMMA Larger ==
    ASSUME NEW a \in Int, NEW b \in Int
    PROVE  Max({a, b}) = IF a >= b THEN a ELSE b
<1> DEFINE m == IF a >= b THEN a ELSE b
<1>1. m \in {a, b} /\ \A y \in {a, b} : m >= y
  OBVIOUS
<1>2. \A x \in {a, b} : (\A y \in {a, b} : x >= y) => x = m
  OBVIOUS
<1> HIDE DEF m
<1>3. Max({a, b}) = m
  BY <1>1, <1>2 DEF Max
<1>4. QED
  BY <1>3 DEF m

LEMMA Smaller ==
    ASSUME NEW a \in Int, NEW b \in Int
    PROVE  Min({a, b}) = IF a <= b THEN a ELSE b
<1> DEFINE m == IF a <= b THEN a ELSE b
<1>1. m \in {a, b} /\ \A y \in {a, b} : m <= y
  OBVIOUS
<1>2. \A x \in {a, b} : (\A y \in {a, b} : x <= y) => x = m
  OBVIOUS
<1> HIDE DEF m
<1>3. Min({a, b}) = m
  BY <1>1, <1>2 DEF Min
<1>4. QED
  BY <1>3 DEF m

\* A write of a line stays within the line and takes no more than was meant.
LEMMA MovedBounds ==
    ASSUME NEW delta \in Int, picked \in Units
    PROVE  /\ Moved(delta) \in Units
           /\ delta >= 0 => Moved(delta) >= picked
           /\ delta <= 0 => Moved(delta) - picked >= delta
<1> DEFINE low == Min({Quantity, picked + delta})
<1>1. picked \in Nat /\ picked <= Quantity /\ Quantity \in Nat /\ picked + delta \in Int
  BY QuantityIsNat DEF Units
<1>2. low = IF Quantity <= picked + delta THEN Quantity ELSE picked + delta
  BY <1>1, Smaller
<1>3. low \in Int
  BY <1>1, <1>2
<1> HIDE DEF low
<1>4. Max({0, low}) = IF 0 >= low THEN 0 ELSE low
  BY <1>3, Larger
<1>5. Moved(delta) = IF 0 >= low THEN 0 ELSE low
  BY <1>4 DEF Moved, low
<1>6. QED
  BY <1>1, <1>2, <1>3, <1>5 DEF Units

\* The units of one user change, by no more than the user has.
LEMMA CreditKeeps ==
    ASSUME PickingSound, NEW s \in Slots, flight[s].by \in Pickers, NEW delta \in Int,
           units' = Credited(flight[s].by, delta), picked' \in Units,
           Careful => units[flight[s].by] + delta >= 0 /\ picked' = picked + delta
    PROVE  units' \in [Pickers -> Nat] /\ CreditHolds' /\ LeavesUnits(s)
<1> DEFINE u == flight[s].by
           n == Max({0, units[u] + delta})
<1>1. u \in Pickers /\ units \in [Pickers -> Nat] /\ units[u] \in Nat /\ IsFiniteSet(Pickers)
  BY PickingTeamAssumption DEF PickingSound, PickingRows
<1>2. n = IF 0 >= units[u] + delta THEN 0 ELSE units[u] + delta
  BY <1>1, Larger
<1>3. n \in Nat
  BY <1>1, <1>2
<1>4. units' = [units EXCEPT ![u] = n]
  BY DEF Credited
<1> HIDE DEF n, u
<1>5. /\ units' \in [Pickers -> Nat] /\ units'[u] = n
      /\ \A v \in Pickers : v # u => units'[v] = units[v]
  BY <1>1, <1>3, <1>4
<1>6. LeavesUnits(s)
  <2>1. SUFFICES ASSUME NEW v \in Pickers, v # u PROVE units'[v] >= units[v]
    BY DEF LeavesUnits, u
  <2>2. units'[v] = units[v] /\ units[v] \in Nat
    BY <1>1, <1>5, <2>1
  <2>3. QED
    BY <2>2
<1>7. CreditHolds'
  <2>1. SUFFICES ASSUME Careful PROVE SumOf(units', Pickers) = picked'
    BY DEF CreditHolds
  <2>2. SumOf(units, Pickers) = picked
    BY <2>1 DEF PickingSound, CreditHolds
  <2>3. SumOf(units', Pickers) = SumOf(units, Pickers) - units[u] + units'[u]
    BY <1>1, <1>5, SumChange
  <2>4. units'[u] = units[u] + delta /\ picked' = picked + delta
    BY <1>1, <1>2, <1>5, <2>1 DEF u
  <2>5. picked \in Nat
    BY QuantityIsNat DEF PickingSound, PickingRows, Units
  <2>6. QED
    BY <1>1, <2>2, <2>3, <2>4, <2>5
<1>8. QED
  BY <1>5, <1>6, <1>7

\* What a write of a line does apart from the units.
LEMMA WriteKeeps ==
    ASSUME PickingSound, NEW s \in Slots,
           flight[s].op \in {"pick", "pickAll", "pickVariant"}, PickerWritten(s), Reopened, End(s),
           UNCHANGED <<team, asked, wanted, goods>>, picked' \in Units,
           units' \in [Pickers -> Nat], CreditHolds', LeavesUnits(s)
    PROVE  PickingSound'
<1>1. flight[s] # None /\ CarriesUnits(flight[s]) /\ AsRead(flight[s])
  BY NoRequest DEF PickingSound, FlightHolds, AllAsRead, PickingOps
<1>2. UNCHANGED <<primary, handler>> /\ session # "NONE"
  BY <1>1 DEF PickerWritten, Written, CarriesUnits, AsRead
<1>3. PickingRows'
  BY <1>2 DEF PickingSound, PickingRows, Reopened, Pickable, Working
<1>4. WhoPicks'
  BY <1>2 DEF PickingSound, WhoPicks, NothingLeftOpen, Reopened, Closed
<1>5. session' # "NONE"
  BY DEF Reopened
<1>6. QED
  BY <1>1, <1>3, <1>4, <1>5, EndKeeps

LEMMA WriteSteps ==
    ASSUME PickingSound, NEW s \in Slots,
           UpdatePickingOrderItem(s) \/ PickAllAvailableForOrder(s) \/ UpdatePickingItem(s)
    PROVE  PickingSound'
<1> DEFINE q == flight[s]
<1>1. /\ q.op \in {"pick", "pickAll", "pickVariant"} /\ q # None /\ q.by \in Pickers
      /\ CarriesUnits(q) /\ Carries(q)
  BY NoRequest DEF PickingSound, FlightHolds, UpdatePickingOrderItem, PickAllAvailableForOrder,
                   UpdatePickingItem, Is, PickingOps
<1>2. picked \in Units /\ Units \subseteq Int /\ Quantity \in Units /\ picked <= Quantity
  BY QuantityIsNat DEF PickingSound, PickingRows, Units
<1>3. CASE ~PickableNow
  BY <1>1, <1>3, RefuseKeeps DEF UpdatePickingOrderItem, PickAllAvailableForOrder, UpdatePickingItem
<1>4. CASE PickableNow
  <2>1. PickerWritten(s) /\ Reopened /\ End(s) /\ UNCHANGED <<team, asked, wanted, goods>>
    BY <1>4 DEF UpdatePickingOrderItem, PickAllAvailableForOrder, UpdatePickingItem
  <2>2. CASE UpdatePickingOrderItem(s)
    <3>1. q.delta \in Int /\ q.op = "pick"
      BY <1>1, <2>2 DEF UpdatePickingOrderItem, Is, CarriesUnits
    <3>2. picked' = Moved(q.delta) /\ units' = Credited(q.by, picked' - picked)
      BY <1>4, <2>2 DEF UpdatePickingOrderItem, Credit
    <3>3. /\ picked' \in Units
          /\ q.delta >= 0 => picked' >= picked
          /\ q.delta <= 0 => picked' - picked >= q.delta
      BY <1>2, <3>1, <3>2, MovedBounds
    <3>4. PICK delta \in Int : delta = picked' - picked /\ picked' = picked + delta
      <4>1. PICK m \in Int, n \in Int : m = picked' /\ n = picked
        BY <1>2, <3>3
      <4>2. n - m \in Int /\ m - n \in Int /\ m = n + (m - n)
        OBVIOUS
      <4>3. QED
        BY <4>1, <4>2
    <3>5. Careful => units[q.by] + delta >= 0
      <4>1. SUFFICES ASSUME Careful PROVE units[q.by] + delta >= 0
        OBVIOUS
      <4>2. units[q.by] \in Nat /\ units[q.by] + q.delta >= 0
        BY <1>1, <3>1, <4>1 DEF PickingSound, PickingRows, UnitsAllAsRead, UnitsAsRead
      <4>3. q.delta <= 0 => delta >= q.delta
        BY <3>3, <3>4
      <4>4. q.delta >= 0 => delta >= 0
        <5>1. PICK m \in Int, n \in Int : m = picked' /\ n = picked
          BY <1>2, <3>3
        <5>2. q.delta >= 0 => m >= n
          BY <3>3, <5>1
        <5>3. m = n + delta
          BY <3>4, <5>1
        <5>4. QED
          BY <5>1, <5>2, <5>3
      <4>5. QED
        BY <3>1, <4>2, <4>3, <4>4
    <3>7. units' \in [Pickers -> Nat] /\ CreditHolds' /\ LeavesUnits(s)
      BY <1>1, <3>2, <3>3, <3>4, <3>5, CreditKeeps
    <3>8. QED
      BY <1>1, <2>1, <3>3, <3>7, WriteKeeps
  <2>3. CASE PickAllAvailableForOrder(s)
    <3>1. picked' = Quantity /\ units' = Credited(q.by, picked' - picked)
      BY <1>4, <2>3 DEF PickAllAvailableForOrder, Credit
    <3>2. PICK delta \in Int : delta = picked' - picked
      BY <1>2, <3>1
    <3>3. delta >= 0 /\ picked' = picked + delta /\ units[q.by] \in Nat
      <4>1. units[q.by] \in Nat
        BY <1>1 DEF PickingSound, PickingRows
      <4>2. delta = Quantity - picked /\ Quantity \in Int /\ picked \in Int
        BY <1>2, <3>1, <3>2
      <4>3. QED
        BY <1>2, <3>1, <4>1, <4>2
    <3>4. units[q.by] + delta >= 0
      BY <3>3
    <3>5. units' \in [Pickers -> Nat] /\ CreditHolds' /\ LeavesUnits(s)
      BY <1>1, <1>2, <3>1, <3>2, <3>3, <3>4, CreditKeeps
    <3>6. QED
      BY <1>1, <1>2, <2>1, <3>1, <3>5, WriteKeeps
  <2>4. CASE UpdatePickingItem(s)
    <3>1. q.delta \in Int /\ q.want \in Units /\ q.op = "pickVariant"
      BY <1>1, <2>4 DEF UpdatePickingItem, Is, CarriesUnits
    <3>2. picked' = q.want /\ units' = Credited(q.by, q.delta)
      BY <1>4, <2>4 DEF UpdatePickingItem
    <3>3. Careful => units[q.by] + q.delta >= 0 /\ picked' = picked + q.delta
      BY <1>1, <3>1, <3>2 DEF PickingSound, UnitsAllAsRead, UnitsAsRead
    <3>4. units' \in [Pickers -> Nat] /\ CreditHolds' /\ LeavesUnits(s)
      BY <1>1, <3>1, <3>2, <3>3, CreditKeeps
    <3>5. QED
      BY <1>1, <2>1, <3>1, <3>2, <3>4, WriteKeeps
  <2>5. QED
    BY <2>2, <2>3, <2>4
<1>5. QED
  BY <1>3, <1>4

\* Units of several users are taken back at once.
LEMMA UnpickStep ==
    ASSUME PickingSound, NEW s \in Slots, ResolvePickingUnpickAction(s)
    PROVE  PickingSound'
<1> DEFINE q == flight[s]
<1>1. /\ q.op = "resolveUnpick" /\ q # None /\ q.by \in Pickers /\ q.w \in Wants
      /\ CarriesCut(q) /\ session # "NONE"
  BY NoRequest DEF PickingSound, FlightHolds, ResolvePickingUnpickAction, Is, PickingOps,
                   CarriesUnits, AllAsRead, AsRead
<1>2. /\ wanted' = wanted \ {q.w} /\ End(s)
      /\ UNCHANGED <<primary, handler, team, asked, goods>>
  BY DEF ResolvePickingUnpickAction
<1>3. CASE ~q.approved
  <2>1. UNCHANGED <<picked, units, session, stage>>
    BY <1>3 DEF ResolvePickingUnpickAction
  <2>2. PickingRows' /\ WhoPicks'
    BY <1>2, <2>1 DEF PickingSound, PickingRows, WhoPicks, NothingLeftOpen
  <2>3. QED
    BY <1>1, <1>2, <2>1, <2>2, EndPlain
<1>4. CASE q.approved
  <2>1. /\ picked' = q.next /\ Reopened
        /\ units' = [u \in Pickers |-> Max({0, units[u] - q.cut[u]})]
    BY <1>4 DEF ResolvePickingUnpickAction
  <2>2. q.next \in Units /\ q.cut \in [Pickers -> Nat] /\ SumOf(q.cut, Pickers) = q.w.quantity
    BY <1>1, <1>4 DEF CarriesCut
  <2>3. units \in [Pickers -> Nat] /\ IsFiniteSet(Pickers)
    BY PickingTeamAssumption DEF PickingSound, PickingRows
  <2>4. \A u \in Pickers : Max({0, units[u] - q.cut[u]}) = IF 0 >= units[u] - q.cut[u] THEN 0 ELSE units[u] - q.cut[u]
    <3>1. SUFFICES ASSUME NEW u \in Pickers
                   PROVE  Max({0, units[u] - q.cut[u]}) = IF 0 >= units[u] - q.cut[u] THEN 0 ELSE units[u] - q.cut[u]
      OBVIOUS
    <3>2. units[u] - q.cut[u] \in Int
      BY <2>2, <2>3
    <3>3. QED
      BY <3>2, Larger
  <2>5. units' \in [Pickers -> Nat]
    <3>1. \A u \in Pickers : Max({0, units[u] - q.cut[u]}) \in Nat
      BY <2>2, <2>3, <2>4
    <3>2. QED
      BY <2>1, <3>1
  <2>6. CreditHolds'
    <3>1. SUFFICES ASSUME Careful PROVE SumOf(units', Pickers) = picked'
      BY DEF CreditHolds
    <3>2. q.next = picked - q.w.quantity /\ \A v \in Pickers : q.cut[v] <= units[v]
      BY <1>1, <1>4, <3>1 DEF PickingSound, UnitsAllAsRead, UnitsAsRead
    <3>3. units' = [u \in Pickers |-> units[u] - q.cut[u]]
      <4>1. \A u \in Pickers : Max({0, units[u] - q.cut[u]}) = units[u] - q.cut[u]
        BY <2>2, <2>3, <2>4, <3>2
      <4>2. QED
        BY <2>1, <4>1
    <3>4. SumOf(units', Pickers) = SumOf(units, Pickers) - SumOf(q.cut, Pickers)
      BY <2>2, <2>3, <3>2, <3>3, SumMinus
    <3>5. SumOf(units, Pickers) = picked
      BY <3>1 DEF PickingSound, CreditHolds
    <3>6. QED
      BY <2>1, <2>2, <3>2, <3>4, <3>5
  <2>7. LeavesUnits(s)
    BY <1>1 DEF LeavesUnits, Careful
  <2>8. PickingRows'
    BY <1>2, <2>1, <2>2, <2>5 DEF PickingSound, PickingRows, Reopened, Pickable, Working
  <2>9. WhoPicks'
    BY <1>1, <1>2, <2>1 DEF PickingSound, WhoPicks, NothingLeftOpen, Reopened, Closed
  <2>10. session' # "NONE"
    BY <2>1 DEF Reopened
  <2>11. QED
    BY <1>1, <1>2, <2>6, <2>7, <2>8, <2>9, <2>10, EndKeeps
<1>5. QED
  BY <1>3, <1>4

-----------------------------------------------------------------------------
(* What the pickers may rely on.                                              *)

LEMMA PickingSteps ==
    ASSUME PickingSound, [PickingTeamNext]_teamVars
    PROVE  PickingSound'
<1>1. CASE UNCHANGED teamVars
  BY <1>1 DEF teamVars, PickingSound, PickingRows, WhoPicks, NothingLeftOpen, CreditHolds, FlightHolds,
              Carries, Apart, AllAsRead, AsRead, UnitsAllAsRead, UnitsAsRead
<1>2. ASSUME NEW s \in Slots, Commit(s) PROVE PickingSound'
  BY <1>2, StartStep, DeskSteps, AskSteps, EndSteps, WriteSteps, UnpickStep DEF Commit
<1>3. ASSUME NEW s \in FreeSlots, NEW u \in Pickers, Arrive(s, u) PROVE PickingSound'
  <2>1. s \in Slots
    BY DEF FreeSlots
  <2>2. QED
    BY <1>3, <2>1, BeginWho, BeginUnits, BeginUnpick DEF Arrive
<1>4. QED
  BY <1>1, <1>2, <1>3 DEF PickingTeamNext

LEMMA StepOfTeam ==
    ASSUME [TeamNext]_<<part, teamVars, boardVars, proformaVars>>
    PROVE  [PickingTeamNext]_teamVars /\ [TaskBoardNext]_boardVars /\ [ProformaNext]_proformaVars
  BY DEF TeamNext

LEMMA PickingIsSound == TeamSpec => []PickingSound
<1>1. TeamInit => PickingSound
  BY PickingBegins DEF TeamInit
<1>2. PickingSound /\ [TeamNext]_<<part, teamVars, boardVars, proformaVars>> => PickingSound'
  BY StepOfTeam, PickingSteps
<1>3. QED
  BY <1>1, <1>2, PTL DEF TeamSpec

\* While nobody sends two requests at once, and the two endpoints that write what
\* they read run alone, every picked unit is credited to exactly one user,
\* whatever else overlaps.
THEOREM UnitsAlwaysCredited ==
    ASSUME Careful
    PROVE  TeamSpec => []UnitsCredited
<1>1. PickingSound => UnitsCredited
  BY DEF PickingSound, CreditHolds, UnitsCredited, Total, SumOf
<1>2. QED
  BY <1>1, PickingIsSound, PTL

\* Nothing is left open at the desk of the pickers while asking for help runs
\* alone; the order and its session name one user in any case.
LEMMA DeskHolds ==
    /\ PickingSound => SamePicker
    /\ PickingSound /\ AsksAlone => DeskAgrees
  BY DEF PickingSound, WhoPicks, SamePicker, DeskAgrees

LEMMA OthersKeepPicker ==
    ASSUME CompletesAlone, PickingSound, NEW s \in Slots,
           \/ RequestPickingResponsibility(s) \/ UpdatePickingOrderItem(s)
           \/ PickAllAvailableForOrder(s) \/ UpdatePickingItem(s)
           \/ RequestPickingUnpickAction(s) \/ ResolvePickingUnpickAction(s)
           \/ CompleteOrderPicking(s) \/ CancelOrder(s) \/ DeliverOrder(s) \/ CompleteReturn(s)
           \/ DelegateReturnResponsibility(s) \/ AcceptReturnResponsibility(s)
    PROVE  primary' = primary
<1>1. CASE UpdatePickingOrderItem(s) \/ PickAllAvailableForOrder(s) \/ UpdatePickingItem(s)
  <2>1. flight[s].op \in {"pick", "pickAll", "pickVariant"}
    BY <1>1 DEF UpdatePickingOrderItem, PickAllAvailableForOrder, UpdatePickingItem, Is
  <2>2. flight[s].order = flight[s].next
    BY <2>1, NoRequest DEF PickingSound, FlightHolds, CarriesUnits, PickingOps
  <2>3. PickerWritten(s) \/ Refuse(s)
    BY <1>1 DEF UpdatePickingOrderItem, PickAllAvailableForOrder, UpdatePickingItem
  <2>4. QED
    BY <2>2, <2>3 DEF PickerWritten, Written, Refuse, orderVars
<1>2. CASE CompleteOrderPicking(s)
  <2>1. flight[s].who = primary
    BY <1>2 DEF CompleteOrderPicking, Is, PickingSound, AllAsRead, AsRead
  <2>2. QED
    BY <1>2, <2>1 DEF CompleteOrderPicking, Refuse, orderVars
<1>3. CASE CancelOrder(s) \/ DeliverOrder(s) \/ CompleteReturn(s)
  BY <1>3 DEF CancelOrder, DeliverOrder, CompleteReturn, Refuse, orderVars
<1>4. CASE \/ RequestPickingResponsibility(s) \/ RequestPickingUnpickAction(s)
           \/ ResolvePickingUnpickAction(s) \/ DelegateReturnResponsibility(s)
           \/ AcceptReturnResponsibility(s)
  BY <1>4 DEF RequestPickingResponsibility, RequestPickingUnpickAction, ResolvePickingUnpickAction,
              DelegateReturnResponsibility, AcceptReturnResponsibility
<1>5. QED
  BY <1>1, <1>2, <1>3, <1>4

\* Work never takes an order over: only a start, an assignment, a delegation or an
\* approved request changes who answers for it, while completing runs alone.
THEOREM OrdersAreHandedOver ==
    ASSUME CompletesAlone
    PROVE  TeamSpec => HandedOver
<1>1. ASSUME PickingSound, PickingTeamNext, primary' # primary
      PROVE  \E s \in Slots : flight[s].op \in {"start", "assign", "delegate", "resolve"} /\ flight'[s] = None
  <2>1. ASSUME NEW s \in FreeSlots, NEW u \in Pickers, Arrive(s, u) PROVE FALSE
    <3>1. \E q : Begin(s, q)
      BY <2>1 DEF Arrive, BeginStart, BeginPickAll, BeginComplete, BeginCancel, BeginDeliver, BeginReturned,
                  BeginAcceptReturn, BeginPick, BeginPickVariant, BeginAskUnpick, BeginAssign,
                  BeginDelegateReturn, BeginAsk, BeginDelegate, BeginResolve, BeginResolveUnpick
    <3>2. QED
      BY <1>1, <3>1 DEF Begin, orderVars
  <2>2. PICK s \in Slots : Commit(s)
    BY <1>1, <2>1 DEF PickingTeamNext
  <2>3. \/ StartOrderPicking(s) \/ AssignResponsible(s) \/ DelegatePickingResponsibility(s)
        \/ ResolvePickingResponsibilityRequest(s)
    BY <1>1, <2>2, OthersKeepPicker DEF Commit
  <2>4. flight[s].op \in {"start", "assign", "delegate", "resolve"} /\ End(s)
    BY <2>3 DEF StartOrderPicking, AssignResponsible, DelegatePickingResponsibility,
                ResolvePickingResponsibilityRequest, Is
  <2>5. flight'[s] = None
    BY <1>1, <2>4 DEF End, PickingSound, FlightHolds
  <2>6. QED
    BY <2>4, <2>5
<1>2. PickingSound /\ [TeamNext]_<<part, teamVars, boardVars, proformaVars>> =>
          [primary' # primary => \E s \in Slots :
              flight[s].op \in {"start", "assign", "delegate", "resolve"} /\ flight'[s] = None]_teamVars
  BY <1>1, StepOfTeam
<1>3. QED
  BY <1>2, PickingIsSound, PTL DEF TeamSpec, HandedOver

-----------------------------------------------------------------------------
(* The board of tasks: the requests in flight.                                *)

Phases == Preparing \union Ended \union {"PENDING", "READY", "RETURN_PENDING"}
Statuses == activeStatuses \union {"NONE", "COMPLETED", "REJECTED", "CANCELLED"}
Task == [status : Statuses, who : Staff \union {Vacant}]
StepOps == {"accept", "reject", "start", "fail", "complete"}
BoardOps == StepOps \union {"assign", "completeOrder", "deliver", "cancel"}
CallRow == [op : BoardOps, kind : Kinds \union {"order"}, by : Staff \union {Vacant},
            to : Staff \union {Vacant} \union Phases, stale : BOOLEAN, held : BOOLEAN, last : BOOLEAN]

\* A picking task is started beside nothing else.
StartsAlone == \A h \in Hands : \A ops \in h.beside : "start" \notin ops

\* A request, as it was read or marked as stale.
CallTyped(q) ==
    /\ q.op \in StepOps => q.kind \in Kinds /\ q.by \in Staff
    /\ q.op = "assign" => q.kind \in Kinds /\ q.to \in Staff
    /\ q.held => ~q.stale /\ q.op = "complete" /\ q.kind \in Picks
    /\ q.op = "cancel" => q.to \notin Ended

\* The row that it was about is still what was read.
RowAsRead(q) ==
    q.op \in StepOps /\ ~q.stale =>
        board[q.kind].who = q.by /\ board[q.kind].status \in Steps[q.op]

OrderAsRead(q) ==
    /\ q.op = "completeOrder" => gathered = Picks /\ ~Moving
    /\ StartsAlone /\ q.op = "start" /\ q.kind \in Picks => phase \in Preparing

CallHolds(q) == q = NoCall \/ (q \in CallRow /\ CallTyped(q) /\ RowAsRead(q) /\ OrderAsRead(q))

Beside(c, d) == {call[c].op, call[d].op} \in hands.beside

CallsHold ==
    /\ DOMAIN call = Calls
    /\ \A c \in Calls : CallHolds(call[c])
    /\ \A c, d \in Calls : c # d => call[c] = NoCall \/ call[d] = NoCall \/ Beside(c, d)

BoardRows ==
    /\ phase \in Phases
    /\ board \in [Kinds -> Task]
    /\ \A k \in Kinds : board[k].who = Vacant =>
          board[k].status \in {"NONE", "PENDING_ACCEPTANCE", "COMPLETED", "CANCELLED"}
    /\ gathered \subseteq Picks
    /\ helpers \subseteq Staff
    /\ chief \in Staff \union {Vacant}
    /\ hands \in Hands

\* Packing is not completed without a delivery task, but by the end of the order.
PackedAlways == StartsAlone /\ phase \notin Ended /\ board["packing"].status = "COMPLETED" => board["delivery"] # NoTask

PickersHold == StartsAlone => HolderMayPick

BoardSound == BoardRows /\ CallsHold /\ PackedAlways /\ PickersHold /\ ReadyIsGathered

LEMMA StepsAre ==
    /\ DOMAIN Steps = StepOps
    /\ Steps["accept"] = {"PENDING_ACCEPTANCE"}
    /\ Steps["reject"] = {"PENDING_ACCEPTANCE", "ACCEPTED"}
    /\ Steps["start"] = {"PENDING_ACCEPTANCE", "ACCEPTED"}
    /\ Steps["fail"] = {"ACCEPTED", "IN_PROGRESS", "WAITING_CONFIRMATION"}
    /\ Steps["complete"] = {"ACCEPTED", "IN_PROGRESS", "WAITING_CONFIRMATION"}
  BY DEF Steps, StepOps

\* A task that can be moved is open.
LEMMA StepsAreOpen ==
    \A op \in StepOps : Steps[op] \subseteq activeStatuses /\ Becomes[op] \in Statuses
  BY DEF StepOps, Steps, Becomes, activeStatuses, Statuses

LEMMA KindsAre ==
    /\ Picks \subseteq Kinds /\ Shipping \subseteq Kinds /\ Moves \subseteq Kinds
    /\ Kinds = {"review", "local", "remote", "packing", "delivery", "dispatch", "receive"}
  BY DEF Kinds, Picks, Shipping, Moves

LEMMA NoCallHasNoOp == NoCall.op \notin BoardOps
  BY DEF NoCall, BoardOps, StepOps

\* The mark of a request that came too late.
Marked(q) == [q EXCEPT !.stale = TRUE]

LEMMA MarkedHolds ==
    ASSUME NEW q \in CallRow, CallTyped(q), OrderAsRead(q), ~q.held
    PROVE  /\ Marked(q) \in CallRow /\ CallTyped(Marked(q)) /\ OrderAsRead(Marked(q)) /\ RowAsRead(Marked(q))
           /\ Marked(q).op = q.op /\ Marked(q).kind = q.kind
<1>1. Marked(q) \in CallRow
  BY DEF Marked, CallRow
<1>2. Marked(q).op = q.op /\ Marked(q).kind = q.kind /\ Marked(q).by = q.by /\ Marked(q).to = q.to
      /\ Marked(q).held = q.held /\ Marked(q).stale = TRUE
  BY DEF Marked, CallRow
<1> DEFINE r == Marked(q)
<1> HIDE DEF r
<1>3. r.op = q.op /\ r.kind = q.kind /\ r.by = q.by /\ r.to = q.to /\ r.held = q.held /\ r.stale = TRUE
  BY <1>2 DEF r
<1>4. CallTyped(r) /\ RowAsRead(r) /\ OrderAsRead(r)
  BY <1>3 DEF CallTyped, RowAsRead, OrderAsRead
<1>5. QED
  BY <1>1, <1>2, <1>4 DEF r

\* The request as Take() writes it.
Taken(op, kind, u, to) ==
    [op |-> op, kind |-> kind, by |-> u, to |-> to, stale |-> FALSE, held |-> FALSE, last |-> FALSE]

LEMMA TakenRow ==
    ASSUME NEW op \in BoardOps, NEW kind \in Kinds \union {"order"}, NEW u \in Staff \union {Vacant},
           NEW to \in Staff \union {Vacant} \union Phases
    PROVE  Taken(op, kind, u, to) \in CallRow
  BY DEF Taken, CallRow

LEMMA TakeKeeps ==
    ASSUME BoardSound, NEW c \in Calls, NEW op \in BoardOps, NEW kind \in Kinds \union {"order"},
           NEW u \in Staff \union {Vacant}, NEW to \in Staff \union {Vacant} \union Phases,
           Take(c, op, kind, u, to),
           op \in StepOps => kind \in Kinds /\ u \in Staff /\ board[kind].who = u /\ board[kind].status \in Steps[op],
           op = "assign" => kind \in Kinds /\ to \in Staff,
           op = "cancel" => to \notin Ended,
           op = "completeOrder" => gathered = Picks /\ ~Moving,
           op = "start" /\ kind \in Picks => phase \in Preparing
    PROVE  BoardSound'
<1>1. PICK q : q = Taken(op, kind, u, to)
  OBVIOUS
<1>2. q \in CallRow /\ q.op = op /\ q.kind = kind /\ q.by = u /\ q.to = to /\ q.held = FALSE /\ q.stale = FALSE
  <2>1. q \in CallRow
    BY <1>1, TakenRow
  <2>2. q.op = op /\ q.kind = kind /\ q.by = u /\ q.to = to
    BY <1>1 DEF Taken
  <2>3. q.held = FALSE /\ q.stale = FALSE
    BY <1>1, Zenon DEF Taken
  <2>4. QED
    BY <2>1, <2>2, <2>3
<1>3. /\ call' = [call EXCEPT ![c] = q] /\ call[c] = NoCall
      /\ UNCHANGED <<phase, board, gathered, truck, helpers, chief, given, hands>>
      /\ \A d \in Calls : call[d] = NoCall \/ {call[d].op, q.op} \in hands.beside
  BY <1>1, <1>2 DEF Take, Taken
<1>4. \A d \in Calls : call'[d] = IF d = c THEN q ELSE call[d]
  BY <1>3 DEF BoardSound, CallsHold
<1>5. CallHolds(q)
  BY <1>2 DEF CallHolds, CallTyped, RowAsRead, OrderAsRead
<1>6. CallHolds(q)' /\ \A d \in Calls : d # c => CallHolds(call[d])'
  <2>1. ASSUME NEW r, CallHolds(r) PROVE CallHolds(r)'
    BY <1>3, <2>1 DEF CallHolds, RowAsRead, OrderAsRead, Moving
  <2>2. \A d \in Calls : CallHolds(call[d])
    BY DEF BoardSound, CallsHold
  <2>3. ASSUME NEW d \in Calls, d # c PROVE CallHolds(call[d])'
    <3>1. PICK r : r = call[d]
      OBVIOUS
    <3>2. call'[d] = r /\ CallHolds(r)'
      BY <1>4, <2>1, <2>2, <2>3, <3>1
    <3>3. QED
      BY <3>2
  <2>4. QED
    BY <1>5, <2>1, <2>3
<1>7. CallsHold'
  <2>1. DOMAIN call' = Calls
    BY <1>3 DEF BoardSound, CallsHold
  <2>2. \A d \in Calls : CallHolds(call[d])'
    BY <1>4, <1>6
  <2>3. ASSUME NEW d \in Calls, NEW e \in Calls, d # e, call'[d] # NoCall, call'[e] # NoCall
        PROVE  Beside(d, e)'
    BY SMTT(30), <1>3, <1>4, <2>3 DEF BoardSound, CallsHold, Beside
  <2>4. QED
    BY <2>1, <2>2, <2>3 DEF CallsHold
<1>8. BoardRows' /\ PackedAlways' /\ PickersHold' /\ ReadyIsGathered'
  BY <1>3 DEF BoardSound, BoardRows, PackedAlways, PickersHold, HolderMayPick, ReadyIsGathered, Moving, Open
<1>9. QED
  BY <1>7, <1>8 DEF BoardSound

\* A request that commits: what it does to the tasks outside K leaves who read
\* them right.
LEMMA DoneKeeps ==
    ASSUME BoardSound, NEW c \in Calls, call[c] # NoCall, NEW K, Done(c, K), UNCHANGED <<gathered, truck, hands>>,
           \A k \in Kinds \ K : board'[k] = board[k] \/ board[k] = NoTask
    PROVE  CallsHold'
<1>0. /\ DOMAIN call = Calls /\ \A d \in Calls : CallHolds(call[d])
      /\ \A d, e \in Calls : d # e => call[d] = NoCall \/ call[e] = NoCall \/ Beside(d, e)
      /\ hands \in Hands
  BY DEF BoardSound, CallsHold, BoardRows
<1>1. /\ call' = [d \in Calls |->
                    IF d = c THEN NoCall
                    ELSE IF call[d] # NoCall /\ call[d].kind \in K THEN Marked(call[d]) ELSE call[d]]
      /\ \A d \in Calls \ {c} : call[d] # NoCall /\ call[d].held => call[d].kind \notin K
  BY DEF Done, Unheld, Marked
<1>2. DOMAIN call' = Calls
  BY <1>1
<1>3. ASSUME NEW d \in Calls, call[d] # NoCall, d # c
      PROVE  CallHolds(call[d])' /\ call'[d].op = call[d].op
  <2>1. PICK q : q = call[d]
    OBVIOUS
  <2>2. q \in CallRow /\ CallTyped(q) /\ RowAsRead(q) /\ OrderAsRead(q)
    BY <1>0, <1>3, <2>1 DEF CallHolds
  <2>3. OrderAsRead(q)'
    <3>1. ~(StartsAlone /\ q.op = "start")
      BY <1>0, <1>3, <2>1 DEF StartsAlone, Beside
    <3>2. q.op = "completeOrder" => gathered' = Picks /\ ~Moving'
      BY <2>2 DEF OrderAsRead, Moving
    <3>3. QED
      BY <3>1, <3>2 DEF OrderAsRead
  <2>4. CASE q.kind \in K
    <3>1. call'[d] = Marked(q)
      BY <1>1, <1>3, <2>1, <2>4
    <3>2. ~q.held
      BY <1>1, <1>3, <2>1, <2>4
    <3>3. PICK r : r = Marked(q)
      OBVIOUS
    <3>4. r \in CallRow /\ CallTyped(r) /\ r.op = q.op /\ r.kind = q.kind
      BY <2>2, <3>2, <3>3, MarkedHolds
    <3>5. r.stale = TRUE
      BY <2>2, <3>3 DEF Marked, CallRow
    <3>6. RowAsRead(r)'
      BY <3>5 DEF RowAsRead
    <3>7. OrderAsRead(r)'
      BY <2>3, <3>4 DEF OrderAsRead
    <3>8. CallHolds(r)'
      BY <3>4, <3>6, <3>7 DEF CallHolds
    <3>9. QED
      BY <2>1, <3>1, <3>3, <3>4, <3>8
  <2>5. CASE q.kind \notin K
    <3>1. call'[d] = q
      BY <1>1, <1>3, <2>1, <2>5
    <3>2. RowAsRead(q)'
      <4>1. SUFFICES ASSUME q.op \in StepOps, ~q.stale
                     PROVE  board'[q.kind].who = q.by /\ board'[q.kind].status \in Steps[q.op]
        BY DEF RowAsRead
      <4>2. q.kind \in Kinds /\ board[q.kind].who = q.by /\ board[q.kind].status \in Steps[q.op]
        BY <2>2, <4>1 DEF CallTyped, RowAsRead
      <4>3. board[q.kind] # NoTask
        BY <4>1, <4>2, StepsAreOpen DEF NoTask, activeStatuses
      <4>4. board'[q.kind] = board[q.kind]
        BY <2>5, <4>2, <4>3
      <4>5. QED
        BY <4>2, <4>4
    <3>3. CallHolds(q)'
      BY <2>2, <2>3, <3>2 DEF CallHolds
    <3>4. QED
      BY <2>1, <3>1, <3>3
  <2>6. QED
    BY <2>4, <2>5
<1>4. \A d \in Calls : CallHolds(call[d])'
  <2>1. SUFFICES ASSUME NEW d \in Calls PROVE CallHolds(call[d])'
    OBVIOUS
  <2>2. CASE d = c \/ call[d] = NoCall
    BY <1>1, <2>2 DEF CallHolds
  <2>3. QED
    BY <1>3, <2>2
<1>5. ASSUME NEW d \in Calls, NEW e \in Calls, d # e, call'[d] # NoCall, call'[e] # NoCall
      PROVE  Beside(d, e)'
  <2>1. d # c /\ e # c /\ call[d] # NoCall /\ call[e] # NoCall
    BY <1>1, <1>5
  <2>2. Beside(d, e)
    BY <1>0, <1>5, <2>1
  <2>3. call'[d].op = call[d].op /\ call'[e].op = call[e].op
    BY <1>3, <2>1
  <2>4. QED
    BY <2>2, <2>3 DEF Beside
<1>6. QED
  BY <1>2, <1>4, <1>5 DEF CallsHold

\* What the order keeps of the board when nothing is opened, completed or lost.
LEMMA OrderKeeps ==
    ASSUME BoardSound, BoardRows', UNCHANGED <<gathered, truck>>,
           StartsAlone /\ phase' \in Preparing => phase \in Preparing,
           phase' \in {phase} \union Preparing,
           StartsAlone /\ phase' \notin Ended => phase \notin Ended,
           helpers' = helpers, chief' = chief \/ chief = Vacant,
           \A k \in Picks : Open(k)' => Open(k) /\ board'[k].who = board[k].who,
           board'["packing"].status = "COMPLETED" => board["packing"].status = "COMPLETED",
           board["delivery"] # NoTask => board'["delivery"] # NoTask
    PROVE  PackedAlways' /\ PickersHold' /\ ReadyIsGathered'
<1>1. PackedAlways'
  BY DEF BoardSound, PackedAlways
<1>2. PickersHold'
  <2>1. SUFFICES ASSUME StartsAlone, phase' \in Preparing, NEW k \in Picks, Open(k)', board'[k].who # Vacant
                 PROVE  board'[k].who \in helpers' \union {chief'}
    BY DEF PickersHold, HolderMayPick
  <2>2. phase \in Preparing /\ Open(k) /\ board[k].who = board'[k].who
    BY <2>1
  <2>3. board[k].who \in helpers \union {chief}
    BY <2>1, <2>2 DEF BoardSound, PickersHold, HolderMayPick
  <2>4. QED
    BY <2>1, <2>2, <2>3
<1>3. ReadyIsGathered'
  BY DEF BoardSound, ReadyIsGathered, Moving, Preparing
<1>4. QED
  BY <1>1, <1>2, <1>3

\* A row after its status is set.
LEMMA SetRows ==
    ASSUME BoardRows, NEW k \in Kinds, NEW status \in Statuses
    PROVE  /\ Set(k, status) \in [Kinds -> Task]
           /\ Set(k, status)[k].status = status /\ Set(k, status)[k].who = board[k].who
           /\ \A m \in Kinds : m # k => Set(k, status)[m] = board[m]
  BY DEF BoardRows, Set, Task

\* A transition that commits: a row moves only as it was read, by who holds it.
LEMMA AdvancedRows ==
    ASSUME BoardSound, NEW c \in Calls, call[c].op \in StepOps, Advanced(c, call[c].kind),
           UNCHANGED <<gathered, truck, hands>>
    PROVE  /\ CallsHold'
           /\ board' \in [Kinds -> Task]
           /\ \A k \in Kinds : /\ board'[k].who = board[k].who
                               /\ board'[k].who = Vacant => board'[k].status = board[k].status
                               /\ Open(k)' => Open(k)
                               /\ board[k] # NoTask => board'[k] # NoTask
                               /\ board'[k] # board[k] => k = call[c].kind /\ board'[k].status = Becomes[call[c].op]
<1> DEFINE k == call[c].kind
           op == call[c].op
           u == call[c].by
<1>1. call[c] # NoCall /\ k \in Kinds /\ u \in Staff /\ RowAsRead(call[c])
  <2>1. CallHolds(call[c]) /\ call[c] # NoCall
    BY NoCallHasNoOp DEF BoardSound, CallsHold, BoardOps
  <2>2. QED
    BY <2>1 DEF CallHolds, CallTyped
<1>2. BoardRows
  BY DEF BoardSound
<1>3. CASE Changed(c)
  <2>1. Done(c, {}) /\ UNCHANGED board
    BY <1>3 DEF Advanced
  <2>2. CallsHold'
    BY <1>1, <2>1, DoneKeeps
  <2>3. QED
    BY <1>2, <2>1, <2>2 DEF BoardRows, Open
<1>4. CASE ~Changed(c)
  <2>1. Done(c, {k}) /\ board' = Set(k, Becomes[op])
    BY <1>4 DEF Advanced
  <2>2. board[k].who = u /\ board[k].status \in Steps[op] /\ Becomes[op] \in Statuses
    BY <1>1, <1>4, StepsAreOpen DEF RowAsRead, Changed
  <2>3. /\ board' \in [Kinds -> Task]
        /\ board'[k].status = Becomes[op] /\ board'[k].who = board[k].who
        /\ \A m \in Kinds : m # k => board'[m] = board[m]
    BY <1>1, <1>2, <2>1, <2>2, SetRows
  <2>4. CallsHold'
    <3>1. \A m \in Kinds \ {k} : board'[m] = board[m] \/ board[m] = NoTask
      BY <2>3
    <3>2. QED
      BY <1>1, <2>1, <3>1, DoneKeeps
  <2>5. Open(k) /\ u # Vacant
    BY <1>1, <2>2, StepsAreOpen, TaskBoardAssumption DEF Open
  <2>6. board'[k] # NoTask
    BY <2>2, <2>3, <2>5 DEF NoTask
  <2>7. QED
    BY <2>2, <2>3, <2>4, <2>5, <2>6 DEF Open
<1>5. QED
  BY <1>3, <1>4

LEMMA AdvancedKeeps ==
    ASSUME BoardSound, NEW c \in Calls, call[c].op \in StepOps, Advanced(c, call[c].kind),
           UNCHANGED <<gathered, truck, hands, helpers>>,
           call[c].kind = "packing" => call[c].op # "complete",
           \/ UNCHANGED <<phase, chief>>
           \/ /\ call[c].op = "start" /\ call[c].kind \in Picks
              /\ phase' = "PREPARING" /\ chief' = IF chief = Vacant THEN call[c].by ELSE chief
    PROVE  BoardSound'
<1>1. CallHolds(call[c]) /\ call[c] # NoCall
  BY NoCallHasNoOp DEF BoardSound, CallsHold, BoardOps
<1>2. call[c].by \in Staff /\ OrderAsRead(call[c])
  BY <1>1 DEF CallHolds, CallTyped
<1>3. /\ CallsHold' /\ board' \in [Kinds -> Task]
      /\ \A k \in Kinds : /\ board'[k].who = board[k].who
                          /\ board'[k].who = Vacant => board'[k].status = board[k].status
                          /\ Open(k)' => Open(k)
                          /\ board[k] # NoTask => board'[k] # NoTask
                          /\ board'[k] # board[k] => k = call[c].kind /\ board'[k].status = Becomes[call[c].op]
  BY AdvancedRows
<1>4. BoardRows'
  BY <1>2, <1>3 DEF BoardSound, BoardRows, Phases, Preparing
<1>5. board'["packing"].status = "COMPLETED" => board["packing"].status = "COMPLETED"
  <2>1. SUFFICES ASSUME board'["packing"].status = "COMPLETED", board'["packing"] # board["packing"] PROVE FALSE
    OBVIOUS
  <2>2. "packing" = call[c].kind /\ board'["packing"].status = Becomes[call[c].op]
    BY <1>3, <2>1, KindsAre
  <2>3. call[c].op \in {"accept", "reject", "start", "fail"}
    BY <2>2 DEF StepOps
  <2>4. QED
    BY <2>1, <2>2, <2>3 DEF Becomes
<1>6. /\ StartsAlone /\ phase' \in Preparing => phase \in Preparing
      /\ phase' \in {phase} \union Preparing
      /\ StartsAlone /\ phase' \notin Ended => phase \notin Ended
      /\ chief' = chief \/ chief = Vacant
  BY <1>2 DEF OrderAsRead, Preparing, Ended
<1>7. PackedAlways' /\ PickersHold' /\ ReadyIsGathered'
  BY <1>3, <1>4, <1>5, <1>6, OrderKeeps, KindsAre
<1>8. QED
  BY <1>3, <1>4, <1>7 DEF BoardSound

LEMMA StepsCommit ==
    ASSUME BoardSound, NEW c \in Calls, SimpleStep(c) \/ StartPicking(c) \/ CompleteMove(c)
    PROVE  BoardSound'
<1>1. CASE SimpleStep(c)
  BY <1>1, AdvancedKeeps DEF SimpleStep, StepOps
<1>2. CASE StartPicking(c)
  <2>1. /\ call[c].op = "start" /\ call[c].kind \in Picks /\ Advanced(c, call[c].kind)
        /\ phase' = "PREPARING"
        /\ chief' = IF chief = Vacant THEN call[c].by ELSE chief
        /\ UNCHANGED <<gathered, truck, hands, helpers>>
    BY <1>2 DEF StartPicking, Serves
  <2>2. QED
    BY <2>1, AdvancedKeeps DEF StepOps
<1>3. CASE CompleteMove(c)
  <2>1. call[c].op = "complete" /\ call[c].kind \in Moves
    BY <1>3 DEF CompleteMove, Serves
  <2>2. QED
    BY <1>3, <2>1, AdvancedKeeps DEF CompleteMove, StepOps, Moves
<1>4. QED
  BY <1>1, <1>2, <1>3

\* Nothing but the requests changes.
LEMMA OnlyCalls ==
    ASSUME BoardSound, UNCHANGED <<phase, board, gathered, truck, helpers, chief, hands>>
    PROVE  BoardRows' /\ PackedAlways' /\ PickersHold' /\ ReadyIsGathered'
  BY DEF BoardSound, BoardRows, PackedAlways, PickersHold, HolderMayPick, ReadyIsGathered, Moving, Open

LEMMA LateKeeps ==
    ASSUME BoardSound, NEW c \in Calls, call[c] # NoCall, Done(c, {}),
           UNCHANGED <<phase, board, gathered, truck, helpers, chief, hands>>
    PROVE  BoardSound'
<1>1. CallsHold'
  BY DoneKeeps
<1>2. QED
  BY <1>1, OnlyCalls DEF BoardSound

LEMMA AssignKeeps ==
    ASSUME BoardSound, NEW c \in Calls, Assign(c)
    PROVE  BoardSound'
<1> DEFINE k == call[c].kind
           u == call[c].by
           v == call[c].to
<1>1. call[c].op = "assign" /\ call[c] # NoCall
  BY NoCallHasNoOp DEF Assign, Serves, BoardOps
<1>2. k \in Kinds /\ v \in Staff
  BY <1>1 DEF BoardSound, CallsHold, CallHolds, CallTyped
<1>3. UNCHANGED <<phase, gathered, truck, chief, hands>>
  BY DEF Assign
<1>4. CASE Changed(c)
  BY <1>1, <1>3, <1>4, LateKeeps DEF Assign
<1>5. CASE ~Changed(c)
  <2>1. /\ board' = [board EXCEPT ![k] = IF u = v THEN @ ELSE New(v)]
        /\ helpers' = IF k \notin Picks THEN helpers
                      ELSE IF u # v /\ ~StillPicks(u, k) THEN (helpers \union {v}) \ {u}
                      ELSE helpers \union {v}
        /\ Done(c, {k})
    BY <1>5 DEF Assign
  <2>2. board \in [Kinds -> Task] /\ BoardRows /\ New(v) \in Task /\ New(v).who = v
        /\ New(v).status = "PENDING_ACCEPTANCE" /\ v # Vacant
    BY <1>2, TaskBoardAssumption DEF BoardSound, BoardRows, New, Task, Statuses, activeStatuses
  <2>3. /\ \A m \in Kinds : m # k => board'[m] = board[m]
        /\ board'[k] = IF u = v THEN board[k] ELSE New(v)
        /\ board' \in [Kinds -> Task]
    BY <1>2, <2>1, <2>2
  <2>4. CallsHold'
    <3>1. \A m \in Kinds \ {k} : board'[m] = board[m] \/ board[m] = NoTask
      BY <2>3
    <3>2. QED
      BY <1>1, <1>3, <2>1, <3>1, DoneKeeps
  <2>5. BoardRows'
    <3>1. helpers' \subseteq Staff
      BY <1>2, <2>1, <2>2 DEF BoardRows
    <3>2. \A m \in Kinds : board'[m].who = Vacant =>
              board'[m].status \in {"NONE", "PENDING_ACCEPTANCE", "COMPLETED", "CANCELLED"}
      BY <2>2, <2>3 DEF BoardRows
    <3>3. QED
      BY <1>3, <2>2, <2>3, <3>1, <3>2 DEF BoardRows
  <2>6. PackedAlways'
    <3>1. board'["packing"].status = "COMPLETED" => board["packing"].status = "COMPLETED"
      BY <2>2, <2>3, KindsAre
    <3>2. board["delivery"] # NoTask => board'["delivery"] # NoTask
      BY <2>2, <2>3, KindsAre DEF NoTask
    <3>3. QED
      BY <1>3, <3>1, <3>2 DEF BoardSound, PackedAlways
  <2>7. PickersHold'
    <3>1. SUFFICES ASSUME StartsAlone, phase' \in Preparing, NEW m \in Picks, Open(m)', board'[m].who # Vacant
                   PROVE  board'[m].who \in helpers' \union {chief'}
      BY DEF PickersHold, HolderMayPick
    <3>2. m \in Kinds /\ phase \in Preparing
      BY <1>3, <3>1, KindsAre
    <3>3. Open(m) /\ board[m].who # Vacant => board[m].who \in helpers \union {chief}
      BY <3>1, <3>2 DEF BoardSound, PickersHold, HolderMayPick
    <3>4. CASE m = k
      <4>1. v \in helpers'
        <5>1. k \in Picks
          BY <3>4
        <5>2. QED
          BY <2>1, <5>1
      <4>2. CASE u # v
        BY <2>2, <2>3, <3>4, <4>1, <4>2
      <4>3. CASE u = v
        <5>1. board'[m] = board[m] /\ helpers \subseteq helpers'
          BY <2>1, <2>3, <3>4, <4>3
        <5>2. QED
          BY <1>3, <3>1, <3>3, <5>1 DEF Open
      <4>4. QED
        BY <4>2, <4>3
    <3>5. CASE m # k
      <4>1. board'[m] = board[m] /\ Open(m) /\ board[m].who # Vacant
        BY <2>3, <3>1, <3>2, <3>5 DEF Open
      <4>2. CASE board[m].who = u /\ k \in Picks
        <5>1. KeepsRight(u, k)
          BY <3>5, <4>1, <4>2 DEF KeepsRight
        <5>2. helpers \subseteq helpers'
          BY <2>1, <5>1 DEF StillPicks
        <5>3. QED
          BY <1>3, <3>3, <4>1, <5>2
      <4>3. CASE board[m].who # u \/ k \notin Picks
        <5>1. board[m].who \in helpers => board[m].who \in helpers'
          BY <2>1, <4>3
        <5>2. QED
          BY <1>3, <3>3, <4>1, <5>1
      <4>4. QED
        BY <4>2, <4>3
    <3>6. QED
      BY <3>4, <3>5
  <2>8. ReadyIsGathered'
    BY <1>3 DEF BoardSound, ReadyIsGathered, Moving
  <2>9. QED
    BY <2>4, <2>5, <2>6, <2>7, <2>8 DEF BoardSound
<1>6. QED
  BY <1>4, <1>5

\* The task is completed, and the others are counted, before the request commits.
LEMMA CompletePickingKeeps ==
    ASSUME BoardSound, NEW c \in Calls, CompletePicking(c)
    PROVE  BoardSound'
<1>1. call[c].op = "complete" /\ call[c] # NoCall
      /\ UNCHANGED <<phase, board, gathered, truck, helpers, chief, hands>>
  BY NoCallHasNoOp DEF CompletePicking, Serves, BoardOps, StepOps
<1>2. CASE Changed(c)
  BY <1>1, <1>2, LateKeeps DEF CompletePicking
<1>3. CASE ~Changed(c)
  <2>1. PICK last \in BOOLEAN : last = \A other \in Picks \ {call[c].kind} : ~Open(other)
    OBVIOUS
  <2>2. PICK q : q = call[c]
    OBVIOUS
  <2>3. PICK r : r = [q EXCEPT !.held = TRUE, !.last = last]
    OBVIOUS
  <2>4. call' = [call EXCEPT ![c] = r]
    <3>1. call' = [call EXCEPT ![c].held = TRUE,
                               ![c].last = \A other \in Picks \ {call[c].kind} : ~Open(other)]
      BY <1>3, Zenon DEF CompletePicking
    <3>2. call' = [call EXCEPT ![c].held = TRUE, ![c].last = last]
      BY <2>1, <3>1, Zenon
    <3>3. c \in DOMAIN call
      BY DEF BoardSound, CallsHold
    <3>4. QED
      BY <2>2, <2>3, <3>2, <3>3
  <2>5. q \in CallRow /\ CallTyped(q) /\ RowAsRead(q) /\ OrderAsRead(q)
    BY <1>1, <2>2 DEF BoardSound, CallsHold, CallHolds
  <2>6. /\ r \in CallRow /\ r.op = q.op /\ r.kind = q.kind /\ r.by = q.by /\ r.to = q.to
        /\ r.stale = q.stale
    BY <2>3, <2>5 DEF CallRow
  <2>7. ~r.stale /\ r.op = "complete" /\ r.kind \in Picks
    BY <1>1, <1>3, <2>2, <2>6 DEF Changed, CompletePicking
  <2>8. CallTyped(r) /\ RowAsRead(r) /\ OrderAsRead(r)
    BY <2>5, <2>6, <2>7 DEF CallTyped, RowAsRead, OrderAsRead
  <2>9. \A d \in Calls : call'[d] = IF d = c THEN r ELSE call[d]
    BY <2>4 DEF BoardSound, CallsHold
  <2>10. CallsHold'
    <3>1. ASSUME NEW p, CallHolds(p) PROVE CallHolds(p)'
      BY <1>1, <3>1 DEF CallHolds, RowAsRead, OrderAsRead, Moving
    <3>2. CallHolds(r)
      BY <2>6, <2>8 DEF CallHolds
    <3>3. \A d \in Calls : CallHolds(call[d])'
      <4>1. SUFFICES ASSUME NEW d \in Calls PROVE CallHolds(call[d])'
        OBVIOUS
      <4>2. PICK p : p = IF d = c THEN r ELSE call[d]
        OBVIOUS
      <4>3. CallHolds(p)
        BY <3>2, <4>2 DEF BoardSound, CallsHold
      <4>4. CallHolds(p)' /\ call'[d] = p
        BY <2>9, <3>1, <4>2, <4>3
      <4>5. QED
        BY <4>4
    <3>4. DOMAIN call' = Calls
      BY <2>4 DEF BoardSound, CallsHold
    <3>5. ASSUME NEW d \in Calls, NEW e \in Calls, d # e, call'[d] # NoCall, call'[e] # NoCall
          PROVE  Beside(d, e)'
      <4>1. call'[d].op = call[d].op /\ call'[e].op = call[e].op
        BY <2>2, <2>6, <2>9
      <4>2. call[d] # NoCall /\ call[e] # NoCall
        BY <1>1, <2>9, <3>5
      <4>3. QED
        BY <1>1, <3>5, <4>1, <4>2 DEF BoardSound, CallsHold, Beside
    <3>6. QED
      BY <3>3, <3>4, <3>5 DEF CallsHold
  <2>11. QED
    BY <1>1, <2>10, OnlyCalls DEF BoardSound
<1>4. QED
  BY <1>2, <1>3

\* The picking of the order ends: its tasks are completed, and somebody packs.
LEMMA PickingDoneKeeps ==
    ASSUME BoardSound, NEW c \in Calls, call[c] # NoCall, phase \in Preparing, gathered = Picks, ~Moving,
           NEW B \in [Kinds -> Task], \A k \in Kinds \ Picks : B[k] = board[k],
           \A k \in Kinds : B[k].who = Vacant =>
              B[k].status \in {"NONE", "PENDING_ACCEPTANCE", "COMPLETED", "CANCELLED"},
           PickingDone(B), Done(c, Picks), UNCHANGED <<gathered, truck, helpers, chief, given, hands>>
    PROVE  BoardSound'
<1>1. /\ phase' = "READY"
      /\ board' = [k \in Kinds |->
                     IF k \in Picks /\ B[k].status \in activeStatuses
                     THEN [B[k] EXCEPT !.status = "COMPLETED"]
                     ELSE IF k = "packing" /\ B[k] = NoTask THEN New(chief)
                     ELSE B[k]]
  BY DEF PickingDone
<1>2. chief \in Staff \union {Vacant} /\ New(chief) \in Task /\ New(chief).status = "PENDING_ACCEPTANCE"
  BY DEF BoardSound, BoardRows, New, Task, Statuses, activeStatuses
<1>3. \A k \in Kinds : /\ [B[k] EXCEPT !.status = "COMPLETED"] \in Task
                       /\ [B[k] EXCEPT !.status = "COMPLETED"].status = "COMPLETED"
  BY DEF Task, Statuses
<1>4. board' \in [Kinds -> Task]
  BY <1>1, <1>2, <1>3
<1>5. ASSUME NEW k \in Kinds, board'[k].who = Vacant
      PROVE  board'[k].status \in {"NONE", "PENDING_ACCEPTANCE", "COMPLETED", "CANCELLED"}
  BY <1>1, <1>2, <1>3, <1>5
<1>6. BoardRows'
  BY <1>1, <1>4, <1>5 DEF BoardSound, BoardRows, Phases
<1>7. \A k \in Kinds \ Picks : board'[k] = board[k] \/ board[k] = NoTask
  BY <1>1
<1>8. CallsHold'
  BY <1>7, DoneKeeps
<1>9. PackedAlways'
  <2>1. SUFFICES ASSUME StartsAlone, board'["packing"].status = "COMPLETED" PROVE board'["delivery"] # NoTask
    BY DEF PackedAlways
  <2>2. "packing" \in Kinds \ Picks /\ "delivery" \in Kinds \ Picks
    BY KindsAre DEF Picks
  <2>3. board'["packing"] = B["packing"]
    BY <1>1, <1>2, <2>1, <2>2
  <2>4. board["delivery"] # NoTask /\ board'["delivery"] = board["delivery"]
    BY <1>1, <2>1, <2>2, <2>3 DEF BoardSound, PackedAlways, Preparing, Ended
  <2>5. QED
    BY <2>4
<1>10. PickersHold' /\ ReadyIsGathered'
  BY <1>1 DEF PickersHold, HolderMayPick, ReadyIsGathered, Preparing, Moving
<1>11. QED
  BY <1>6, <1>8, <1>9, <1>10 DEF BoardSound

LEMMA PickingTaskKeeps ==
    ASSUME BoardSound, NEW c \in Calls, PickingTaskCompleted(c)
    PROVE  BoardSound'
<1> DEFINE k == call[c].kind
           B == Set(k, "COMPLETED")
<1>1. /\ call[c].op = "complete" /\ call[c].held /\ call[c] # NoCall
      /\ UNCHANGED <<gathered, truck, helpers, chief, given, hands>>
  BY NoCallHasNoOp DEF PickingTaskCompleted, Serves, BoardOps, StepOps
<1>2. k \in Kinds /\ call[c].by \in Staff /\ board[k].who = call[c].by /\ board[k].status \in Steps["complete"]
      /\ k \in Picks
  BY <1>1 DEF BoardSound, CallsHold, CallHolds, CallTyped, RowAsRead, StepOps
<1>3. BoardRows /\ "COMPLETED" \in Statuses
  BY DEF BoardSound, Statuses
<1>4. /\ B \in [Kinds -> Task] /\ B[k].status = "COMPLETED" /\ B[k].who = board[k].who
      /\ \A m \in Kinds : m # k => B[m] = board[m]
  BY <1>2, <1>3, SetRows
<1> HIDE DEF B
<1>5. \A m \in Kinds : B[m].who = Vacant =>
          B[m].status \in {"NONE", "PENDING_ACCEPTANCE", "COMPLETED", "CANCELLED"}
  BY <1>3, <1>4 DEF BoardRows
<1>6. CASE call[c].last /\ Completable(call[c].by)
  <2>1. PickingDone(B) /\ Done(c, Picks)
    BY <1>6 DEF PickingTaskCompleted, B
  <2>2. \A m \in Kinds \ Picks : B[m] = board[m]
    BY <1>2, <1>4
  <2>3. phase \in Preparing /\ gathered = Picks /\ ~Moving
    BY <1>6 DEF Completable
  <2>4. QED
    BY <1>1, <1>4, <1>5, <2>1, <2>2, <2>3, PickingDoneKeeps
<1>7. CASE ~(call[c].last /\ Completable(call[c].by))
  <2>1. board' = B /\ Done(c, {k}) /\ UNCHANGED phase
    BY <1>7 DEF PickingTaskCompleted, B
  <2>2. CallsHold'
    <3>1. \A m \in Kinds \ {k} : board'[m] = board[m] \/ board[m] = NoTask
      BY <1>4, <2>1
    <3>2. QED
      BY <1>1, <2>1, <3>1, DoneKeeps
  <2>3. BoardRows'
    BY <1>1, <1>3, <1>4, <1>5, <2>1 DEF BoardRows
  <2>4. \A m \in Picks : Open(m)' => Open(m) /\ board'[m].who = board[m].who
    <3>1. SUFFICES ASSUME NEW m \in Picks, Open(m)' PROVE Open(m) /\ board'[m].who = board[m].who
      OBVIOUS
    <3>2. m \in Kinds /\ board'[m].status \in activeStatuses
      BY <3>1, KindsAre DEF Open
    <3>3. m # k
      BY <1>4, <2>1, <3>2 DEF activeStatuses
    <3>4. board'[m] = board[m]
      BY <1>4, <2>1, <3>2, <3>3
    <3>5. QED
      BY <3>2, <3>4 DEF Open
  <2>5. board'["packing"] = board["packing"] /\ board'["delivery"] = board["delivery"]
    <3>1. "packing" \in Kinds \ {k} /\ "delivery" \in Kinds \ {k}
      BY <1>2, KindsAre DEF Picks
    <3>2. QED
      BY <1>4, <2>1, <3>1
  <2>6. PackedAlways' /\ PickersHold' /\ ReadyIsGathered'
    BY <1>1, <2>1, <2>3, <2>4, <2>5, OrderKeeps
  <2>7. QED
    BY <2>2, <2>3, <2>6 DEF BoardSound
<1>8. QED
  BY <1>6, <1>7

LEMMA CompleteOrderKeeps ==
    ASSUME BoardSound, NEW c \in Calls, CompleteOrder(c)
    PROVE  BoardSound'
<1>1. /\ call[c].op = "completeOrder" /\ call[c] # NoCall
      /\ UNCHANGED <<gathered, truck, helpers, chief, given, hands>>
  BY NoCallHasNoOp DEF CompleteOrder, Serves, BoardOps
<1>2. gathered = Picks /\ ~Moving
  BY <1>1 DEF BoardSound, CallsHold, CallHolds, OrderAsRead
<1>3. CASE phase \in Preparing
  <2>1. PickingDone(board) /\ Done(c, Picks)
    BY <1>3 DEF CompleteOrder
  <2>2. PICK B : B = board
    OBVIOUS
  <2>3. /\ B \in [Kinds -> Task] /\ \A k \in Kinds \ Picks : B[k] = board[k]
        /\ \A k \in Kinds : B[k].who = Vacant =>
              B[k].status \in {"NONE", "PENDING_ACCEPTANCE", "COMPLETED", "CANCELLED"}
    BY <2>2 DEF BoardSound, BoardRows
  <2>4. QED
    BY <1>1, <1>2, <1>3, <2>1, <2>2, <2>3, PickingDoneKeeps
<1>4. CASE phase \notin Preparing
  BY <1>1, <1>4, LateKeeps DEF CompleteOrder
<1>5. QED
  BY <1>3, <1>4

\* Several rows are closed at once.
LEMMA SetAllRows ==
    ASSUME BoardRows, NEW K \in SUBSET Kinds, NEW status \in {"COMPLETED", "CANCELLED"}
    PROVE  /\ SetAll(K, status) \in [Kinds -> Task]
           /\ \A k \in Kinds : SetAll(K, status)[k].who = board[k].who
           /\ \A k \in K : SetAll(K, status)[k].status = status
           /\ \A k \in Kinds \ K : SetAll(K, status)[k] = board[k]
<1>1. board \in [Kinds -> Task] /\ status \in Statuses
  BY DEF BoardRows, Statuses
<1>2. \A k \in Kinds : /\ [board[k] EXCEPT !.status = status] \in Task
                       /\ [board[k] EXCEPT !.status = status].status = status
                       /\ [board[k] EXCEPT !.status = status].who = board[k].who
  BY <1>1 DEF Task
<1>3. QED
  BY <1>1, <1>2 DEF SetAll

\* The rows of the shipping or of the transfer are closed.
LEMMA ClosedRows ==
    ASSUME BoardSound, NEW K \in SUBSET Kinds, NEW status \in {"COMPLETED", "CANCELLED"},
           board' = SetAll(K, status)
    PROVE  /\ board' \in [Kinds -> Task]
           /\ \A k \in Kinds : board'[k].who = Vacant =>
                 board'[k].status \in {"NONE", "PENDING_ACCEPTANCE", "COMPLETED", "CANCELLED"}
           /\ \A k \in Kinds : Open(k)' => Open(k) /\ board'[k].who = board[k].who
           /\ \A k \in Kinds \ K : board'[k] = board[k]
           /\ \A k \in Kinds : board[k] # NoTask => board'[k] # NoTask
<1>1. /\ board' \in [Kinds -> Task]
      /\ \A k \in Kinds : board'[k].who = board[k].who
      /\ \A k \in K : board'[k].status = status
      /\ \A k \in Kinds \ K : board'[k] = board[k]
  BY SetAllRows DEF BoardSound
<1>2. QED
  BY <1>1 DEF BoardSound, BoardRows, Open, activeStatuses, NoTask

LEMMA DeliveryRow ==
    ASSUME NEW B \in [Kinds -> Task], NEW u \in Staff
    PROVE  /\ WithDelivery(B, u) \in [Kinds -> Task]
           /\ WithDelivery(B, u)["delivery"] # NoTask
           /\ \A k \in Kinds : k # "delivery" => WithDelivery(B, u)[k] = B[k]
           /\ B["delivery"] # NoTask => WithDelivery(B, u) = B
           /\ B["delivery"] = NoTask => WithDelivery(B, u)["delivery"] = New(u)
           /\ New(u).who = u /\ New(u).status = "PENDING_ACCEPTANCE"
<1>1. New(u) \in Task /\ New(u) # NoTask /\ New(u).who = u /\ New(u).status = "PENDING_ACCEPTANCE"
  BY DEF New, Task, Statuses, activeStatuses, NoTask
<1>2. "delivery" \in Kinds
  BY KindsAre
<1>3. QED
  BY <1>1, <1>2 DEF WithDelivery

LEMMA PackingKeeps ==
    ASSUME BoardSound, NEW c \in Calls, CompletePacking(c)
    PROVE  BoardSound'
<1> DEFINE B == Set("packing", "COMPLETED")
           u == call[c].by
<1>1. /\ call[c].op = "complete" /\ call[c] # NoCall /\ call[c].kind = "packing"
      /\ UNCHANGED <<phase, gathered, truck, helpers, chief, given, hands>>
  BY NoCallHasNoOp DEF CompletePacking, Serves, BoardOps, StepOps
<1>2. CASE Changed(c)
  BY <1>1, <1>2, LateKeeps DEF CompletePacking
<1>3. CASE ~Changed(c)
  <2>1. board' = WithDelivery(B, u) /\ Done(c, Shipping)
    BY <1>3 DEF CompletePacking
  <2>2. u \in Staff /\ "packing" \in Kinds /\ "delivery" \in Kinds /\ u # Vacant
    BY <1>1, KindsAre, TaskBoardAssumption DEF BoardSound, CallsHold, CallHolds, CallTyped, StepOps
  <2>3. BoardRows /\ "COMPLETED" \in Statuses
    BY DEF BoardSound, Statuses
  <2>4. /\ B \in [Kinds -> Task] /\ B["packing"].status = "COMPLETED"
        /\ \A m \in Kinds : m # "packing" => B[m] = board[m]
    BY <2>2, <2>3, SetRows
  <2> HIDE DEF B
  <2>5. /\ board' \in [Kinds -> Task] /\ board'["delivery"] # NoTask
        /\ \A k \in Kinds : k # "delivery" => board'[k] = B[k]
        /\ board'["delivery"] = board["delivery"]
              \/ (board'["delivery"].who = u /\ board'["delivery"].status = "PENDING_ACCEPTANCE")
    BY <2>1, <2>2, <2>4, DeliveryRow
  <2>6. CallsHold'
    <3>1. \A k \in Kinds \ Shipping : board'[k] = board[k] \/ board[k] = NoTask
      BY <2>4, <2>5 DEF Shipping
    <3>2. QED
      BY <1>1, <2>1, <3>1, DoneKeeps
  <2>7. BoardRows'
    <3>1. ASSUME NEW k \in Kinds, board'[k].who = Vacant
          PROVE  board'[k].status \in {"NONE", "PENDING_ACCEPTANCE", "COMPLETED", "CANCELLED"}
      BY <2>2, <2>3, <2>4, <2>5, <3>1 DEF BoardRows
    <3>2. QED
      BY <1>1, <2>3, <2>5, <3>1 DEF BoardRows
  <2>8. PackedAlways'
    BY <2>5 DEF PackedAlways
  <2>9. PickersHold'
    <3>1. \A k \in Picks : board'[k] = board[k]
      BY <2>4, <2>5, KindsAre DEF Picks
    <3>2. QED
      BY <1>1, <3>1 DEF BoardSound, PickersHold, HolderMayPick, Open
  <2>10. ReadyIsGathered'
    BY <1>1 DEF BoardSound, ReadyIsGathered, Moving
  <2>11. QED
    BY <2>6, <2>7, <2>8, <2>9, <2>10 DEF BoardSound
<1>4. QED
  BY <1>2, <1>3

LEMMA ShippingEnds ==
    ASSUME BoardSound, NEW c \in Calls, call[c] # NoCall, NEW status \in {"COMPLETED", "CANCELLED"},
           phase' \in Ended, ShippingClosed(status), helpers' = {}, Done(c, Shipping),
           UNCHANGED <<gathered, truck, chief, given, hands>>
    PROVE  BoardSound'
<1>1. PICK K : K = {k \in Shipping : Open(k)}
  OBVIOUS
<1>2. K \in SUBSET Kinds /\ K \subseteq Shipping /\ board' = SetAll(K, status)
  BY <1>1, KindsAre DEF ShippingClosed
<1>3. /\ board' \in [Kinds -> Task]
      /\ \A k \in Kinds : board'[k].who = Vacant =>
            board'[k].status \in {"NONE", "PENDING_ACCEPTANCE", "COMPLETED", "CANCELLED"}
      /\ \A k \in Kinds \ K : board'[k] = board[k]
  BY <1>2, ClosedRows
<1>4. \A k \in Kinds \ Shipping : board'[k] = board[k] \/ board[k] = NoTask
  BY <1>2, <1>3
<1>5. CallsHold'
  BY <1>4, DoneKeeps
<1>6. BoardRows'
  BY <1>3 DEF BoardSound, BoardRows, Phases
<1>7. PackedAlways' /\ PickersHold' /\ ReadyIsGathered'
  BY DEF PackedAlways, PickersHold, HolderMayPick, ReadyIsGathered, Preparing, Ended
<1>8. QED
  BY <1>5, <1>6, <1>7 DEF BoardSound

LEMMA OrderEnds ==
    ASSUME BoardSound, NEW c \in Calls, Deliver(c) \/ Cancel(c)
    PROVE  BoardSound'
<1>1. CASE Deliver(c)
  <2>1. call[c] # NoCall /\ UNCHANGED <<gathered, truck, chief, given, hands>>
    BY <1>1, NoCallHasNoOp DEF Deliver, Serves, BoardOps
  <2>2. CASE phase # "READY"
    BY <1>1, <2>1, <2>2, LateKeeps DEF Deliver
  <2>3. CASE phase = "READY"
    BY <1>1, <2>1, <2>3, ShippingEnds DEF Deliver, Ended
  <2>4. QED
    BY <2>2, <2>3
<1>2. CASE Cancel(c)
  <2>1. call[c].op = "cancel" /\ call[c] # NoCall /\ UNCHANGED <<gathered, truck, chief, given, hands>>
    BY <1>2, NoCallHasNoOp DEF Cancel, Serves, BoardOps
  <2>2. call[c].to \notin Ended
    BY <2>1 DEF BoardSound, CallsHold, CallHolds, CallTyped
  <2>3. CASE phase # call[c].to
    BY <1>2, <2>1, <2>3, LateKeeps DEF Cancel
  <2>4. CASE phase = call[c].to /\ gathered # {} /\ phase # "RETURN_PENDING"
    <3>1. phase' = "RETURN_PENDING" /\ Done(c, {}) /\ UNCHANGED <<board, helpers>>
      BY <1>2, <2>4 DEF Cancel
    <3>2. CallsHold'
      BY <2>1, <3>1, DoneKeeps
    <3>3. BoardRows'
      BY <2>1, <3>1 DEF BoardSound, BoardRows, Phases
    <3>4. PackedAlways' /\ PickersHold' /\ ReadyIsGathered'
      BY <2>1, <2>2, <2>4, <3>1 DEF BoardSound, PackedAlways, PickersHold, HolderMayPick, ReadyIsGathered, Preparing, Moving
    <3>5. QED
      BY <3>2, <3>3, <3>4 DEF BoardSound
  <2>5. CASE phase = call[c].to /\ ~(gathered # {} /\ phase # "RETURN_PENDING")
    BY <1>2, <2>1, <2>5, ShippingEnds DEF Cancel, Ended
  <2>6. QED
    BY <2>3, <2>4, <2>5
<1>3. QED
  BY <1>1, <1>2

\* Between requests.
LEMMA CallsRest ==
    ASSUME BoardSound, call = [c \in Calls |-> NoCall], call' = call
    PROVE  CallsHold'
  BY DEF CallsHold, CallHolds

LEMMA ConfirmKeeps ==
    ASSUME BoardSound, NEW u \in Staff, Confirm(u)
    PROVE  BoardSound'
<1>1. PICK picker \in {u, Vacant} :
         board' = [SetAll({k \in {"review"} : Open(k)}, "COMPLETED") EXCEPT
                      !["local"] = New(picker), !["remote"] = New(Vacant),
                      !["dispatch"] = New(Vacant), !["receive"] = New(Vacant)]
  BY DEF Confirm
<1>2. PICK K : K = {k \in {"review"} : Open(k)}
  OBVIOUS
<1>3. PICK B : B = SetAll(K, "COMPLETED")
  OBVIOUS
<1>4. BoardRows /\ K \in SUBSET Kinds
  BY <1>2, KindsAre DEF BoardSound
<1>5. /\ B \in [Kinds -> Task]
      /\ \A k \in Kinds : B[k].who = board[k].who
      /\ \A k \in K : B[k].status = "COMPLETED"
      /\ \A k \in Kinds \ K : B[k] = board[k]
  BY <1>3, <1>4, SetAllRows
<1>6. /\ New(picker) \in Task /\ New(Vacant) \in Task
      /\ New(picker).who = picker /\ New(Vacant).who = Vacant
      /\ New(picker).status = "PENDING_ACCEPTANCE" /\ New(Vacant).status = "PENDING_ACCEPTANCE"
  BY DEF New, Task, Statuses, activeStatuses
<1>7. /\ board' \in [Kinds -> Task]
      /\ board'["local"] = New(picker) /\ board'["remote"] = New(Vacant)
      /\ \A k \in Kinds : \/ board'[k] = B[k] \/ board'[k] = New(picker) \/ board'[k] = New(Vacant)
      /\ board'["packing"] = B["packing"] /\ board'["delivery"] = B["delivery"]
  BY <1>1, <1>2, <1>3, <1>5, <1>6, KindsAre
<1>8. ASSUME NEW k \in Kinds, board'[k].who = Vacant
      PROVE  board'[k].status \in {"NONE", "PENDING_ACCEPTANCE", "COMPLETED", "CANCELLED"}
  <2>1. B[k].who = Vacant => B[k].status \in {"NONE", "PENDING_ACCEPTANCE", "COMPLETED", "CANCELLED"}
    BY <1>4, <1>5 DEF BoardRows
  <2>2. QED
    BY <1>6, <1>7, <1>8, <2>1
<1>9. BoardRows'
  BY <1>4, <1>7, <1>8 DEF BoardRows, Confirm, Phases, Preparing
<1>10. CallsHold'
  BY CallsRest DEF Confirm
<1>11. PackedAlways'
  <2>1. "packing" \in Kinds \ K /\ "delivery" \in Kinds \ K
    BY <1>2, KindsAre
  <2>2. board'["packing"] = board["packing"] /\ board'["delivery"] = board["delivery"]
    BY <1>5, <1>7, <2>1
  <2>3. QED
    BY <2>2 DEF BoardSound, PackedAlways, Confirm, Ended
<1>12. PickersHold'
  <2>1. \A k \in Picks : board'[k].who # Vacant => board'[k].who = u
    BY <1>6, <1>7 DEF Picks
  <2>2. QED
    BY <2>1 DEF PickersHold, HolderMayPick, Confirm
<1>13. ReadyIsGathered'
  BY DEF ReadyIsGathered, Confirm
<1>14. QED
  BY <1>9, <1>10, <1>11, <1>12, <1>13 DEF BoardSound

LEMMA PickItemKeeps ==
    ASSUME BoardSound, NEW u \in Staff, NEW k \in Picks, NEW complete \in BOOLEAN, PickItem(u, k, complete)
    PROVE  BoardSound'
<1>1. /\ phase \in Preparing /\ phase' = "PREPARING" /\ gathered' \subseteq Picks
      /\ call = [c \in Calls |-> NoCall]
      /\ UNCHANGED <<board, truck, helpers, chief, given, hands, call>>
  BY DEF PickItem, BoardSound, BoardRows
<1>2. CallsHold'
  BY <1>1, CallsRest
<1>3. BoardRows'
  BY <1>1 DEF BoardSound, BoardRows, Phases, Preparing
<1>4. PackedAlways' /\ PickersHold' /\ ReadyIsGathered'
  BY <1>1 DEF BoardSound, PackedAlways, PickersHold, HolderMayPick, Open, ReadyIsGathered, Preparing, Ended
<1>5. QED
  BY <1>2, <1>3, <1>4 DEF BoardSound

LEMMA TruckKeeps ==
    ASSUME BoardSound, TruckLeaves \/ TruckArrives \/ TruckCalledOff
    PROVE  BoardSound'
<1>1. /\ Moving /\ call = [c \in Calls |-> NoCall]
      /\ UNCHANGED <<phase, gathered, helpers, chief, given, hands, call>>
  BY DEF TruckLeaves, TruckArrives, TruckCalledOff, Moving
<1>2. PICK K \in SUBSET Moves, status \in {"COMPLETED", "CANCELLED"} : board' = SetAll(K, status)
  <2>1. PICK M \in SUBSET Moves, status \in {"COMPLETED", "CANCELLED"} : MovesClosed(M, status)
    BY DEF TruckLeaves, TruckArrives, TruckCalledOff, Moves
  <2>2. QED
    BY <2>1 DEF MovesClosed
<1>3. K \in SUBSET Kinds
  BY KindsAre
<1>4. /\ board' \in [Kinds -> Task]
      /\ \A k \in Kinds : board'[k].who = Vacant =>
            board'[k].status \in {"NONE", "PENDING_ACCEPTANCE", "COMPLETED", "CANCELLED"}
      /\ \A k \in Kinds \ K : board'[k] = board[k]
  BY <1>2, <1>3, ClosedRows
<1>5. \A k \in {"local", "remote", "packing", "delivery"} : board'[k] = board[k]
  BY <1>4, KindsAre DEF Moves
<1>6. CallsHold'
  BY <1>1, CallsRest
<1>7. BoardRows'
  BY <1>1, <1>4 DEF BoardSound, BoardRows
<1>8. PackedAlways' /\ PickersHold'
  BY <1>1, <1>5 DEF BoardSound, PackedAlways, PickersHold, HolderMayPick, Open, Picks
<1>9. ReadyIsGathered'
  BY <1>1 DEF BoardSound, ReadyIsGathered
<1>10. QED
  BY <1>6, <1>7, <1>8, <1>9 DEF BoardSound

-----------------------------------------------------------------------------
(* The board of tasks: every step.                                            *)

LEMMA BoardBegins == TaskBoardInit => BoardSound
<1> SUFFICES ASSUME TaskBoardInit PROVE BoardSound
  OBVIOUS
<1>1. /\ board = [k \in Kinds |-> IF k = "review" THEN New(Vacant) ELSE NoTask]
      /\ phase = "PENDING" /\ gathered = {} /\ truck = "NONE" /\ helpers = {} /\ chief = Vacant
      /\ hands \in Hands /\ call = [c \in Calls |-> NoCall]
  BY DEF TaskBoardInit
<1>2. New(Vacant) \in Task /\ NoTask \in Task /\ New(Vacant).status = "PENDING_ACCEPTANCE"
      /\ NoTask.status = "NONE"
  BY DEF New, NoTask, Task, Statuses, activeStatuses
<1>3. BoardRows
  BY <1>1, <1>2 DEF BoardRows, Phases
<1>4. CallsHold
  BY <1>1 DEF CallsHold, CallHolds
<1>5. PackedAlways
  BY <1>1, <1>2, KindsAre DEF PackedAlways
<1>6. PickersHold /\ ReadyIsGathered
  BY <1>1 DEF PickersHold, HolderMayPick, ReadyIsGathered, Preparing
<1>7. QED
  BY <1>3, <1>4, <1>5, <1>6 DEF BoardSound

\* Who holds a task is of the staff, unless nobody does.
LEMMA TakeStepKeeps ==
    ASSUME BoardSound, NEW c \in Calls, NEW u \in Staff, NEW k \in Kinds, NEW op \in StepOps,
           TakeStep(c, u, k, op), op = "start" /\ k \in Picks => phase \in Preparing
    PROVE  BoardSound'
<1>1. /\ board[k].who = u /\ board[k].status \in Steps[op] /\ Take(c, op, k, u, Vacant)
  BY DEF TakeStep, HoldsTask
<1>2. op \in BoardOps /\ op # "assign" /\ op # "cancel" /\ op # "completeOrder"
  BY DEF BoardOps, StepOps
<1>3. QED
  BY <1>1, <1>2, TakeKeeps

LEMMA OrderTakesKeep ==
    ASSUME BoardSound, NEW c \in Calls, TakeDeliver(c) \/ TakeCancel(c)
    PROVE  BoardSound' /\ UNCHANGED board
<1>0. BoardRows
  BY DEF BoardSound
<1>1. CASE TakeDeliver(c)
  <2>1. Take(c, "deliver", "order", Vacant, Vacant) /\ "deliver" \in BoardOps /\ "deliver" \notin StepOps
    BY <1>1 DEF TakeDeliver, BoardOps, StepOps
  <2>2. QED
    BY <2>1, TakeKeeps DEF Take
<1>2. CASE TakeCancel(c)
  <2>1. PICK to : to = phase
    OBVIOUS
  <2>2. Take(c, "cancel", "order", Vacant, to) /\ to \in Phases /\ to \notin Ended
        /\ "cancel" \in BoardOps /\ "cancel" \notin StepOps
    BY <1>0, <1>2, <2>1 DEF TakeCancel, BoardOps, StepOps, BoardRows
  <2>3. BoardSound'
    BY <2>2, TakeKeeps
  <2>4. QED
    BY <2>2, <2>3 DEF Take
<1>3. QED
  BY <1>1, <1>2

LEMMA TakesKeep ==
    ASSUME BoardSound, NEW c \in Calls, NEW u \in Staff,
           \/ TakeCompleteOrder(c, u) \/ TakeCompletePacking(c, u)
           \/ \E k \in hands.tasks : TakeAssign(c, k, u)
           \/ \E k \in HeldBy(u) :
                 \/ TakeSimpleStep(c, u, k) \/ TakeStartPicking(c, u, k)
                 \/ TakeCompletePicking(c, u, k) \/ TakeCompleteMove(c, u, k)
    PROVE  BoardSound' /\ UNCHANGED board
<1>0. BoardRows
  BY DEF BoardSound
<1>1. CASE TakeCompleteOrder(c, u)
  <2>1. Take(c, "completeOrder", "order", u, Vacant) /\ gathered = Picks /\ ~Moving
        /\ "completeOrder" \in BoardOps /\ "completeOrder" \notin StepOps
    BY <1>1 DEF TakeCompleteOrder, Completable, BoardOps, StepOps
  <2>2. QED
    BY <2>1, TakeKeeps DEF Take
<1>2. CASE TakeCompletePacking(c, u)
  <2>1. TakeStep(c, u, "packing", "complete") /\ "packing" \in Kinds /\ "complete" \in StepOps
    BY <1>2, KindsAre DEF TakeCompletePacking, StepOps
  <2>2. BoardSound'
    BY <2>1, TakeStepKeeps
  <2>3. QED
    BY <2>1, <2>2 DEF TakeStep, Take
<1>3. CASE \E k \in hands.tasks : TakeAssign(c, k, u)
  <2>1. PICK k \in hands.tasks : TakeAssign(c, k, u)
    BY <1>3
  <2>2. PICK w : w = board[k].who
    OBVIOUS
  <2>3. Take(c, "assign", k, w, u) /\ "assign" \in BoardOps /\ "assign" \notin StepOps
    BY <2>1, <2>2 DEF TakeAssign, BoardOps, StepOps
  <2>4. k \in Kinds
    BY <1>0, TaskBoardAssumption DEF BoardRows
  <2>5. w \in Staff \union {Vacant}
    BY <1>0, <2>2, <2>4 DEF BoardRows, Task
  <2>6. BoardSound'
    BY <2>3, <2>4, <2>5, TakeKeeps
  <2>7. QED
    BY <2>3, <2>6 DEF Take
<1>4. CASE \E k \in HeldBy(u) : \/ TakeSimpleStep(c, u, k) \/ TakeStartPicking(c, u, k)
                                \/ TakeCompletePicking(c, u, k) \/ TakeCompleteMove(c, u, k)
  <2>1. PICK k \in Kinds, op \in StepOps : TakeStep(c, u, k, op) /\ (op = "start" /\ k \in Picks => phase \in Preparing)
    BY <1>4 DEF HeldBy, TakeSimpleStep, TakeStartPicking, TakeCompletePicking, TakeCompleteMove, StepOps
  <2>2. BoardSound'
    BY <2>1, TakeStepKeeps
  <2>3. QED
    BY <2>1, <2>2 DEF TakeStep, Take
<1>5. QED
  BY <1>1, <1>2, <1>3, <1>4

\* A request commits.
Commits(c) ==
    \/ Assign(c) \/ SimpleStep(c) \/ StartPicking(c) \/ CompletePicking(c)
    \/ PickingTaskCompleted(c) \/ CompleteOrder(c) \/ CompletePacking(c)
    \/ Deliver(c) \/ Cancel(c) \/ CompleteMove(c)

\* The others are still there.
LEMMA OthersWait ==
    ASSUME BoardSound, NEW c \in Calls, Commits(c), NEW d \in Calls, d # c, call[d] # NoCall
    PROVE  call'[d] # NoCall
<1>1. (\E K : Done(c, K)) \/ CompletePicking(c)
  BY DEF Commits, Assign, SimpleStep, StartPicking, PickingTaskCompleted, CompleteOrder,
         CompletePacking, Deliver, Cancel, CompleteMove, Advanced
<1>2. ASSUME NEW K, Done(c, K) PROVE call'[d] # NoCall
  <2>1. PICK q : q = call[d]
    OBVIOUS
  <2>2. call'[d] = Marked(q) \/ call'[d] = q
    BY <1>2, <2>1 DEF Done, Marked
  <2>3. q \in CallRow /\ q # NoCall
    BY <2>1 DEF BoardSound, CallsHold, CallHolds
  <2>4. Marked(q).op = q.op /\ q.op \in BoardOps
    BY <2>3 DEF Marked, CallRow
  <2>5. QED
    BY <2>2, <2>3, <2>4, NoCallHasNoOp
<1>3. CASE CompletePicking(c)
  <2>1. (\E K : Done(c, K)) \/ call'[d] = call[d]
    BY <1>3 DEF CompletePicking, BoardSound, CallsHold
  <2>2. QED
    BY <1>2, <2>1
<1>4. QED
  BY <1>1, <1>2, <1>3

\* What commits on a task is by who holds it.
LEMMA ActedByHolder ==
    ASSUME BoardSound, NEW c \in Calls, Commits(c), call[c].op \in StepOps
    PROVE  board' = board \/ board[call[c].kind].who = call[c].by
<1>1. call[c] # NoCall /\ CallTyped(call[c]) /\ RowAsRead(call[c])
  BY NoCallHasNoOp DEF BoardSound, CallsHold, CallHolds, BoardOps
<1>2. CASE ~Changed(c)
  BY <1>1, <1>2 DEF RowAsRead, Changed
<1>3. CASE Changed(c)
  <2>1. ~call[c].held
    BY <1>1, <1>3 DEF CallTyped, Changed
  <2>2. QED
    BY <1>3, <2>1 DEF Commits, Assign, SimpleStep, StartPicking, CompletePicking, PickingTaskCompleted, CompleteOrder,
                      CompletePacking, Deliver, Cancel, CompleteMove, Advanced, Serves, StepOps
<1>4. QED
  BY <1>2, <1>3

HolderMoved(c) ==
    call[c].op \in DOMAIN Steps =>
        \/ board'[call[c].kind].status = board[call[c].kind].status
        \/ call'[c] # NoCall
        \/ board[call[c].kind].who = call[c].by

LEMMA BoardSteps ==
    ASSUME BoardSound, [TaskBoardNext]_boardVars
    PROVE  BoardSound' /\ \A c \in Calls : HolderMoved(c)
<1>1. CASE UNCHANGED boardVars
  <2>1. CallsHold'
    BY <1>1 DEF BoardSound, CallsHold, CallHolds, RowAsRead, OrderAsRead, Moving, Beside, boardVars
  <2>2. QED
    BY <1>1, <2>1, OnlyCalls DEF BoardSound, boardVars, HolderMoved
<1>2. CASE \/ \E u \in Staff : Confirm(u) \/ \E k \in Picks, complete \in BOOLEAN : PickItem(u, k, complete)
           \/ TruckLeaves \/ TruckArrives \/ TruckCalledOff
  <2>1. call = [c \in Calls |-> NoCall]
    BY <1>2 DEF Confirm, PickItem, TruckLeaves, TruckArrives, TruckCalledOff
  <2>2. \A c \in Calls : HolderMoved(c)
    BY <2>1, NoCallHasNoOp, StepsAre DEF HolderMoved, BoardOps
  <2>3. QED
    BY <1>2, <2>2, ConfirmKeeps, PickItemKeeps, TruckKeeps
<1>3. ASSUME NEW c \in Calls, Commits(c) PROVE BoardSound' /\ \A d \in Calls : HolderMoved(d)
  <2>1. BoardSound'
    BY <1>3, AssignKeeps, StepsCommit, CompletePickingKeeps, PickingTaskKeeps, CompleteOrderKeeps,
       PackingKeeps, OrderEnds DEF Commits
  <2>2. HolderMoved(c)
    BY <1>3, ActedByHolder, StepsAre DEF HolderMoved
  <2>3. ASSUME NEW d \in Calls, d # c PROVE HolderMoved(d)
    BY <1>3, <2>3, OthersWait, NoCallHasNoOp, StepsAre DEF HolderMoved, BoardOps
  <2>4. QED
    BY <2>1, <2>2, <2>3
<1>4. ASSUME NEW c \in Free, NEW u \in Staff,
             \/ TakeCompleteOrder(c, u) \/ TakeCompletePacking(c, u)
             \/ \E k \in hands.tasks : TakeAssign(c, k, u)
             \/ \E k \in HeldBy(u) :
                   \/ TakeSimpleStep(c, u, k) \/ TakeStartPicking(c, u, k)
                   \/ TakeCompletePicking(c, u, k) \/ TakeCompleteMove(c, u, k)
      PROVE  BoardSound' /\ \A d \in Calls : HolderMoved(d)
  <2>1. c \in Calls
    BY DEF Free
  <2>2. BoardSound' /\ UNCHANGED board
    BY <1>4, <2>1, TakesKeep
  <2>3. QED
    BY <2>2 DEF HolderMoved
<1>5. ASSUME NEW c \in Free, TakeDeliver(c) \/ TakeCancel(c)
      PROVE  BoardSound' /\ \A d \in Calls : HolderMoved(d)
  <2>1. c \in Calls
    BY DEF Free
  <2>2. BoardSound' /\ UNCHANGED board
    BY <1>5, <2>1, OrderTakesKeep
  <2>3. QED
    BY <2>2 DEF HolderMoved
<1>6. QED
  BY <1>1, <1>2, <1>3, <1>4, <1>5 DEF TaskBoardNext, Commits

LEMMA BoardIsSound == TeamSpec => []BoardSound
<1>1. TeamInit => BoardSound
  BY BoardBegins DEF TeamInit
<1>2. BoardSound /\ [TeamNext]_<<part, teamVars, boardVars, proformaVars>> => BoardSound'
  BY StepOfTeam, BoardSteps
<1>3. QED
  BY <1>1, <1>2, PTL DEF TeamSpec

\* Only who holds a task moves it, also when the task is given to somebody else
\* while the request runs, whatever overlaps.
THEOREM TasksMovedByHolders == TeamSpec => MovedByHolder
<1>1. BoardSound /\ [TeamNext]_<<part, teamVars, boardVars, proformaVars>> =>
          [\A c \in Calls : call[c].op \in DOMAIN Steps =>
              \/ board'[call[c].kind].status = board[call[c].kind].status
              \/ call'[c] # NoCall
              \/ board[call[c].kind].who = call[c].by]_boardVars
  BY StepOfTeam, BoardSteps DEF HolderMoved
<1>2. QED
  BY <1>1, BoardIsSound, PTL DEF TeamSpec, MovedByHolder

\* The tasks and their order agree - what was packed has somebody to hand it
\* over, who holds an open picking task may pick, a READY order is gathered -
\* as long as nothing overlaps with the start of a picking task.
THEOREM BoardAlwaysFollows ==
    ASSUME StartsAlone
    PROVE  TeamSpec => []BoardFollowsOrder
<1>1. BoardSound => BoardFollowsOrder
  BY DEF BoardSound, PackedAlways, PickersHold, BoardFollowsOrder, PackedIsShipped, Ended
<1>2. QED
  BY <1>1, BoardIsSound, PTL

-----------------------------------------------------------------------------
(* The lines that are edited: what a request has written is in nobody else's  *)
(* view until it ends, and agrees by itself.                                  *)

\* Functions whose domain is a part of S.
Partial(S, T) == UNION {[D -> T] : D \in SUBSET S}

ItemRow == [here : BOOLEAN, removed : BOOLEAN, reserved : Nat, at : [Depots -> Nat]]
EditKinds == {"add", "remove", "restore"}
ReserveKinds == {"reserve", "reserveAll"}
FreeKinds == {"remove", "release"}

Stages == {"idle", "lock", "read", "take", "depot", "line", "fulfil", "free", "mark", "total", "end"}

EditorRow ==
    [kind : {"none", "release"} \union EditKinds \union ReserveKinds,
     stage : Stages,
     locked : BOOLEAN, items : Partial(Items, ItemRow), taken : Partial(Depots, 0..Stock),
     todo : Seq(Items), stores : Seq(Depots), nth : Nat, lack : Partial(Items, Nat), take : Nat,
     line : Nat, free : [Depots -> Nat], depots : SUBSET Depots, total : Nat]

\* What a request that has written q sees.
Seen(q) == Over(q.items, item)
SeenTaken(q) == Over(q.taken, taken)

Column(rows, d) == [l \in Items |-> rows[l].at[d]]
UnitsAt(rows, d) == SumOf(Column(rows, d), Items)
RowAdds(row) == row.reserved = SumOf(row.at, Depots) /\ row.reserved <= Ordered

\* What is committed.
Committed ==
    /\ total = Cost(item)
    /\ \A l \in Items : RowAdds(item[l]) /\ (~item[l].here => item[l].at = Empty)
    /\ \A d \in Depots : taken[d] = UnitsAt(item, d) /\ taken[d] <= Stock

\* Where a request is, and what it goes by.
AtWork(q) ==
    /\ q.stage = "idle" => q = Waiting
    /\ q.stage \in {"take", "depot", "line", "fulfil"} => q.kind \in ReserveKinds
    /\ q.stage \in {"read", "free"} => q.kind \in FreeKinds
    /\ q.stage \in {"lock", "mark", "total"} => q.kind \in EditKinds
    /\ q.kind \in EditKinds \union FreeKinds => q.line \in Items
    /\ q.kind \in EditKinds /\ q.stage \in {"mark", "total", "end"} => q.locked
    /\ q.stage \in {"take", "depot", "line"} =>
          q.todo \in Seq(DOMAIN q.lack) /\ q.todo # <<>> /\ q.nth \in 1..Len(q.stores)
    /\ q.stage \in {"depot", "line"} => q.take \in 1..q.lack[Head(q.todo)]
    /\ q.stage = "line" => q.stores[q.nth] \in DOMAIN q.taken

\* Its lines are there, but for the one that it adds.
LinesThere(q) ==
    /\ q.kind = "add" => ~item[q.line].here /\ DOMAIN q.items \subseteq {q.line}
    /\ q.kind \in {"remove", "restore", "release"} => item[q.line].here
    /\ q.kind \in ReserveKinds => \A l \in DOMAIN q.lack : item[l].here
    /\ q.kind # "add" => \A l \in DOMAIN q.items : item[l].here

\* A row that it has written.
RowKept(q, l) ==
    /\ RowAdds(q.items[l]) /\ q.items[l].here
    /\ \/ q.kind \in EditKinds /\ q.stage \in {"total", "end"} /\ l = q.line
       \/ q.items[l].here = item[l].here /\ q.items[l].removed = item[l].removed
    /\ ~(q.kind \in FreeKinds /\ l = q.line) => \A d \in Depots : item[l].at[d] <= q.items[l].at[d]

\* Units taken from a depot or given back to it before the line is written.
Pending(q, d) ==
    IF q.stage = "line" /\ d = q.stores[q.nth] THEN q.take
    ELSE IF q.stage = "free" /\ d \notin q.depots THEN -q.free[d] ELSE 0

Balanced(q) ==
    \A d \in Depots : UnitsAt(Seen(q), d) - UnitsAt(item, d) = SeenTaken(q)[d] - taken[d] - Pending(q, d)

\* What is to be released is reserved.
FreeThere(q) ==
    q.stage = "free" => \A d \in Depots : q.free[d] <= Seen(q)[q.line].at[d]

TotalKept(q) == q.kind \in EditKinds /\ q.stage = "end" => q.total = Cost(Seen(q))

EditorHolds(q) ==
    /\ q \in EditorRow /\ AtWork(q) /\ LinesThere(q)
    /\ \A l \in DOMAIN q.items : RowKept(q, l)
    /\ Balanced(q) /\ FreeThere(q) /\ TotalKept(q)

\* Two requests.
EditsApart(q, p) ==
    /\ DOMAIN q.items \intersect DOMAIN p.items = {} /\ DOMAIN q.taken \intersect DOMAIN p.taken = {}
    /\ ~(q.locked /\ p.locked)
    /\ ~(q.kind = "add" /\ p.kind = "add" /\ q.line = p.line)
    /\ ~(q.kind \in FreeKinds /\ p.kind \in FreeKinds /\ q.line = p.line)

ProformaSound ==
    /\ ProformaTypeOK /\ DOMAIN editor = Editors
    /\ Committed
    /\ \A e \in Editors : EditorHolds(editor[e])
    /\ \A e, f \in Editors : e # f => EditsApart(editor[e], editor[f])

LEMMA PartialPart ==
    ASSUME NEW S, NEW T, NEW f \in Partial(S, T)
    PROVE  DOMAIN f \subseteq S /\ \A x \in DOMAIN f : f[x] \in T
  BY DEF Partial

\* One more value.
LEMMA PartialMore ==
    ASSUME NEW S, NEW T, NEW f \in Partial(S, T), NEW x \in S, NEW v \in T
    PROVE  Writes(f, x, v) \in Partial(S, T)
<1> DEFINE g == [y \in DOMAIN f \union {x} |-> IF y = x THEN v ELSE f[y]]
<1>1. Writes(f, x, v) = g
  BY DEF Writes
<1>2. DOMAIN f \union {x} \in SUBSET S
  BY PartialPart
<1>3. g \in [DOMAIN f \union {x} -> T]
  BY <1>1, PartialPart
<1>4. QED
  BY <1>1, <1>2, <1>3 DEF Partial

LEMMA NothingWritten == ASSUME NEW S, NEW T PROVE Unwritten \in Partial(S, T) /\ DOMAIN Unwritten = {}
<1>1. Unwritten \in [{} -> T] /\ DOMAIN Unwritten = {}
  BY DEF Unwritten
<1>2. QED
  BY <1>1 DEF Partial

LEMMA NothingAt == Empty \in [Depots -> Nat] /\ \A d \in Depots : Empty[d] = 0
  BY DEF Empty

LEMMA NewRow == /\ NewItem \in ItemRow /\ NewItem.here /\ ~NewItem.removed
                /\ NewItem.reserved = 0 /\ NewItem.at = Empty
  BY NothingAt DEF NewItem, NoItem, ItemRow

LEMMA ProformaFinite == /\ IsFiniteSet(Items) /\ IsFiniteSet(Depots) /\ IsFiniteSet(Editors) /\ Items \subseteq Nat
                        /\ Ordered \in Nat /\ Stock \in Nat /\ MaxWork \in Nat /\ ReleasesRun \in Nat
  BY ProformaAssumption

\* What a request sees of the lines and of the depots.
LEMMA SeenRows ==
    ASSUME ProformaTypeOK, NEW q, q.items \in Partial(Items, ItemRow)
    PROVE  /\ Seen(q) \in [Items -> ItemRow]
           /\ \A l \in Items : Seen(q)[l] = IF l \in DOMAIN q.items THEN q.items[l] ELSE item[l]
<1>1. DOMAIN q.items \subseteq Items /\ \A x \in DOMAIN q.items : q.items[x] \in ItemRow
  BY PartialPart
<1>2. item \in [Items -> ItemRow]
  BY DEF ProformaTypeOK, ItemRow
<1>3. Seen(q) = [x \in (DOMAIN q.items) \union Items |-> IF x \in DOMAIN q.items THEN q.items[x] ELSE item[x]]
  BY <1>2 DEF Seen, Over
<1>4. QED
  BY <1>1, <1>2, <1>3

LEMMA SeenDepots ==
    ASSUME ProformaTypeOK, NEW q, q.taken \in Partial(Depots, 0..Stock)
    PROVE  /\ SeenTaken(q) \in [Depots -> Nat]
           /\ \A d \in Depots : SeenTaken(q)[d] = IF d \in DOMAIN q.taken THEN q.taken[d] ELSE taken[d]
<1>1. DOMAIN q.taken \subseteq Depots /\ \A x \in DOMAIN q.taken : q.taken[x] \in 0..Stock
  BY PartialPart
<1>2. taken \in [Depots -> Nat]
  BY DEF ProformaTypeOK
<1>3. SeenTaken(q) = [x \in (DOMAIN q.taken) \union Depots |-> IF x \in DOMAIN q.taken THEN q.taken[x] ELSE taken[x]]
  BY <1>2 DEF SeenTaken, Over
<1>4. QED
  BY <1>1, <1>2, <1>3, ProformaFinite

\* Two functions are added.
LEMMA SumPlus ==
    ASSUME NEW S, IsFiniteSet(S), NEW h \in [S -> Nat], NEW k \in [S -> Nat]
    PROVE  SumOf([x \in S |-> h[x] + k[x]], S) = SumOf(h, S) + SumOf(k, S)
<1> DEFINE m == [x \in S |-> h[x] + k[x]]
<1>1. m \in [S -> Nat] /\ \A x \in S : m[x] = h[x] + k[x]
  OBVIOUS
<1>2. [x \in S |-> m[x] - h[x]] = k
  <2>1. \A x \in S : m[x] - h[x] = k[x]
    <3>1. ASSUME NEW x \in S PROVE m[x] - h[x] = k[x]
      <4>1. h[x] \in Nat /\ k[x] \in Nat /\ m[x] = h[x] + k[x]
        BY <1>1
      <4>2. QED
        BY <4>1
    <3>2. QED
      BY <3>1
  <2> HIDE DEF m
  <2>2. QED
    BY <2>1
<1>3. \A x \in S : h[x] <= m[x]
  BY <1>1
<1> HIDE DEF m
<1>4. SumOf(k, S) = SumOf(m, S) - SumOf(h, S)
  BY <1>1, <1>2, <1>3, SumMinus
<1>5. SumOf(k, S) \in Nat /\ SumOf(m, S) \in Nat /\ SumOf(h, S) \in Nat
  BY <1>1, SumNat
<1>6. QED
  BY <1>4, <1>5 DEF m

\* The same is added to two functions.
LEMMA SumExchange ==
    ASSUME NEW S, IsFiniteSet(S), NEW h \in [S -> Nat], NEW k \in [S -> Nat],
           NEW g \in [S -> Nat], NEW f \in [S -> Nat], \A x \in S : h[x] + k[x] = g[x] + f[x]
    PROVE  SumOf(h, S) + SumOf(k, S) = SumOf(g, S) + SumOf(f, S)
<1>1. [x \in S |-> h[x] + k[x]] = [x \in S |-> g[x] + f[x]]
  OBVIOUS
<1>2. SumOf([x \in S |-> h[x] + k[x]], S) = SumOf(h, S) + SumOf(k, S)
  BY SumPlus
<1>3. SumOf([x \in S |-> g[x] + f[x]], S) = SumOf(g, S) + SumOf(f, S)
  BY SumPlus
<1>4. QED
  BY <1>1, <1>2, <1>3

\* The units that the lines have at a depot.
LEMMA UnitsNat ==
    ASSUME NEW rows \in [Items -> ItemRow], NEW d \in Depots
    PROVE  /\ Column(rows, d) \in [Items -> Nat] /\ \A l \in Items : Column(rows, d)[l] = rows[l].at[d]
           /\ UnitsAt(rows, d) \in Nat /\ \A l \in Items : rows[l].at[d] <= UnitsAt(rows, d)
<1>1. Column(rows, d) \in [Items -> Nat] /\ \A l \in Items : Column(rows, d)[l] = rows[l].at[d]
  BY DEF Column, ItemRow
<1>2. QED
  BY <1>1, ProformaFinite, SumNat, SumMember DEF UnitsAt

\* One line changes.
LEMMA UnitsChange ==
    ASSUME NEW rows \in [Items -> ItemRow], NEW more \in [Items -> ItemRow], NEW l \in Items, NEW d \in Depots,
           \A m \in Items : m # l => more[m].at[d] = rows[m].at[d]
    PROVE  UnitsAt(more, d) = UnitsAt(rows, d) - rows[l].at[d] + more[l].at[d]
<1> DEFINE h == Column(rows, d)
           k == Column(more, d)
<1>1. /\ h \in [Items -> Nat] /\ h[l] = rows[l].at[d] /\ k \in [Items -> Nat] /\ k[l] = more[l].at[d]
      /\ \A m \in Items : m # l => k[m] = h[m]
  BY UnitsNat
<1> HIDE DEF h, k
<1>0. IsFiniteSet(Items) /\ l \in Items
  BY ProformaFinite
<1>2. SumOf(k, Items) = SumOf(h, Items) - h[l] + k[l]
  BY <1>0, <1>1, SumChange
<1>3. QED
  BY <1>1, <1>2 DEF h, k, UnitsAt

LEMMA UnitsSame ==
    ASSUME NEW rows \in [Items -> ItemRow], NEW more \in [Items -> ItemRow], NEW d \in Depots,
           \A m \in Items : more[m].at[d] = rows[m].at[d]
    PROVE  UnitsAt(more, d) = UnitsAt(rows, d)
<1>1. Column(more, d) = Column(rows, d)
  BY DEF Column
<1>2. QED
  BY <1>1 DEF UnitsAt

\* As the model states the sum.
LEMMA UnitsAsSum ==
    ASSUME ProformaTypeOK, NEW d \in Depots
    PROVE  MapThenSumSet(LAMBDA l : item[l].at[d], Items) = UnitsAt(item, d)
<1> DEFINE h == Column(item, d)
<1>1. item \in [Items -> ItemRow]
  BY DEF ProformaTypeOK, ItemRow
<1>2. h \in [Items -> Nat] /\ \A l \in Items : h[l] = item[l].at[d]
  BY <1>1, UnitsNat
<1> DEFINE Fold(g) == g = [s \in SUBSET Items |-> IF s = {} THEN 0
                                ELSE LET x == CHOOSE x \in s : TRUE IN item[x].at[d] + g[s \ {x}]]
<1>3. MapThenSumSet(LAMBDA l : item[l].at[d], Items) = (CHOOSE g : Fold(g))[Items]
  BY DEF MapThenSumSet, MapThenFoldSet
<1> HIDE DEF h
<1>4. ASSUME NEW g PROVE IsSum(h, Items, g) <=> Fold(g)
  <2>1. ASSUME NEW s \in SUBSET Items
        PROVE  StepSum(h, g, s) = IF s = {} THEN 0
                                ELSE LET x == CHOOSE x \in s : TRUE IN item[x].at[d] + g[s \ {x}]
    <3>1. s # {} => (CHOOSE x \in s : TRUE) \in Items
      OBVIOUS
    <3>2. QED
      BY <1>2, <3>1 DEF StepSum, First1
  <2>2. QED
    BY <2>1 DEF IsSum
<1> HIDE DEF Fold
<1>5. PICK g : IsSum(h, Items, g) /\ SumOf(h, Items) = g[Items]
  BY <1>2, ProformaFinite, SumFn
<1>6. Fold(CHOOSE f : Fold(f))
  BY <1>4, <1>5
<1> DEFINE c == CHOOSE f : Fold(f)
<1>7. IsSum(h, Items, c)
  BY <1>4, <1>6
<1> HIDE DEF c
<1>8. c[Items] = g[Items]
  <2>1. IsFiniteSet(Items) /\ h \in [Items -> Nat] /\ IsSum(h, Items, c) /\ IsSum(h, Items, g)
    BY <1>2, <1>5, <1>7, ProformaFinite
  <2>2. \A T \in SUBSET Items : (\A x \in T : h[x] = h[x]) => c[T] = g[T]
    BY <2>1, SumsAgree
  <2>3. QED
    BY <2>2
<1>9. QED
  BY <1>3, <1>5, <1>8 DEF h, c, UnitsAt

-----------------------------------------------------------------------------
(* The step of one request.                                                  *)

\* A request goes on, and nothing is committed.
LEMMA GoesKeeps ==
    ASSUME ProformaSound, NEW e \in Editors, NEW q, editor' = [editor EXCEPT ![e] = q],
           UNCHANGED <<total, item, taken>>, ProformaTypeOK', EditorHolds(q),
           \A f \in Editors \ {e} : EditsApart(q, editor[f])
    PROVE  ProformaSound'
<1>1. DOMAIN editor' = Editors /\ editor'[e] = q /\ \A f \in Editors \ {e} : editor'[f] = editor[f]
  BY DEF ProformaSound
<1>2. Committed'
  <2>1. Cost(item)' = Cost(item)
    BY DEF Cost, Quantify
  <2>2. \A d \in Depots : UnitsAt(item, d)' = UnitsAt(item, d)
    BY DEF UnitsAt, Column
  <2>3. QED
    BY <2>1, <2>2 DEF ProformaSound, Committed, RowAdds
<1>3. ASSUME NEW p, EditorHolds(p) PROVE EditorHolds(p)'
  <2>0. Seen(p)' = Seen(p) /\ SeenTaken(p)' = SeenTaken(p)
    BY DEF Seen, SeenTaken, Over
  <2>1. Seen(p)' = Seen(p) /\ SeenTaken(p)' = SeenTaken(p) /\ Cost(Seen(p))' = Cost(Seen(p))
    BY <2>0 DEF Cost, Quantify
  <2>2. \A d \in Depots : UnitsAt(Seen(p), d)' = UnitsAt(Seen(p), d) /\ UnitsAt(item, d)' = UnitsAt(item, d)
    BY <2>1 DEF UnitsAt, Column
  <2>3. (\A l \in DOMAIN p.items : RowKept(p, l))'
    BY <1>3 DEF EditorHolds, RowKept, RowAdds
  <2>4. Balanced(p)' /\ FreeThere(p)' /\ TotalKept(p)'
    BY <1>3, <2>1, <2>2 DEF EditorHolds, Balanced, FreeThere, TotalKept, Pending
  <2>5. QED
    BY <1>3, <2>3, <2>4 DEF EditorHolds, AtWork, LinesThere
<1>4. ASSUME NEW f \in Editors PROVE EditorHolds(editor[f])'
  <2>1. PICK p : p = editor'[f]
    OBVIOUS
  <2>2. EditorHolds(p)
    BY <1>1, <2>1 DEF ProformaSound
  <2>3. EditorHolds(p)'
    BY <1>3, <2>2
  <2>4. QED
    BY <2>1, <2>3 DEF EditorHolds, AtWork, LinesThere, RowKept, Balanced, FreeThere, TotalKept, Seen, SeenTaken, Pending
<1>5. ASSUME NEW f \in Editors, NEW g \in Editors, f # g PROVE EditsApart(editor[f], editor[g])'
  BY <1>1, <1>5 DEF ProformaSound, EditsApart
<1>6. QED
  BY <1>1, <1>2, <1>4, <1>5 DEF ProformaSound

\* A request has begun and has written nothing.
LEMMA NothingDone ==
    ASSUME ProformaSound, NEW q, q \in EditorRow, AtWork(q), LinesThere(q),
           q.items = Unwritten, q.taken = Unwritten, q.stage \notin {"line", "free", "end"}
    PROVE  EditorHolds(q)
<1>1. DOMAIN q.items = {} /\ DOMAIN q.taken = {}
  BY NothingWritten
<1>2. q.items \in Partial(Items, ItemRow) /\ q.taken \in Partial(Depots, 0..Stock)
  BY NothingWritten
<1>3. ProformaTypeOK
  BY DEF ProformaSound
<1>4. Seen(q) = item
  <2>1. \A l \in Items : Seen(q)[l] = item[l]
    BY <1>1, <1>2, <1>3, SeenRows
  <2>2. Seen(q) \in [Items -> ItemRow] /\ item \in [Items -> ItemRow]
    BY <1>2, <1>3, SeenRows DEF ProformaTypeOK, ItemRow
  <2>3. QED
    BY <2>1, <2>2
<1>5. \A d \in Depots : SeenTaken(q)[d] = taken[d] /\ taken[d] \in Nat
  BY <1>1, <1>2, <1>3, SeenDepots DEF ProformaTypeOK
<1>6. Balanced(q)
  <2>1. ASSUME NEW d \in Depots
        PROVE  UnitsAt(Seen(q), d) - UnitsAt(item, d) = SeenTaken(q)[d] - taken[d] - Pending(q, d)
    <3>1. UnitsAt(item, d) \in Nat
      BY <1>3, UnitsNat DEF ProformaTypeOK, ItemRow
    <3>2. Pending(q, d) = 0
      BY DEF Pending
    <3>3. QED
      BY <1>4, <1>5, <3>1, <3>2
  <2>2. QED
    BY <2>1 DEF Balanced
<1>7. QED
  BY <1>1, <1>6 DEF EditorHolds, FreeThere, TotalKept

\* One line is released by one request at a time.
OneRelease == ReleasesRun <= 1

LEMMA NobodyReleases ==
    ASSUME OneRelease, ProformaSound, NEW l, MayRelease(l), NEW e \in Editors
    PROVE  ~(editor[e].kind \in FreeKinds /\ editor[e].line = l)
<1>1. IsFiniteSet(Releasing(l))
  BY ProformaFinite, FS_Subset DEF Releasing
<1>2. Cardinality(Releasing(l)) \in Nat
  BY <1>1, FS_CardinalityType
<1>3. Cardinality(Releasing(l)) = 0
  BY <1>2, ProformaFinite DEF MayRelease, OneRelease
<1>4. Releasing(l) = {}
  BY <1>1, <1>3, FS_EmptySet
<1>5. QED
  BY <1>4 DEF Releasing, FreeKinds

LEMMA WaitingRow ==
    /\ Waiting \in EditorRow
    /\ Waiting.kind = "none" /\ Waiting.stage = "idle" /\ Waiting.items = Unwritten /\ Waiting.taken = Unwritten
    /\ ~Waiting.locked
<1>1. Unwritten \in Partial(Items, ItemRow) /\ Unwritten \in Partial(Depots, 0..Stock)
      /\ Unwritten \in Partial(Items, Nat)
  BY NothingWritten
<1>2. <<>> \in Seq(Items) /\ <<>> \in Seq(Depots)
  OBVIOUS
<1>3. QED
  <2>1. "idle" \in Stages /\ 0 \in Nat /\ 1 \in Nat
    BY DEF Stages
  <2>2. Waiting \in EditorRow
    BY <1>1, <1>2, <2>1, NothingAt DEF Waiting, EditorRow
  <2>3. QED
    BY <2>2 DEF Waiting

\* A request begins with what it has read.
LEMMA AskKeeps ==
    ASSUME OneRelease, ProformaSound, NEW e \in Editors, NEW q, Ask(e, q), q \in EditorRow, AtWork(q), LinesThere(q),
           q.items = Unwritten, q.taken = Unwritten, q.stage \notin {"line", "free", "end"}, ~q.locked,
           q.kind = "add" => \A f \in Editors : ~(editor[f].kind = "add" /\ editor[f].line = q.line),
           q.kind \in FreeKinds => MayRelease(q.line)
    PROVE  ProformaSound'
<1>1. ProformaTypeOK'
  BY ProformaFinite DEF ProformaSound, ProformaTypeOK, Ask
<1>2. EditorHolds(q)
  BY NothingDone
<1>3. \A f \in Editors \ {e} : EditsApart(q, editor[f])
  BY NothingWritten, NobodyReleases DEF EditsApart
<1>4. QED
  BY <1>1, <1>2, <1>3, GoesKeeps DEF Ask

LEMMA EditAsks ==
    ASSUME OneRelease, ProformaSound, NEW e \in Editors,
           AddOrderItem(e) \/ RestoreOrderItem(e) \/ RemoveOrderItem(e) \/ ReleaseRemoteStock(e)
    PROVE  ProformaSound'
<1>1. PICK l \in Items, kind \in {"add", "restore", "remove", "release"}, place \in {"lock", "read"} :
        /\ Ask(e, [Waiting EXCEPT !.kind = kind, !.stage = place, !.line = l])
        /\ place = "lock" => kind # "release"
        /\ place = "read" => kind \in FreeKinds
        /\ kind = "add" => ~item[l].here /\ \A f \in Editors : ~(editor[f].kind = "add" /\ editor[f].line = l)
        /\ kind # "add" => item[l].here
        /\ kind \in FreeKinds => MayRelease(l)
  <2>1. CASE AddOrderItem(e)
    BY <2>1 DEF AddOrderItem, FreeKinds
  <2>2. CASE RestoreOrderItem(e)
    BY <2>2 DEF RestoreOrderItem, FreeKinds
  <2>3. CASE RemoveOrderItem(e)
    <3>1. PICK l \in Items :
            /\ item[l].here /\ MayRelease(l)
            /\ Ask(e, [Waiting EXCEPT !.kind = "remove", !.line = l,
                              !.stage = IF item[l].reserved > 0 THEN "read" ELSE "lock"])
      BY <2>3 DEF RemoveOrderItem
    <3>2. PICK place \in {"lock", "read"} : place = IF item[l].reserved > 0 THEN "read" ELSE "lock"
      OBVIOUS
    <3>3. Ask(e, [Waiting EXCEPT !.kind = "remove", !.stage = place, !.line = l])
      <4>1. [Waiting EXCEPT !.kind = "remove", !.line = l, !.stage = place]
            = [Waiting EXCEPT !.kind = "remove", !.stage = place, !.line = l]
        BY DEF Waiting
      <4>2. QED
        BY <3>1, <3>2, <4>1
    <3>4. QED
      BY <3>1, <3>3 DEF FreeKinds
  <2>4. CASE ReleaseRemoteStock(e)
    <3>1. PICK l \in Items :
            /\ item[l].here /\ MayRelease(l)
            /\ Ask(e, [Waiting EXCEPT !.kind = "release", !.line = l, !.stage = "read"])
      BY <2>4 DEF ReleaseRemoteStock
    <3>2. [Waiting EXCEPT !.kind = "release", !.line = l, !.stage = "read"]
            = [Waiting EXCEPT !.kind = "release", !.stage = "read", !.line = l]
      BY DEF Waiting
    <3>3. QED
      BY <3>1, <3>2 DEF FreeKinds
  <2>5. QED
    BY <2>1, <2>2, <2>3, <2>4
<1>2. PICK q : q = [Waiting EXCEPT !.kind = kind, !.stage = place, !.line = l]
  OBVIOUS
<1>3. /\ q.kind = kind /\ q.stage = place /\ q.line = l /\ q.items = Unwritten /\ q.taken = Unwritten
      /\ ~q.locked
  BY <1>2 DEF Waiting
<1>4. q \in EditorRow
  <2>1. place \in Stages /\ l \in Nat
    BY <1>1, ProformaFinite DEF Stages
  <2>2. QED
    BY <1>1, <1>2, <2>1, WaitingRow DEF EditorRow, EditKinds, ReserveKinds
<1>5. AtWork(q)
  BY <1>1, <1>3 DEF AtWork, EditKinds, ReserveKinds, FreeKinds
<1>6. LinesThere(q)
  BY <1>1, <1>3, NothingWritten DEF LinesThere, ReserveKinds
<1>7. QED
  BY <1>1, <1>2, <1>3, <1>4, <1>5, <1>6, AskKeeps

LEMMA ReserveAsks ==
    ASSUME OneRelease, ProformaSound, NEW e \in Editors, ReserveRemoteStock(e) \/ ReserveAllRecommended(e)
    PROVE  ProformaSound'
<1>0. item \in [Items -> ItemRow]
  BY DEF ProformaSound, ProformaTypeOK, ItemRow
<1>1. PICK kind, lines, stores, todo, lack :
        /\ kind \in ReserveKinds /\ lines \in SUBSET Items /\ stores \in Seq(Depots)
        /\ todo \in Seq(lines) /\ lack \in [lines -> Nat]
        /\ Ask(e, [Waiting EXCEPT !.kind = kind, !.stage = "take", !.todo = todo, !.stores = stores, !.lack = lack])
        /\ todo # <<>> /\ Len(stores) >= 1
        /\ \A l \in lines : item[l].here
  <2>1. CASE ReserveRemoteStock(e)
    <3>1. PICK l \in Items, d \in Depots :
            /\ item[l].here /\ item[l].reserved < Ordered
            /\ Ask(e, [Waiting EXCEPT !.kind = "reserve", !.stage = "take", !.todo = <<l>>, !.stores = <<d>>,
                                      !.lack = [m \in {l} |-> Ordered - item[l].reserved]])
      BY <2>1 DEF ReserveRemoteStock
    <3>2. item[l].reserved \in Nat
      BY <1>0 DEF ItemRow
    <3>3. Ordered - item[l].reserved \in Nat
      BY <3>1, <3>2, ProformaFinite
    <3>4. [m \in {l} |-> Ordered - item[l].reserved] \in [{l} -> Nat]
      BY <3>3
    <3>5. {l} \in SUBSET Items /\ <<l>> \in Seq({l}) /\ <<d>> \in Seq(Depots) /\ <<l>> # <<>> /\ Len(<<d>>) >= 1
      OBVIOUS
    <3>6. QED
      BY <3>1, <3>4, <3>5 DEF ReserveKinds
  <2>2. CASE ReserveAllRecommended(e)
    <3> DEFINE pending == {l \in Items : item[l].here /\ ~item[l].removed /\ item[l].reserved < Ordered}
    <3>1. PICK lines \in Sorted(pending), stores \in Recommended :
            /\ pending # {} /\ Depots # {}
            /\ Ask(e, [Waiting EXCEPT !.kind = "reserveAll", !.stage = "take", !.todo = lines, !.stores = stores,
                        !.lack = [l \in pending |-> Ordered - item[l].reserved]])
      BY <2>2 DEF ReserveAllRecommended
    <3>2. IsFiniteSet(pending) /\ IsFiniteSet(Depots)
      BY ProformaFinite, FS_Subset
    <3>3. Cardinality(pending) \in Nat \ {0} /\ Cardinality(Depots) \in Nat \ {0}
      BY <3>1, <3>2, FS_CardinalityType, FS_EmptySet
    <3>4. lines \in [1..Cardinality(pending) -> pending] /\ stores \in [1..Cardinality(Depots) -> Depots]
      BY <3>1 DEF Sorted, Recommended
    <3>5. \A l \in pending : Ordered - item[l].reserved \in Nat
      <4>1. ASSUME NEW l \in pending PROVE Ordered - item[l].reserved \in Nat
        <5>1. item[l].reserved \in Nat /\ item[l].reserved < Ordered
          BY <1>0, <4>1 DEF ItemRow
        <5>2. QED
          BY <5>1, ProformaFinite
      <4>2. QED
        BY <4>1
    <3>6. [l \in pending |-> Ordered - item[l].reserved] \in [pending -> Nat] /\ pending \in SUBSET Items
      BY <3>5
    <3>7. \A l \in pending : item[l].here
      OBVIOUS
    <3> HIDE DEF pending
    <3>8. lines \in Seq(pending) /\ Len(lines) = Cardinality(pending)
      BY <3>3, <3>4
    <3>9. stores \in Seq(Depots) /\ Len(stores) = Cardinality(Depots)
      BY <3>3, <3>4
    <3>10. lines # <<>> /\ Len(stores) >= 1
      BY <3>3, <3>8, <3>9
    <3>11. QED
      BY <3>1, <3>6, <3>7, <3>8, <3>9, <3>10 DEF ReserveKinds
  <2>3. QED
    BY <2>1, <2>2
<1>2. PICK q : q = [Waiting EXCEPT !.kind = kind, !.stage = "take", !.todo = todo, !.stores = stores, !.lack = lack]
  OBVIOUS
<1>3. /\ q.kind = kind /\ q.stage = "take" /\ q.todo = todo /\ q.stores = stores /\ q.lack = lack
      /\ q.nth = 1 /\ q.items = Unwritten /\ q.taken = Unwritten /\ ~q.locked
  BY <1>2 DEF Waiting
<1>4. q \in EditorRow
  <2>1. lack \in Partial(Items, Nat) /\ todo \in Seq(Items)
    BY <1>1 DEF Partial
  <2>2. QED
    <3>1. "take" \in Stages /\ kind \in {"none", "release"} \union EditKinds \union ReserveKinds /\ stores \in Seq(Depots)
      BY <1>1 DEF Stages
    <3>2. QED
      BY <1>2, <2>1, <3>1, WaitingRow DEF EditorRow
<1>5. AtWork(q)
  <2>1. DOMAIN q.lack = lines /\ q.todo \in Seq(DOMAIN q.lack) /\ q.nth \in 1..Len(q.stores)
    BY <1>1, <1>3
  <2>2. QED
    BY <1>1, <1>3, <2>1 DEF AtWork, EditKinds, ReserveKinds, FreeKinds
<1>6. LinesThere(q)
  BY <1>1, <1>3, NothingWritten DEF LinesThere, ReserveKinds
<1>7. q.kind # "add" /\ q.kind \notin FreeKinds
  BY <1>1, <1>3 DEF ReserveKinds, FreeKinds
<1>8. QED
  BY <1>1, <1>2, <1>3, <1>4, <1>5, <1>6, <1>7, AskKeeps

\* A request that has written nothing more.
LEMMA ControlHolds ==
    ASSUME ProformaSound, NEW p, EditorHolds(p), NEW q, q \in EditorRow, AtWork(q),
           q.items = p.items, q.taken = p.taken, q.kind = p.kind, q.line = p.line, DOMAIN q.lack = DOMAIN p.lack,
           \A d \in Depots : Pending(q, d) = Pending(p, d),
           p.stage \in {"total", "end"} => q.stage \in {"total", "end"},
           FreeThere(q), TotalKept(q)
    PROVE  EditorHolds(q)
<1>1. Seen(q) = Seen(p) /\ SeenTaken(q) = SeenTaken(p)
  BY DEF Seen, SeenTaken
<1>2. Balanced(q)
  BY <1>1 DEF EditorHolds, Balanced
<1>3. LinesThere(q)
  BY DEF EditorHolds, LinesThere
<1>4. \A l \in DOMAIN q.items : RowKept(q, l)
  BY DEF EditorHolds, RowKept
<1>5. QED
  BY <1>2, <1>3, <1>4 DEF EditorHolds

\* It does not lock the order now.
LEMMA ControlApart ==
    ASSUME ProformaSound, NEW e \in Editors, NEW q, q.items = editor[e].items, q.taken = editor[e].taken,
           q.kind = editor[e].kind, q.line = editor[e].line, q.locked => editor[e].locked \/ OrderFree(e)
    PROVE  \A f \in Editors \ {e} : EditsApart(q, editor[f])
  BY DEF ProformaSound, EditsApart, OrderFree

LEMMA GoesTyped ==
    ASSUME ProformaSound, NEW e, NEW q, Goes(e, q) PROVE ProformaTypeOK'
  BY DEF ProformaSound, ProformaTypeOK, Goes

LEMMA ControlKeeps ==
    ASSUME ProformaSound, NEW e \in Editors, NEW p, p = editor[e], NEW q, Goes(e, q), q \in EditorRow, AtWork(q),
           q.items = p.items, q.taken = p.taken, q.kind = p.kind, q.line = p.line, DOMAIN q.lack = DOMAIN p.lack,
           \A d \in Depots : Pending(q, d) = Pending(p, d),
           p.stage \in {"total", "end"} => q.stage \in {"total", "end"},
           FreeThere(q), TotalKept(q), q.locked => p.locked \/ OrderFree(e)
    PROVE  ProformaSound'
<1>1. EditorHolds(p)
  BY DEF ProformaSound
<1>2. EditorHolds(q)
  BY <1>1, ControlHolds
<1>3. \A f \in Editors \ {e} : EditsApart(q, editor[f])
  BY ControlApart
<1>4. QED
  BY <1>2, <1>3, GoesTyped, GoesKeeps DEF Goes

Placed(r, n, place) == [r EXCEPT !.take = n, !.stage = place]

SameBut(q, r) ==
    /\ q.items = r.items /\ q.taken = r.taken /\ q.kind = r.kind /\ q.line = r.line /\ q.lack = r.lack
    /\ q.locked = r.locked /\ q.todo = r.todo /\ q.nth = r.nth /\ q.stores = r.stores

LEMMA TakePlaced ==
    ASSUME NEW r \in EditorRow, NEW place \in Stages, NEW n \in Nat
    PROVE  /\ Placed(r, n, place) \in EditorRow /\ SameBut(Placed(r, n, place), r)
           /\ Placed(r, n, place).take = n /\ Placed(r, n, place).stage = place
  BY DEF EditorRow, Placed, SameBut

LEMMA HeadAndTail ==
    ASSUME NEW S, NEW s \in Seq(S), s # <<>>
    PROVE  Head(s) \in S /\ Tail(s) \in Seq(S)
  OBVIOUS

\* On to the next depot or line.
LEMMA OnwardGoes ==
    ASSUME NEW r, r \in EditorRow, r.kind \in ReserveKinds, r.todo \in Seq(DOMAIN r.lack), r.todo # <<>>,
           r.nth \in 1..Len(r.stores), NEW q, q = Onward(r)
    PROVE  /\ q \in EditorRow /\ AtWork(q)
           /\ q.items = r.items /\ q.taken = r.taken /\ q.kind = r.kind /\ q.line = r.line /\ q.lack = r.lack
           /\ q.locked = r.locked /\ q.stage \in {"take", "fulfil"}
<1> DEFINE next == IF r.nth < Len(r.stores) THEN [r EXCEPT !.nth = @ + 1]
                   ELSE [r EXCEPT !.nth = 1, !.todo = Tail(@)]
<1>1. r.stores \in Seq(Depots) /\ Len(r.stores) \in Nat /\ r.todo \in Seq(Items)
  BY DEF EditorRow
<1>2. Tail(r.todo) \in Seq(DOMAIN r.lack) /\ Tail(r.todo) \in Seq(Items)
  BY <1>1, HeadAndTail
<1>3. /\ next \in EditorRow /\ next.todo \in Seq(DOMAIN r.lack) /\ next.nth \in 1..Len(r.stores)
      /\ next.items = r.items /\ next.taken = r.taken /\ next.kind = r.kind /\ next.line = r.line
      /\ next.lack = r.lack /\ next.stores = r.stores /\ next.locked = r.locked
  <2>1. CASE r.nth < Len(r.stores)
    <3>1. next = [r EXCEPT !.nth = r.nth + 1]
      BY <2>1
    <3>2. r.nth + 1 \in 1..Len(r.stores) /\ r.nth + 1 \in Nat
      BY <1>1, <2>1
    <3> HIDE DEF next
    <3>3. QED
      BY <3>1, <3>2 DEF EditorRow
  <2>2. CASE ~(r.nth < Len(r.stores))
    <3>1. next = [r EXCEPT !.nth = 1, !.todo = Tail(r.todo)]
      BY <2>2
    <3>2. 1 \in 1..Len(r.stores)
      BY <1>1
    <3> HIDE DEF next
    <3>3. QED
      BY <1>2, <3>1, <3>2 DEF EditorRow
  <2>3. QED
    BY <2>1, <2>2
<1>4. q = [next EXCEPT !.take = 0, !.stage = IF next.todo = <<>> THEN "fulfil" ELSE "take"]
  BY DEF Onward
<1> HIDE DEF next
<1>5. PICK place \in {"fulfil", "take"} : place = IF next.todo = <<>> THEN "fulfil" ELSE "take"
  OBVIOUS
<1>6. q = Placed(next, 0, place)
  BY <1>4, <1>5 DEF Placed
<1>7. /\ q \in EditorRow /\ q.stage = place /\ q.todo = next.todo /\ q.nth = next.nth /\ q.stores = next.stores
      /\ q.items = next.items /\ q.taken = next.taken /\ q.kind = next.kind /\ q.line = next.line
      /\ q.lack = next.lack /\ q.locked = next.locked
  <2>1. next \in EditorRow /\ place \in Stages /\ 0 \in Nat
    BY <1>3, <1>5 DEF Stages
  <2> HIDE DEF Stages
  <2>2. QED
    <3>1. q \in EditorRow /\ SameBut(q, next) /\ q.stage = place
      BY <1>6, <2>1, TakePlaced
    <3>2. QED
      BY <3>1 DEF SameBut
<1>8. AtWork(q)
  BY <1>3, <1>5, <1>7 DEF AtWork, EditKinds, ReserveKinds, FreeKinds
<1>9. QED
  BY <1>3, <1>5, <1>7, <1>8

Lesser(a, b) == Min({a, b})
Greater(a, b) == Max({a, b})

LEMMA LeastOfTwo ==
    ASSUME NEW a \in Int, NEW b \in Int
    PROVE  Lesser(a, b) \in {a, b} /\ Lesser(a, b) <= a /\ Lesser(a, b) <= b
<1>1. \E x \in {a, b} : \A y \in {a, b} : x <= y
  <2>1. CASE a <= b
    BY <2>1
  <2>2. CASE b <= a
    BY <2>2
  <2>3. QED
    BY <2>1, <2>2
<1>2. QED
  BY <1>1 DEF Min, Lesser

LEMMA GreatestOfTwo ==
    ASSUME NEW a \in Int, NEW b \in Int
    PROVE  Greater(a, b) \in {a, b} /\ Greater(a, b) >= a /\ Greater(a, b) >= b
<1>1. \E x \in {a, b} : \A y \in {a, b} : x >= y
  <2>1. CASE a <= b
    BY <2>1
  <2>2. CASE b <= a
    BY <2>2
  <2>3. QED
    BY <2>1, <2>2
<1>2. QED
  BY <1>1 DEF Max, Greater

\* What the requests that reserve know.
LEMMA Reserving ==
    ASSUME ProformaSound, NEW e \in Editors, NEW p, p = editor[e], p.stage \in {"take", "depot", "line"}
    PROVE  /\ EditorHolds(p) /\ p \in EditorRow /\ AtWork(p) /\ p.kind \in ReserveKinds
           /\ p.todo \in Seq(DOMAIN p.lack) /\ p.todo # <<>> /\ p.nth \in 1..Len(p.stores)
           /\ Line(e) = Head(p.todo) /\ Line(e) \in DOMAIN p.lack /\ Line(e) \in Items /\ item[Line(e)].here
           /\ p.lack \in Partial(Items, Nat) /\ p.lack[Line(e)] \in Nat
           /\ Depot(e) = p.stores[p.nth] /\ Depot(e) \in Depots
           /\ SeenTaken(p) = TakenOf(e) /\ TakenOf(e) \in [Depots -> Nat] /\ TakenOf(e)[Depot(e)] <= Stock
<1>1. EditorHolds(p) /\ p \in EditorRow /\ AtWork(p)
  BY DEF ProformaSound, EditorHolds
<1>2. p.kind \in ReserveKinds /\ p.todo \in Seq(DOMAIN p.lack) /\ p.todo # <<>> /\ p.nth \in 1..Len(p.stores)
  BY <1>1 DEF AtWork
<1>3. p.lack \in Partial(Items, Nat) /\ p.stores \in Seq(Depots) /\ p.taken \in Partial(Depots, 0..Stock)
  BY <1>1 DEF EditorRow
<1>4. Line(e) = Head(p.todo) /\ Depot(e) = p.stores[p.nth]
  BY DEF Line, Depot
<1>5. Line(e) \in DOMAIN p.lack
  BY <1>2, <1>4, HeadAndTail
<1>6. Line(e) \in Items /\ p.lack[Line(e)] \in Nat
  BY <1>3, <1>5, PartialPart
<1>7. item[Line(e)].here
  BY <1>1, <1>2, <1>5 DEF EditorHolds, LinesThere
<1>8. Depot(e) \in Depots
  BY <1>2, <1>3, <1>4
<1>9. SeenTaken(p) = TakenOf(e)
  BY DEF SeenTaken, TakenOf
<1>10. TakenOf(e) \in [Depots -> Nat]
      /\ \A d \in Depots : TakenOf(e)[d] = IF d \in DOMAIN p.taken THEN p.taken[d] ELSE taken[d]
  BY <1>3, <1>9, SeenDepots DEF ProformaSound
<1>11. TakenOf(e)[Depot(e)] <= Stock
  <2>1. taken[Depot(e)] <= Stock
    BY <1>8 DEF ProformaSound, Committed
  <2>2. Depot(e) \in DOMAIN p.taken => p.taken[Depot(e)] \in 0..Stock
    BY <1>3, PartialPart
  <2>3. QED
    BY <1>8, <1>10, <2>1, <2>2, ProformaFinite
<1>12. QED
  BY <1>1, <1>2, <1>3, <1>4, <1>5, <1>6, <1>7, <1>8, <1>9, <1>10, <1>11

\* On to the next one with nothing more written.
LEMMA OnwardKeeps ==
    ASSUME ProformaSound, NEW e \in Editors, editor[e].stage \in {"take", "depot"}, Goes(e, Onward(editor[e]))
    PROVE  ProformaSound'
<1>1. PICK p : p = editor[e]
  OBVIOUS
<1>2. PICK q : q = Onward(p)
  OBVIOUS
<1>3. /\ EditorHolds(p) /\ p \in EditorRow /\ p.kind \in ReserveKinds /\ p.todo \in Seq(DOMAIN p.lack)
      /\ p.todo # <<>> /\ p.nth \in 1..Len(p.stores)
  BY <1>1, Reserving
<1>4. /\ q \in EditorRow /\ AtWork(q)
      /\ q.items = p.items /\ q.taken = p.taken /\ q.kind = p.kind /\ q.line = p.line /\ q.lack = p.lack
      /\ q.locked = p.locked /\ q.stage \in {"take", "fulfil"}
  BY <1>2, <1>3, OnwardGoes
<1>5. \A d \in Depots : Pending(q, d) = Pending(p, d)
  BY <1>1, <1>4 DEF Pending
<1>6. FreeThere(q) /\ TotalKept(q)
  BY <1>4 DEF FreeThere, TotalKept
<1>7. QED
  BY <1>1, <1>2, <1>4, <1>5, <1>6, ControlKeeps

LEMMA ReadOfferKeeps ==
    ASSUME ProformaSound, NEW e \in Editors, ReadOffer(e) PROVE ProformaSound'
<1>1. PICK p : p = editor[e]
  OBVIOUS
<1>2. p.stage = "take"
  BY <1>1 DEF ReadOffer, AtStage
<1> DEFINE lack == p.lack[Line(e)]
           most == Min({lack, Stock - TakenOf(e)[Depot(e)]})
<1>3. PICK take : /\ take \in IF p.kind = "reserve" THEN {most} \union 1..lack ELSE {most}
                  /\ Goes(e, IF take = 0 THEN Onward(p) ELSE [p EXCEPT !.stage = "depot", !.take = take])
  BY <1>1 DEF ReadOffer
<1>4. /\ EditorHolds(p) /\ p \in EditorRow /\ AtWork(p) /\ p.kind \in ReserveKinds /\ lack \in Nat
      /\ TakenOf(e)[Depot(e)] \in Nat /\ TakenOf(e)[Depot(e)] <= Stock /\ Line(e) = Head(p.todo)
      /\ p.todo \in Seq(DOMAIN p.lack) /\ p.todo # <<>> /\ p.nth \in 1..Len(p.stores)
  BY <1>1, <1>2, Reserving
<1>5. take \in 0..lack
  <2>1. most \in 0..lack
    <3>1. Stock - TakenOf(e)[Depot(e)] \in Nat
      BY <1>4, ProformaFinite
    <3>2. most = Lesser(lack, Stock - TakenOf(e)[Depot(e)])
      BY DEF Lesser
    <3> HIDE DEF most, lack
    <3>3. QED
      BY <1>4, <3>1, <3>2, LeastOfTwo
  <2> HIDE DEF most
  <2>2. QED
    BY <1>3, <1>4, <2>1
<1> HIDE DEF most
<1>6. CASE take = 0
  BY <1>1, <1>2, <1>3, <1>6, OnwardKeeps
<1>7. CASE take # 0
  <2>1. PICK q : q = [p EXCEPT !.stage = "depot", !.take = take]
    OBVIOUS
  <2>2. "depot" \in Stages /\ take \in Nat /\ q = Placed(p, take, "depot")
    <3>1. take \in Nat
      BY <1>4, <1>5
    <3>2. [p EXCEPT !.stage = "depot", !.take = take] = [p EXCEPT !.take = take, !.stage = "depot"]
      BY <1>4 DEF EditorRow
    <3>3. QED
      BY <2>1, <3>1, <3>2 DEF Stages, Placed
  <2>3. /\ q.items = p.items /\ q.taken = p.taken /\ q.kind = p.kind /\ q.line = p.line /\ q.lack = p.lack
        /\ q.locked = p.locked /\ q.stage = "depot" /\ q.take = take /\ q.todo = p.todo /\ q.nth = p.nth
        /\ q.stores = p.stores /\ q \in EditorRow
    <3>0. p \in EditorRow
      BY <1>4
    <3>1. q \in EditorRow /\ SameBut(q, p) /\ q.take = take /\ q.stage = "depot"
      BY <2>2, <3>0, TakePlaced
    <3>2. QED
      BY <3>1 DEF SameBut
  <2>4. AtWork(q)
    BY <1>4, <1>5, <1>7, <2>3 DEF AtWork, EditKinds, ReserveKinds, FreeKinds
  <2>5. \A d \in Depots : Pending(q, d) = Pending(p, d)
    BY <1>2, <2>3 DEF Pending
  <2>6. FreeThere(q) /\ TotalKept(q)
    BY <2>3 DEF FreeThere, TotalKept
  <2>7. Goes(e, q)
    BY <1>3, <1>7, <2>1
  <2>8. QED
    BY <1>1, <1>2, <2>3, <2>4, <2>5, <2>6, <2>7, ControlKeeps
<1>8. QED
  BY <1>6, <1>7

\* A request writes one inventory.
TakesAt(r, d, v, place) == [r EXCEPT !.stage = place, !.taken = Writes(r.taken, d, v)]

LEMMA TakesPlaced ==
    ASSUME NEW r \in EditorRow, NEW d \in Depots, NEW v \in 0..Stock, NEW place \in Stages
    PROVE  /\ TakesAt(r, d, v, place) \in EditorRow
           /\ TakesAt(r, d, v, place).taken = Writes(r.taken, d, v) /\ TakesAt(r, d, v, place).stage = place
           /\ TakesAt(r, d, v, place).items = r.items /\ TakesAt(r, d, v, place).kind = r.kind
           /\ TakesAt(r, d, v, place).line = r.line /\ TakesAt(r, d, v, place).lack = r.lack
           /\ TakesAt(r, d, v, place).locked = r.locked /\ TakesAt(r, d, v, place).todo = r.todo
           /\ TakesAt(r, d, v, place).nth = r.nth /\ TakesAt(r, d, v, place).stores = r.stores
           /\ TakesAt(r, d, v, place).take = r.take /\ TakesAt(r, d, v, place).free = r.free
           /\ TakesAt(r, d, v, place).depots = r.depots /\ TakesAt(r, d, v, place).total = r.total
<1>1. PICK w : w = Writes(r.taken, d, v)
  OBVIOUS
<1>2. r.taken \in Partial(Depots, 0..Stock)
  BY DEF EditorRow
<1>3. w \in Partial(Depots, 0..Stock)
  BY <1>1, <1>2, PartialMore
<1>4. TakesAt(r, d, v, place) = [r EXCEPT !.stage = place, !.taken = w]
  BY <1>1 DEF TakesAt
<1>5. [r EXCEPT !.stage = place, !.taken = w] \in EditorRow
  BY <1>3 DEF EditorRow
<1>6. QED
  BY <1>1, <1>4, <1>5 DEF EditorRow

\* What it has written to an inventory balances.
LEMMA TakesKeeps ==
    ASSUME ProformaSound, NEW e \in Editors, NEW p, p = editor[e], NEW d \in Depots, DepotFree(e, d),
           NEW v \in 0..Stock, NEW q, Goes(e, q), q \in EditorRow, AtWork(q),
           q.taken = Writes(p.taken, d, v), q.items = p.items,
           q.kind = p.kind, q.line = p.line, q.locked = p.locked, DOMAIN q.lack = DOMAIN p.lack,
           p.stage \notin {"total", "end"}, q.kind \notin EditKinds \/ q.stage # "end",
           \A x \in Depots : x # d => Pending(q, x) = Pending(p, x),
           Pending(p, d) \in Int, Pending(q, d) = Pending(p, d) + v - SeenTaken(p)[d],
           q.stage = "free" => p.stage = "free" /\ q.free = p.free
    PROVE  ProformaSound'
<1>1. EditorHolds(p) /\ p \in EditorRow
  BY DEF ProformaSound, EditorHolds
<1>2. ProformaTypeOK /\ p.taken \in Partial(Depots, 0..Stock) /\ q.taken \in Partial(Depots, 0..Stock)
  BY <1>1 DEF ProformaSound, EditorRow
<1>3. /\ DOMAIN q.taken = DOMAIN p.taken \union {d} /\ q.taken[d] = v
      /\ \A y \in DOMAIN p.taken : y # d => q.taken[y] = p.taken[y]
  BY DEF Writes
<1>4. Seen(q) = Seen(p)
  BY DEF Seen
<1>5. /\ \A x \in Depots : SeenTaken(p)[x] = IF x \in DOMAIN p.taken THEN p.taken[x] ELSE taken[x]
      /\ SeenTaken(p) \in [Depots -> Nat]
  BY <1>2, SeenDepots
<1>6. \A x \in Depots : SeenTaken(q)[x] = IF x \in DOMAIN q.taken THEN q.taken[x] ELSE taken[x]
  BY <1>2, SeenDepots
<1>7. SeenTaken(q)[d] = v /\ \A x \in Depots : x # d => SeenTaken(q)[x] = SeenTaken(p)[x]
  BY <1>3, <1>5, <1>6
<1>8. Balanced(q)
  <2>1. ASSUME NEW x \in Depots
        PROVE  UnitsAt(Seen(q), x) - UnitsAt(item, x) = SeenTaken(q)[x] - taken[x] - Pending(q, x)
    <3>1. UnitsAt(Seen(p), x) - UnitsAt(item, x) = SeenTaken(p)[x] - taken[x] - Pending(p, x)
      BY <1>1 DEF EditorHolds, Balanced
    <3>2. CASE x # d
      BY <1>4, <1>7, <3>1, <3>2
    <3>3. CASE x = d
      <4>1. taken[x] \in Nat /\ SeenTaken(p)[x] \in Nat /\ v \in Int
        BY <1>2, <1>5, ProformaFinite DEF ProformaTypeOK
      <4>2. PICK w \in Int : w = Pending(p, x)
        BY <3>3
      <4>3. Pending(q, x) = w + v - SeenTaken(p)[x] /\ SeenTaken(q)[x] = v
        BY <1>7, <3>3, <4>2
      <4>4. QED
        BY <1>4, <3>1, <4>1, <4>2, <4>3
    <3>4. QED
      BY <3>2, <3>3
  <2>2. QED
    BY <2>1 DEF Balanced
<1>9. FreeThere(q) /\ TotalKept(q)
  BY <1>1, <1>4 DEF EditorHolds, FreeThere, TotalKept
<1>10. LinesThere(q)
  BY <1>1 DEF EditorHolds, LinesThere
<1>11. \A l \in DOMAIN q.items : RowKept(q, l)
  BY <1>1 DEF EditorHolds, RowKept
<1>12. EditorHolds(q)
  BY <1>8, <1>9, <1>10, <1>11 DEF EditorHolds
<1>13. ASSUME NEW f \in Editors \ {e} PROVE EditsApart(q, editor[f])
  <2>1. EditsApart(p, editor[f])
    BY DEF ProformaSound
  <2>2. d \notin DOMAIN editor[f].taken
    BY DEF DepotFree
  <2>3. DOMAIN q.taken \intersect DOMAIN editor[f].taken = {}
    BY <1>3, <2>1, <2>2 DEF EditsApart
  <2>4. QED
    BY <2>1, <2>3 DEF EditsApart
<1>14. QED
  BY <1>12, <1>13, GoesTyped, GoesKeeps DEF Goes

LEMMA TakeFromDepotKeeps ==
    ASSUME ProformaSound, NEW e \in Editors, TakeFromDepot(e) PROVE ProformaSound'
<1>1. PICK p : p = editor[e]
  OBVIOUS
<1>2. p.stage = "depot" /\ DepotFree(e, Depot(e))
  BY <1>1 DEF TakeFromDepot, AtStage
<1>3. /\ EditorHolds(p) /\ p \in EditorRow /\ AtWork(p) /\ p.kind \in ReserveKinds
      /\ p.todo \in Seq(DOMAIN p.lack) /\ p.todo # <<>> /\ p.nth \in 1..Len(p.stores)
      /\ p.lack[Line(e)] \in Nat /\ Line(e) = Head(p.todo)
      /\ Depot(e) = p.stores[p.nth] /\ Depot(e) \in Depots
      /\ SeenTaken(p) = TakenOf(e) /\ TakenOf(e)[Depot(e)] \in Nat
  BY <1>1, <1>2, Reserving
<1>4. p.take \in 1..p.lack[Head(p.todo)] /\ p.take \in Nat
  BY <1>2, <1>3 DEF AtWork
<1>5. CASE DepotHas(e)
  <2> DEFINE d == Depot(e)
             v == TakenOf(e)[Depot(e)] + p.take
             q == TakesAt(p, d, v, "line")
  <2>1. v \in 0..Stock
    BY <1>1, <1>3, <1>4, <1>5, ProformaFinite DEF DepotHas
  <2>2. d \in Depots /\ "line" \in Stages
    BY <1>3 DEF Stages
  <2>3. Goes(e, q)
    BY <1>1, <1>5 DEF TakeFromDepot, TakesAt
  <2> HIDE DEF v, d
  <2>4. /\ q \in EditorRow /\ q.taken = Writes(p.taken, d, v) /\ q.stage = "line"
        /\ q.items = p.items /\ q.kind = p.kind /\ q.line = p.line /\ q.lack = p.lack
        /\ q.locked = p.locked /\ q.todo = p.todo /\ q.nth = p.nth /\ q.stores = p.stores
        /\ q.take = p.take
    BY <1>3, <2>1, <2>2, TakesPlaced
  <2> HIDE DEF q
  <2>5. d = q.stores[q.nth] /\ v = SeenTaken(p)[d] + q.take
    BY <1>3, <2>4 DEF d, v
  <2>6. d \in DOMAIN q.taken
    BY <2>4 DEF Writes
  <2>7. AtWork(q)
    BY <1>3, <1>4, <2>4, <2>5, <2>6 DEF AtWork, EditKinds, ReserveKinds, FreeKinds
  <2>8. \A x \in Depots : Pending(p, x) = 0
    BY <1>2 DEF Pending
  <2>9. Pending(q, d) = q.take /\ \A x \in Depots : x # d => Pending(q, x) = 0
    BY <2>4, <2>5 DEF Pending
  <2>10. SeenTaken(p)[d] \in Nat /\ q.take \in Nat
    BY <1>3, <1>4, <2>4 DEF d
  <2>11. Pending(q, d) = Pending(p, d) + v - SeenTaken(p)[d]
    BY <2>2, <2>5, <2>8, <2>9, <2>10
  <2>12. DepotFree(e, d)
    BY <1>2 DEF d
  <2>13. Pending(p, d) \in Int /\ \A x \in Depots : x # d => Pending(q, x) = Pending(p, x)
    BY <2>2, <2>8, <2>9
  <2>14. DOMAIN q.lack = DOMAIN p.lack /\ p.stage \notin {"total", "end"} /\ q.stage # "end" /\ q.stage # "free"
    BY <1>2, <2>4
  <2>15. QED
    BY <1>1, <2>1, <2>2, <2>3, <2>4, <2>7, <2>11, <2>12, <2>13, <2>14, TakesKeeps
<1>6. CASE ~DepotHas(e)
  <2>1. CASE Goes(e, Onward(editor[e]))
    BY <1>1, <1>2, <2>1, OnwardKeeps
  <2>2. CASE Goes(e, [p EXCEPT !.stage = "take", !.take = 0])
    <3>1. PICK q : q = Placed(p, 0, "take")
      OBVIOUS
    <3>2. "take" \in Stages /\ 0 \in Nat /\ p \in EditorRow
      BY <1>3 DEF Stages
    <3>3. q \in EditorRow /\ SameBut(q, p) /\ q.take = 0 /\ q.stage = "take"
      BY <3>1, <3>2, TakePlaced
    <3>4. [p EXCEPT !.stage = "take", !.take = 0] = [p EXCEPT !.take = 0, !.stage = "take"]
      BY <1>3 DEF EditorRow
    <3>5. Goes(e, q)
      BY <2>2, <3>1, <3>4 DEF Placed
    <3>6. AtWork(q)
      BY <1>3, <3>3 DEF AtWork, SameBut, EditKinds, ReserveKinds, FreeKinds
    <3>7. \A x \in Depots : Pending(q, x) = Pending(p, x)
      BY <1>2, <3>3 DEF Pending
    <3>8. FreeThere(q) /\ TotalKept(q)
      BY <3>3 DEF FreeThere, TotalKept
    <3>9. /\ q.items = p.items /\ q.taken = p.taken /\ q.kind = p.kind /\ q.line = p.line
          /\ DOMAIN q.lack = DOMAIN p.lack /\ (q.locked => p.locked) /\ p.stage \notin {"total", "end"}
      BY <1>2, <3>3 DEF SameBut
    <3>10. QED
      BY <1>1, <3>3, <3>5, <3>6, <3>7, <3>8, <3>9, ControlKeeps
  <2>3. QED
    BY <1>1, <1>6, <2>1, <2>2 DEF TakeFromDepot
<1>7. QED
  BY <1>5, <1>6

\* A request writes one line.
PutsAt(r, l, row, place) == [r EXCEPT !.stage = place, !.items = Writes(r.items, l, row)]

LEMMA PutsPlaced ==
    ASSUME NEW r \in EditorRow, NEW l \in Items, NEW row \in ItemRow, NEW place \in Stages
    PROVE  /\ PutsAt(r, l, row, place) \in EditorRow
           /\ PutsAt(r, l, row, place).items = Writes(r.items, l, row) /\ PutsAt(r, l, row, place).stage = place
           /\ PutsAt(r, l, row, place).taken = r.taken /\ PutsAt(r, l, row, place).kind = r.kind
           /\ PutsAt(r, l, row, place).line = r.line /\ PutsAt(r, l, row, place).lack = r.lack
           /\ PutsAt(r, l, row, place).locked = r.locked /\ PutsAt(r, l, row, place).todo = r.todo
           /\ PutsAt(r, l, row, place).nth = r.nth /\ PutsAt(r, l, row, place).stores = r.stores
           /\ PutsAt(r, l, row, place).take = r.take /\ PutsAt(r, l, row, place).free = r.free
           /\ PutsAt(r, l, row, place).depots = r.depots /\ PutsAt(r, l, row, place).total = r.total
<1>1. PICK w : w = Writes(r.items, l, row)
  OBVIOUS
<1>2. r.items \in Partial(Items, ItemRow)
  BY DEF EditorRow
<1>3. w \in Partial(Items, ItemRow)
  BY <1>1, <1>2, PartialMore
<1>4. PutsAt(r, l, row, place) = [r EXCEPT !.stage = place, !.items = w]
  BY <1>1 DEF PutsAt
<1>5. [r EXCEPT !.stage = place, !.items = w] \in EditorRow
  BY <1>3 DEF EditorRow
<1>6. QED
  BY <1>1, <1>4, <1>5 DEF EditorRow

\* What it has written to a line balances what it has written to the inventories.
LEMMA PutsKeeps ==
    ASSUME ProformaSound, NEW e \in Editors, NEW p, p = editor[e], NEW l \in Items, ItemFree(e, l),
           NEW row \in ItemRow, NEW q, Goes(e, q), q \in EditorRow, AtWork(q),
           q.items = Writes(p.items, l, row), q.taken = p.taken,
           q.kind = p.kind, q.line = p.line, q.locked = p.locked, DOMAIN q.lack = DOMAIN p.lack,
           p.stage \notin {"total", "end"}, q.kind \notin EditKinds \/ q.stage # "end", q.stage # "free",
           q.kind = "add" => l = q.line, q.kind # "add" => item[l].here,
           RowKept(q, l),
           \A d \in Depots : /\ Pending(p, d) \in Int /\ Pending(q, d) \in Int
                             /\ row.at[d] = Seen(p)[l].at[d] + Pending(p, d) - Pending(q, d)
    PROVE  ProformaSound'
<1>1. EditorHolds(p) /\ p \in EditorRow
  BY DEF ProformaSound, EditorHolds
<1>2. ProformaTypeOK /\ p.items \in Partial(Items, ItemRow) /\ q.items \in Partial(Items, ItemRow)
  BY <1>1 DEF ProformaSound, EditorRow
<1>3. /\ DOMAIN q.items = DOMAIN p.items \union {l} /\ q.items[l] = row
      /\ \A y \in DOMAIN p.items : y # l => q.items[y] = p.items[y]
  BY DEF Writes
<1>4. SeenTaken(q) = SeenTaken(p)
  BY DEF SeenTaken
<1>5. Seen(p) \in [Items -> ItemRow] /\ \A m \in Items : Seen(p)[m] = IF m \in DOMAIN p.items THEN p.items[m] ELSE item[m]
  BY <1>2, SeenRows
<1>6. Seen(q) \in [Items -> ItemRow] /\ \A m \in Items : Seen(q)[m] = IF m \in DOMAIN q.items THEN q.items[m] ELSE item[m]
  BY <1>2, SeenRows
<1>7. Seen(q)[l] = row /\ \A m \in Items : m # l => Seen(q)[m] = Seen(p)[m]
  BY <1>3, <1>5, <1>6
<1>8. Balanced(q)
  <2>1. ASSUME NEW d \in Depots
        PROVE  UnitsAt(Seen(q), d) - UnitsAt(item, d) = SeenTaken(q)[d] - taken[d] - Pending(q, d)
    <3>1. UnitsAt(Seen(p), d) - UnitsAt(item, d) = SeenTaken(p)[d] - taken[d] - Pending(p, d)
      BY <1>1 DEF EditorHolds, Balanced
    <3>2. UnitsAt(Seen(q), d) = UnitsAt(Seen(p), d) - Seen(p)[l].at[d] + Seen(q)[l].at[d]
      BY <1>5, <1>6, <1>7, UnitsChange
    <3>3. PICK b \in Int, c \in Int : b = Pending(p, d) /\ c = Pending(q, d)
      OBVIOUS
    <3>4. PICK x \in Nat, y \in Nat, z \in Nat, t \in Nat, u \in Nat :
            x = UnitsAt(Seen(p), d) /\ y = Seen(p)[l].at[d] /\ z = row.at[d] /\ t = SeenTaken(p)[d] /\ u = taken[d]
      <4>1. UnitsAt(Seen(p), d) \in Nat
        BY <1>5, UnitsNat
      <4>2. Seen(p)[l].at[d] \in Nat /\ row.at[d] \in Nat
        BY <1>5 DEF ItemRow
      <4>3. SeenTaken(p)[d] \in Nat /\ taken[d] \in Nat
        <5>1. p.taken \in Partial(Depots, 0..Stock)
          BY <1>1 DEF EditorRow
        <5>2. QED
          BY <1>2, <5>1, SeenDepots DEF ProformaTypeOK
      <4>4. QED
        BY <4>1, <4>2, <4>3
    <3>5. PICK k \in Nat : k = UnitsAt(item, d)
      BY <1>2, UnitsNat DEF ProformaTypeOK, ItemRow
    <3>6. z = y + b - c
      BY <3>3, <3>4
    <3>7. x - k = t - u - b
      BY <3>1, <3>3, <3>4, <3>5
    <3>8. (x - y + z) - k = t - u - c
      BY <3>6, <3>7
    <3>9. QED
      BY <1>4, <1>7, <3>2, <3>3, <3>4, <3>5, <3>8
  <2>2. QED
    BY <2>1 DEF Balanced
<1>9. FreeThere(q) /\ TotalKept(q)
  BY DEF FreeThere, TotalKept
<1>10. LinesThere(q)
  BY <1>1, <1>3 DEF EditorHolds, LinesThere
<1>11. ASSUME NEW m \in DOMAIN q.items PROVE RowKept(q, m)
  <2>1. CASE m = l
    BY <2>1
  <2>2. CASE m # l
    <3>1. RowKept(p, m) /\ q.items[m] = p.items[m]
      BY <1>1, <1>3, <2>2 DEF EditorHolds
    <3>2. QED
      BY <3>1 DEF RowKept
  <2>3. QED
    BY <2>1, <2>2
<1>12. EditorHolds(q)
  BY <1>8, <1>9, <1>10, <1>11 DEF EditorHolds
<1>13. ASSUME NEW f \in Editors \ {e} PROVE EditsApart(q, editor[f])
  <2>1. EditsApart(p, editor[f])
    BY DEF ProformaSound
  <2>2. l \notin DOMAIN editor[f].items
    BY DEF ItemFree
  <2>3. DOMAIN q.items \intersect DOMAIN editor[f].items = {}
    BY <1>3, <2>1, <2>2 DEF EditsApart
  <2>4. QED
    BY <2>1, <2>3 DEF EditsApart
<1>14. QED
  BY <1>12, <1>13, GoesTyped, GoesKeeps DEF Goes

\* The row of a line as a request sees it.
LEMMA SeenRow ==
    ASSUME ProformaSound, NEW e \in Editors, NEW p, p = editor[e], p.stage \notin {"total", "end"}, NEW l \in Items
    PROVE  /\ Seen(p) = ItemsOf(e) /\ Seen(p)[l] \in ItemRow /\ RowAdds(Seen(p)[l])
           /\ Seen(p)[l].here = item[l].here /\ Seen(p)[l].removed = item[l].removed
           /\ ~(p.kind \in FreeKinds /\ l = p.line) => \A d \in Depots : item[l].at[d] <= Seen(p)[l].at[d]
<1>1. EditorHolds(p) /\ p.items \in Partial(Items, ItemRow) /\ ProformaTypeOK
  BY DEF ProformaSound, EditorHolds, EditorRow
<1>2. Seen(p) \in [Items -> ItemRow] /\ Seen(p)[l] = IF l \in DOMAIN p.items THEN p.items[l] ELSE item[l]
  BY <1>1, SeenRows
<1>3. Seen(p) = ItemsOf(e)
  BY DEF Seen, ItemsOf
<1>4. CASE l \in DOMAIN p.items
  <2>1. RowKept(p, l) /\ Seen(p)[l] = p.items[l]
    BY <1>1, <1>2, <1>4 DEF EditorHolds
  <2>2. QED
    BY <1>2, <1>3, <2>1 DEF RowKept
<1>5. CASE l \notin DOMAIN p.items
  <2>1. Seen(p)[l] = item[l]
    BY <1>2, <1>5
  <2>2. RowAdds(item[l])
    BY DEF ProformaSound, Committed
  <2>3. \A d \in Depots : item[l].at[d] \in Nat
    BY <1>1 DEF ProformaTypeOK
  <2>4. QED
    BY <1>2, <1>3, <2>1, <2>2, <2>3
<1>6. QED
  BY <1>4, <1>5

\* Units that a line is given at a depot.
Given(row, d, n) == [row EXCEPT !.reserved = @ + n, !.at[d] = @ + n]

LEMMA GivenRow ==
    ASSUME NEW row \in ItemRow, NEW d \in Depots, NEW n \in Nat, RowAdds(row), row.reserved + n <= Ordered
    PROVE  /\ Given(row, d, n) \in ItemRow /\ RowAdds(Given(row, d, n))
           /\ Given(row, d, n).here = row.here /\ Given(row, d, n).removed = row.removed
           /\ Given(row, d, n).at[d] = row.at[d] + n
           /\ \A x \in Depots : x # d => Given(row, d, n).at[x] = row.at[x]
<1>1. PICK at : at = [row.at EXCEPT ![d] = @ + n]
  OBVIOUS
<1>2. row.at \in [Depots -> Nat] /\ row.reserved \in Nat
  BY DEF ItemRow
<1>3. at \in [Depots -> Nat] /\ at[d] = row.at[d] + n /\ \A x \in Depots : x # d => at[x] = row.at[x]
  BY <1>1, <1>2
<1>4. PICK new : new = Given(row, d, n)
  OBVIOUS
<1>5. new = [row EXCEPT !.reserved = row.reserved + n, !.at = at]
  BY <1>1, <1>4 DEF Given, ItemRow
<1>6. new \in ItemRow /\ new.here = row.here /\ new.removed = row.removed /\ new.at = at
      /\ new.reserved = row.reserved + n
  <2>1. PICK m \in Nat : m = row.reserved + n
    BY <1>2
  <2>2. new = [row EXCEPT !.reserved = m, !.at = at]
    BY <1>5, <2>1
  <2>3. new \in ItemRow /\ new.here = row.here /\ new.removed = row.removed /\ new.at = at /\ new.reserved = m
    BY <1>3, <2>2 DEF ItemRow
  <2>4. QED
    BY <2>1, <2>3
<1>7. SumOf(at, Depots) = SumOf(row.at, Depots) - row.at[d] + at[d]
  <2>1. PICK h \in [Depots -> Nat] : h = row.at
    BY <1>2
  <2>2. SumOf(at, Depots) = SumOf(h, Depots) - h[d] + at[d]
    <3>1. IsFiniteSet(Depots) /\ \A x \in Depots : x # d => at[x] = h[x]
      BY <1>3, <2>1, ProformaFinite
    <3>2. QED
      BY <1>3, <3>1, SumChange
  <2>3. QED
    BY <2>1, <2>2
<1>8. RowAdds(new)
  <2>1. row.reserved = SumOf(row.at, Depots) /\ row.at[d] \in Nat /\ at[d] = row.at[d] + n
    BY <1>2, <1>3 DEF RowAdds
  <2>2. SumOf(at, Depots) = row.reserved + n
    BY <1>2, <1>7, <2>1
  <2>3. QED
    BY <1>6, <2>2 DEF RowAdds
<1>9. QED
  BY <1>3, <1>4, <1>6, <1>8

LEMMA TakeForLineKeeps ==
    ASSUME ProformaSound, NEW e \in Editors, TakeForLine(e) PROVE ProformaSound'
<1>1. PICK p : p = editor[e]
  OBVIOUS
<1>2. PICK l, d, n, row : l = Line(e) /\ d = Depot(e) /\ n = p.take /\ row = ItemsOf(e)[l]
  OBVIOUS
<1>3. p.stage = "line" /\ ItemFree(e, l)
  BY <1>1, <1>2 DEF TakeForLine, AtStage
<1>4. /\ EditorHolds(p) /\ p \in EditorRow /\ AtWork(p) /\ p.kind \in ReserveKinds
      /\ p.todo \in Seq(DOMAIN p.lack) /\ p.todo # <<>> /\ p.nth \in 1..Len(p.stores)
      /\ l = Head(p.todo) /\ l \in DOMAIN p.lack /\ l \in Items /\ item[l].here
      /\ p.lack \in Partial(Items, Nat) /\ p.lack[l] \in Nat
      /\ d = p.stores[p.nth] /\ d \in Depots
      /\ SeenTaken(p) = TakenOf(e) /\ TakenOf(e) \in [Depots -> Nat] /\ TakenOf(e)[d] <= Stock
  BY <1>1, <1>2, <1>3, Reserving
<1>5. n \in 1..p.lack[l] /\ n \in Nat /\ d \in DOMAIN p.taken
  <2>1. p.take \in 1..p.lack[Head(p.todo)] /\ p.stores[p.nth] \in DOMAIN p.taken
    BY <1>3, <1>4 DEF AtWork
  <2>2. QED
    BY <1>2, <1>4, <2>1
<1>6. Pending(p, d) = n /\ \A x \in Depots : x # d => Pending(p, x) = 0
  BY <1>2, <1>3, <1>4 DEF Pending
<1>7. p.kind \notin EditKinds /\ p.kind \notin FreeKinds /\ p.kind # "add"
  BY <1>4 DEF EditKinds, FreeKinds, ReserveKinds
<1>8. CASE ItemHasRoom(e)
  <2>1. PICK new : new = Given(row, d, n)
    OBVIOUS
  <2>2. PICK r : r = [p EXCEPT !.items = Writes(p.items, l, new), !.lack[l] = @ - n]
    OBVIOUS
  <2>3. Goes(e, Onward(r))
    BY <1>1, <1>2, <1>8, <2>1, <2>2 DEF TakeForLine, Given
  <2>4. row \in ItemRow /\ RowAdds(row) /\ row = Seen(p)[l] /\ row.here = item[l].here /\ row.removed = item[l].removed
        /\ \A x \in Depots : item[l].at[x] <= row.at[x]
    <3>1. p.stage \notin {"total", "end"} /\ l \in Items
      BY <1>3, <1>4
    <3>2. ItemsOf(e) = Seen(p)
      BY <1>1 DEF ItemsOf, Seen
    <3>3. QED
      BY <1>1, <1>2, <1>7, <3>1, <3>2, SeenRow
  <2>5. row.reserved + n <= Ordered
    BY <1>1, <1>2, <1>8 DEF ItemHasRoom
  <2>6. new \in ItemRow /\ RowAdds(new) /\ new.here = row.here /\ new.removed = row.removed
        /\ new.at[d] = row.at[d] + n /\ \A x \in Depots : x # d => new.at[x] = row.at[x]
    <3>1. d \in Depots /\ n \in Nat /\ row \in ItemRow /\ RowAdds(row)
      BY <1>4, <1>5, <2>4
    <3>2. QED
      BY <2>1, <2>5, <3>1, GivenRow
  <2>7. PICK w, k : w = Writes(p.items, l, new) /\ k = [p.lack EXCEPT ![l] = @ - n]
    OBVIOUS
  <2>8. w \in Partial(Items, ItemRow)
    <3>1. p.items \in Partial(Items, ItemRow)
      BY <1>4 DEF EditorRow
    <3>2. QED
      BY <1>4, <2>6, <2>7, <3>1, PartialMore
  <2>9. k \in Partial(Items, Nat) /\ DOMAIN k = DOMAIN p.lack
    <3>1. p.lack[l] - n \in Nat
      BY <1>4, <1>5
    <3>2. \A x \in DOMAIN p.lack : p.lack[x] \in Nat
      BY <1>4, PartialPart
    <3>3. k \in [DOMAIN p.lack -> Nat]
      <4>1. p.lack = [x \in DOMAIN p.lack |-> p.lack[x]]
        BY <1>4 DEF Partial
      <4>2. QED
        BY <2>7, <3>1, <3>2, <4>1
    <3>4. DOMAIN p.lack \in SUBSET Items
      BY <1>4, PartialPart
    <3>5. QED
      BY <3>3, <3>4 DEF Partial
  <2>10. r = [p EXCEPT !.items = w, !.lack = k]
    BY <1>4, <2>2, <2>7 DEF EditorRow
  <2>11. /\ r \in EditorRow /\ r.items = w /\ r.lack = k /\ r.taken = p.taken /\ r.kind = p.kind /\ r.line = p.line
         /\ r.locked = p.locked /\ r.todo = p.todo /\ r.nth = p.nth /\ r.stores = p.stores
    <3>1. [p EXCEPT !.items = w, !.lack = k] \in EditorRow
      BY <1>4, <2>8, <2>9 DEF EditorRow
    <3>2. QED
      BY <1>4, <2>10, <3>1 DEF EditorRow
  <2>12. PICK q : q = Onward(r)
    OBVIOUS
  <2>13. /\ q \in EditorRow /\ AtWork(q)
         /\ q.items = r.items /\ q.taken = r.taken /\ q.kind = r.kind /\ q.line = r.line /\ q.lack = r.lack
         /\ q.locked = r.locked /\ q.stage \in {"take", "fulfil"}
    <3>1. r.kind \in ReserveKinds /\ r.todo \in Seq(DOMAIN r.lack) /\ r.todo # <<>> /\ r.nth \in 1..Len(r.stores)
      BY <1>4, <2>9, <2>11
    <3>2. QED
      BY <2>11, <2>12, <3>1, OnwardGoes
  <2>14. q.items[l] = new
    BY <2>7, <2>11, <2>13 DEF Writes
  <2>15. RowKept(q, l)
    <3>1. \A x \in Depots : item[l].at[x] <= new.at[x]
      <4>1. ASSUME NEW x \in Depots PROVE item[l].at[x] <= new.at[x]
        <5>1. item[l].at[x] \in Nat /\ row.at[x] \in Nat /\ item[l].at[x] <= row.at[x]
          BY <1>4, <2>4 DEF ProformaSound, ProformaTypeOK, ItemRow
        <5>2. new.at[x] = row.at[x] \/ new.at[x] = row.at[x] + n
          BY <2>6
        <5>3. QED
          BY <1>5, <5>1, <5>2
      <4>2. QED
        BY <4>1
    <3>2. QED
      BY <1>4, <2>4, <2>6, <2>14, <3>1 DEF RowKept
  <2>16. \A x \in Depots : /\ Pending(p, x) \in Int /\ Pending(q, x) \in Int
                           /\ new.at[x] = Seen(p)[l].at[x] + Pending(p, x) - Pending(q, x)
    <3>1. ASSUME NEW x \in Depots PROVE /\ Pending(p, x) \in Int /\ Pending(q, x) \in Int
                           /\ new.at[x] = Seen(p)[l].at[x] + Pending(p, x) - Pending(q, x)
      <4>1. Pending(q, x) = 0
        BY <2>13 DEF Pending
      <4>2. row.at[x] \in Nat
        BY <2>4 DEF ItemRow
      <4>3. CASE x = d
        BY <1>5, <1>6, <2>4, <2>6, <4>1, <4>2, <4>3
      <4>4. CASE x # d
        BY <1>6, <2>4, <2>6, <4>1, <4>2, <4>4
      <4>5. QED
        BY <4>3, <4>4
    <3>2. QED
      BY <3>1
  <2>17. q.items = Writes(p.items, l, new) /\ q.taken = p.taken /\ q.kind = p.kind /\ q.line = p.line
         /\ q.locked = p.locked /\ DOMAIN q.lack = DOMAIN p.lack
    BY <2>7, <2>9, <2>11, <2>13
  <2>18. p.stage \notin {"total", "end"} /\ q.stage # "end" /\ q.stage # "free" /\ q.kind # "add"
    BY <1>3, <1>7, <2>13, <2>17
  <2>19. Goes(e, q)
    BY <2>3, <2>12
  <2>20. QED
    <3>1. l \in Items /\ ItemFree(e, l) /\ item[l].here /\ new \in ItemRow /\ q \in EditorRow /\ AtWork(q)
      BY <1>3, <1>4, <2>6, <2>13
    <3>2. q.kind \notin EditKinds \/ q.stage # "end"
      BY <2>18
    <3>3. QED
      BY <1>1, <2>15, <2>16, <2>17, <2>18, <2>19, <3>1, <3>2, PutsKeeps
<1>9. CASE ~ItemHasRoom(e)
  <2>1. PICK v : v = TakenOf(e)[d] - n
    OBVIOUS
  <2>2. PICK w : w = Writes(p.taken, d, v)
    OBVIOUS
  <2>3. w = GivesBack(e)
    BY <1>1, <1>2, <2>1, <2>2 DEF GivesBack
  <2>4. PICK r : r = [p EXCEPT !.taken = w]
    OBVIOUS
  <2>5. Goes(e, Onward(r))
    BY <1>1, <1>9, <2>3, <2>4 DEF TakeForLine
  <2>6. v \in 0..Stock
    <3>1. EditorHolds(p) /\ ProformaTypeOK /\ Committed
      BY <1>4 DEF ProformaSound
    <3>2. Seen(p) \in [Items -> ItemRow]
      <4>1. p.items \in Partial(Items, ItemRow)
        BY <1>4 DEF EditorRow
      <4>2. QED
        BY <3>1, <4>1, SeenRows
    <3>3. UnitsAt(Seen(p), d) \in Nat /\ UnitsAt(item, d) \in Nat
      BY <1>4, <3>1, <3>2, UnitsNat DEF ProformaTypeOK, ItemRow
    <3>4. UnitsAt(Seen(p), d) - UnitsAt(item, d) = SeenTaken(p)[d] - taken[d] - n
      BY <1>4, <1>6 DEF EditorHolds, Balanced
    <3>5. taken[d] = UnitsAt(item, d)
      BY <1>4, <3>1 DEF Committed
    <3>6. TakenOf(e)[d] \in Nat /\ TakenOf(e)[d] <= Stock
      BY <1>4
    <3>7. QED
      BY <1>4, <1>5, <2>1, <3>3, <3>4, <3>5, <3>6, ProformaFinite
  <2>7. w \in Partial(Depots, 0..Stock)
    <3>1. p.taken \in Partial(Depots, 0..Stock)
      BY <1>4 DEF EditorRow
    <3>2. QED
      BY <1>4, <2>2, <2>6, <3>1, PartialMore
  <2>8. /\ r \in EditorRow /\ r.items = p.items /\ r.lack = p.lack /\ r.taken = w /\ r.kind = p.kind /\ r.line = p.line
        /\ r.locked = p.locked /\ r.todo = p.todo /\ r.nth = p.nth /\ r.stores = p.stores
    BY <1>4, <2>4, <2>7 DEF EditorRow
  <2>9. PICK q : q = Onward(r)
    OBVIOUS
  <2>10. /\ q \in EditorRow /\ AtWork(q)
         /\ q.items = r.items /\ q.taken = r.taken /\ q.kind = r.kind /\ q.line = r.line /\ q.lack = r.lack
         /\ q.locked = r.locked /\ q.stage \in {"take", "fulfil"}
    <3>1. r.kind \in ReserveKinds /\ r.todo \in Seq(DOMAIN r.lack) /\ r.todo # <<>> /\ r.nth \in 1..Len(r.stores)
      BY <1>4, <2>8
    <3>2. QED
      BY <2>8, <2>9, <3>1, OnwardGoes
  <2>11. \A x \in Depots : Pending(q, x) = 0
    BY <2>10 DEF Pending
  <2>12. \A x \in Depots : x # d => Pending(q, x) = Pending(p, x)
    BY <1>6, <2>11
  <2>13. Pending(p, d) \in Int /\ Pending(q, d) = Pending(p, d) + v - SeenTaken(p)[d]
    <3>1. SeenTaken(p)[d] \in Nat /\ v = SeenTaken(p)[d] - n
      BY <1>4, <2>1
    <3>2. QED
      BY <1>4, <1>5, <1>6, <2>11, <3>1
  <2>14. DepotFree(e, d)
    BY <1>1, <1>4, <1>5 DEF DepotFree, ProformaSound, EditsApart
  <2>15. /\ q.taken = Writes(p.taken, d, v) /\ q.items = p.items /\ q.kind = p.kind /\ q.line = p.line
         /\ q.locked = p.locked /\ DOMAIN q.lack = DOMAIN p.lack
    BY <2>2, <2>8, <2>10
  <2>16. p.stage \notin {"total", "end"} /\ q.stage # "end" /\ q.stage # "free"
    BY <1>3, <2>10
  <2>17. Goes(e, q)
    BY <2>5, <2>9
  <2>18. QED
    <3>1. d \in Depots /\ q \in EditorRow /\ AtWork(q)
      BY <1>4, <2>10
    <3>2. q.kind \notin EditKinds \/ q.stage # "end"
      BY <2>16
    <3>3. QED
      BY <1>1, <2>6, <2>12, <2>13, <2>14, <2>15, <2>16, <2>17, <3>1, <3>2, TakesKeeps
<1>10. QED
  BY <1>8, <1>9

\* A request goes on, perhaps with the lock of the order.
Proceeds(r, place, lock) == [r EXCEPT !.stage = place, !.locked = lock]

LEMMA ProceedsPlaced ==
    ASSUME NEW r \in EditorRow, NEW place \in Stages, NEW lock \in BOOLEAN
    PROVE  /\ Proceeds(r, place, lock) \in EditorRow /\ Proceeds(r, place, lock).stage = place
           /\ Proceeds(r, place, lock).locked = lock
           /\ Proceeds(r, place, lock).items = r.items /\ Proceeds(r, place, lock).taken = r.taken
           /\ Proceeds(r, place, lock).kind = r.kind /\ Proceeds(r, place, lock).line = r.line
           /\ Proceeds(r, place, lock).lack = r.lack
  BY DEF EditorRow, Proceeds

LEMMA FulfilKeeps ==
    ASSUME ProformaSound, NEW e \in Editors, Fulfil(e) PROVE ProformaSound'
<1>1. PICK p : p = editor[e]
  OBVIOUS
<1>2. p.stage = "fulfil" /\ EditorHolds(p) /\ p \in EditorRow /\ AtWork(p)
  BY <1>1 DEF Fulfil, AtStage, ProformaSound, EditorHolds
<1>3. p.kind \in ReserveKinds /\ p.locked \in BOOLEAN
  BY <1>2 DEF AtWork, EditorRow
<1>4. PICK lock \in BOOLEAN : (lock => p.locked \/ OrderFree(e)) /\ Goes(e, Proceeds(p, "end", lock))
  <2>1. CASE Goes(e, [editor[e] EXCEPT !.stage = "end"])
    <3>1. Proceeds(p, "end", p.locked) = [p EXCEPT !.stage = "end"]
      BY <1>2 DEF Proceeds, EditorRow
    <3>2. QED
      BY <1>1, <1>3, <2>1, <3>1
  <2>2. CASE OrderFree(e) /\ Goes(e, [editor[e] EXCEPT !.stage = "end", !.locked = TRUE])
    BY <1>1, <2>2 DEF Proceeds
  <2>3. QED
    BY <2>1, <2>2 DEF Fulfil
<1>5. PICK q : q = Proceeds(p, "end", lock)
  OBVIOUS
<1>6. p \in EditorRow /\ "end" \in Stages
  BY <1>2 DEF Stages
<1>7. /\ q \in EditorRow /\ q.stage = "end" /\ q.locked = lock /\ q.items = p.items /\ q.taken = p.taken
      /\ q.kind = p.kind /\ q.line = p.line /\ q.lack = p.lack
  BY <1>5, <1>6, ProceedsPlaced
<1>8. AtWork(q)
  BY <1>3, <1>7 DEF AtWork, ReserveKinds, EditKinds, FreeKinds
<1>9. FreeThere(q) /\ TotalKept(q) /\ \A d \in Depots : Pending(q, d) = Pending(p, d)
  BY <1>2, <1>3, <1>7 DEF FreeThere, TotalKept, Pending, ReserveKinds, EditKinds
<1>10. QED
  BY <1>1, <1>2, <1>4, <1>5, <1>7, <1>8, <1>9, ControlKeeps

LEMMA LockOrderKeeps ==
    ASSUME ProformaSound, NEW e \in Editors, LockOrder(e) PROVE ProformaSound'
<1>1. PICK p : p = editor[e]
  OBVIOUS
<1>2. p.stage = "lock" /\ OrderFree(e) /\ EditorHolds(p) /\ p \in EditorRow /\ AtWork(p)
  BY <1>1 DEF LockOrder, AtStage, ProformaSound, EditorHolds
<1>3. p.kind \in EditKinds /\ p.line \in Items
  BY <1>2 DEF AtWork
<1>4. PICK q : q = Proceeds(p, "mark", TRUE)
  OBVIOUS
<1>5. p \in EditorRow /\ "mark" \in Stages /\ TRUE \in BOOLEAN
  BY <1>2 DEF Stages
<1>6. /\ q \in EditorRow /\ q.stage = "mark" /\ q.locked /\ q.items = p.items /\ q.taken = p.taken
      /\ q.kind = p.kind /\ q.line = p.line /\ q.lack = p.lack
  BY <1>4, <1>5, ProceedsPlaced
<1>7. Goes(e, q)
  BY <1>1, <1>4 DEF LockOrder, Proceeds
<1>8. AtWork(q)
  BY <1>3, <1>6 DEF AtWork, ReserveKinds, EditKinds, FreeKinds
<1>9. FreeThere(q) /\ TotalKept(q) /\ \A d \in Depots : Pending(q, d) = Pending(p, d)
  BY <1>2, <1>6 DEF FreeThere, TotalKept, Pending
<1>10. QED
  BY <1>1, <1>2, <1>6, <1>7, <1>8, <1>9, ControlKeeps

LEMMA CostNat == ASSUME NEW rows PROVE Cost(rows) \in Nat
<1> DEFINE S == {x \in Items : rows[x].here /\ ~rows[x].removed}
<1>1. IsFiniteSet(S)
  BY ProformaFinite, FS_Subset
<1>2. Cardinality(S) \in Nat
  BY <1>1, FS_CardinalityType
<1>3. Cost(rows) = Ordered * Cardinality(S)
  BY DEF Cost, Quantify
<1> HIDE DEF S
<1>4. QED
  BY <1>2, <1>3, ProformaFinite

\* The cost of lines of which the same ones count.
LEMMA CostSame ==
    ASSUME NEW rows, NEW more, \A l \in Items : more[l].here = rows[l].here /\ more[l].removed = rows[l].removed
    PROVE  Cost(more) = Cost(rows)
<1>1. {x \in Items : more[x].here /\ ~more[x].removed} = {x \in Items : rows[x].here /\ ~rows[x].removed}
  OBVIOUS
<1>2. QED
  BY <1>1 DEF Cost, Quantify

LEMMA RecomputeKeeps ==
    ASSUME ProformaSound, NEW e \in Editors, RecomputeOrderTotals(e) PROVE ProformaSound'
<1>1. PICK p : p = editor[e]
  OBVIOUS
<1>2. p.stage = "total" /\ EditorHolds(p) /\ p \in EditorRow /\ AtWork(p)
  BY <1>1 DEF RecomputeOrderTotals, AtStage, ProformaSound, EditorHolds
<1>3. p.kind \in EditKinds /\ p.line \in Items /\ p.locked
  BY <1>2 DEF AtWork
<1>4. PICK sum : sum = Cost(ItemsOf(e))
  OBVIOUS
<1>5. PICK q : q = [p EXCEPT !.stage = "end", !.total = sum]
  OBVIOUS
<1>6. sum \in Nat
  BY <1>4, CostNat
<1>7. /\ q \in EditorRow /\ q.stage = "end" /\ q.locked = p.locked /\ q.items = p.items /\ q.taken = p.taken
      /\ q.kind = p.kind /\ q.line = p.line /\ q.lack = p.lack /\ q.total = sum
  <2>1. "end" \in Stages
    BY DEF Stages
  <2>2. [p EXCEPT !.stage = "end", !.total = sum] \in EditorRow
    BY <1>2, <1>6, <2>1 DEF EditorRow
  <2>3. QED
    BY <1>2, <1>5, <2>2 DEF EditorRow
<1>8. Goes(e, q)
  BY <1>1, <1>4, <1>5 DEF RecomputeOrderTotals
<1>9. AtWork(q)
  BY <1>3, <1>7 DEF AtWork, ReserveKinds, EditKinds, FreeKinds
<1>10. FreeThere(q) /\ \A d \in Depots : Pending(q, d) = Pending(p, d)
  BY <1>2, <1>7 DEF FreeThere, Pending
<1>11. TotalKept(q)
  BY <1>1, <1>4, <1>7 DEF TotalKept, Seen, ItemsOf
<1>12. QED
  BY <1>1, <1>2, <1>7, <1>8, <1>9, <1>10, <1>11, ControlKeeps

\* A request ends with nothing written.
LEMMA GivesUp ==
    ASSUME ProformaSound, NEW e \in Editors, editor' = [editor EXCEPT ![e] = Waiting],
           UNCHANGED <<open, total, item, taken, work>>
    PROVE  ProformaSound'
<1>1. PICK q : q = Waiting
  OBVIOUS
<1>2. q \in EditorRow /\ q.kind = "none" /\ q.stage = "idle" /\ q.items = Unwritten /\ q.taken = Unwritten /\ ~q.locked
  BY <1>1, WaitingRow
<1>3. AtWork(q)
  BY <1>1, <1>2 DEF AtWork, ReserveKinds, EditKinds, FreeKinds
<1>4. LinesThere(q)
  BY <1>2, NothingWritten DEF LinesThere, ReserveKinds
<1>5. EditorHolds(q)
  BY <1>2, <1>3, <1>4, NothingDone
<1>6. \A f \in Editors \ {e} : EditsApart(q, editor[f])
  BY <1>2, NothingWritten DEF EditsApart, FreeKinds
<1>7. ProformaTypeOK'
  BY DEF ProformaSound, ProformaTypeOK
<1>8. QED
  BY <1>1, <1>5, <1>6, <1>7, GoesKeeps

LEMMA ReadReservationsKeeps ==
    ASSUME ProformaSound, NEW e \in Editors, ReadReservations(e) PROVE ProformaSound'
<1>1. PICK p, l, row : p = editor[e] /\ l = p.line /\ row = ItemsOf(e)[l]
  OBVIOUS
<1>2. p.stage = "read" /\ EditorHolds(p) /\ p \in EditorRow /\ AtWork(p)
  BY <1>1 DEF ReadReservations, AtStage, ProformaSound, EditorHolds
<1>3. p.kind \in FreeKinds /\ l \in Items
  BY <1>1, <1>2 DEF AtWork
<1>4. row \in ItemRow /\ row = Seen(p)[l]
  <2>1. p.stage \notin {"total", "end"}
    BY <1>2
  <2>2. QED
    BY <1>1, <1>3, <2>1, SeenRow
<1>5. CASE row.reserved = 0
  BY <1>1, <1>5, GivesUp DEF ReadReservations, Goes
<1>6. CASE row.reserved # 0
  <2>1. PICK free, depots : free = row.at /\ depots = {d \in Depots : row.at[d] > 0}
    OBVIOUS
  <2>2. PICK q : q = [p EXCEPT !.stage = "free", !.free = free, !.depots = depots]
    OBVIOUS
  <2>3. free \in [Depots -> Nat] /\ depots \in SUBSET Depots
    BY <1>4, <2>1 DEF ItemRow
  <2>4. /\ q \in EditorRow /\ q.stage = "free" /\ q.locked = p.locked /\ q.items = p.items /\ q.taken = p.taken
        /\ q.kind = p.kind /\ q.line = p.line /\ q.lack = p.lack /\ q.free = free /\ q.depots = depots
    <3>1. "free" \in Stages
      BY DEF Stages
    <3>2. [p EXCEPT !.stage = "free", !.free = free, !.depots = depots] \in EditorRow
      BY <1>2, <2>3, <3>1 DEF EditorRow
    <3>3. QED
      BY <1>2, <2>2, <3>2 DEF EditorRow
  <2>5. Goes(e, q)
    BY <1>1, <1>6, <2>1, <2>2 DEF ReadReservations
  <2>6. AtWork(q)
    BY <1>1, <1>3, <2>4 DEF AtWork, ReserveKinds, EditKinds, FreeKinds
  <2>7. ASSUME NEW d \in Depots PROVE Pending(q, d) = Pending(p, d)
    <3>1. free[d] \in Nat /\ (d \in depots <=> free[d] > 0)
      BY <2>1, <2>3
    <3>2. d \notin depots => -free[d] = 0
      BY <3>1
    <3>3. QED
      BY <1>2, <2>4, <3>2 DEF Pending
  <2>8. TotalKept(q)
    BY <2>4 DEF TotalKept
  <2>9. FreeThere(q)
    <3>1. Seen(q)[q.line] = row
      BY <1>1, <1>4, <2>4 DEF Seen
    <3>2. \A d \in Depots : free[d] \in Nat /\ free[d] = row.at[d]
      BY <2>1, <2>3
    <3>3. QED
      BY <2>4, <3>1, <3>2 DEF FreeThere
  <2>10. q.locked => p.locked \/ OrderFree(e)
    BY <2>4
  <2>11. QED
    BY <1>1, <1>2, <2>4, <2>5, <2>6, <2>7, <2>8, <2>9, <2>10, ControlKeeps
<1>7. QED
  BY <1>5, <1>6

LEMMA ReleaseDepotKeeps ==
    ASSUME ProformaSound, NEW e \in Editors, ReleaseDepot(e) PROVE ProformaSound'
<1>1. PICK p : p = editor[e]
  OBVIOUS
<1>2. p.stage = "free" /\ EditorHolds(p) /\ p \in EditorRow /\ AtWork(p)
  BY <1>1 DEF ReleaseDepot, AtStage, ProformaSound, EditorHolds
<1>3. p.kind \in FreeKinds /\ p.line \in Items
  BY <1>2 DEF AtWork
<1>4. PICK d \in p.depots :
        /\ DepotFree(e, d)
        /\ Goes(e, [p EXCEPT !.depots = @ \ {d},
                             !.taken = Writes(@, d, Max({0, TakenOf(e)[d] - p.free[d]}))])
  BY <1>1 DEF ReleaseDepot
<1>5. p.depots \in SUBSET Depots /\ d \in Depots /\ p.free \in [Depots -> Nat]
      /\ p.taken \in Partial(Depots, 0..Stock) /\ p.items \in Partial(Items, ItemRow)
  BY <1>2, <1>4 DEF EditorRow
<1>6. PICK n : n = p.free[d]
  OBVIOUS
<1>7. PICK m : m = SeenTaken(p)[d]
  OBVIOUS
<1>8. n \in Nat /\ m \in 0..Stock /\ n <= m
  <2>1. ProformaTypeOK /\ Committed
    BY DEF ProformaSound
  <2>2. SeenTaken(p)[d] = IF d \in DOMAIN p.taken THEN p.taken[d] ELSE taken[d]
    BY <1>5, <2>1, SeenDepots
  <2>3. m \in 0..Stock
    <3>1. taken[d] \in Nat /\ taken[d] <= Stock
      BY <1>5, <2>1 DEF ProformaTypeOK, Committed
    <3>2. d \in DOMAIN p.taken => p.taken[d] \in 0..Stock
      BY <1>5, PartialPart
    <3>3. QED
      BY <1>7, <2>2, <3>1, <3>2, ProformaFinite
  <2>4. Seen(p) \in [Items -> ItemRow]
    BY <1>5, <2>1, SeenRows
  <2>5. UnitsAt(Seen(p), d) \in Nat /\ Seen(p)[p.line].at[d] <= UnitsAt(Seen(p), d) /\ Seen(p)[p.line].at[d] \in Nat
    BY <1>3, <1>5, <2>4, UnitsNat DEF ItemRow
  <2>6. n <= Seen(p)[p.line].at[d]
    BY <1>2, <1>5, <1>6 DEF EditorHolds, FreeThere
  <2>7. Pending(p, d) = 0
    BY <1>2, <1>4 DEF Pending
  <2>8. UnitsAt(Seen(p), d) - UnitsAt(item, d) = m - taken[d]
    <3>1. UnitsAt(Seen(p), d) - UnitsAt(item, d) = SeenTaken(p)[d] - taken[d] - Pending(p, d)
      BY <1>2, <1>5 DEF EditorHolds, Balanced
    <3>2. taken[d] \in Nat /\ m \in Nat
      BY <1>5, <2>1, <2>3 DEF ProformaTypeOK
    <3>3. QED
      BY <1>7, <2>7, <3>1, <3>2
  <2>9. taken[d] = UnitsAt(item, d) /\ taken[d] \in Nat
    BY <1>5, <2>1 DEF Committed, ProformaTypeOK
  <2>10. n \in Nat
    BY <1>5, <1>6
  <2>11. QED
    BY <2>3, <2>5, <2>6, <2>8, <2>9, <2>10
<1>9. PICK v : v = Max({0, TakenOf(e)[d] - p.free[d]})
  OBVIOUS
<1>10. v = m - n
  <2>1. TakenOf(e) = SeenTaken(p)
    BY <1>1 DEF TakenOf, SeenTaken
  <2>2. v = Greater(0, m - n)
    BY <1>6, <1>7, <1>9, <2>1 DEF Greater
  <2>3. m - n \in Nat
    BY <1>8
  <2>4. QED
    BY <2>2, <2>3, GreatestOfTwo
<1>11. v \in 0..Stock
  BY <1>8, <1>10, ProformaFinite
<1>12. PICK w, rest : w = Writes(p.taken, d, v) /\ rest = p.depots \ {d}
  OBVIOUS
<1>13. w \in Partial(Depots, 0..Stock) /\ rest \in SUBSET Depots
  BY <1>5, <1>11, <1>12, PartialMore
<1>14. PICK q : q = [p EXCEPT !.depots = rest, !.taken = w]
  OBVIOUS
<1>15. /\ q \in EditorRow /\ q.stage = "free" /\ q.locked = p.locked /\ q.items = p.items /\ q.taken = w
       /\ q.kind = p.kind /\ q.line = p.line /\ q.lack = p.lack /\ q.free = p.free /\ q.depots = rest
  BY <1>2, <1>13, <1>14 DEF EditorRow
<1>16. Goes(e, q)
  BY <1>4, <1>9, <1>12, <1>14
<1>17. AtWork(q)
  BY <1>3, <1>15 DEF AtWork, ReserveKinds, EditKinds, FreeKinds
<1>18. \A x \in Depots : x # d => Pending(q, x) = Pending(p, x)
  BY <1>2, <1>12, <1>15 DEF Pending
<1>19. Pending(p, d) = 0 /\ Pending(q, d) = -n
  BY <1>2, <1>4, <1>6, <1>12, <1>15 DEF Pending
<1>20. Pending(p, d) \in Int /\ Pending(q, d) = Pending(p, d) + v - SeenTaken(p)[d]
  BY <1>7, <1>8, <1>10, <1>19
<1>21. p.stage \notin {"total", "end"} /\ q.stage # "end"
  BY <1>2, <1>15
<1>22. q.taken = Writes(p.taken, d, v) /\ DOMAIN q.lack = DOMAIN p.lack
  BY <1>12, <1>15
<1>23. QED
  BY <1>1, <1>2, <1>4, <1>5, <1>11, <1>15, <1>16, <1>17, <1>18, <1>20, <1>21, <1>22, TakesKeeps

\* What was reserved is taken from a line.
Freed(row, free) ==
    LET n == MapThenSumSet(LAMBDA d : free[d], Depots)
    IN  [row EXCEPT !.reserved = Max({0, @ - n}), !.at = [d \in Depots |-> @[d] - free[d]]]

LEMMA FreedRow ==
    ASSUME NEW row \in ItemRow, NEW free \in [Depots -> Nat], RowAdds(row), \A d \in Depots : free[d] <= row.at[d]
    PROVE  /\ Freed(row, free) \in ItemRow /\ RowAdds(Freed(row, free))
           /\ Freed(row, free).here = row.here /\ Freed(row, free).removed = row.removed
           /\ \A d \in Depots : Freed(row, free).at[d] = row.at[d] - free[d]
<1>1. PICK at, n : at = [d \in Depots |-> row.at[d] - free[d]] /\ n = SumOf(free, Depots)
  OBVIOUS
<1>2. row.at \in [Depots -> Nat] /\ row.reserved \in Nat
  BY DEF ItemRow
<1>3. \A d \in Depots : row.at[d] - free[d] \in Nat
  <2>1. ASSUME NEW d \in Depots PROVE row.at[d] - free[d] \in Nat
    <3>1. row.at[d] \in Nat /\ free[d] \in Nat /\ free[d] <= row.at[d]
      BY <1>2
    <3>2. QED
      BY <3>1
  <2>2. QED
    BY <2>1
<1>4. at \in [Depots -> Nat] /\ \A d \in Depots : at[d] = row.at[d] - free[d]
  BY <1>1, <1>3
<1>5. SumOf(at, Depots) = SumOf(row.at, Depots) - n /\ n \in Nat /\ SumOf(at, Depots) \in Nat
  <2>1. PICK h \in [Depots -> Nat] : h = row.at
    BY <1>2
  <2>2. [d \in Depots |-> h[d] - free[d]] = at
    BY <1>1, <2>1
  <2>3. IsFiniteSet(Depots) /\ \A d \in Depots : free[d] <= h[d]
    BY <2>1, ProformaFinite
  <2>4. SumOf([d \in Depots |-> h[d] - free[d]], Depots) = SumOf(h, Depots) - SumOf(free, Depots)
    BY <2>3, SumMinus
  <2>5. SumOf(free, Depots) \in Nat /\ SumOf(at, Depots) \in Nat
    BY <1>4, <2>3, SumNat
  <2>6. QED
    BY <1>1, <2>1, <2>2, <2>4, <2>5
<1>6. row.reserved = SumOf(row.at, Depots) /\ row.reserved <= Ordered
  BY DEF RowAdds
<1>7. row.reserved - n \in Nat /\ row.reserved - n <= Ordered /\ SumOf(at, Depots) = row.reserved - n
  BY <1>2, <1>5, <1>6, ProformaFinite
<1>8. PICK r : r = Max({0, row.reserved - n})
  OBVIOUS
<1>9. r = row.reserved - n
  <2>1. r = Greater(0, row.reserved - n)
    BY <1>8 DEF Greater
  <2>2. QED
    BY <1>7, <2>1, GreatestOfTwo
<1>10. PICK new : new = Freed(row, free)
  OBVIOUS
<1>11. new = [row EXCEPT !.reserved = r, !.at = at]
  BY <1>1, <1>8, <1>10 DEF Freed, SumOf, ItemRow
<1>12. new \in ItemRow /\ new.here = row.here /\ new.removed = row.removed /\ new.at = at /\ new.reserved = r
  <2>1. r \in Nat
    BY <1>7, <1>9
  <2>2. QED
    BY <1>4, <1>11, <2>1 DEF ItemRow
<1>13. RowAdds(new)
  BY <1>7, <1>9, <1>12 DEF RowAdds
<1>14. QED
  BY <1>4, <1>10, <1>12, <1>13

LEMMA ReleaseLineKeeps ==
    ASSUME ProformaSound, NEW e \in Editors, ReleaseLine(e) PROVE ProformaSound'
<1>1. PICK p, l, row, free : p = editor[e] /\ l = p.line /\ row = ItemsOf(e)[l] /\ free = p.free
  OBVIOUS
<1>2. p.stage = "free" /\ EditorHolds(p) /\ p \in EditorRow /\ AtWork(p) /\ p.depots = {} /\ ItemFree(e, l)
  BY <1>1 DEF ReleaseLine, AtStage, ProformaSound, EditorHolds
<1>3. p.kind \in FreeKinds /\ l \in Items /\ free \in [Depots -> Nat]
  BY <1>1, <1>2 DEF AtWork, EditorRow
<1>4. row \in ItemRow /\ RowAdds(row) /\ row = Seen(p)[l] /\ row.here = item[l].here /\ row.removed = item[l].removed
  <2>1. p.stage \notin {"total", "end"}
    BY <1>2
  <2>2. QED
    BY <1>1, <1>3, <2>1, SeenRow
<1>5. item[l].here
  BY <1>1, <1>2, <1>3 DEF EditorHolds, LinesThere, FreeKinds
<1>6. \A d \in Depots : free[d] <= row.at[d]
  BY <1>1, <1>2, <1>4 DEF EditorHolds, FreeThere
<1>7. PICK new : new = Freed(row, free)
  OBVIOUS
<1>8. /\ new \in ItemRow /\ RowAdds(new) /\ new.here = row.here /\ new.removed = row.removed
      /\ \A d \in Depots : new.at[d] = row.at[d] - free[d]
  BY <1>3, <1>4, <1>6, <1>7, FreedRow
<1>9. PICK place \in {"lock", "end"} : place = IF p.kind = "remove" THEN "lock" ELSE "end"
  OBVIOUS
<1>10. PICK q : q = PutsAt(p, l, new, place)
  OBVIOUS
<1>11. p \in EditorRow /\ place \in Stages /\ new \in ItemRow /\ l \in Items
  BY <1>2, <1>3, <1>8, <1>9 DEF Stages
<1>12. /\ q \in EditorRow /\ q.items = Writes(p.items, l, new) /\ q.stage = place /\ q.taken = p.taken
       /\ q.kind = p.kind /\ q.line = p.line /\ q.lack = p.lack /\ q.locked = p.locked
  <2>1. LET r == PutsAt(p, l, new, place)
        IN  /\ r \in EditorRow /\ r.items = Writes(p.items, l, new) /\ r.stage = place /\ r.taken = p.taken
            /\ r.kind = p.kind /\ r.line = p.line /\ r.lack = p.lack /\ r.locked = p.locked
    BY <1>11, PutsPlaced, SMTT(30)
  <2>2. QED
    BY <1>10, <2>1
<1>13. Goes(e, q)
  BY <1>1, <1>7, <1>9, <1>10 DEF ReleaseLine, PutsAt, Freed
<1>14. AtWork(q)
  BY <1>1, <1>3, <1>9, <1>12 DEF AtWork, ReserveKinds, EditKinds, FreeKinds
<1>15. RowKept(q, l)
  <2>1. q.items[l] = new
    BY <1>12 DEF Writes
  <2>2. QED
    BY <1>1, <1>3, <1>4, <1>5, <1>8, <1>12, <2>1 DEF RowKept
<1>16. \A d \in Depots : /\ Pending(p, d) \in Int /\ Pending(q, d) \in Int
                         /\ new.at[d] = Seen(p)[l].at[d] + Pending(p, d) - Pending(q, d)
  <2>1. ASSUME NEW d \in Depots
        PROVE  /\ Pending(p, d) \in Int /\ Pending(q, d) \in Int
               /\ new.at[d] = Seen(p)[l].at[d] + Pending(p, d) - Pending(q, d)
    <3>1. Pending(q, d) = 0 /\ Pending(p, d) = -free[d]
      BY <1>1, <1>2, <1>9, <1>12 DEF Pending
    <3>2. free[d] \in Nat /\ row.at[d] \in Nat
      BY <1>3, <1>4 DEF ItemRow
    <3>3. new.at[d] = row.at[d] - free[d]
      BY <1>8
    <3>4. QED
      BY <1>4, <3>1, <3>2, <3>3
  <2>2. QED
    BY <2>1
<1>17. p.stage \notin {"total", "end"} /\ q.stage # "free" /\ (q.kind \notin EditKinds \/ q.stage # "end") /\ q.kind # "add"
  BY <1>2, <1>3, <1>9, <1>12 DEF FreeKinds, EditKinds
<1>18. l \in Items /\ ItemFree(e, l) /\ DOMAIN q.lack = DOMAIN p.lack
  BY <1>2, <1>3, <1>12
<1>19. QED
  BY <1>1, <1>5, <1>11, <1>12, <1>13, <1>14, <1>15, <1>16, <1>17, <1>18, PutsKeeps

LEMMA MarkLineKeeps ==
    ASSUME ProformaSound, NEW e \in Editors, MarkLine(e) PROVE ProformaSound'
<1>1. PICK p, l, row : p = editor[e] /\ l = p.line /\ row = ItemsOf(e)[l]
  OBVIOUS
<1>2. p.stage = "mark" /\ EditorHolds(p) /\ p \in EditorRow /\ AtWork(p) /\ ItemFree(e, l)
  BY <1>1 DEF MarkLine, AtStage, ProformaSound, EditorHolds
<1>3. p.kind \in EditKinds /\ l \in Items /\ p.locked
  BY <1>1, <1>2 DEF AtWork
<1>4. /\ row \in ItemRow /\ RowAdds(row) /\ row = Seen(p)[l] /\ row.here = item[l].here
      /\ p.kind # "remove" => \A d \in Depots : item[l].at[d] <= row.at[d]
  <2>1. p.stage \notin {"total", "end"}
    BY <1>2
  <2>2. p.kind \in FreeKinds => p.kind = "remove"
    BY <1>3 DEF FreeKinds, EditKinds
  <2>3. QED
    BY <1>1, <1>3, <2>1, <2>2, SeenRow
<1>5. p.kind # "add" => item[l].here
  BY <1>1, <1>2, <1>3 DEF EditorHolds, LinesThere, EditKinds
<1>6. p.kind = "add" => row.at = Empty
  <2>1. ASSUME p.kind = "add" PROVE row.at = Empty
    <3>1. ~item[l].here
      BY <1>1, <1>2, <2>1 DEF EditorHolds, LinesThere
    <3>2. l \notin DOMAIN p.items
      BY <1>2, <3>1 DEF EditorHolds, RowKept
    <3>3. row = item[l]
      <4>1. p.items \in Partial(Items, ItemRow) /\ ProformaTypeOK
        BY <1>2 DEF EditorRow, ProformaSound
      <4>2. QED
        BY <1>3, <1>4, <3>2, <4>1, SeenRows
    <3>4. QED
      BY <1>3, <3>1, <3>3 DEF ProformaSound, Committed
  <2>2. QED
    BY <2>1
<1>7. PICK new : new = CASE p.kind = "add" -> NewItem
                 [] p.kind = "remove" -> [row EXCEPT !.removed = TRUE]
                 [] p.kind = "restore" -> [row EXCEPT !.removed = FALSE]
  OBVIOUS
<1>8. new \in ItemRow /\ RowAdds(new) /\ new.here /\ new.at = row.at
  <2>1. CASE p.kind = "add"
    <3>1. new = NewItem
      BY <1>7, <2>1
    <3>2. SumOf(Empty, Depots) = 0
      BY NothingAt, ProformaFinite, SumNought
    <3>3. QED
      BY <1>6, <2>1, <3>1, <3>2, NewRow, ProformaFinite DEF RowAdds
  <2>2. CASE p.kind = "remove"
    <3>1. new = [row EXCEPT !.removed = TRUE]
      BY <1>7, <2>2
    <3>2. new \in ItemRow /\ new.here = row.here /\ new.at = row.at /\ new.reserved = row.reserved
      BY <1>4, <3>1 DEF ItemRow
    <3>3. QED
      BY <1>4, <1>5, <2>2, <3>2 DEF RowAdds
  <2>3. CASE p.kind = "restore"
    <3>1. new = [row EXCEPT !.removed = FALSE]
      BY <1>7, <2>3
    <3>2. new \in ItemRow /\ new.here = row.here /\ new.at = row.at /\ new.reserved = row.reserved
      BY <1>4, <3>1 DEF ItemRow
    <3>3. QED
      BY <1>4, <1>5, <2>3, <3>2 DEF RowAdds
  <2>4. QED
    BY <1>3, <2>1, <2>2, <2>3 DEF EditKinds
<1>9. PICK q : q = PutsAt(p, l, new, "total")
  OBVIOUS
<1>10. p \in EditorRow /\ "total" \in Stages /\ l \in Items /\ new \in ItemRow
  BY <1>2, <1>3, <1>8 DEF Stages
<1>11. /\ q \in EditorRow /\ q.items = Writes(p.items, l, new) /\ q.stage = "total" /\ q.taken = p.taken
       /\ q.kind = p.kind /\ q.line = p.line /\ q.lack = p.lack /\ q.locked = p.locked
  BY <1>9, <1>10, PutsPlaced
<1>12. Goes(e, q)
  BY <1>1, <1>7, <1>9 DEF MarkLine, PutsAt
<1>13. AtWork(q)
  BY <1>1, <1>3, <1>11 DEF AtWork, ReserveKinds, EditKinds, FreeKinds
<1>14. RowKept(q, l)
  <2>1. q.items[l] = new
    BY <1>11 DEF Writes
  <2>2. ~(q.kind \in FreeKinds /\ l = q.line) => \A d \in Depots : item[l].at[d] <= new.at[d]
    BY <1>1, <1>4, <1>8, <1>11 DEF FreeKinds
  <2>3. QED
    BY <1>1, <1>3, <1>8, <1>11, <2>1, <2>2 DEF RowKept
<1>15. \A d \in Depots : /\ Pending(p, d) \in Int /\ Pending(q, d) \in Int
                         /\ new.at[d] = Seen(p)[l].at[d] + Pending(p, d) - Pending(q, d)
  <2>1. ASSUME NEW d \in Depots
        PROVE  /\ Pending(p, d) \in Int /\ Pending(q, d) \in Int
               /\ new.at[d] = Seen(p)[l].at[d] + Pending(p, d) - Pending(q, d)
    <3>1. Pending(q, d) = 0 /\ Pending(p, d) = 0
      BY <1>2, <1>11 DEF Pending
    <3>2. row.at[d] \in Nat
      BY <1>4 DEF ItemRow
    <3>3. QED
      BY <1>4, <1>8, <3>1, <3>2
  <2>2. QED
    BY <2>1
<1>16. p.stage \notin {"total", "end"} /\ q.stage # "free" /\ q.stage # "end" /\ (q.kind = "add" => l = q.line)
       /\ (q.kind # "add" => item[l].here)
  BY <1>1, <1>2, <1>5, <1>11
<1>17. l \in Items /\ ItemFree(e, l) /\ DOMAIN q.lack = DOMAIN p.lack /\ new \in ItemRow
  BY <1>2, <1>3, <1>8, <1>11
<1>18. QED
  BY <1>1, <1>11, <1>12, <1>13, <1>14, <1>15, <1>16, <1>17, PutsKeeps

\* What the request that ends has written becomes what is committed.
LEMMA EndsWithIt ==
    ASSUME ProformaSound, NEW e \in Editors, EndRequest(e), NEW p, p = editor[e]
    PROVE  /\ EditorHolds(p) /\ p.stage = "end" /\ ProformaTypeOK' /\ item' = Seen(p) /\ taken' = SeenTaken(p)
           /\ \A l \in Items : item'[l] = IF l \in DOMAIN p.items THEN p.items[l] ELSE item[l]
           /\ \A d \in Depots : taken'[d] = IF d \in DOMAIN p.taken THEN p.taken[d] ELSE taken[d]
           /\ Committed'
<1>1. EditorHolds(p) /\ p \in EditorRow /\ AtWork(p) /\ p.stage = "end"
  BY DEF EndRequest, AtStage, ProformaSound, EditorHolds
<1>2. ProformaTypeOK /\ p.taken \in Partial(Depots, 0..Stock) /\ p.items \in Partial(Items, ItemRow)
      /\ p.total \in Nat /\ Committed
  BY <1>1 DEF ProformaSound, EditorRow
<1>3. item' = Seen(p) /\ taken' = SeenTaken(p)
  BY DEF EndRequest, Seen, SeenTaken, ItemsOf, TakenOf
<1>4. Seen(p) \in [Items -> ItemRow] /\ \A l \in Items : Seen(p)[l] = IF l \in DOMAIN p.items THEN p.items[l] ELSE item[l]
  BY <1>2, SeenRows
<1>5. SeenTaken(p) \in [Depots -> Nat]
      /\ \A d \in Depots : SeenTaken(p)[d] = IF d \in DOMAIN p.taken THEN p.taken[d] ELSE taken[d]
  BY <1>2, SeenDepots
<1>6. total' = (IF p.kind \in EditKinds THEN p.total ELSE total) /\ UNCHANGED <<open, work>>
  BY DEF EndRequest, EditKinds
<1>7. ProformaTypeOK'
  BY <1>2, <1>3, <1>4, <1>5, <1>6 DEF ProformaTypeOK, ItemRow
<1>8. total' = Cost(item')
  <2>1. CASE p.kind \in EditKinds
    BY <1>1, <1>3, <1>6, <2>1 DEF EditorHolds, TotalKept
  <2>2. CASE p.kind \notin EditKinds
    <3>1. \A l \in DOMAIN p.items : p.items[l].here = item[l].here /\ p.items[l].removed = item[l].removed
      BY <1>1, <2>2 DEF EditorHolds, RowKept
    <3>2. \A l \in Items : Seen(p)[l].here = item[l].here /\ Seen(p)[l].removed = item[l].removed
      BY <1>4, <3>1
    <3>3. Cost(Seen(p)) = Cost(item)
      BY <3>2, CostSame
    <3>4. QED
      BY <1>2, <1>3, <1>6, <2>2, <3>3 DEF Committed
  <2>3. QED
    BY <2>1, <2>2
<1>9. ASSUME NEW l \in Items
      PROVE  RowAdds(item'[l]) /\ (~item'[l].here => item'[l].at = Empty)
  <2>1. CASE l \in DOMAIN p.items
    BY <1>1, <1>3, <1>4, <2>1 DEF EditorHolds, RowKept
  <2>2. CASE l \notin DOMAIN p.items
    BY <1>2, <1>3, <1>4, <2>2 DEF Committed
  <2>3. QED
    BY <2>1, <2>2
<1>10. ASSUME NEW d \in Depots
       PROVE  taken'[d] = UnitsAt(item', d) /\ taken'[d] <= Stock
  <2>1. Pending(p, d) = 0
    BY <1>1 DEF Pending
  <2>2. UnitsAt(Seen(p), d) - UnitsAt(item, d) = SeenTaken(p)[d] - taken[d] - Pending(p, d)
    BY <1>1 DEF EditorHolds, Balanced
  <2>3. taken[d] = UnitsAt(item, d) /\ taken[d] <= Stock /\ taken[d] \in Nat
    BY <1>2 DEF Committed, ProformaTypeOK
  <2>4. UnitsAt(Seen(p), d) \in Nat /\ SeenTaken(p)[d] \in Nat
    BY <1>4, <1>5, UnitsNat
  <2>5. UnitsAt(Seen(p), d) = SeenTaken(p)[d]
    BY <2>1, <2>2, <2>3, <2>4
  <2>6. SeenTaken(p)[d] <= Stock
    <3>1. d \in DOMAIN p.taken => p.taken[d] \in 0..Stock
      BY <1>2, PartialPart
    <3>2. QED
      BY <1>5, <2>3, <3>1, ProformaFinite
  <2>7. QED
    BY <1>3, <2>5, <2>6
<1>11. Committed'
  <2>1. total' = Cost(item)'
    BY <1>8 DEF Cost, Quantify
  <2>2. \A l \in Items : RowAdds(item[l])' /\ (~item[l].here => item[l].at = Empty)'
    BY <1>9 DEF RowAdds
  <2>3. \A d \in Depots : (taken[d] = UnitsAt(item, d))' /\ (taken[d] <= Stock)'
    BY <1>10 DEF UnitsAt, Column
  <2>4. QED
    BY <2>1, <2>2, <2>3 DEF Committed
<1>12. QED
  BY <1>1, <1>3, <1>4, <1>5, <1>7, <1>11

\* Another request does not notice.
LEMMA OthersHold ==
    ASSUME ProformaSound, NEW e \in Editors, EndRequest(e), NEW f \in Editors \ {e}, NEW r, r = editor[f]
    PROVE  EditorHolds(r)'
<1>1. PICK p : p = editor[e]
  OBVIOUS
<1>2. /\ EditorHolds(p) /\ p.stage = "end" /\ ProformaTypeOK' /\ item' = Seen(p) /\ taken' = SeenTaken(p)
      /\ \A l \in Items : item'[l] = IF l \in DOMAIN p.items THEN p.items[l] ELSE item[l]
      /\ \A d \in Depots : taken'[d] = IF d \in DOMAIN p.taken THEN p.taken[d] ELSE taken[d]
  BY <1>1, EndsWithIt
<1>3. EditorHolds(r) /\ r \in EditorRow /\ AtWork(r) /\ EditsApart(p, r) /\ EditsApart(r, p)
  BY <1>1 DEF ProformaSound, EditorHolds
<1>4. ProformaTypeOK /\ r.taken \in Partial(Depots, 0..Stock) /\ r.items \in Partial(Items, ItemRow)
      /\ p.taken \in Partial(Depots, 0..Stock) /\ p.items \in Partial(Items, ItemRow) /\ p \in EditorRow /\ AtWork(p)
  BY <1>2, <1>3 DEF ProformaSound, EditorHolds, EditorRow
<1>5. DOMAIN p.items \subseteq Items /\ DOMAIN r.items \subseteq Items
  BY <1>4, PartialPart
<1>6. \A l \in DOMAIN r.items : l \notin DOMAIN p.items /\ item'[l] = item[l]
  BY <1>2, <1>3, <1>5 DEF EditsApart
<1>7. ASSUME NEW l \in Items PROVE item[l].here => item'[l].here
  BY <1>2 DEF EditorHolds, RowKept
<1>8. LinesThere(r)'
  <2>1. r.kind = "add" => r.line \in Items
    BY <1>3 DEF AtWork, EditKinds
  <2>2. r.kind \in {"remove", "restore", "release"} => r.line \in Items
    BY <1>3 DEF AtWork, EditKinds, FreeKinds
  <2>3. r.kind = "add" => r.line \notin DOMAIN p.items
    BY <1>2, <1>3 DEF EditorHolds, LinesThere, EditsApart
  <2>4. r.kind = "add" => ~item'[r.line].here /\ DOMAIN r.items \subseteq {r.line}
    BY <1>2, <1>3, <2>1, <2>3 DEF EditorHolds, LinesThere
  <2>5. r.kind \in {"remove", "restore", "release"} => item'[r.line].here
    BY <1>3, <1>7, <2>2 DEF EditorHolds, LinesThere
  <2>6. r.kind \in ReserveKinds => \A l \in DOMAIN r.lack : item'[l].here
    <3>1. r.lack \in Partial(Items, Nat)
      BY <1>3 DEF EditorRow
    <3>2. DOMAIN r.lack \subseteq Items
      BY <3>1, PartialPart
    <3>3. QED
      BY <1>3, <1>7, <3>2 DEF EditorHolds, LinesThere
  <2>7. r.kind # "add" => \A l \in DOMAIN r.items : item'[l].here
    BY <1>3, <1>5, <1>7 DEF EditorHolds, LinesThere
  <2>8. QED
    BY <2>4, <2>5, <2>6, <2>7 DEF LinesThere
<1>9. ASSUME NEW l \in DOMAIN r.items PROVE RowKept(r, l)'
  <2>1. RowKept(r, l) /\ item'[l] = item[l]
    BY <1>3, <1>6 DEF EditorHolds
  <2>2. QED
    BY <2>1 DEF RowKept, RowAdds
<1>10. PICK now, then : now = Seen(r) /\ then = Seen(r)'
  OBVIOUS
<1>11. now \in [Items -> ItemRow] /\ \A l \in Items : now[l] = IF l \in DOMAIN r.items THEN r.items[l] ELSE item[l]
  BY <1>4, <1>10, SeenRows
<1>12. item \in [Items -> ItemRow] /\ item' \in [Items -> ItemRow]
  BY <1>2, <1>4 DEF ProformaTypeOK, ItemRow
<1>13. then \in [Items -> ItemRow] /\ \A l \in Items : then[l] = IF l \in DOMAIN r.items THEN r.items[l] ELSE item'[l]
  <2>1. then = [x \in (DOMAIN r.items) \union Items |-> IF x \in DOMAIN r.items THEN r.items[x] ELSE item'[x]]
    BY <1>10, <1>12 DEF Seen, Over
  <2>2. \A x \in DOMAIN r.items : r.items[x] \in ItemRow
    BY <1>4, PartialPart
  <2>3. QED
    BY <1>5, <1>12, <2>1, <2>2
<1>14. \A d \in Depots : SeenTaken(r)[d] = IF d \in DOMAIN r.taken THEN r.taken[d] ELSE taken[d]
  BY <1>4, SeenDepots
<1>15. \A d \in Depots : SeenTaken(r)'[d] = IF d \in DOMAIN r.taken THEN r.taken[d] ELSE taken'[d]
  <2>1. taken' \in [Depots -> Nat] /\ DOMAIN r.taken \subseteq Depots
    BY <1>2, <1>4, PartialPart DEF ProformaTypeOK
  <2>2. SeenTaken(r)' = [x \in (DOMAIN r.taken) \union Depots |-> IF x \in DOMAIN r.taken THEN r.taken[x] ELSE taken'[x]]
    BY <2>1 DEF SeenTaken, Over
  <2>3. QED
    BY <2>1, <2>2
<1>16. ASSUME NEW d \in Depots
       PROVE  UnitsAt(then, d) - UnitsAt(item', d) = SeenTaken(r)'[d] - taken'[d] - Pending(r, d)
  <2>1. PICK h, k, g, j : h = Column(then, d) /\ k = Column(item, d) /\ g = Column(now, d) /\ j = Column(item', d)
    OBVIOUS
  <2>2. /\ h \in [Items -> Nat] /\ k \in [Items -> Nat] /\ g \in [Items -> Nat] /\ j \in [Items -> Nat]
        /\ \A l \in Items : /\ h[l] = then[l].at[d] /\ k[l] = item[l].at[d]
                            /\ g[l] = now[l].at[d] /\ j[l] = item'[l].at[d]
    BY <1>11, <1>12, <1>13, <2>1, UnitsNat
  <2>3. ASSUME NEW l \in Items PROVE h[l] + k[l] = g[l] + j[l]
    <3>1. h[l] \in Nat /\ k[l] \in Nat /\ g[l] \in Nat /\ j[l] \in Nat
      BY <2>2
    <3>2. CASE l \in DOMAIN r.items
      <4>1. then[l] = now[l] /\ item'[l] = item[l]
        BY <1>6, <1>11, <1>13, <3>2
      <4>2. h[l] = g[l] /\ k[l] = j[l]
        BY <2>2, <4>1
      <4>3. QED
        BY <3>1, <4>2
    <3>3. CASE l \notin DOMAIN r.items
      <4>1. then[l] = item'[l] /\ now[l] = item[l]
        BY <1>11, <1>13, <3>3
      <4>2. h[l] = j[l] /\ k[l] = g[l]
        BY <2>2, <4>1
      <4>3. QED
        BY <3>1, <4>2
    <3>4. QED
      BY <3>2, <3>3
  <2>4. SumOf(h, Items) + SumOf(k, Items) = SumOf(g, Items) + SumOf(j, Items)
    <3>1. \A l \in Items : h[l] + k[l] = g[l] + j[l]
      BY <2>3
    <3>2. IsFiniteSet(Items)
      BY ProformaFinite
    <3>3. h \in [Items -> Nat] /\ k \in [Items -> Nat] /\ g \in [Items -> Nat] /\ j \in [Items -> Nat]
      BY <2>2
    <3>4. QED
      BY <3>1, <3>2, <3>3, SumExchange
  <2>5. /\ UnitsAt(then, d) = SumOf(h, Items) /\ UnitsAt(item, d) = SumOf(k, Items)
        /\ UnitsAt(now, d) = SumOf(g, Items) /\ UnitsAt(item', d) = SumOf(j, Items)
    BY <2>1 DEF UnitsAt
  <2>6. /\ SumOf(h, Items) \in Nat /\ SumOf(k, Items) \in Nat /\ SumOf(g, Items) \in Nat /\ SumOf(j, Items) \in Nat
    BY <2>2, ProformaFinite, SumNat
  <2>7. UnitsAt(now, d) - UnitsAt(item, d) = SeenTaken(r)[d] - taken[d] - Pending(r, d)
    BY <1>3, <1>10 DEF EditorHolds, Balanced
  <2>8. SeenTaken(r)[d] - taken[d] = SeenTaken(r)'[d] - taken'[d]
    <3>1. taken[d] \in Nat /\ taken'[d] \in Nat
      BY <1>2, <1>4 DEF ProformaTypeOK
    <3>2. CASE d \in DOMAIN r.taken
      <4>1. d \notin DOMAIN p.taken
        BY <1>3, <3>2 DEF EditsApart
      <4>2. taken'[d] = taken[d]
        BY <1>2, <4>1
      <4>3. QED
        BY <1>14, <1>15, <3>2, <4>2
    <3>3. CASE d \notin DOMAIN r.taken
      BY <1>14, <1>15, <3>1, <3>3
    <3>4. QED
      BY <3>2, <3>3
  <2>9. QED
    BY <2>4, <2>5, <2>6, <2>7, <2>8
<1>17. Balanced(r)'
  <2>1. Pending(r, 0)' = Pending(r, 0)
    BY DEF Pending
  <2>2. \A d \in Depots : Pending(r, d)' = Pending(r, d)
    BY DEF Pending
  <2>3. \A d \in Depots : UnitsAt(Seen(r), d)' = UnitsAt(then, d) /\ UnitsAt(item, d)' = UnitsAt(item', d)
    BY <1>10 DEF UnitsAt, Column
  <2>4. QED
    BY <1>16, <2>2, <2>3 DEF Balanced
<1>18. FreeThere(r)'
  <2>1. ASSUME r.stage = "free", NEW d \in Depots PROVE r.free[d] <= then[r.line].at[d]
    <3>1. r.kind \in FreeKinds /\ r.line \in Items /\ r.free[d] \in Nat
      BY <1>3, <2>1 DEF AtWork, EditorRow
    <3>2. r.free[d] <= now[r.line].at[d]
      BY <1>3, <1>10, <2>1 DEF EditorHolds, FreeThere
    <3>3. now[r.line].at[d] <= then[r.line].at[d]
      <4>1. CASE r.line \in DOMAIN r.items
        <5>1. now[r.line] = then[r.line] /\ now[r.line].at[d] \in Nat
          BY <1>11, <1>13, <3>1, <4>1 DEF ItemRow
        <5>2. QED
          BY <5>1
      <4>2. CASE r.line \notin DOMAIN r.items
        <5>1. now[r.line] = item[r.line] /\ then[r.line] = item'[r.line] /\ item[r.line].at[d] \in Nat
          BY <1>11, <1>12, <1>13, <3>1, <4>2 DEF ItemRow
        <5>2. CASE r.line \in DOMAIN p.items
          <6>1. ~(p.kind \in FreeKinds /\ r.line = p.line)
            BY <1>3, <3>1 DEF EditsApart
          <6>2. \A x \in Depots : item[r.line].at[x] <= p.items[r.line].at[x]
            BY <1>2, <5>2, <6>1 DEF EditorHolds, RowKept
          <6>3. QED
            BY <1>2, <3>1, <5>1, <5>2, <6>2
        <5>3. CASE r.line \notin DOMAIN p.items
          BY <1>2, <3>1, <5>1, <5>3
        <5>4. QED
          BY <5>2, <5>3
      <4>3. QED
        BY <4>1, <4>2
    <3>4. now[r.line].at[d] \in Nat /\ then[r.line].at[d] \in Nat
      BY <1>11, <1>13, <3>1 DEF ItemRow
    <3>5. QED
      BY <3>1, <3>2, <3>3, <3>4
  <2>2. QED
    BY <1>10, <2>1 DEF FreeThere
<1>19. TotalKept(r)'
  <2>1. ASSUME r.kind \in EditKinds, r.stage = "end" PROVE r.total = Cost(then)
    <3>1. r.locked
      BY <1>3, <2>1 DEF AtWork
    <3>2. p.kind \notin EditKinds
      BY <1>2, <1>3, <1>4, <3>1 DEF AtWork, EditsApart
    <3>3. \A l \in DOMAIN p.items : p.items[l].here = item[l].here /\ p.items[l].removed = item[l].removed
      BY <1>2, <3>2 DEF EditorHolds, RowKept
    <3>4. \A l \in Items : item'[l].here = item[l].here /\ item'[l].removed = item[l].removed
      BY <1>2, <3>3
    <3>5. \A l \in Items : then[l].here = now[l].here /\ then[l].removed = now[l].removed
      BY <1>11, <1>13, <3>4
    <3>6. Cost(then) = Cost(now)
      BY <3>5, CostSame
    <3>7. QED
      BY <1>3, <1>10, <2>1, <3>6 DEF EditorHolds, TotalKept
  <2>2. Cost(then) = Cost(Seen(r))'
    BY <1>10 DEF Cost, Quantify
  <2>3. QED
    BY <2>1, <2>2 DEF TotalKept
<1>20. QED
  BY <1>3, <1>8, <1>9, <1>17, <1>18, <1>19 DEF EditorHolds, AtWork

LEMMA EndRequestKeeps ==
    ASSUME ProformaSound, NEW e \in Editors, EndRequest(e) PROVE ProformaSound'
<1>1. editor' = [editor EXCEPT ![e] = Waiting] /\ DOMAIN editor = Editors
  BY DEF EndRequest, ProformaSound
<1>2. DOMAIN editor' = Editors /\ editor'[e] = Waiting /\ \A f \in Editors \ {e} : editor'[f] = editor[f]
  BY <1>1
<1>3. ProformaTypeOK' /\ Committed'
  BY EndsWithIt
<1>4. ASSUME NEW f \in Editors \ {e} PROVE EditorHolds(editor[f])'
  <2>1. PICK r : r = editor[f]
    OBVIOUS
  <2>2. EditorHolds(r)'
    BY <2>1, OthersHold
  <2>3. editor'[f] = r
    BY <1>2, <2>1
  <2>4. QED
    BY <2>2, <2>3 DEF EditorHolds, AtWork, LinesThere, RowKept, Balanced, FreeThere, TotalKept, Seen, SeenTaken, Pending
<1>5. PICK q : q = Waiting
  OBVIOUS
<1>6. q \in EditorRow /\ q.kind = "none" /\ q.stage = "idle" /\ q.items = Unwritten /\ q.taken = Unwritten /\ ~q.locked
  BY <1>5, WaitingRow
<1>7. AtWork(q)
  BY <1>5, <1>6 DEF AtWork, ReserveKinds, EditKinds, FreeKinds
<1>8. EditorHolds(editor[e])'
  <2>1. EditorHolds(q)'
    <3>1. DOMAIN q.items = {} /\ DOMAIN q.taken = {}
      BY <1>6, NothingWritten
    <3>2. item' = [l \in Items |-> item'[l]] /\ taken' = [d \in Depots |-> taken'[d]]
      BY <1>3 DEF ProformaTypeOK
    <3>3. Seen(q)' = item' /\ SeenTaken(q)' = taken'
      BY <3>1, <3>2 DEF Seen, SeenTaken, Over
    <3>4. Balanced(q)'
      <4>1. ASSUME NEW d \in Depots
            PROVE  UnitsAt(item', d) - UnitsAt(item', d) = taken'[d] - taken'[d] - Pending(q, d)
        <5>1. Pending(q, d) = 0
          BY <1>6 DEF Pending
        <5>2. item' \in [Items -> ItemRow] /\ taken'[d] \in Nat
          BY <1>3 DEF ProformaTypeOK, ItemRow
        <5>3. UnitsAt(item', d) \in Nat
          BY <5>2, UnitsNat
        <5>4. QED
          BY <5>1, <5>2, <5>3
      <4>2. \A d \in Depots : UnitsAt(Seen(q), d)' = UnitsAt(item', d) /\ UnitsAt(item, d)' = UnitsAt(item', d)
                              /\ Pending(q, d)' = Pending(q, d)
        BY <3>3 DEF UnitsAt, Column, Pending
      <4>3. QED
        BY <3>3, <4>1, <4>2 DEF Balanced
    <3>5. LinesThere(q)'
      BY <1>6, <3>1 DEF LinesThere, ReserveKinds
    <3>6. FreeThere(q)' /\ TotalKept(q)' /\ \A l \in DOMAIN q.items : RowKept(q, l)'
      BY <1>6, <3>1 DEF FreeThere, TotalKept
    <3>7. QED
      BY <1>6, <1>7, <3>4, <3>5, <3>6 DEF EditorHolds, AtWork
  <2>2. editor'[e] = q
    BY <1>2, <1>5
  <2>3. QED
    BY <2>1, <2>2 DEF EditorHolds, AtWork, LinesThere, RowKept, Balanced, FreeThere, TotalKept, Seen, SeenTaken, Pending
<1>9. ASSUME NEW f \in Editors, NEW g \in Editors, f # g PROVE EditsApart(editor[f], editor[g])'
  <2>1. CASE f # e /\ g # e
    BY <1>2, <1>9, <2>1 DEF ProformaSound, EditsApart
  <2>2. CASE f = e \/ g = e
    BY <1>2, <1>5, <1>6, <1>9, <2>2, NothingWritten DEF EditsApart, FreeKinds
  <2>3. QED
    BY <2>1, <2>2
<1>10. ASSUME NEW f \in Editors PROVE EditorHolds(editor[f])'
  <2>1. CASE f = e
    BY <1>8, <2>1
  <2>2. CASE f # e
    BY <1>4, <2>2
  <2>3. QED
    BY <2>1, <2>2
<1>11. QED
  BY <1>2, <1>3, <1>9, <1>10 DEF ProformaSound

LEMMA CloseKeeps ==
    ASSUME ProformaSound, UNCHANGED <<total, item, taken, editor>>, open' \in BOOLEAN, work' = work
    PROVE  ProformaSound'
<1>1. ProformaTypeOK'
  BY DEF ProformaSound, ProformaTypeOK
<1>2. Committed'
  <2>1. Cost(item)' = Cost(item)
    BY DEF Cost, Quantify
  <2>2. \A d \in Depots : UnitsAt(item, d)' = UnitsAt(item, d)
    BY DEF UnitsAt, Column
  <2>3. QED
    BY <2>1, <2>2 DEF ProformaSound, Committed, RowAdds
<1>3. ASSUME NEW f \in Editors PROVE EditorHolds(editor[f])'
  <2>1. PICK p : p = editor[f]
    OBVIOUS
  <2>2. EditorHolds(p)
    BY <2>1 DEF ProformaSound
  <2>3. Seen(p)' = Seen(p) /\ SeenTaken(p)' = SeenTaken(p)
    BY DEF Seen, SeenTaken, Over
  <2>4. Cost(Seen(p))' = Cost(Seen(p))
    BY <2>3 DEF Cost, Quantify
  <2>5. \A d \in Depots : UnitsAt(Seen(p), d)' = UnitsAt(Seen(p), d) /\ UnitsAt(item, d)' = UnitsAt(item, d)
    BY <2>3 DEF UnitsAt, Column
  <2>6. (\A l \in DOMAIN p.items : RowKept(p, l))'
    BY <2>2 DEF EditorHolds, RowKept, RowAdds
  <2>7. Balanced(p)' /\ FreeThere(p)' /\ TotalKept(p)'
    BY <2>2, <2>3, <2>4, <2>5 DEF EditorHolds, Balanced, FreeThere, TotalKept, Pending
  <2>8. EditorHolds(p)'
    BY <2>2, <2>6, <2>7 DEF EditorHolds, AtWork, LinesThere
  <2>9. editor'[f] = p
    BY <2>1
  <2>10. QED
    BY <2>8, <2>9 DEF EditorHolds, AtWork, LinesThere, RowKept, Balanced, FreeThere, TotalKept, Seen, SeenTaken, Pending
<1>4. QED
  BY <1>1, <1>2, <1>3 DEF ProformaSound, EditsApart

LEMMA ProformaBegins == ProformaInit => ProformaSound
<1> SUFFICES ASSUME ProformaInit PROVE ProformaSound
  OBVIOUS
<1>1. PICK l \in Items, m \in Items :
        /\ l < m
        /\ item = [i \in Items |-> CASE i = l -> NewItem [] i = m -> [NewItem EXCEPT !.removed = TRUE]
                                     [] OTHER -> NoItem]
  BY DEF ProformaInit
<1>2. l # m
  BY <1>1, ProformaFinite
<1>3. PICK gone : gone = [NewItem EXCEPT !.removed = TRUE]
  OBVIOUS
<1>4. /\ gone \in ItemRow /\ gone.here /\ gone.removed /\ gone.reserved = 0 /\ gone.at = Empty
      /\ NoItem \in ItemRow /\ ~NoItem.here /\ NoItem.reserved = 0 /\ NoItem.at = Empty
      /\ NewItem \in ItemRow /\ NewItem.here /\ ~NewItem.removed /\ NewItem.reserved = 0 /\ NewItem.at = Empty
  BY <1>3, NothingAt DEF NewItem, NoItem, ItemRow
<1>5. /\ item[l] = NewItem /\ item[m] = gone /\ \A i \in Items : i # l /\ i # m => item[i] = NoItem
      /\ item \in [Items -> ItemRow]
  BY <1>1, <1>2, <1>3, <1>4
<1>6. \A i \in Items : item[i].reserved = 0 /\ item[i].at = Empty
  BY <1>4, <1>5
<1>7. total = Ordered /\ taken = Empty /\ open = TRUE /\ work = 0 /\ editor = [e \in Editors |-> Waiting]
  BY DEF ProformaInit
<1>8. ProformaTypeOK
  BY <1>5, <1>7, NothingAt, ProformaFinite DEF ProformaTypeOK, ItemRow
<1>9. total = Cost(item)
  <2>1. {x \in Items : item[x].here /\ ~item[x].removed} = {l}
    BY <1>2, <1>4, <1>5
  <2>2. Cost(item) = Ordered * Cardinality({x \in Items : item[x].here /\ ~item[x].removed})
    BY DEF Cost, Quantify
  <2>3. Cardinality({l}) = 1
    BY FS_Singleton
  <2>4. QED
    BY <1>7, <2>1, <2>2, <2>3, ProformaFinite
<1>10. Committed
  <2>1. SumOf(Empty, Depots) = 0
    BY NothingAt, ProformaFinite, SumNought
  <2>2. ASSUME NEW d \in Depots PROVE taken[d] = UnitsAt(item, d) /\ taken[d] <= Stock
    <3>1. Column(item, d) \in [Items -> Nat] /\ \A i \in Items : Column(item, d)[i] = 0
      BY <1>5, <1>6, NothingAt, UnitsNat
    <3>2. SumOf(Column(item, d), Items) = 0
      BY <3>1, ProformaFinite, SumNought
    <3>3. QED
      BY <1>7, <3>2, NothingAt, ProformaFinite DEF UnitsAt
  <2>3. QED
    BY <1>6, <1>9, <2>1, <2>2, ProformaFinite DEF Committed, RowAdds
<1>11. PICK q : q = Waiting
  OBVIOUS
<1>12. q \in EditorRow /\ q.kind = "none" /\ q.stage = "idle" /\ q.items = Unwritten /\ q.taken = Unwritten /\ ~q.locked
  BY <1>11, WaitingRow
<1>13. DOMAIN q.items = {} /\ DOMAIN q.taken = {}
  BY <1>12, NothingWritten
<1>14. AtWork(q) /\ LinesThere(q) /\ FreeThere(q) /\ TotalKept(q)
  BY <1>11, <1>12, <1>13 DEF AtWork, LinesThere, FreeThere, TotalKept, ReserveKinds, EditKinds, FreeKinds
<1>15. Balanced(q)
  <2>1. ASSUME NEW d \in Depots
        PROVE  UnitsAt(Seen(q), d) - UnitsAt(item, d) = SeenTaken(q)[d] - taken[d] - Pending(q, d)
    <3>1. Seen(q) = item /\ SeenTaken(q) = taken
      <4>1. item = [i \in Items |-> item[i]] /\ taken = [x \in Depots |-> taken[x]]
        BY <1>5, <1>8 DEF ProformaTypeOK
      <4>2. QED
        BY <1>13, <4>1 DEF Seen, SeenTaken, Over
    <3>2. Pending(q, d) = 0
      BY <1>12 DEF Pending
    <3>3. UnitsAt(item, d) \in Nat /\ taken[d] \in Nat
      BY <1>5, <1>8, UnitsNat DEF ProformaTypeOK
    <3>4. QED
      BY <3>1, <3>2, <3>3
  <2>2. QED
    BY <2>1 DEF Balanced
<1>16. EditorHolds(q) /\ EditsApart(q, q)
  BY <1>12, <1>13, <1>14, <1>15 DEF EditorHolds, EditsApart, FreeKinds
<1>17. \A e \in Editors : editor[e] = q
  BY <1>7, <1>11
<1>18. QED
  BY <1>7, <1>8, <1>10, <1>16, <1>17 DEF ProformaSound

LEMMA ProformaSteps ==
    ASSUME OneRelease, ProformaSound, [ProformaNext]_proformaVars
    PROVE  ProformaSound'
<1>1. CASE UNCHANGED proformaVars
  BY <1>1, CloseKeeps DEF proformaVars, ProformaSound, ProformaTypeOK
<1>2. CASE Close
  BY <1>2, CloseKeeps DEF Close
<1>3. ASSUME NEW e \in Editors,
             AddOrderItem(e) \/ RestoreOrderItem(e) \/ RemoveOrderItem(e) \/ ReleaseRemoteStock(e)
      PROVE  ProformaSound'
  BY <1>3, EditAsks
<1>4. ASSUME NEW e \in Editors, ReserveRemoteStock(e) \/ ReserveAllRecommended(e) PROVE ProformaSound'
  BY <1>4, ReserveAsks
<1>5. ASSUME NEW e \in Editors, ReadOffer(e) \/ TakeFromDepot(e) \/ TakeForLine(e) \/ Fulfil(e)
      PROVE  ProformaSound'
  BY <1>5, ReadOfferKeeps, TakeFromDepotKeeps, TakeForLineKeeps, FulfilKeeps
<1>6. ASSUME NEW e \in Editors, ReadReservations(e) \/ ReleaseDepot(e) \/ ReleaseLine(e) PROVE ProformaSound'
  BY <1>6, ReadReservationsKeeps, ReleaseDepotKeeps, ReleaseLineKeeps
<1>7. ASSUME NEW e \in Editors, LockOrder(e) \/ MarkLine(e) \/ RecomputeOrderTotals(e) PROVE ProformaSound'
  BY <1>7, LockOrderKeeps, MarkLineKeeps, RecomputeKeeps
<1>8. ASSUME NEW e \in Editors, EndRequest(e) PROVE ProformaSound'
  BY <1>8, EndRequestKeeps
<1>9. ASSUME NEW e \in Editors, AbortRequest(e) PROVE ProformaSound'
  BY <1>9, GivesUp DEF AbortRequest
<1>10. QED
  BY <1>1, <1>2, <1>3, <1>4, <1>5, <1>6, <1>7, <1>8, <1>9 DEF ProformaNext

LEMMA ProformaIsSound == ASSUME OneRelease PROVE TeamSpec => []ProformaSound
<1>1. TeamInit => ProformaSound
  BY ProformaBegins DEF TeamInit
<1>2. ProformaSound /\ [TeamNext]_<<part, teamVars, boardVars, proformaVars>> => ProformaSound'
  BY StepOfTeam, ProformaSteps
<1>3. QED
  BY <1>1, <1>2, PTL DEF TeamSpec

\* As the model states it.
LEMMA EditsAlwaysAgree == ProformaSound => EditsAgree
<1> SUFFICES ASSUME ProformaSound PROVE EditsAgree
  OBVIOUS
<1>1. ProformaTypeOK /\ Committed
  BY DEF ProformaSound
<1>2. \A l \in Items : item[l].reserved = MapThenSumSet(LAMBDA d : item[l].at[d], Depots)
  BY <1>1 DEF Committed, RowAdds, SumOf
<1>3. \A d \in Depots : taken[d] = MapThenSumSet(LAMBDA l : item[l].at[d], Items)
  <2>1. ASSUME NEW d \in Depots PROVE taken[d] = MapThenSumSet(LAMBDA l : item[l].at[d], Items)
    BY <1>1, UnitsAsSum DEF Committed
  <2>2. QED
    BY <2>1
<1>4. QED
  BY <1>1, <1>2, <1>3 DEF EditsAgree, TotalIsTheLines, ReservationsAgree, PromisesKept, Committed, RowAdds

\* While asking for help runs alone, nothing is left open at the desk of the
\* pickers when the order is closed; and while one request at a time releases a
\* line, the total of the order, what its lines count as reserved and what the
\* inventories do agree with the reservations, and nothing is promised twice,
\* however the edits and reservations of its lines overlap and wherever they fail.
THEOREM LinesAndDeskAgree ==
    ASSUME AsksAlone, OneRelease
    PROVE  TeamSpec => []LinesAndDesk
<1>1. PickingSound /\ ProformaSound => LinesAndDesk
  BY DeskHolds, EditsAlwaysAgree DEF LinesAndDesk
<1>2. QED
  BY <1>1, PickingIsSound, ProformaIsSound, PTL

\* The rows of the team keep their types; the units of the pickers because
\* nobody is credited with more than was picked.
THEOREM TeamTyped ==
    ASSUME Careful, OneRelease
    PROVE  TeamSpec => []TeamTypeOK
<1>1. PickingSound => PickingTeamTypeOK
  <2> SUFFICES ASSUME PickingSound PROVE PickingTeamTypeOK
    OBVIOUS
  <2>1. PickingRows
    BY DEF PickingSound
  <2>2. \A u \in Pickers : units[u] \in Units
    <3>1. ASSUME NEW u \in Pickers PROVE units[u] \in Units
      <4>1. SumOf(units, Pickers) = picked /\ picked \in Units
        BY DEF PickingSound, CreditHolds, PickingRows
      <4>2. units \in [Pickers -> Nat] /\ IsFiniteSet(Pickers)
        BY <2>1, PickingTeamAssumption DEF PickingRows
      <4>3. units[u] <= SumOf(units, Pickers) /\ units[u] \in Nat
        BY <4>2, SumMember
      <4>4. QED
        BY <4>1, <4>3, QuantityIsNat DEF Units
    <3>2. QED
      BY <3>1
  <2>3. units \in [Pickers -> Units]
    BY <2>1, <2>2 DEF PickingRows
  <2>4. {primary, handler, goods.who, goods.from, goods.delegated} \subseteq Pickers \union {Nobody}
    BY <2>1 DEF PickingRows, Goods
  <2>5. QED
    BY <2>1, <2>3, <2>4 DEF PickingRows, PickingTeamTypeOK, Wants
<1>2. BoardSound => TaskBoardTypeOK
  BY DEF BoardSound, BoardRows, TaskBoardTypeOK, Phases, Statuses, Task
<1>3. ProformaSound => ProformaTypeOK
  BY DEF ProformaSound
<1>4. PickingSound /\ BoardSound /\ ProformaSound => TeamTypeOK
  BY <1>1, <1>2, <1>3 DEF TeamTypeOK
<1>5. QED
  BY <1>4, PickingIsSound, BoardIsSound, ProformaIsSound, PTL
==============================================================================
