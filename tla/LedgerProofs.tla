----------------------------- MODULE LedgerProofs -----------------------------
(***************************************************************************)
(* Safety of the ledger, the mempool, the stored chain and the explorer    *)
(* tables beside them, for any number of wallets, signed transactions,     *)
(* blocks, faults and rebuilds and any reward schedule.                    *)
(*                                                                         *)
(* Executing a block and replaying a chain are recursive functions over an *)
(* interval, and summing balances is one over the subsets of a finite set: *)
(* they are unfolded by showing that a function with the equation exists,  *)
(* and reasoned about by IntervalInduction and SubsetInduction.  A         *)
(* transaction has an Effect on the ledger; along a block it makes the     *)
(* nonces and the challenge run as counters, along a chain it makes them a *)
(* Tally of the places where transactions were executed.  LedgerInv is the *)
(* inductive invariant of the node, ExplorerInv of the node with its       *)
(* explorer tables.                                                        *)
(***************************************************************************)
EXTENDS Explorer, FiniteSetTheorems, WellFoundedInduction, SequenceTheorems, TLAPS

-------------------------------------------------------------------------------
(* Induction along 0 .. n *)

\* What holds of 0, and of m + 1 if of m, holds up to n.
LEMMA IntervalInduction ==
    ASSUME NEW n \in Nat, NEW T, 0 \in T, \A m \in 0 .. n : m < n /\ m \in T => m + 1 \in T
    PROVE  \A m \in 0 .. n : m \in T
  <1> DEFINE R == {m \in 0 .. n : m \notin T}
  <1>1. SUFFICES ASSUME R # {} PROVE FALSE
    OBVIOUS
  <1>2. R \in SUBSET Nat
    OBVIOUS
  <1> HIDE DEF R
  <1>3. PICK u \in R : \A w \in R : ~(<<w, u>> \in OpToRel(<, Nat))
    BY <1>1, <1>2, NatLessThanWellFounded, WFMin, Zenon
  <1>4. \A w \in R : ~(w < u)
    BY <1>2, <1>3 DEF OpToRel
  <1>5. u \in 0 .. n /\ u \notin T
    BY DEF R
  <1>6. u # 0 /\ u - 1 \in 0 .. n /\ u - 1 < u /\ (u - 1) + 1 = u
    BY <1>5
  <1>7. u - 1 \in T
    BY <1>4, <1>6 DEF R
  <1> QED BY <1>5, <1>6, <1>7

-------------------------------------------------------------------------------
(* Sums over finite sets *)

\* What holds of a set if it holds of the set without any one of its elements
\* holds of all subsets of a finite set.
LEMMA SubsetInduction ==
    ASSUME NEW S, IsFiniteSet(S), NEW T,
           \A U \in SUBSET S : (\A x \in U : U \ {x} \in T) => U \in T
    PROVE  \A U \in SUBSET S : U \in T
  <1> DEFINE R == {U \in SUBSET S : U \notin T}
  <1>1. SUFFICES ASSUME R # {} PROVE FALSE
    OBVIOUS
  <1>2. R \in SUBSET FiniteSubsetsOf(S)
    BY FS_FiniteSubsetsOfFinite
  <1> HIDE DEF R
  <1>3. PICK U \in R : \A W \in R : ~(<<W, U>> \in StrictSubsetOrdering(S))
    BY <1>1, <1>2, FS_StrictSubsetOrderingWellFounded, WFMin, Zenon
  <1>4. U \in SUBSET S /\ U \notin T
    BY DEF R
  <1>5. ASSUME NEW x \in U PROVE U \ {x} \in T
    <2>1. <<U \ {x}, U>> \in StrictSubsetOrdering(S)
      BY <1>4 DEF StrictSubsetOrdering
    <2> QED BY <2>1, <1>3, <1>4 DEF R
  <1> QED BY <1>4, <1>5

\* The element a sum takes next, and the sums of the subsets of S.
Pick(s) == CHOOSE x \in s : TRUE

IsSum(g, f, S) ==
    g = [s \in SUBSET S |-> IF s = {} THEN 0 ELSE f[Pick(s)] + g[s \ {Pick(s)}]]

\* Every finite set has a function that sums over its subsets.
LEMMA SumExists ==
    ASSUME NEW S, IsFiniteSet(S), NEW f \in [S -> Int]
    PROVE  \E g : IsSum(g, f, S)
  <1> DEFINE Small(n) == {s \in SUBSET S : Cardinality(s) <= n}
             Part(g, n) == g = [s \in Small(n) |->
                                   IF s = {} THEN 0 ELSE f[Pick(s)] + g[s \ {Pick(s)}]]
             n0 == Cardinality(S)
             T == {m \in 0 .. n0 : \E g : Part(g, m)}
  <1>1. \A s \in SUBSET S : /\ IsFiniteSet(s) /\ Cardinality(s) \in Nat
                            /\ Cardinality(s) <= n0
    BY FS_Subset, FS_CardinalityType
  <1>2. n0 \in Nat
    BY FS_CardinalityType
  <1>3. \A s \in SUBSET S : s # {} => /\ Pick(s) \in s
                                      /\ Cardinality(s \ {Pick(s)}) = Cardinality(s) - 1
    BY <1>1, FS_RemoveElement DEF Pick
  <1> HIDE DEF n0
  <1>4. 0 \in T
    <2> DEFINE g == [s \in Small(0) |-> 0]
    <2>1. \A s \in Small(0) : s = {}
      BY <1>1, FS_EmptySet
    <2>2. Part(g, 0)
      BY <2>1
    <2> HIDE DEF g, Part
    <2> QED BY <2>2, <1>2
  <1>5. ASSUME NEW m \in 0 .. n0, m < n0, m \in T PROVE m + 1 \in T
    <2>1. PICK g : Part(g, m)
      BY <1>5
    <2> DEFINE h == [s \in Small(m + 1) |->
                        IF s \in Small(m) THEN g[s] ELSE f[Pick(s)] + g[s \ {Pick(s)}]]
    <2>2. ASSUME NEW s \in Small(m + 1)
          PROVE  h[s] = IF s = {} THEN 0 ELSE f[Pick(s)] + h[s \ {Pick(s)}]
      <3>1. s # {} => s \ {Pick(s)} \in Small(m)
        BY <1>1, <1>3, <1>2
      <3>2. s # {} => h[s \ {Pick(s)}] = g[s \ {Pick(s)}]
        <4>1. Small(m) \subseteq Small(m + 1)
          BY <1>1, <1>2
        <4> QED BY <3>1, <4>1
      <3>3. CASE s \in Small(m)
        <4>1. h[s] = g[s]
          BY <3>3
        <4>2. g[s] = IF s = {} THEN 0 ELSE f[Pick(s)] + g[s \ {Pick(s)}]
          BY <3>3, <2>1
        <4> QED BY <4>1, <4>2, <3>2
      <3>4. CASE s \notin Small(m)
        <4>1. h[s] = f[Pick(s)] + g[s \ {Pick(s)}]
          BY <3>4
        <4>2. s # {}
          BY <3>4, <1>2, FS_EmptySet
        <4> QED BY <4>1, <4>2, <3>2
      <3> QED BY <3>3, <3>4
    <2>3. Part(h, m + 1)
      BY <2>2
    <2>4. m + 1 \in 0 .. n0
      BY <1>2, <1>5
    <2> HIDE DEF h, Part
    <2> QED BY <2>3, <2>4
  <1>6. n0 \in T
    <2> HIDE DEF T
    <2>1. \A m \in 0 .. n0 : m < n0 /\ m \in T => m + 1 \in T
      BY <1>5
    <2>2. \A m \in 0 .. n0 : m \in T
      BY <1>2, <1>4, <2>1, IntervalInduction
    <2> QED BY <2>2, <1>2
  <1>7. PICK g : Part(g, n0)
    BY <1>6
  <1>8. Small(n0) = SUBSET S
    BY <1>1
  <1>9. IsSum(g, f, S)
    BY <1>7, <1>8 DEF IsSum
  <1> QED BY <1>9

\* The sums are integers.
LEMMA SumType ==
    ASSUME NEW S, IsFiniteSet(S), NEW f \in [S -> Int], NEW g, IsSum(g, f, S)
    PROVE  /\ g[{}] = 0
           /\ \A U \in SUBSET S : g[U] \in Int
  <1> DEFINE T == {U \in SUBSET S : g[U] \in Int}
  <1>1. \A U \in SUBSET S : g[U] = IF U = {} THEN 0 ELSE f[Pick(U)] + g[U \ {Pick(U)}]
    BY DEF IsSum
  <1>2. g[{}] = 0
    BY <1>1
  <1>3. ASSUME NEW U \in SUBSET S, \A x \in U : U \ {x} \in T PROVE U \in T
    <2>1. CASE U = {}
      BY <2>1, <1>2
    <2>2. CASE U # {}
      <3>1. Pick(U) \in U
        BY <2>2 DEF Pick
      <3> DEFINE u == f[Pick(U)]
                 v == g[U \ {Pick(U)}]
      <3>2. u \in Int /\ v \in Int
        BY <3>1, <1>3
      <3>3. g[U] = u + v
        BY <1>1, <2>2
      <3> HIDE DEF u, v
      <3>4. g[U] \in Int
        BY <3>2, <3>3
      <3> QED BY <3>4
    <2> QED BY <2>1, <2>2
  <1>4. \A U \in SUBSET S : U \in T
    <2> HIDE DEF T
    <2> QED BY <1>3, SubsetInduction
  <1> QED BY <1>2, <1>4

\* A sum may take any element first.
LEMMA SumTakes ==
    ASSUME NEW S, IsFiniteSet(S), NEW f \in [S -> Int], NEW g, IsSum(g, f, S)
    PROVE  \A U \in SUBSET S, x \in S : x \in U => g[U] = f[x] + g[U \ {x}]
  <1> DEFINE T == {U \in SUBSET S : \A x \in U : g[U] = f[x] + g[U \ {x}]}
  <1>1. \A U \in SUBSET S : g[U] = IF U = {} THEN 0 ELSE f[Pick(U)] + g[U \ {Pick(U)}]
    BY DEF IsSum
  <1>2. \A U \in SUBSET S : g[U] \in Int
    BY SumType
  <1>3. ASSUME NEW U \in SUBSET S, \A x \in U : U \ {x} \in T PROVE U \in T
    <2> SUFFICES ASSUME NEW x \in U PROVE g[U] = f[x] + g[U \ {x}]
      OBVIOUS
    <2> DEFINE c == Pick(U)
    <2>1. c \in U /\ c \in S
      BY DEF Pick
    <2>2. g[U] = f[c] + g[U \ {c}]
      BY <1>1
    <2> HIDE DEF c
    <2>3. CASE x # c
      <3>1. x \in U \ {c} /\ c \in U \ {x} /\ f[x] \in Int /\ f[c] \in Int
        BY <2>1, <2>3
      <3>2. g[U \ {c}] = f[x] + g[(U \ {c}) \ {x}]
        BY <2>1, <3>1, <1>3
      <3>3. g[U \ {x}] = f[c] + g[(U \ {x}) \ {c}]
        BY <3>1, <1>3
      <3>4. (U \ {c}) \ {x} = (U \ {x}) \ {c} /\ (U \ {c}) \ {x} \in SUBSET S
        OBVIOUS
      <3> DEFINE rest == g[(U \ {c}) \ {x}]
                 withoutC == g[U \ {c}]
                 withoutX == g[U \ {x}]
      <3>5. rest \in Int
        BY <3>4, <1>2
      <3>6. withoutC = f[x] + rest /\ withoutX = f[c] + rest /\ g[U] = f[c] + withoutC
        BY <2>2, <3>2, <3>3, <3>4
      <3> HIDE DEF rest, withoutC, withoutX
      <3>7. g[U] = f[x] + withoutX
        BY <3>1, <3>5, <3>6
      <3> QED BY <3>7 DEF withoutX
    <2> QED BY <2>2, <2>3
  <1>4. \A U \in SUBSET S : U \in T
    <2> HIDE DEF T
    <2> QED BY <1>3, SubsetInduction
  <1> QED BY <1>4

\* The sum of a function over a finite set.
Total(f, S) == (CHOOSE g : IsSum(g, f, S))[S]

\* The sums of the subsets, under the definition.
LEMMA SumDef ==
    ASSUME NEW S, IsFiniteSet(S), NEW f \in [S -> Int]
    PROVE  \E g : IsSum(g, f, S) /\ Total(f, S) = g[S]
  <1>1. \E g : IsSum(g, f, S)
    BY SumExists
  <1>2. IsSum(CHOOSE g : IsSum(g, f, S), f, S)
    BY <1>1, Zenon
  <1> QED BY <1>2, Zenon DEF Total

\* Functions with the same values have the same sums.
LEMMA SumSame ==
    ASSUME NEW S, IsFiniteSet(S), NEW f \in [S -> Int], NEW e \in [S -> Int],
           NEW g, IsSum(g, f, S), NEW h, IsSum(h, e, S)
    PROVE  \A U \in SUBSET S : (\A x \in U : f[x] = e[x]) => g[U] = h[U]
  <1> DEFINE T == {U \in SUBSET S : (\A x \in U : f[x] = e[x]) => g[U] = h[U]}
  <1>1. ASSUME NEW U \in SUBSET S, \A x \in U : U \ {x} \in T PROVE U \in T
    <2> SUFFICES ASSUME \A x \in U : f[x] = e[x] PROVE g[U] = h[U]
      OBVIOUS
    <2>1. CASE U = {}
      BY <2>1, SumType
    <2>2. CASE U # {}
      <3>1. PICK x \in U : TRUE
        BY <2>2
      <3>2. g[U] = f[x] + g[U \ {x}]
        BY SumTakes
      <3>3. h[U] = e[x] + h[U \ {x}]
        BY SumTakes
      <3>4. g[U \ {x}] = h[U \ {x}] /\ f[x] = e[x]
        BY <1>1
      <3> QED BY <3>2, <3>3, <3>4, Zenon
    <2> QED BY <2>1, <2>2
  <1>2. \A U \in SUBSET S : U \in T
    <2> HIDE DEF T
    <2> QED BY <1>1, SubsetInduction
  <1> QED BY <1>2

Revalued(f, e, x, y, S) ==
    /\ IsFiniteSet(S) /\ f \in [S -> Int] /\ x \in S /\ y \in Int
    /\ e = [f EXCEPT ![x] = y]

\* A total is an integer.
LEMMA TotalType ==
    ASSUME NEW S, IsFiniteSet(S), NEW f \in [S -> Int]
    PROVE  Total(f, S) \in Int
  <1>1. PICK g : IsSum(g, f, S) /\ Total(f, S) = g[S]
    BY SumDef
  <1>2. \A U \in SUBSET S : g[U] \in Int
    BY <1>1, SumType
  <1> QED BY <1>1, <1>2

\* Changing one value changes the sum by the difference.
LEMMA TotalChange ==
    ASSUME NEW S, NEW f, NEW e, NEW x, NEW y, Revalued(f, e, x, y, S)
    PROVE  Total(e, S) = (Total(f, S) - f[x]) + y
  <1>0. IsFiniteSet(S) /\ f \in [S -> Int] /\ x \in S /\ y \in Int
    BY DEF Revalued
  <1>1. e \in [S -> Int] /\ e[x] = y /\ \A z \in S \ {x} : f[z] = e[z]
    BY DEF Revalued
  <1>2. PICK g : IsSum(g, f, S) /\ Total(f, S) = g[S]
    BY <1>0, SumDef
  <1>3. PICK h : IsSum(h, e, S) /\ Total(e, S) = h[S]
    BY <1>0, <1>1, SumDef
  <1>4. g[S] = f[x] + g[S \ {x}] /\ h[S] = e[x] + h[S \ {x}]
    BY <1>0, <1>1, <1>2, <1>3, SumTakes
  <1>5. g[S] \in Int /\ g[S \ {x}] \in Int /\ h[S \ {x}] \in Int
    BY <1>0, <1>1, <1>2, <1>3, SumType
  <1>6. g[S \ {x}] = h[S \ {x}]
    BY <1>0, <1>1, <1>2, <1>3, SumSame
  <1> QED BY <1>0, <1>1, <1>2, <1>3, <1>4, <1>5, <1>6

\* No value of non-negative ones exceeds the sum; a sum of zeros is zero.
LEMMA TotalBounds ==
    ASSUME NEW S, IsFiniteSet(S), NEW f \in [S -> Nat]
    PROVE  /\ \A x \in S : f[x] <= Total(f, S)
           /\ (\A x \in S : f[x] = 0) => Total(f, S) = 0
  <1>0. f \in [S -> Int]
    OBVIOUS
  <1>1. PICK g : IsSum(g, f, S) /\ Total(f, S) = g[S]
    BY <1>0, SumDef
  <1>2. g[{}] = 0 /\ \A U \in SUBSET S : g[U] \in Int
    BY <1>0, <1>1, SumType
  <1>3. \A U \in SUBSET S, x \in S : x \in U => g[U] = f[x] + g[U \ {x}]
    BY <1>0, <1>1, SumTakes
  <1> DEFINE T == {U \in SUBSET S : g[U] >= 0 /\ ((\A x \in U : f[x] = 0) => g[U] = 0)}
  <1>4. ASSUME NEW U \in SUBSET S, \A x \in U : U \ {x} \in T PROVE U \in T
    <2>1. CASE U = {}
      BY <2>1, <1>2
    <2>2. CASE U # {}
      <3>1. PICK x \in U : TRUE
        BY <2>2
      <3>2. g[U] = f[x] + g[U \ {x}] /\ g[U \ {x}] \in Int /\ f[x] \in Nat
        BY <1>2, <1>3
      <3>3. g[U \ {x}] >= 0 /\ ((\A z \in U : f[z] = 0) => g[U \ {x}] = 0)
        BY <1>4
      <3>4. g[U] >= 0
        BY <3>2, <3>3
      <3>5. (\A z \in U : f[z] = 0) => g[U] = 0
        BY <3>2, <3>3
      <3> QED BY <3>4, <3>5
    <2> QED BY <2>1, <2>2
  <1>5. \A U \in SUBSET S : U \in T
    <2> HIDE DEF T
    <2> QED BY <1>4, SubsetInduction
  <1>6. ASSUME NEW x \in S PROVE f[x] <= Total(f, S)
    <2>1. g[S] = f[x] + g[S \ {x}] /\ g[S \ {x}] >= 0 /\ g[S \ {x}] \in Int
      BY <1>2, <1>3, <1>5
    <2> QED BY <1>1, <2>1
  <1>7. (\A x \in S : f[x] = 0) => Total(f, S) = 0
    BY <1>1, <1>5
  <1> QED BY <1>6, <1>7

\* The sum that the supply is compared with.
LEMMA TotalIsMapThenSum ==
    ASSUME NEW S, IsFiniteSet(S), NEW accounts, NEW f \in [S -> Int],
           \A a \in S : f[a] = accounts[a].balance
    PROVE  MapThenSumSet(LAMBDA a : accounts[a].balance, S) = Total(f, S)
  <1> DEFINE P(g) == g = [s \in SUBSET S |->
                             IF s = {} THEN 0
                             ELSE accounts[Pick(s)].balance + g[s \ {Pick(s)}]]
             sum == CHOOSE g : P(g)
  <1>1. \A s \in SUBSET S : s # {} => f[Pick(s)] = accounts[Pick(s)].balance
    BY DEF Pick
  <1>2. \A g : P(g) <=> IsSum(g, f, S)
    BY <1>1 DEF IsSum
  <1>3. MapThenSumSet(LAMBDA a : accounts[a].balance, S) = sum[S]
    BY DEF MapThenSumSet, MapThenFoldSet, Pick
  <1>4. PICK g : IsSum(g, f, S) /\ Total(f, S) = g[S]
    BY SumDef
  <1>5. IsSum(sum, f, S)
    <2>1. P(g)
      BY <1>2, <1>4
    <2> HIDE DEF P
    <2>2. P(sum)
      BY <2>1, Zenon
    <2> QED BY <1>2, <2>2
  <1>6. sum[S] = g[S]
    <2> HIDE DEF sum
    <2>1. S \in SUBSET S /\ \A x \in S : f[x] = f[x]
      OBVIOUS
    <2> QED BY <1>4, <1>5, <2>1, SumSame
  <1> QED BY <1>3, <1>4, <1>6

-------------------------------------------------------------------------------
(* Executing transactions, admitting them and replaying blocks, unfolded *)

IsStates(f, n, l, txs, h) ==
    f = [i \in 0 .. n |-> IF i = 0 THEN l ELSE ApplyTransaction(f[i - 1], txs[i], h)]

\* States is the recursive function its definition describes.
LEMMA StatesDef ==
    ASSUME NEW l, NEW txs, Len(txs) \in Nat, NEW h
    PROVE  IsStates(States(l, txs, h), Len(txs), l, txs, h)
  <1> DEFINE n == Len(txs)
             T == {m \in 0 .. n : \E f : IsStates(f, m, l, txs, h)}
  <1>1. 0 \in T
    <2> DEFINE f == [i \in 0 .. 0 |-> l]
    <2>1. IsStates(f, 0, l, txs, h) /\ 0 \in 0 .. n
      BY DEF IsStates
    <2> HIDE DEF f
    <2> QED BY <2>1
  <1>2. ASSUME NEW m \in 0 .. n, m < n, m \in T PROVE m + 1 \in T
    <2>1. PICK f : IsStates(f, m, l, txs, h)
      BY <1>2
    <2> DEFINE g == [i \in 0 .. m + 1 |->
                        IF i = m + 1 THEN ApplyTransaction(f[m], txs[i], h) ELSE f[i]]
    <2>2. ASSUME NEW i \in 0 .. m + 1
          PROVE  g[i] = IF i = 0 THEN l ELSE ApplyTransaction(g[i - 1], txs[i], h)
      <3>1. CASE i = m + 1
        <4>1. i # 0 /\ i - 1 = m /\ m \in 0 .. m + 1 /\ m # m + 1
          BY <3>1
        <4> QED BY <3>1, <4>1
      <3>2. CASE i # m + 1
        <4>1. i \in 0 .. m /\ g[i] = f[i]
          BY <3>2
        <4>2. f[i] = IF i = 0 THEN l ELSE ApplyTransaction(f[i - 1], txs[i], h)
          BY <4>1, <2>1 DEF IsStates
        <4>3. i # 0 => i - 1 \in 0 .. m + 1 /\ i - 1 # m + 1
          BY <4>1
        <4> QED BY <4>1, <4>2, <4>3
      <3> QED BY <3>1, <3>2
    <2>3. IsStates(g, m + 1, l, txs, h)
      BY <2>2 DEF IsStates
    <2>4. m + 1 \in 0 .. n
      BY <1>2
    <2> HIDE DEF g
    <2> QED BY <2>3, <2>4
  <1>3. n \in T
    <2> HIDE DEF T
    <2>1. \A m \in 0 .. n : m < n /\ m \in T => m + 1 \in T
      BY <1>2
    <2>2. \A m \in 0 .. n : m \in T
      BY <1>1, <2>1, IntervalInduction
    <2> QED BY <2>2
  <1>4. \E f : IsStates(f, n, l, txs, h)
    BY <1>3
  <1>5. States(l, txs, h) = CHOOSE f : IsStates(f, n, l, txs, h)
    BY DEF States, IsStates
  <1> QED BY <1>4, <1>5, Zenon

\* The states of a list, one transaction after another.
LEMMA StatesSteps ==
    ASSUME NEW l, NEW txs, Len(txs) \in Nat, NEW h
    PROVE  /\ States(l, txs, h)[0] = l
           /\ \A i \in 1 .. Len(txs) :
                 States(l, txs, h)[i] = ApplyTransaction(States(l, txs, h)[i - 1], txs[i], h)
  <1>1. IsStates(States(l, txs, h), Len(txs), l, txs, h)
    BY StatesDef
  <1> QED BY <1>1 DEF IsStates

\* Two sequences have their first n elements in common.
Agree(s, t, n) ==
    /\ n \in Nat /\ Len(s) \in Nat /\ Len(t) \in Nat
    /\ n <= Len(s) /\ n <= Len(t)
    /\ \A i \in 1 .. n : s[i] = t[i]

\* The states of a list do not depend on what follows.
LEMMA StatesPrefix ==
    ASSUME NEW l, NEW txs, NEW uxs, NEW h, NEW n, Agree(txs, uxs, n)
    PROVE  \A i \in 0 .. n : States(l, txs, h)[i] = States(l, uxs, h)[i]
  <1> DEFINE T == {i \in 0 .. n : States(l, txs, h)[i] = States(l, uxs, h)[i]}
  <1> USE DEF Agree
  <1>1. 0 \in T
    BY StatesSteps
  <1>2. ASSUME NEW m \in 0 .. n, m < n, m \in T PROVE m + 1 \in T
    <2>1. m + 1 \in 0 .. n /\ m + 1 \in 1 .. n /\ m + 1 \in 1 .. Len(txs)
          /\ m + 1 \in 1 .. Len(uxs) /\ (m + 1) - 1 = m
      BY <1>2
    <2> DEFINE s == States(l, txs, h)
               t == States(l, uxs, h)
    <2>2. \A i \in 1 .. Len(txs) : s[i] = ApplyTransaction(s[i - 1], txs[i], h)
      BY StatesSteps
    <2>3. \A i \in 1 .. Len(uxs) : t[i] = ApplyTransaction(t[i - 1], uxs[i], h)
      BY StatesSteps
    <2>4. txs[m + 1] = uxs[m + 1] /\ s[m] = t[m]
      BY <1>2, <2>1
    <2> HIDE DEF s, t
    <2>5. s[m + 1] = t[m + 1]
      BY <2>1, <2>2, <2>3, <2>4
    <2> QED BY <2>1, <2>5 DEF s, t
  <1>3. \A i \in 0 .. n : i \in T
    <2> HIDE DEF T
    <2>1. \A m \in 0 .. n : m < n /\ m \in T => m + 1 \in T
      BY <1>2
    <2> QED BY <1>1, <2>1, IntervalInduction
  <1> QED BY <1>3

\* No transactions change nothing.
LEMMA ExecuteEmpty ==
    ASSUME NEW l, NEW h
    PROVE  Execute(l, <<>>, h) = l
  <1>1. Len(<<>>) = 0
    OBVIOUS
  <1> QED BY <1>1, StatesSteps DEF Execute

\* One more transaction is applied to what the ones before it left.
LEMMA ExecuteAppend ==
    ASSUME NEW l, NEW S, NEW txs \in Seq(S), NEW tx \in S, NEW h
    PROVE  Execute(l, Append(txs, tx), h) = ApplyTransaction(Execute(l, txs, h), tx, h)
  <1> DEFINE uxs == Append(txs, tx)
             n == Len(txs)
  <1>1. n \in Nat /\ Len(uxs) = n + 1 /\ uxs[n + 1] = tx /\ \A i \in 1 .. n : txs[i] = uxs[i]
    OBVIOUS
  <1> HIDE DEF uxs, n
  <1>2. n = Len(txs) /\ n + 1 \in 1 .. Len(uxs) /\ (n + 1) - 1 = n /\ n \in 0 .. n
        /\ n <= Len(uxs) /\ Len(uxs) \in Nat
    BY <1>1 DEF n
  <1> DEFINE s == States(l, txs, h)
             t == States(l, uxs, h)
  <1>3. \A i \in 1 .. Len(uxs) : t[i] = ApplyTransaction(t[i - 1], uxs[i], h)
    BY <1>2, StatesSteps
  <1>4. \A i \in 0 .. n : s[i] = t[i]
    <2>1. Agree(txs, uxs, n)
      BY <1>1, <1>2 DEF Agree
    <2> QED BY <2>1, StatesPrefix
  <1>5. Execute(l, uxs, h) = t[n + 1] /\ Execute(l, txs, h) = s[n]
    BY <1>1, <1>2 DEF Execute
  <1> HIDE DEF s, t
  <1>6. t[n + 1] = ApplyTransaction(s[n], tx, h)
    BY <1>1, <1>2, <1>3, <1>4
  <1> QED BY <1>5, <1>6 DEF uxs

\* If all transactions execute, each of them did.
LEMMA StatesSucceed ==
    ASSUME NEW l, NEW txs, Len(txs) \in Nat, NEW h, Execute(l, txs, h) # NoLedger
    PROVE  \A i \in 0 .. Len(txs) : States(l, txs, h)[i] # NoLedger
  <1> DEFINE n == Len(txs)
             s == States(l, txs, h)
             T == {j \in 0 .. n : s[n - j] # NoLedger}
  <1>1. 0 \in T
    BY DEF Execute
  <1>2. ASSUME NEW m \in 0 .. n, m < n, m \in T PROVE m + 1 \in T
    <2>1. n - m \in 1 .. n /\ (n - m) - 1 = n - (m + 1) /\ m + 1 \in 0 .. n
      BY <1>2

    <2>2. \A i \in 1 .. n : s[i] = ApplyTransaction(s[i - 1], txs[i], h)
      BY StatesSteps
    <2> HIDE DEF s
    <2>3. s[n - m] # NoLedger
      BY <1>2
    <2>4. s[(n - m) - 1] # NoLedger
      BY <2>1, <2>2, <2>3 DEF ApplyTransaction
    <2> QED BY <2>1, <2>4
  <1>3. \A j \in 0 .. n : j \in T
    <2> HIDE DEF T
    <2>1. \A m \in 0 .. n : m < n /\ m \in T => m + 1 \in T
      BY <1>2
    <2> QED BY <1>1, <2>1, IntervalInduction
  <1>4. ASSUME NEW i \in 0 .. n PROVE s[i] # NoLedger
    <2>1. n - i \in 0 .. n /\ n - (n - i) = i
      OBVIOUS
    <2> QED BY <1>3, <2>1
  <1> QED BY <1>4

-------------------------------------------------------------------------------
(* Admit *)

IsAdmits(f, n, l, txs, h) ==
    f = [i \in 0 .. n |-> IF i = 0 THEN [ledger |-> l, kept |-> <<>>]
                          ELSE Admitted(f[i - 1], txs[i], h)]

\* Admit is the last value of the recursive function it defines.
LEMMA AdmitDef ==
    ASSUME NEW l, NEW txs, Len(txs) \in Nat, NEW h
    PROVE  \E f : IsAdmits(f, Len(txs), l, txs, h) /\ Admit(l, txs, h) = f[Len(txs)]
  <1> DEFINE n == Len(txs)
             T == {m \in 0 .. n : \E f : IsAdmits(f, m, l, txs, h)}
             empty == [ledger |-> l, kept |-> <<>>]
  <1>1. 0 \in T
    <2> DEFINE f == [i \in 0 .. 0 |-> empty]
    <2>1. IsAdmits(f, 0, l, txs, h) /\ 0 \in 0 .. n
      BY DEF IsAdmits
    <2> HIDE DEF f
    <2> QED BY <2>1
  <1>2. ASSUME NEW m \in 0 .. n, m < n, m \in T PROVE m + 1 \in T
    <2>1. PICK f : IsAdmits(f, m, l, txs, h)
      BY <1>2
    <2> DEFINE g == [i \in 0 .. m + 1 |->
                        IF i = m + 1 THEN Admitted(f[m], txs[i], h) ELSE f[i]]
    <2>2. ASSUME NEW i \in 0 .. m + 1
          PROVE  g[i] = IF i = 0 THEN empty ELSE Admitted(g[i - 1], txs[i], h)
      <3>1. CASE i = m + 1
        <4>1. i # 0 /\ i - 1 = m /\ m \in 0 .. m + 1 /\ m # m + 1
          BY <3>1
        <4> QED BY <3>1, <4>1
      <3>2. CASE i # m + 1
        <4>1. i \in 0 .. m /\ g[i] = f[i]
          BY <3>2
        <4>2. f[i] = IF i = 0 THEN empty ELSE Admitted(f[i - 1], txs[i], h)
          BY <4>1, <2>1 DEF IsAdmits
        <4>3. i # 0 => i - 1 \in 0 .. m + 1 /\ i - 1 # m + 1
          BY <4>1
        <4> QED BY <4>1, <4>2, <4>3
      <3> QED BY <3>1, <3>2
    <2>3. IsAdmits(g, m + 1, l, txs, h)
      BY <2>2 DEF IsAdmits
    <2>4. m + 1 \in 0 .. n
      BY <1>2
    <2> HIDE DEF g
    <2> QED BY <2>3, <2>4
  <1>3. n \in T
    <2> HIDE DEF T
    <2>1. \A m \in 0 .. n : m < n /\ m \in T => m + 1 \in T
      BY <1>2
    <2>2. \A m \in 0 .. n : m \in T
      BY <1>1, <2>1, IntervalInduction
    <2> QED BY <2>2
  <1>4. \E f : IsAdmits(f, n, l, txs, h)
    BY <1>3
  <1>5. Admit(l, txs, h) = (CHOOSE f : IsAdmits(f, n, l, txs, h))[n]
    BY DEF Admit, IsAdmits
  <1>6. IsAdmits(CHOOSE f : IsAdmits(f, n, l, txs, h), n, l, txs, h)
    BY <1>4, Zenon
  <1> QED BY <1>5, <1>6, Zenon

\* The kept transactions execute one after another.
LEMMA AdmitExecutes ==
    ASSUME NEW l, l # NoLedger, NEW S, NEW txs \in Seq(S), NEW h
    PROVE  /\ Admit(l, txs, h).kept \in Seq(S)
           /\ Execute(l, Admit(l, txs, h).kept, h) # NoLedger
  <1> DEFINE n == Len(txs)
  <1>1. n \in Nat
    OBVIOUS
  <1>2. PICK f : IsAdmits(f, n, l, txs, h) /\ Admit(l, txs, h) = f[n]
    BY <1>1, AdmitDef
  <1> DEFINE Good(i) == /\ f[i].ledger # NoLedger /\ f[i].kept \in Seq(S)
                        /\ Execute(l, f[i].kept, h) = f[i].ledger
             T == {i \in 0 .. n : Good(i)}
  <1>3. 0 \in T
    <2>1. f[0] = [ledger |-> l, kept |-> <<>>]
      BY <1>1, <1>2 DEF IsAdmits
    <2>2. f[0].ledger = l /\ f[0].kept = <<>> /\ <<>> \in Seq(S)
      BY <2>1
    <2>3. Execute(l, <<>>, h) = l
      BY ExecuteEmpty
    <2>4. Good(0)
      BY <2>2, <2>3, Zenon
    <2> HIDE DEF Good
    <2> QED BY <1>1, <2>4
  <1>4. ASSUME NEW m \in 0 .. n, m < n, m \in T PROVE m + 1 \in T
    <2>1. m + 1 \in 0 .. n /\ m + 1 # 0 /\ (m + 1) - 1 = m /\ txs[m + 1] \in S
      BY <1>4
    <2>2. f[m + 1] = Admitted(f[m], txs[m + 1], h)
      BY <1>2, <2>1 DEF IsAdmits
    <2> DEFINE next == ApplyTransaction(f[m].ledger, txs[m + 1], h)
    <2>3. CASE next = NoLedger
      <3>1. f[m + 1] = f[m]
        BY <2>2, <2>3 DEF Admitted
      <3> QED BY <1>4, <2>1, <3>1
    <2>4. CASE next # NoLedger
      <3>1. f[m + 1].ledger = next /\ f[m + 1].kept = Append(f[m].kept, txs[m + 1])
        BY <2>2, <2>4 DEF Admitted
      <3>2. f[m].kept \in Seq(S) /\ Execute(l, f[m].kept, h) = f[m].ledger
        BY <1>4
      <3>3. Execute(l, Append(f[m].kept, txs[m + 1]), h) = next
        BY <2>1, <3>2, ExecuteAppend
      <3>4. Append(f[m].kept, txs[m + 1]) \in Seq(S)
        BY <2>1, <3>2
      <3> QED BY <2>1, <2>4, <3>1, <3>3, <3>4
    <2> QED BY <2>3, <2>4
  <1>5. n \in T
    <2> HIDE DEF T
    <2>1. \A m \in 0 .. n : m < n /\ m \in T => m + 1 \in T
      BY <1>4
    <2>2. \A m \in 0 .. n : m \in T
      BY <1>1, <1>3, <2>1, IntervalInduction
    <2> QED BY <1>1, <2>2
  <1> QED BY <1>2, <1>5

-------------------------------------------------------------------------------
(* Replay and Emission *)

IsReplays(f, n, blocks) ==
    f = [k \in 0 .. n |-> IF k = 0 THEN Genesis ELSE ApplyBlock(f[k - 1], blocks[k])]

\* Replays is the recursive function its definition describes.
LEMMA ReplaysDef ==
    ASSUME NEW blocks, Len(blocks) \in Nat
    PROVE  IsReplays(Replays(blocks), Len(blocks), blocks)
  <1> DEFINE n == Len(blocks)
             T == {m \in 0 .. n : \E f : IsReplays(f, m, blocks)}
  <1>1. 0 \in T
    <2> DEFINE f == [i \in 0 .. 0 |-> Genesis]
    <2>1. IsReplays(f, 0, blocks) /\ 0 \in 0 .. n
      BY DEF IsReplays
    <2> HIDE DEF f
    <2> QED BY <2>1
  <1>2. ASSUME NEW m \in 0 .. n, m < n, m \in T PROVE m + 1 \in T
    <2>1. PICK f : IsReplays(f, m, blocks)
      BY <1>2
    <2> DEFINE g == [i \in 0 .. m + 1 |->
                        IF i = m + 1 THEN ApplyBlock(f[m], blocks[i]) ELSE f[i]]
    <2>2. ASSUME NEW i \in 0 .. m + 1
          PROVE  g[i] = IF i = 0 THEN Genesis ELSE ApplyBlock(g[i - 1], blocks[i])
      <3>1. CASE i = m + 1
        <4>1. i # 0 /\ i - 1 = m /\ m \in 0 .. m + 1 /\ m # m + 1
          BY <3>1
        <4> QED BY <3>1, <4>1
      <3>2. CASE i # m + 1
        <4>1. i \in 0 .. m /\ g[i] = f[i]
          BY <3>2
        <4>2. f[i] = IF i = 0 THEN Genesis ELSE ApplyBlock(f[i - 1], blocks[i])
          BY <4>1, <2>1 DEF IsReplays
        <4>3. i # 0 => i - 1 \in 0 .. m + 1 /\ i - 1 # m + 1
          BY <4>1
        <4> QED BY <4>1, <4>2, <4>3
      <3> QED BY <3>1, <3>2
    <2>3. IsReplays(g, m + 1, blocks)
      BY <2>2 DEF IsReplays
    <2>4. m + 1 \in 0 .. n
      BY <1>2
    <2> HIDE DEF g
    <2> QED BY <2>3, <2>4
  <1>3. n \in T
    <2> HIDE DEF T
    <2>1. \A m \in 0 .. n : m < n /\ m \in T => m + 1 \in T
      BY <1>2
    <2>2. \A m \in 0 .. n : m \in T
      BY <1>1, <2>1, IntervalInduction
    <2> QED BY <2>2
  <1>4. \E f : IsReplays(f, n, blocks)
    BY <1>3
  <1>5. Replays(blocks) = CHOOSE f : IsReplays(f, n, blocks)
    BY DEF Replays, IsReplays
  <1> QED BY <1>4, <1>5, Zenon

\* The states of a replay, one block after another.
LEMMA ReplaysSteps ==
    ASSUME NEW blocks, Len(blocks) \in Nat
    PROVE  /\ Replays(blocks)[0] = Genesis
           /\ \A k \in 1 .. Len(blocks) :
                 Replays(blocks)[k] = ApplyBlock(Replays(blocks)[k - 1], blocks[k])
  <1>1. IsReplays(Replays(blocks), Len(blocks), blocks)
    BY ReplaysDef
  <1> QED BY <1>1 DEF IsReplays

\* Chains that agree up to n are replayed alike up to n.
LEMMA ReplaysPrefix ==
    ASSUME NEW blocks, NEW others, NEW n, Agree(blocks, others, n)
    PROVE  \A k \in 0 .. n : Replays(blocks)[k] = Replays(others)[k]
  <1> DEFINE s == Replays(blocks)
             t == Replays(others)
             T == {k \in 0 .. n : s[k] = t[k]}
  <1>1. s[0] = t[0]
    BY ReplaysSteps DEF Agree
  <1>2. \A k \in 1 .. Len(blocks) : s[k] = ApplyBlock(s[k - 1], blocks[k])
    BY ReplaysSteps DEF Agree
  <1>3. \A k \in 1 .. Len(others) : t[k] = ApplyBlock(t[k - 1], others[k])
    BY ReplaysSteps DEF Agree
  <1>4. n \in Nat /\ 0 \in T
    BY <1>1 DEF Agree
  <1>5. ASSUME NEW m \in 0 .. n, m < n, m \in T PROVE m + 1 \in T
    <2>1. m + 1 \in 0 .. n /\ m + 1 \in 1 .. Len(blocks) /\ m + 1 \in 1 .. Len(others)
          /\ (m + 1) - 1 = m /\ blocks[m + 1] = others[m + 1]
      BY <1>5 DEF Agree
    <2> HIDE DEF s, t
    <2>2. s[m + 1] = t[m + 1]
      BY <1>2, <1>3, <1>5, <2>1
    <2> QED BY <2>1, <2>2
  <1>6. \A k \in 0 .. n : k \in T
    <2> HIDE DEF T
    <2>1. \A m \in 0 .. n : m < n /\ m \in T => m + 1 \in T
      BY <1>5
    <2> QED BY <1>4, <2>1, IntervalInduction
  <1> QED BY <1>6

\* One more block is applied to what the ones before it left.
LEMMA ReplayAppend ==
    ASSUME NEW S, NEW blocks \in Seq(S), NEW b \in S
    PROVE  Replay(Append(blocks, b)) = ApplyBlock(Replay(blocks), b)
  <1> DEFINE others == Append(blocks, b)
             n == Len(blocks)
  <1>1. n \in Nat /\ Len(others) = n + 1 /\ others[n + 1] = b
        /\ \A i \in 1 .. n : blocks[i] = others[i]
    OBVIOUS
  <1> HIDE DEF others, n
  <1>2. n = Len(blocks) /\ n + 1 \in 1 .. Len(others) /\ (n + 1) - 1 = n /\ n \in 0 .. n
        /\ n <= Len(others) /\ Len(others) \in Nat
    BY <1>1 DEF n
  <1> DEFINE s == Replays(blocks)
             t == Replays(others)
  <1>3. \A i \in 1 .. Len(others) : t[i] = ApplyBlock(t[i - 1], others[i])
    BY <1>2, ReplaysSteps
  <1>4. \A i \in 0 .. n : s[i] = t[i]
    <2>1. Agree(blocks, others, n)
      BY <1>1, <1>2 DEF Agree
    <2> QED BY <2>1, ReplaysPrefix
  <1>5. Replay(others) = t[n + 1] /\ Replay(blocks) = s[n]
    BY <1>1, <1>2 DEF Replay
  <1> HIDE DEF s, t
  <1>6. t[n + 1] = ApplyBlock(s[n], b)
    BY <1>1, <1>2, <1>3, <1>4
  <1> QED BY <1>5, <1>6 DEF others

IsEmission(f, S) ==
    f = [k \in S |-> IF k = 0 THEN 0 ELSE f[k - 1] + RewardForSupply(f[k - 1])]

\* The emission exists up to every height.
LEMMA EmissionPrefix ==
    ASSUME NEW n \in Nat
    PROVE  \E f : IsEmission(f, 0 .. n)
  <1> DEFINE T == {m \in 0 .. n : \E f : IsEmission(f, 0 .. m)}
  <1>1. 0 \in T
    <2> DEFINE f == [i \in 0 .. 0 |-> 0]
    <2>1. IsEmission(f, 0 .. 0) /\ 0 \in 0 .. n
      BY DEF IsEmission
    <2> HIDE DEF f
    <2> QED BY <2>1
  <1>2. ASSUME NEW m \in 0 .. n, m < n, m \in T PROVE m + 1 \in T
    <2>1. PICK f : IsEmission(f, 0 .. m)
      BY <1>2
    <2> DEFINE g == [i \in 0 .. m + 1 |->
                        IF i = m + 1 THEN f[m] + RewardForSupply(f[m]) ELSE f[i]]
    <2>2. ASSUME NEW i \in 0 .. m + 1
          PROVE  g[i] = IF i = 0 THEN 0 ELSE g[i - 1] + RewardForSupply(g[i - 1])
      <3>1. CASE i = m + 1
        <4>1. i # 0 /\ i - 1 = m /\ m \in 0 .. m + 1 /\ m # m + 1
          BY <3>1
        <4> QED BY <3>1, <4>1
      <3>2. CASE i # m + 1
        <4>1. i \in 0 .. m /\ g[i] = f[i]
          BY <3>2
        <4>2. f[i] = IF i = 0 THEN 0 ELSE f[i - 1] + RewardForSupply(f[i - 1])
          BY <4>1, <2>1 DEF IsEmission
        <4>3. i # 0 => i - 1 \in 0 .. m + 1 /\ i - 1 # m + 1
          BY <4>1
        <4> QED BY <4>1, <4>2, <4>3
      <3> QED BY <3>1, <3>2
    <2>3. IsEmission(g, 0 .. m + 1)
      BY <2>2 DEF IsEmission
    <2>4. m + 1 \in 0 .. n
      BY <1>2
    <2> HIDE DEF g
    <2> QED BY <2>3, <2>4
  <1>3. n \in T
    <2> HIDE DEF T
    <2>1. \A m \in 0 .. n : m < n /\ m \in T => m + 1 \in T
      BY <1>2
    <2>2. \A m \in 0 .. n : m \in T
      BY <1>1, <2>1, IntervalInduction
    <2> QED BY <2>2
  <1> QED BY <1>3

\* Emissions agree where both are defined.
LEMMA EmissionUnique ==
    ASSUME NEW n \in Nat, NEW m \in Nat, n <= m, NEW f, IsEmission(f, 0 .. n),
           NEW g, IsEmission(g, 0 .. m)
    PROVE  f[n] = g[n]
  <1> DEFINE T == {i \in 0 .. n : f[i] = g[i]}
  <1>1. 0 \in T
    BY DEF IsEmission
  <1>2. ASSUME NEW i \in 0 .. n, i < n, i \in T PROVE i + 1 \in T
    <2>1. i + 1 \in 0 .. n /\ i + 1 \in 0 .. m /\ i + 1 # 0 /\ (i + 1) - 1 = i
      BY <1>2
    <2>2. f[i + 1] = f[i] + RewardForSupply(f[i])
      BY <2>1 DEF IsEmission
    <2>3. g[i + 1] = g[i] + RewardForSupply(g[i])
      BY <2>1 DEF IsEmission
    <2> QED BY <1>2, <2>1, <2>2, <2>3
  <1>3. \A i \in 0 .. n : i \in T
    <2> HIDE DEF T
    <2>1. \A i \in 0 .. n : i < n /\ i \in T => i + 1 \in T
      BY <1>2
    <2> QED BY <1>1, <2>1, IntervalInduction
  <1> QED BY <1>3

\* The emission starts at zero and every claim adds the reward.
LEMMA EmissionDef ==
    /\ Emission[0] = 0
    /\ \A k \in Nat : Emission[k + 1] = Emission[k] + RewardForSupply(Emission[k])
  <1> DEFINE e(k) == CHOOSE f : IsEmission(f, 0 .. k)
             g == [k \in Nat |-> e(k)[k]]
  <1>1. \A k \in Nat : IsEmission(e(k), 0 .. k)
    BY EmissionPrefix, Zenon
  <1> HIDE DEF e
  <1>2. ASSUME NEW k \in Nat PROVE g[k] = IF k = 0 THEN 0 ELSE g[k - 1] + RewardForSupply(g[k - 1])
    <2>1. e(k)[k] = IF k = 0 THEN 0 ELSE e(k)[k - 1] + RewardForSupply(e(k)[k - 1])
      <3>1. k \in 0 .. k /\ IsEmission(e(k), 0 .. k)
        BY <1>1
      <3> QED BY <3>1 DEF IsEmission
    <2>2. CASE k = 0
      BY <2>1, <2>2
    <2>3. CASE k # 0
      <3>1. k - 1 \in Nat /\ k - 1 <= k
        BY <2>3
      <3>2. IsEmission(e(k - 1), 0 .. k - 1) /\ IsEmission(e(k), 0 .. k)
        BY <1>1, <3>1
      <3>3. e(k - 1)[k - 1] = e(k)[k - 1]
        BY <3>1, <3>2, EmissionUnique
      <3> QED BY <2>1, <2>3, <3>1, <3>3
    <2> QED BY <2>2, <2>3
  <1>3. IsEmission(g, Nat)
    BY <1>2 DEF IsEmission
  <1>4. Emission = CHOOSE f : IsEmission(f, Nat)
    BY DEF Emission, IsEmission
  <1>5. IsEmission(Emission, Nat)
    <2> HIDE DEF g
    <2> QED BY <1>3, <1>4, Zenon
  <1>6. \A k \in Nat : k + 1 \in Nat /\ k + 1 # 0 /\ (k + 1) - 1 = k
    OBVIOUS
  <1> QED BY <1>5, <1>6 DEF IsEmission

-------------------------------------------------------------------------------
(* One transaction *)

AccountNames == {None} \cup {tx.name : tx \in Transactions}

Accounts == [balance : Nat, nonce : Nat, name : AccountNames]

\* A ledger within its bounds.
IsLedger(l) ==
    l \in [height : Nat, tip : {l.tip}, time : 0 .. MaxTime, supply : 0 .. MaxSupply,
           challenge : Nat, accounts : [Addresses -> Accounts],
           applied : SUBSET Transactions]

\* A ledger is not the failure.
LEMMA IsLedgerNotNone ==
    ASSUME NEW l, IsLedger(l)
    PROVE  l # NoLedger
  BY DEF IsLedger, NoLedger

\* A reward is positive and stays within the maximum supply.
LEMMA RewardBounds ==
    ASSUME NEW supply \in 0 .. MaxSupply, supply < MaxSupply
    PROVE  RewardForSupply(supply) \in Nat /\ RewardForSupply(supply) <= MaxSupply - supply
  <1>1. MaxSupply \in Nat /\ RewardBand \in Nat \ {0}
        /\ Rewards \in Seq(Nat \ {0}) /\ Len(Rewards) \in Nat /\ Len(Rewards) > 0
    BY LedgerAssumption
  <1> DEFINE band == supply \div RewardBand
             k == IF band < Len(Rewards) THEN band + 1 ELSE Len(Rewards)
  <1>2. band \in Nat
    BY <1>1
  <1> HIDE DEF band
  <1>3. k \in 1 .. Len(Rewards)
    BY <1>1, <1>2
  <1> HIDE DEF k
  <1>4. Rewards[k] \in Nat
    BY <1>1, <1>3
  <1>5. RewardForSupply(supply) =
            IF Rewards[k] < MaxSupply - supply THEN Rewards[k] ELSE MaxSupply - supply
    BY DEF RewardForSupply, k, band
  <1> QED BY <1>1, <1>4, <1>5

Balances(l) == [a \in Addresses |-> l.accounts[a].balance]

\* What a transaction that is valid on l makes of it: a ledger m within its
\* bounds, with the sender's nonce raised, and the challenge, the supply and the
\* balances changed by the reward of a claim, or not at all.
Effect(l, tx, m) ==
    /\ IsLedger(m)
    /\ m.height = l.height /\ m.tip = l.tip /\ m.time = l.time
    /\ m.applied = l.applied \cup {tx}
    /\ tx.nonce = l.accounts[tx.sender].nonce
    /\ m.accounts[tx.sender].nonce = tx.nonce + 1
    /\ \A a \in Addresses : a # tx.sender => m.accounts[a].nonce = l.accounts[a].nonce
    /\ IF tx.action = "claim"
       THEN /\ tx.challenge = l.challenge /\ m.challenge = l.challenge + 1
            /\ m.supply = l.supply + RewardForSupply(l.supply)
       ELSE m.challenge = l.challenge /\ m.supply = l.supply
    /\ Total(Balances(m), Addresses) - m.supply = Total(Balances(l), Addresses) - l.supply

\* The action itself leaves the nonces alone.
ActedWell(l, tx, t) ==
    /\ IsLedger(t)
    /\ t.height = l.height /\ t.tip = l.tip /\ t.time = l.time /\ t.applied = l.applied
    /\ \A a \in Addresses : t.accounts[a].nonce = l.accounts[a].nonce
    /\ IF tx.action = "claim"
       THEN /\ tx.challenge = l.challenge /\ t.challenge = l.challenge + 1
            /\ t.supply = l.supply + RewardForSupply(l.supply)
       ELSE t.challenge = l.challenge /\ t.supply = l.supply
    /\ Total(Balances(t), Addresses) - t.supply = Total(Balances(l), Addresses) - l.supply

\* The balances of a ledger are numbers.
LEMMA BalancesType ==
    ASSUME NEW l, IsLedger(l)
    PROVE  /\ Balances(l) \in [Addresses -> Nat] /\ Balances(l) \in [Addresses -> Int]
           /\ l.supply \in Int /\ IsFiniteSet(Addresses)
           /\ Total(Balances(l), Addresses) \in Int
  <1>1. Balances(l) \in [Addresses -> Nat] /\ Balances(l) \in [Addresses -> Int] /\ l.supply \in Int
    BY DEF Balances, IsLedger, Accounts
  <1>2. IsFiniteSet(Addresses)
    BY LedgerAssumption
  <1>3. Total(Balances(l), Addresses) \in Int
    BY <1>1, <1>2, TotalType
  <1> QED BY <1>1, <1>2, <1>3

\* A valid transfer moves what it says.
LEMMA TransferActs ==
    ASSUME NEW l, IsLedger(l), NEW tx \in Transactions, tx.action = "transfer",
           NEW h, ValidateTransaction(l, tx, h)
    PROVE  ActedWell(l, tx, Acted(l, tx))
  <1> DEFINE s == tx.sender
             r == tx.recipient
             t == Transfer(l, tx)
  <1>1. s \in Addresses /\ r \in Addresses /\ tx.amount \in Nat
    BY NodeAssumption
  <1>2. tx.amount <= l.accounts[s].balance
    BY DEF ValidateTransaction, ActionIsValid, Account
  <1>3. Acted(l, tx) = t
    BY DEF Acted
  <1>4. CASE r # s
    <2> DEFINE given == l.accounts[r].balance + tx.amount
               left == l.accounts[s].balance - tx.amount
               R == [l.accounts[r] EXCEPT !.balance = given]
               L == [l.accounts[s] EXCEPT !.balance = left]
    <2>1. t = [l EXCEPT !.accounts = [l.accounts EXCEPT ![r] = R, ![s] = L]]
      BY <1>1, <1>4 DEF Transfer, IsLedger, Accounts
    <2>2. l.accounts[r] \in Accounts /\ l.accounts[s] \in Accounts
      BY <1>1 DEF IsLedger
    <2>3. given \in Nat /\ left \in Nat /\ l.accounts[r].balance \in Nat /\ l.accounts[s].balance \in Nat
      BY <1>1, <1>2, <2>2 DEF Accounts
    <2>4. R \in Accounts /\ L \in Accounts /\ R.balance = given /\ L.balance = left
          /\ R.nonce = l.accounts[r].nonce /\ L.nonce = l.accounts[s].nonce
      BY <2>2, <2>3 DEF Accounts
    <2> HIDE DEF R, L, t
    <2>5. /\ IsLedger(t)
          /\ t.height = l.height /\ t.tip = l.tip /\ t.time = l.time /\ t.applied = l.applied
          /\ t.challenge = l.challenge /\ t.supply = l.supply
          /\ t.accounts = [l.accounts EXCEPT ![r] = R, ![s] = L]
      BY <1>1, <2>1, <2>4 DEF IsLedger
    <2>6. \A a \in Addresses : t.accounts[a] = IF a = s THEN L ELSE IF a = r THEN R ELSE l.accounts[a]
      BY <1>1, <2>5 DEF IsLedger
    <2>7. \A a \in Addresses : t.accounts[a].nonce = l.accounts[a].nonce
      BY <2>4, <2>6
    <2> DEFINE f == Balances(l)
               g == [f EXCEPT ![r] = given]
    <2>8. Balances(t) = [g EXCEPT ![s] = left]
      BY <1>1, <2>4, <2>6 DEF Balances
    <2>9. f \in [Addresses -> Int] /\ g \in [Addresses -> Int] /\ f[r] = l.accounts[r].balance
          /\ g[s] = l.accounts[s].balance /\ given \in Int /\ left \in Int /\ IsFiniteSet(Addresses)
      <3>1. f \in [Addresses -> Int] /\ IsFiniteSet(Addresses)
        BY BalancesType
      <3> QED BY <1>1, <1>4, <2>3, <3>1 DEF Balances
    <2> HIDE DEF f, g, given, left
    <2>10. Revalued(f, g, r, given, Addresses) /\ Revalued(g, Balances(t), s, left, Addresses)
      BY <1>1, <2>8, <2>9 DEF g, Revalued
    <2>11. /\ Total(g, Addresses) = (Total(f, Addresses) - f[r]) + given
           /\ Total(Balances(t), Addresses) = (Total(g, Addresses) - g[s]) + left
           /\ Total(f, Addresses) \in Int
      BY <2>9, <2>10, TotalChange, TotalType
    <2>12. Total(Balances(t), Addresses) = Total(f, Addresses)
      BY <1>1, <2>3, <2>9, <2>11 DEF given, left
    <2> QED BY <1>3, <2>5, <2>7, <2>12 DEF ActedWell, f
  <1>5. CASE r = s
    <2>1. Acted(l, tx) = l
      BY <1>3, <1>5 DEF Transfer
    <2> QED BY <2>1 DEF ActedWell
  <1> QED BY <1>4, <1>5

\* A valid claim pays its reward and opens the next challenge.
LEMMA ClaimActs ==
    ASSUME NEW l, IsLedger(l), NEW tx \in Transactions, tx.action = "claim",
           NEW h, ValidateTransaction(l, tx, h)
    PROVE  ActedWell(l, tx, Acted(l, tx))
  <1> DEFINE s == tx.sender
             t == Claim(l, tx)
             reward == RewardForSupply(l.supply)
             given == l.accounts[s].balance + reward
             R == [l.accounts[s] EXCEPT !.balance = given]
  <1>1. s \in Addresses
    BY NodeAssumption
  <1>2. tx.challenge = l.challenge /\ l.supply < MaxSupply
    BY DEF ValidateTransaction, ActionIsValid
  <1>3. Acted(l, tx) = t
    BY DEF Acted
  <1>4. l.supply \in 0 .. MaxSupply /\ l.challenge \in Nat /\ l.accounts[s] \in Accounts
    BY <1>1 DEF IsLedger
  <1>5. reward \in Nat /\ reward <= MaxSupply - l.supply
    BY <1>2, <1>4, RewardBounds
  <1>6. t = [l EXCEPT !.accounts = [l.accounts EXCEPT ![s] = R],
                      !.supply = l.supply + reward, !.challenge = l.challenge + 1]
    BY <1>1 DEF Claim, IsLedger, Accounts
  <1> HIDE DEF reward
  <1>7. given \in Nat /\ l.accounts[s].balance \in Nat
    BY <1>4, <1>5 DEF Accounts
  <1>8. R \in Accounts /\ R.balance = given /\ R.nonce = l.accounts[s].nonce
    BY <1>4, <1>7 DEF Accounts
  <1>9. l.supply + reward \in 0 .. MaxSupply /\ l.challenge + 1 \in Nat
    BY <1>4, <1>5, LedgerAssumption
  <1> HIDE DEF R, t, given
  <1>10. /\ IsLedger(t)
         /\ t.height = l.height /\ t.tip = l.tip /\ t.time = l.time /\ t.applied = l.applied
         /\ t.challenge = l.challenge + 1 /\ t.supply = l.supply + reward
         /\ t.accounts = [l.accounts EXCEPT ![s] = R]
    BY <1>1, <1>6, <1>8, <1>9 DEF IsLedger
  <1>11. \A a \in Addresses : t.accounts[a] = IF a = s THEN R ELSE l.accounts[a]
    BY <1>1, <1>10 DEF IsLedger
  <1>12. \A a \in Addresses : t.accounts[a].nonce = l.accounts[a].nonce
    BY <1>8, <1>11
  <1> DEFINE f == Balances(l)
  <1>13. Balances(t) = [f EXCEPT ![s] = given]
    BY <1>1, <1>8, <1>11 DEF Balances
  <1>14. f \in [Addresses -> Int] /\ f[s] = l.accounts[s].balance /\ IsFiniteSet(Addresses)
         /\ Total(f, Addresses) \in Int
    <2>1. f \in [Addresses -> Int] /\ IsFiniteSet(Addresses) /\ Total(f, Addresses) \in Int
      BY BalancesType
    <2> QED BY <1>1, <2>1 DEF Balances
  <1> HIDE DEF f
  <1>15. Revalued(f, Balances(t), s, given, Addresses)
    BY <1>1, <1>7, <1>13, <1>14 DEF Revalued
  <1>16. Total(Balances(t), Addresses) = (Total(f, Addresses) - f[s]) + given
    BY <1>15, TotalChange
  <1>17. Total(Balances(t), Addresses) - t.supply = Total(f, Addresses) - l.supply
    BY <1>4, <1>5, <1>7, <1>10, <1>14, <1>16 DEF given
  <1> QED BY <1>2, <1>3, <1>10, <1>12, <1>17 DEF ActedWell, f, reward

\* A name claim changes the name of the sender and nothing else.
LEMMA NameActs ==
    ASSUME NEW l, IsLedger(l), NEW tx \in Transactions, tx.action = "name"
    PROVE  ActedWell(l, tx, Acted(l, tx))
  <1> DEFINE s == tx.sender
             t == Acted(l, tx)
             R == [l.accounts[s] EXCEPT !.name = tx.name]
  <1>1. s \in Addresses /\ tx.name \in AccountNames
    BY NodeAssumption DEF AccountNames
  <1>2. t = [l EXCEPT !.accounts = [l.accounts EXCEPT ![s] = R]]
    BY DEF Acted
  <1>3. R \in Accounts /\ R.balance = l.accounts[s].balance /\ R.nonce = l.accounts[s].nonce
    BY <1>1 DEF IsLedger, Accounts
  <1> HIDE DEF R, t
  <1>4. /\ IsLedger(t)
        /\ t.height = l.height /\ t.tip = l.tip /\ t.time = l.time /\ t.applied = l.applied
        /\ t.challenge = l.challenge /\ t.supply = l.supply
        /\ t.accounts = [l.accounts EXCEPT ![s] = R]
    BY <1>1, <1>2, <1>3 DEF IsLedger
  <1>5. \A a \in Addresses : /\ t.accounts[a].balance = l.accounts[a].balance
                             /\ t.accounts[a].nonce = l.accounts[a].nonce
    BY <1>1, <1>3, <1>4 DEF IsLedger
  <1>6. Balances(t) = Balances(l)
    BY <1>5 DEF Balances
  <1> QED BY <1>4, <1>5, <1>6 DEF ActedWell, t

\* What a valid transaction does to the ledger.
LEMMA ApplyValidEffect ==
    ASSUME NEW l, IsLedger(l), NEW tx \in Transactions, NEW h, ValidateTransaction(l, tx, h)
    PROVE  Effect(l, tx, ApplyValid(l, tx))
  <1> DEFINE s == tx.sender
             t == Acted(l, tx)
             m == ApplyValid(l, tx)
             R == [t.accounts[s] EXCEPT !.nonce = t.accounts[s].nonce + 1]
  <1>1. s \in Addresses /\ tx.nonce \in Nat /\ tx.action \in {"transfer", "claim", "name"}
    BY NodeAssumption
  <1>2. tx.nonce = l.accounts[s].nonce
    BY DEF ValidateTransaction, Account
  <1>3. ActedWell(l, tx, t)
    BY <1>1, TransferActs, ClaimActs, NameActs
  <1>4. m = [t EXCEPT !.accounts = [t.accounts EXCEPT ![s] = R], !.applied = t.applied \cup {tx}]
    BY DEF ApplyValid
  <1> HIDE DEF t
  <1>5. IsLedger(t) /\ t.accounts[s].nonce = l.accounts[s].nonce
    BY <1>1, <1>3 DEF ActedWell
  <1>6. R \in Accounts /\ R.balance = t.accounts[s].balance /\ R.nonce = tx.nonce + 1
    BY <1>1, <1>2, <1>5 DEF IsLedger, Accounts
  <1> HIDE DEF R, m
  <1>7. /\ IsLedger(m)
        /\ m.height = t.height /\ m.tip = t.tip /\ m.time = t.time
        /\ m.applied = t.applied \cup {tx}
        /\ m.challenge = t.challenge /\ m.supply = t.supply
        /\ m.accounts = [t.accounts EXCEPT ![s] = R]
    BY <1>1, <1>4, <1>5, <1>6 DEF IsLedger
  <1>8. /\ \A a \in Addresses : m.accounts[a].balance = t.accounts[a].balance
        /\ \A a \in Addresses : a # s => m.accounts[a].nonce = t.accounts[a].nonce
        /\ m.accounts[s].nonce = tx.nonce + 1
    BY <1>1, <1>5, <1>6, <1>7 DEF IsLedger
  <1>9. Balances(m) = Balances(t)
    BY <1>8 DEF Balances
  <1>10. \A a \in Addresses : a # s => m.accounts[a].nonce = l.accounts[a].nonce
    BY <1>3, <1>8 DEF ActedWell
  <1> QED BY <1>2, <1>3, <1>7, <1>8, <1>9, <1>10 DEF ActedWell, Effect, m

\* A transaction applies with its effect, or the whole list fails.
LEMMA ApplyEffect ==
    ASSUME NEW l, IsLedger(l), NEW tx \in Transactions, NEW h,
           ApplyTransaction(l, tx, h) # NoLedger
    PROVE  Effect(l, tx, ApplyTransaction(l, tx, h))
  BY ApplyValidEffect DEF ApplyTransaction

-------------------------------------------------------------------------------
(* A list of transactions *)

\* The list executes on l, and each transaction has its effect.
LEMMA ListEffects ==
    ASSUME NEW l, IsLedger(l), NEW txs \in Seq(Transactions), NEW h,
           Execute(l, txs, h) # NoLedger
    PROVE  /\ IsLedger(Execute(l, txs, h))
           /\ \A i \in 0 .. Len(txs) : IsLedger(States(l, txs, h)[i])
           /\ \A i \in 1 .. Len(txs) :
                 Effect(States(l, txs, h)[i - 1], txs[i], States(l, txs, h)[i])
  <1> DEFINE n == Len(txs)
             s == States(l, txs, h)
             T == {i \in 0 .. n : IsLedger(s[i])}
  <1>1. n \in Nat /\ \A i \in 1 .. n : txs[i] \in Transactions
    OBVIOUS
  <1>2. /\ s[0] = l
        /\ \A i \in 1 .. n : s[i] = ApplyTransaction(s[i - 1], txs[i], h)
        /\ \A i \in 0 .. n : s[i] # NoLedger
    BY <1>1, StatesSteps, StatesSucceed
  <1>3. Execute(l, txs, h) = s[n]
    BY DEF Execute
  <1> HIDE DEF s, n
  <1>4. 0 \in T
    BY <1>1, <1>2
  <1>5. ASSUME NEW m \in 0 .. n, m < n, m \in T PROVE m + 1 \in T
    <2>1. m + 1 \in 0 .. n /\ m + 1 \in 1 .. n /\ (m + 1) - 1 = m
      BY <1>1, <1>5
    <2>2. /\ s[m + 1] = ApplyTransaction(s[m], txs[m + 1], h) /\ s[m + 1] # NoLedger
          /\ txs[m + 1] \in Transactions /\ IsLedger(s[m])
      BY <1>1, <1>2, <1>5, <2>1
    <2>3. Effect(s[m], txs[m + 1], s[m + 1])
      BY <2>2, ApplyEffect
    <2> QED BY <2>1, <2>3 DEF Effect
  <1>6. \A i \in 0 .. n : IsLedger(s[i])
    <2> HIDE DEF T
    <2>1. \A m \in 0 .. n : m < n /\ m \in T => m + 1 \in T
      BY <1>5
    <2>2. \A m \in 0 .. n : m \in T
      BY <1>1, <1>4, <2>1, IntervalInduction
    <2> QED BY <2>2 DEF T
  <1>7. ASSUME NEW i \in 1 .. n PROVE Effect(s[i - 1], txs[i], s[i])
    <2>1. i - 1 \in 0 .. n /\ i \in 0 .. n
      BY <1>1
    <2>2. IsLedger(s[i - 1]) /\ txs[i] \in Transactions /\ s[i] # NoLedger
          /\ s[i] = ApplyTransaction(s[i - 1], txs[i], h)
      BY <1>1, <1>2, <1>6, <2>1
    <2> QED BY <2>2, ApplyEffect
  <1>8. IsLedger(s[n])
    BY <1>1, <1>6
  <1> QED BY <1>3, <1>6, <1>7, <1>8 DEF s, n

\* A counter along 0 .. n that the places in K read and then raise by one.
IsCounter(c, n, K, v) ==
    /\ n \in Nat /\ c \in [0 .. n -> Nat] /\ K \subseteq 1 .. n
    /\ \A i \in 1 .. n : IF i \in K THEN v[i] = c[i - 1] /\ c[i] = c[i - 1] + 1
                                    ELSE c[i] = c[i - 1]

\* The places read every value from where the counter starts to where it ends,
\* each once and in order.
LEMMA CounterReads ==
    ASSUME NEW c, NEW n, NEW K, NEW v, IsCounter(c, n, K, v)
    PROVE  /\ c[0] \in Nat /\ c[n] \in Nat /\ c[0] <= c[n]
           /\ {v[i] : i \in K} = c[0] .. c[n] - 1
           /\ \A i, j \in K : i < j => v[i] < v[j]
  <1> DEFINE Low(m) == {i \in K : i <= m}
             Good(m) == /\ c[0] <= c[m]
                        /\ \A i \in Low(m) : v[i] \in c[0] .. c[m] - 1
                        /\ \A x \in c[0] .. c[m] - 1 : \E i \in Low(m) : v[i] = x
                        /\ \A i, j \in Low(m) : i < j => v[i] < v[j]
             T == {m \in 0 .. n : Good(m)}
  <1>1. n \in Nat /\ c \in [0 .. n -> Nat] /\ K \subseteq 1 .. n
    BY DEF IsCounter
  <1>0. \A i \in K : i \in Int /\ 1 <= i /\ i <= n
    BY <1>1
  <1>2. 0 \in T
    <2>1. Low(0) = {} /\ c[0] \in Nat
      <3>1. \A i \in K : ~(i <= 0)
        BY <1>0
      <3>2. c[0] \in Nat
        BY <1>1
      <3> QED BY <3>1, <3>2
    <2>2. Good(0)
      BY <2>1
    <2> HIDE DEF Good
    <2> QED BY <1>1, <2>2
  <1>3. ASSUME NEW m \in 0 .. n, m < n, m \in T PROVE m + 1 \in T
    <2>1. m + 1 \in 0 .. n /\ m + 1 \in 1 .. n /\ (m + 1) - 1 = m
      BY <1>1, <1>3
    <2>2. c[m] \in Nat /\ c[m + 1] \in Nat /\ c[0] \in Nat
      BY <1>1, <2>1
    <2>3. IF m + 1 \in K THEN v[m + 1] = c[m] /\ c[m + 1] = c[m] + 1 ELSE c[m + 1] = c[m]
      BY <2>1 DEF IsCounter
    <2>4. Good(m)
      BY <1>3
    <2>5. CASE m + 1 \in K
      <3>1. v[m + 1] = c[m] /\ c[m + 1] = c[m] + 1
        BY <2>3, <2>5
      <3>2. Low(m + 1) = Low(m) \cup {m + 1}
        <4>1. \A i \in K : i <= m + 1 <=> i <= m \/ i = m + 1
          BY <1>0
        <4> QED BY <2>5, <4>1
      <3>3. \A i \in Low(m) : v[i] \in c[0] .. c[m] - 1 /\ i < m + 1 /\ i \in Nat
        BY <1>1, <2>1, <2>4
      <3>4. c[0] <= c[m]
        BY <2>4
      <3>5. \A x \in c[0] .. c[m + 1] - 1 : x \in c[0] .. c[m] - 1 \/ x = v[m + 1]
        BY <2>2, <3>1, <3>4
      <3>6. \A x \in c[0] .. c[m + 1] - 1 : \E i \in Low(m + 1) : v[i] = x
        BY <2>4, <3>2, <3>5
      <3>7. \A i \in Low(m + 1) : v[i] \in c[0] .. c[m + 1] - 1
        <4> HIDE DEF Low
        <4> QED BY <2>2, <3>1, <3>2, <3>3, <3>4
      <3>8. ASSUME NEW i \in Low(m + 1), NEW j \in Low(m + 1), i < j PROVE v[i] < v[j]
        <4>1. CASE j \in Low(m)
          <5>1. i \in Low(m)
            BY <4>1, <3>8, <1>1
          <5> QED BY <4>1, <5>1, <3>8, <2>4
        <4>2. CASE j = m + 1
          <5>1. i \in Low(m)
            BY <4>2, <3>8, <3>2, <2>1
          <5> HIDE DEF Low
          <5> QED BY <4>2, <5>1, <3>1, <3>3, <2>2
        <4> QED BY <4>1, <4>2, <3>2
      <3>9. Good(m + 1)
        <4> HIDE DEF Low
        <4>1. c[0] <= c[m + 1]
          BY <2>2, <3>1, <3>4
        <4> QED BY <4>1, <3>6, <3>7, <3>8
      <3> HIDE DEF Good
      <3> QED BY <2>1, <3>9
    <2>6. CASE m + 1 \notin K
      <3>1. c[m + 1] = c[m]
        BY <2>3, <2>6
      <3>2. Low(m + 1) = Low(m)
        <4>1. \A i \in K : i <= m + 1 <=> i <= m
          BY <1>0, <2>6
        <4> QED BY <4>1
      <3>3. Good(m + 1)
        <4> HIDE DEF Low
        <4> QED BY <2>4, <3>1, <3>2
      <3> HIDE DEF Good
      <3> QED BY <2>1, <3>3
    <2> QED BY <2>5, <2>6
  <1>4. n \in T
    <2> HIDE DEF T
    <2>1. \A m \in 0 .. n : m < n /\ m \in T => m + 1 \in T
      BY <1>3
    <2>2. \A m \in 0 .. n : m \in T
      BY <1>1, <1>2, <2>1, IntervalInduction
    <2> QED BY <1>1, <2>2
  <1>5. Low(n) = K
    BY <1>0
  <1>6. Good(n)
    BY <1>4
  <1>7. c[0] \in Nat /\ c[n] \in Nat
    BY <1>1
  <1>8. {v[i] : i \in K} = c[0] .. c[n] - 1
    <2> HIDE DEF Low
    <2> QED BY <1>5, <1>6
  <1> QED BY <1>5, <1>6, <1>7, <1>8

\* Supply and balances move together, and the supply follows the schedule.
LEMMA ListSummary ==
    ASSUME NEW l, IsLedger(l), NEW txs \in Seq(Transactions), NEW h,
           Execute(l, txs, h) # NoLedger, NEW m, m = Execute(l, txs, h)
    PROVE  /\ m.height = l.height /\ m.tip = l.tip /\ m.time = l.time
           /\ Total(Balances(m), Addresses) - m.supply = Total(Balances(l), Addresses) - l.supply
           /\ l.supply = Emission[l.challenge] => m.supply = Emission[m.challenge]
  <1> DEFINE n == Len(txs)
             s == States(l, txs, h)
             diff(x) == Total(Balances(x), Addresses) - x.supply
             Good(i) == /\ s[i].height = l.height /\ s[i].tip = l.tip /\ s[i].time = l.time
                        /\ diff(s[i]) = diff(l)
                        /\ l.supply = Emission[l.challenge] => s[i].supply = Emission[s[i].challenge]
             T == {i \in 0 .. n : Good(i)}
  <1>1. n \in Nat
    OBVIOUS
  <1>2. /\ \A i \in 0 .. n : IsLedger(s[i])
        /\ \A i \in 1 .. n : Effect(s[i - 1], txs[i], s[i])
    BY ListEffects
  <1>3. s[0] = l /\ m = s[n]
    BY <1>1, StatesSteps DEF Execute
  <1> HIDE DEF n, s
  <1>4. 0 \in T
    <2>1. Good(0)
      BY <1>3
    <2> HIDE DEF Good
    <2> QED BY <1>1, <2>1
  <1>5. ASSUME NEW i \in 0 .. n, i < n, i \in T PROVE i + 1 \in T
    <2>1. i + 1 \in 0 .. n /\ i + 1 \in 1 .. n /\ (i + 1) - 1 = i
      BY <1>1, <1>5
    <2>2. Effect(s[i], txs[i + 1], s[i + 1]) /\ IsLedger(s[i])
      BY <1>2, <2>1
    <2>3. Good(i)
      BY <1>5
    <2>4. s[i + 1].height = l.height /\ s[i + 1].tip = l.tip /\ s[i + 1].time = l.time
      BY <2>2, <2>3 DEF Effect
    <2>5. diff(s[i + 1]) = diff(l)
      BY <2>2, <2>3 DEF Effect
    <2>6. ASSUME l.supply = Emission[l.challenge]
          PROVE  s[i + 1].supply = Emission[s[i + 1].challenge]
      <3>1. s[i].supply = Emission[s[i].challenge] /\ s[i].challenge \in Nat
        BY <2>2, <2>3, <2>6 DEF IsLedger
      <3>2. CASE txs[i + 1].action = "claim"
        <4>1. /\ s[i + 1].challenge = s[i].challenge + 1
              /\ s[i + 1].supply = s[i].supply + RewardForSupply(s[i].supply)
          BY <2>2, <3>2 DEF Effect
        <4> QED BY <3>1, <4>1, EmissionDef
      <3>3. CASE txs[i + 1].action # "claim"
        <4>1. s[i + 1].challenge = s[i].challenge /\ s[i + 1].supply = s[i].supply
          BY <2>2, <3>3 DEF Effect
        <4> QED BY <3>1, <4>1
      <3> QED BY <3>2, <3>3
    <2>7. Good(i + 1)
      BY <2>4, <2>5, <2>6
    <2> HIDE DEF Good
    <2> QED BY <2>1, <2>7
  <1>6. n \in T
    <2> HIDE DEF T
    <2>1. \A i \in 0 .. n : i < n /\ i \in T => i + 1 \in T
      BY <1>5
    <2>2. \A i \in 0 .. n : i \in T
      BY <1>1, <1>4, <2>1, IntervalInduction
    <2> QED BY <1>1, <2>2
  <1> QED BY <1>3, <1>6

\* The nonces of a wallet's transactions in a list, and the ids of its claims.
NoncesRun(l, m, txs, a) ==
    LET K == {i \in 1 .. Len(txs) : txs[i].sender = a}
    IN /\ l.accounts[a].nonce <= m.accounts[a].nonce
       /\ {txs[i].nonce : i \in K} = l.accounts[a].nonce .. m.accounts[a].nonce - 1
       /\ \A i, j \in K : i < j => txs[i].nonce < txs[j].nonce

ClaimsRun(l, m, txs) ==
    LET K == {i \in 1 .. Len(txs) : txs[i].action = "claim"}
    IN /\ l.challenge <= m.challenge
       /\ {txs[i].challenge : i \in K} = l.challenge .. m.challenge - 1
       /\ \A i, j \in K : i < j => txs[i].challenge < txs[j].challenge

\* The nonces in a list that executes follow each other.
LEMMA ListNonces ==
    ASSUME NEW l, IsLedger(l), NEW txs \in Seq(Transactions), NEW h,
           Execute(l, txs, h) # NoLedger, NEW m, m = Execute(l, txs, h), NEW a \in Addresses
    PROVE  NoncesRun(l, m, txs, a)
  <1> DEFINE n == Len(txs)
             s == States(l, txs, h)
             K == {i \in 1 .. n : txs[i].sender = a}
             c == [i \in 0 .. n |-> s[i].accounts[a].nonce]
             v == [i \in 1 .. n |-> txs[i].nonce]
  <1>1. n \in Nat
    OBVIOUS
  <1>2. /\ \A i \in 0 .. n : IsLedger(s[i])
        /\ \A i \in 1 .. n : Effect(s[i - 1], txs[i], s[i])
    BY ListEffects
  <1>3. s[0] = l /\ m = s[n]
    BY <1>1, StatesSteps DEF Execute
  <1> HIDE DEF n, s
  <1>4. c \in [0 .. n -> Nat]
    BY <1>2 DEF IsLedger, Accounts
  <1>5. ASSUME NEW i \in 1 .. n
        PROVE  IF i \in K THEN v[i] = c[i - 1] /\ c[i] = c[i - 1] + 1 ELSE c[i] = c[i - 1]
    <2>1. i - 1 \in 0 .. n /\ i \in 0 .. n
      BY <1>1
    <2>2. Effect(s[i - 1], txs[i], s[i])
      BY <1>2
    <2>3. /\ txs[i].nonce = s[i - 1].accounts[txs[i].sender].nonce
          /\ s[i].accounts[txs[i].sender].nonce = txs[i].nonce + 1
          /\ a # txs[i].sender => s[i].accounts[a].nonce = s[i - 1].accounts[a].nonce
      BY <2>2 DEF Effect
    <2> QED BY <2>1, <2>3
  <1>6. IsCounter(c, n, K, v)
    <2>1. K \subseteq 1 .. n
      OBVIOUS
    <2> HIDE DEF c, K, v
    <2> QED BY <1>1, <1>4, <1>5, <2>1 DEF IsCounter
  <1>7. /\ c[0] <= c[n]
        /\ {v[i] : i \in K} = c[0] .. c[n] - 1
        /\ \A i, j \in K : i < j => v[i] < v[j]
    <2> HIDE DEF c, K, v
    <2> QED BY <1>6, CounterReads
  <1>8. c[0] = l.accounts[a].nonce /\ c[n] = m.accounts[a].nonce
    BY <1>1, <1>3
  <1>9. \A i \in K : v[i] = txs[i].nonce
    OBVIOUS
  <1>10. {txs[i].nonce : i \in K} = {v[i] : i \in K}
    BY <1>9
  <1> HIDE DEF c, v
  <1> QED BY <1>7, <1>8, <1>9, <1>10 DEF NoncesRun, n

\* The claims in a list that executes answer different challenges.
LEMMA ListClaims ==
    ASSUME NEW l, IsLedger(l), NEW txs \in Seq(Transactions), NEW h,
           Execute(l, txs, h) # NoLedger, NEW m, m = Execute(l, txs, h)
    PROVE  ClaimsRun(l, m, txs)
  <1> DEFINE n == Len(txs)
             s == States(l, txs, h)
             K == {i \in 1 .. n : txs[i].action = "claim"}
             c == [i \in 0 .. n |-> s[i].challenge]
             v == [i \in 1 .. n |-> txs[i].challenge]
  <1>1. n \in Nat
    OBVIOUS
  <1>2. /\ \A i \in 0 .. n : IsLedger(s[i])
        /\ \A i \in 1 .. n : Effect(s[i - 1], txs[i], s[i])
    BY ListEffects
  <1>3. s[0] = l /\ m = s[n]
    BY <1>1, StatesSteps DEF Execute
  <1> HIDE DEF n, s
  <1>4. c \in [0 .. n -> Nat]
    BY <1>2 DEF IsLedger
  <1>5. ASSUME NEW i \in 1 .. n
        PROVE  IF i \in K THEN v[i] = c[i - 1] /\ c[i] = c[i - 1] + 1 ELSE c[i] = c[i - 1]
    <2>1. i - 1 \in 0 .. n /\ i \in 0 .. n
      BY <1>1
    <2>2. Effect(s[i - 1], txs[i], s[i])
      BY <1>2
    <2>3. IF txs[i].action = "claim"
          THEN txs[i].challenge = s[i - 1].challenge /\ s[i].challenge = s[i - 1].challenge + 1
          ELSE s[i].challenge = s[i - 1].challenge
      BY <2>2 DEF Effect
    <2> QED BY <2>1, <2>3
  <1>6. IsCounter(c, n, K, v)
    <2>1. K \subseteq 1 .. n
      OBVIOUS
    <2> HIDE DEF c, K, v
    <2> QED BY <1>1, <1>4, <1>5, <2>1 DEF IsCounter
  <1>7. /\ c[0] <= c[n]
        /\ {v[i] : i \in K} = c[0] .. c[n] - 1
        /\ \A i, j \in K : i < j => v[i] < v[j]
    <2> HIDE DEF c, K, v
    <2> QED BY <1>6, CounterReads
  <1>8. c[0] = l.challenge /\ c[n] = m.challenge
    BY <1>1, <1>3
  <1>9. \A i \in K : v[i] = txs[i].challenge
    OBVIOUS
  <1>10. {txs[i].challenge : i \in K} = {v[i] : i \in K}
    BY <1>9
  <1> HIDE DEF c, v
  <1> QED BY <1>7, <1>8, <1>9, <1>10 DEF ClaimsRun, n

-------------------------------------------------------------------------------
(* A block *)

IsBlock(b) == b.txs \in Seq(Transactions) /\ b.time \in Nat

\* The coins of the wallets are the supply, and the supply follows the schedule.
Sound(l) ==
    /\ IsLedger(l)
    /\ Total(Balances(l), Addresses) = l.supply
    /\ l.supply = Emission[l.challenge]

\* What a block that applies does to the ledger.
LEMMA ApplyBlockEffect ==
    ASSUME NEW l, Sound(l), NEW b, IsBlock(b), NEW m, m = ApplyBlock(l, b), m # NoLedger
    PROVE  /\ Sound(m)
           /\ m.height = l.height + 1 /\ b.height = l.height + 1
           /\ m.tip = b /\ b.parent = l.tip /\ m.time = b.time
           /\ ClaimsRun(l, m, b.txs)
           /\ \A a \in Addresses : NoncesRun(l, m, b.txs, a)
  <1> DEFINE x == Execute(l, b.txs, b.height)
  <1>1. IsLedger(l) /\ l.height \in Nat
    BY DEF Sound, IsLedger
  <1>2. /\ b.height = l.height + 1 /\ b.parent = l.tip
        /\ TimeIsValid(l, b.time) /\ x # NoLedger
        /\ m = [Stamped(x, b.height, b.time) EXCEPT !.tip = b]
    BY DEF ApplyBlock
  <1>3. b.txs \in Seq(Transactions) /\ b.time \in 0 .. MaxTime
    BY <1>2, LedgerAssumption DEF IsBlock, TimeIsValid
  <1>4. IsLedger(x)
    BY <1>1, <1>2, <1>3, ListEffects
  <1>5. /\ Total(Balances(x), Addresses) - x.supply = Total(Balances(l), Addresses) - l.supply
        /\ x.supply = Emission[x.challenge]
    BY <1>1, <1>2, <1>3, ListSummary DEF Sound
  <1>6. ClaimsRun(l, x, b.txs)
    BY <1>1, <1>2, <1>3, ListClaims
  <1>7. \A a \in Addresses : NoncesRun(l, x, b.txs, a)
    BY <1>1, <1>2, <1>3, ListNonces
  <1> HIDE DEF x
  <1>8. /\ IsLedger(m) /\ m.height = b.height /\ m.time = b.time /\ m.tip = b
        /\ m.accounts = x.accounts /\ m.supply = x.supply /\ m.challenge = x.challenge
    <2> DEFINE t == Stamped(x, b.height, b.time)
    <2>1. b.height \in Nat
      BY <1>1, <1>2
    <2>2. /\ IsLedger(t) /\ t.height = b.height /\ t.time = b.time
          /\ t.accounts = x.accounts /\ t.supply = x.supply /\ t.challenge = x.challenge
      BY <1>3, <1>4, <2>1 DEF Stamped, IsLedger
    <2> HIDE DEF t
    <2>3. m = [t EXCEPT !.tip = b]
      BY <1>2 DEF t
    <2>4. /\ m.height = t.height /\ m.time = t.time /\ m.tip = b
          /\ m.accounts = t.accounts /\ m.supply = t.supply /\ m.challenge = t.challenge
      BY <2>2, <2>3 DEF IsLedger
    <2>5. IsLedger(m)
      BY <2>2, <2>3 DEF IsLedger
    <2> QED BY <2>2, <2>4, <2>5
  <1>9. Balances(m) = Balances(x)
    BY <1>8 DEF Balances
  <1>10. Total(Balances(m), Addresses) = m.supply
    <2>1. /\ Total(Balances(x), Addresses) \in Int /\ x.supply \in Int
          /\ Total(Balances(l), Addresses) = l.supply /\ l.supply \in Int
      BY <1>1, <1>4, BalancesType DEF Sound
    <2> QED BY <1>5, <1>8, <1>9, <2>1
  <1>11. ClaimsRun(l, m, b.txs)
    BY <1>6, <1>8 DEF ClaimsRun
  <1>12. \A a \in Addresses : NoncesRun(l, m, b.txs, a)
    BY <1>7, <1>8 DEF NoncesRun
  <1> QED BY <1>2, <1>5, <1>8, <1>10, <1>11, <1>12 DEF Sound

\* The clock, clamped, is a timestamp that apply_block accepts.
LEMMA NormalizedTimeIsValid ==
    ASSUME NEW l, IsLedger(l), NEW clock \in Nat
    PROVE  NormalizedTime(l, clock) \in Nat /\ TimeIsValid(l, NormalizedTime(l, clock))
  <1>1. l.height \in Nat /\ l.time \in 0 .. MaxTime /\ MaxTime \in Nat /\ MaxStep \in Nat
    BY LedgerAssumption DEF IsLedger
  <1> QED BY <1>1 DEF NormalizedTime, TimeIsValid

\* What build_block makes of transactions that execute passes apply_block.
LEMMA BuildBlockApplies ==
    ASSUME NEW l, IsLedger(l), NEW clock \in Nat, NEW txs \in Seq(Transactions),
           Execute(l, txs, l.height + 1) # NoLedger
    PROVE  IsBlock(BuildBlock(l, clock, txs)) /\ ApplyBlock(l, BuildBlock(l, clock, txs)) # NoLedger
  <1> DEFINE b == BuildBlock(l, clock, txs)
             x == Execute(l, txs, l.height + 1)
             candidate == Stamped(x, l.height + 1, NormalizedTime(l, clock))
  <1>1. /\ b.height = l.height + 1 /\ b.parent = l.tip /\ b.time = NormalizedTime(l, clock)
        /\ b.txs = txs /\ b.root = StateRoot(candidate)
    BY DEF BuildBlock, NewBlock
  <1>2. NormalizedTime(l, clock) \in Nat /\ TimeIsValid(l, NormalizedTime(l, clock))
    BY NormalizedTimeIsValid
  <1>3. l # NoLedger
    BY IsLedgerNotNone
  <1> HIDE DEF b
  <1>4. ApplyBlock(l, b) = [candidate EXCEPT !.tip = b]
    BY <1>1, <1>2, <1>3 DEF ApplyBlock
  <1>5. IsLedger(x) /\ l.height + 1 \in Nat
    BY ListEffects DEF IsLedger
  <1>6. [candidate EXCEPT !.tip = b].height = l.height + 1
    BY <1>5 DEF Stamped, IsLedger
  <1>7. ApplyBlock(l, b) # NoLedger
    BY <1>4, <1>5, <1>6 DEF NoLedger
  <1> QED BY <1>1, <1>2, <1>7 DEF IsBlock, b

-------------------------------------------------------------------------------
(* A chain *)

Precedes(p, q) == p[1] < q[1] \/ (p[1] = q[1] /\ p[2] < q[2])

\* The values of the places P are 0 .. c - 1, in the order of the places.
Tally(P, w, c) ==
    /\ {w[p] : p \in P} = 0 .. c - 1
    /\ \A p, q \in P : Precedes(p, q) => w[p] < w[q]

\* A block after the n-th adds the places K with the values from c to d.
LEMMA TallyExtends ==
    ASSUME NEW n \in Nat, NEW P, P \subseteq (1 .. n) \X Nat, NEW K, K \subseteq Nat,
           NEW w, NEW x, \A p \in P : x[p] = w[p],
           NEW c \in Nat, NEW d \in Nat, c <= d, Tally(P, w, c),
           {x[<<n + 1, i>>] : i \in K} = c .. d - 1,
           \A i, j \in K : i < j => x[<<n + 1, i>>] < x[<<n + 1, j>>]
    PROVE  Tally(P \cup {<<n + 1, i>> : i \in K}, x, d)
  <1> DEFINE Q == {<<n + 1, i>> : i \in K}
  <1>1. \A p \in P : p[1] \in 1 .. n /\ x[p] \in 0 .. c - 1
    <2>1. \A p \in P : p[1] \in 1 .. n
      OBVIOUS
    <2>2. \A p \in P : w[p] \in 0 .. c - 1
      BY DEF Tally
    <2> QED BY <2>1, <2>2
  <1>2. \A q \in Q : q[1] = n + 1 /\ q[2] \in K /\ q = <<n + 1, q[2]>> /\ x[q] \in c .. d - 1
    OBVIOUS
  <1>3. \A y \in 0 .. d - 1 : \E p \in P \cup Q : x[p] = y
    <2> SUFFICES ASSUME NEW y \in 0 .. d - 1 PROVE \E p \in P \cup Q : x[p] = y
      OBVIOUS
    <2>1. CASE y < c
      <3>1. y \in 0 .. c - 1
        BY <2>1
      <3>2. {w[p] : p \in P} = 0 .. c - 1
        BY Zenon DEF Tally
      <3>3. y \in {w[p] : p \in P}
        BY <3>1, <3>2, Zenon
      <3> QED BY <3>3
    <2>2. CASE ~(y < c)
      <3>1. y \in c .. d - 1
        BY <2>2
      <3>2. y \in {x[<<n + 1, i>>] : i \in K}
        BY <3>1, Zenon
      <3> QED BY <3>2
    <2> QED BY <2>1, <2>2
  <1>4. \A p \in P \cup Q : x[p] \in 0 .. d - 1
    <2> HIDE DEF Q
    <2> QED BY <1>1, <1>2
  <1>5. ASSUME NEW p \in P \cup Q, NEW q \in P \cup Q, Precedes(p, q) PROVE x[p] < x[q]
    <2>1. CASE p \in P /\ q \in P
      BY <1>5, <2>1 DEF Tally
    <2> HIDE DEF Q
    <2>2. CASE p \in P /\ q \in Q
      BY <1>1, <1>2, <2>2
    <2>3. CASE p \in Q /\ q \in P
      BY <1>1, <1>2, <1>5, <2>3 DEF Precedes
    <2>4. CASE p \in Q /\ q \in Q
      <3>1. p[2] \in K /\ q[2] \in K /\ p[2] < q[2] /\ p = <<n + 1, p[2]>> /\ q = <<n + 1, q[2]>>
        BY <1>2, <1>5, <2>4 DEF Precedes
      <3> QED BY <3>1
    <2> QED BY <2>1, <2>2, <2>3, <2>4
  <1>6. {x[p] : p \in P \cup Q} = 0 .. d - 1
    <2> HIDE DEF Q
    <2> QED BY <1>3, <1>4
  <1> HIDE DEF Q
  <1>7. Tally(P \cup Q, x, d)
    BY <1>5, <1>6 DEF Tally
  <1> QED BY <1>7 DEF Q

\* The places of the transactions of a chain, and what is there.
Places(ch) == UNION {{<<k, i>> : i \in DOMAIN ch[k].txs} : k \in DOMAIN ch}
At(ch, p) == ch[p[1]].txs[p[2]]

IsChain(ch) == \E B : ch \in Seq(B) /\ \A k \in 1 .. Len(ch) : IsBlock(ch[k])

ClaimsCounted(ch, l) ==
    Tally({p \in Places(ch) : At(ch, p).action = "claim"},
          [p \in Places(ch) |-> At(ch, p).challenge], l.challenge)

NoncesCounted(ch, l) ==
    \A a \in Addresses :
        Tally({p \in Places(ch) : At(ch, p).sender = a},
              [p \in Places(ch) |-> At(ch, p).nonce], l.accounts[a].nonce)

\* The empty chain.
LEMMA PlacesInit ==
    /\ IsChain(<<>>) /\ Places(<<>>) = {}
    /\ ClaimsCounted(<<>>, Genesis) /\ NoncesCounted(<<>>, Genesis)
  <1>1. IsChain(<<>>)
    <2>1. <<>> \in Seq({}) /\ \A k \in 1 .. Len(<<>>) : IsBlock(<<>>[k])
      OBVIOUS
    <2> QED BY <2>1 DEF IsChain
  <1>2. Places(<<>>) = {}
    BY DEF Places
  <1>3. \A w : Tally({}, w, 0)
    BY DEF Tally
  <1>4. Genesis.challenge = 0 /\ \A a \in Addresses : Genesis.accounts[a].nonce = 0
    BY DEF Genesis
  <1>5. ClaimsCounted(<<>>, Genesis)
    BY <1>2, <1>3, <1>4 DEF ClaimsCounted
  <1>6. NoncesCounted(<<>>, Genesis)
    BY <1>2, <1>3, <1>4 DEF NoncesCounted
  <1> QED BY <1>1, <1>2, <1>5, <1>6

\* A chain with one more block.
LEMMA ChainAppend ==
    ASSUME NEW ch, IsChain(ch), NEW b, IsBlock(b)
    PROVE  /\ IsChain(Append(ch, b))
           /\ Len(ch) \in Nat /\ Len(Append(ch, b)) = Len(ch) + 1
           /\ Places(ch) \subseteq (1 .. Len(ch)) \X Nat
           /\ Places(Append(ch, b)) = Places(ch) \cup {<<Len(ch) + 1, i>> : i \in 1 .. Len(b.txs)}
           /\ \A p \in Places(ch) : At(Append(ch, b), p) = At(ch, p)
           /\ \A i \in 1 .. Len(b.txs) : At(Append(ch, b), <<Len(ch) + 1, i>>) = b.txs[i]
           /\ Replay(Append(ch, b)) = ApplyBlock(Replay(ch), b)
  <1>1. PICK B : ch \in Seq(B) /\ \A k \in 1 .. Len(ch) : IsBlock(ch[k])
    BY DEF IsChain
  <1> DEFINE C == B \cup {b}
             n == Len(ch)
             d == Append(ch, b)
  <1>2. ch \in Seq(C) /\ b \in C
    BY <1>1
  <1>3. /\ d \in Seq(C) /\ n \in Nat /\ Len(d) = n + 1 /\ d[n + 1] = b
        /\ \A k \in 1 .. n : d[k] = ch[k]
        /\ DOMAIN ch = 1 .. n /\ DOMAIN d = 1 .. n + 1
    BY <1>2
  <1>4. Replay(d) = ApplyBlock(Replay(ch), b)
    BY <1>2, ReplayAppend
  <1> HIDE DEF d, n
  <1>5. \A k \in 1 .. n + 1 : IsBlock(d[k])
    <2>1. \A k \in 1 .. n + 1 : k \in 1 .. n \/ k = n + 1
      BY <1>3
    <2> QED BY <1>1, <1>3, <2>1 DEF n
  <1>6. IsChain(d)
    BY <1>3, <1>5 DEF IsChain
  <1>7. \A k \in 1 .. n : ch[k].txs \in Seq(Transactions)
    BY <1>1 DEF IsBlock, n
  <1>8. DOMAIN b.txs = 1 .. Len(b.txs) /\ b.txs \in Seq(Transactions)
    BY DEF IsBlock
  <1>9. Places(ch) \subseteq (1 .. n) \X Nat
    <2>1. \A k \in 1 .. n : DOMAIN ch[k].txs \subseteq Nat
      BY <1>7
    <2> QED BY <1>3, <2>1 DEF Places
  <1>10. Places(d) = Places(ch) \cup {<<n + 1, i>> : i \in 1 .. Len(b.txs)}
    <2>1. 1 .. n + 1 = (1 .. n) \cup {n + 1}
      BY <1>3
    <2>2. \A p \in Places(d) : p \in Places(ch) \cup {<<n + 1, i>> : i \in 1 .. Len(b.txs)}
      BY <1>3, <1>8, <2>1 DEF Places
    <2>3. \A p \in Places(ch) : p \in Places(d)
      BY <1>3, <2>1 DEF Places
    <2>4. \A i \in 1 .. Len(b.txs) : <<n + 1, i>> \in Places(d)
      BY <1>3, <1>8, <2>1 DEF Places
    <2> QED BY <2>2, <2>3, <2>4
  <1>11. \A p \in Places(ch) : At(d, p) = At(ch, p)
    BY <1>3, <1>9 DEF At
  <1>12. \A i \in 1 .. Len(b.txs) : At(d, <<n + 1, i>>) = b.txs[i]
    BY <1>3 DEF At
  <1> QED BY <1>3, <1>4, <1>6, <1>9, <1>10, <1>11, <1>12 DEF n, d

\* What the blocks of a chain add up to, with one more block.
LEMMA CountedAppend ==
    ASSUME NEW ch, IsChain(ch), NEW b, IsBlock(b), NEW l, IsLedger(l), NEW m, IsLedger(m)
    PROVE  /\ ClaimsCounted(ch, l) /\ ClaimsRun(l, m, b.txs) => ClaimsCounted(Append(ch, b), m)
           /\ (NoncesCounted(ch, l) /\ \A a \in Addresses : NoncesRun(l, m, b.txs, a))
                  => NoncesCounted(Append(ch, b), m)
  <1> DEFINE n == Len(ch)
             d == Append(ch, b)
             N == 1 .. Len(b.txs)
  <1>1. /\ n \in Nat
        /\ Places(ch) \subseteq (1 .. n) \X Nat
        /\ Places(d) = Places(ch) \cup {<<n + 1, i>> : i \in N}
        /\ \A p \in Places(ch) : At(d, p) = At(ch, p)
        /\ \A i \in N : At(d, <<n + 1, i>>) = b.txs[i]
    BY ChainAppend
  <1>2. N \subseteq Nat
    OBVIOUS
  <1> HIDE DEF d, n, N
  <1>3. ASSUME ClaimsCounted(ch, l), ClaimsRun(l, m, b.txs) PROVE ClaimsCounted(d, m)
    <2> DEFINE P == {p \in Places(ch) : At(ch, p).action = "claim"}
               K == {i \in N : b.txs[i].action = "claim"}
               w == [p \in Places(ch) |-> At(ch, p).challenge]
               x == [p \in Places(d) |-> At(d, p).challenge]
               Q == {p \in Places(d) : At(d, p).action = "claim"}
    <2>1. P \subseteq (1 .. n) \X Nat /\ K \subseteq Nat
      BY <1>1, <1>2
    <2>2. \A p \in P : x[p] = w[p]
      BY <1>1
    <2>3. \A i \in K : x[<<n + 1, i>>] = b.txs[i].challenge
      BY <1>1
    <2>4. Q = P \cup {<<n + 1, i>> : i \in K}
      BY <1>1
    <2>5. l.challenge \in Nat /\ m.challenge \in Nat
      BY DEF IsLedger
    <2>6. /\ l.challenge <= m.challenge
          /\ {b.txs[i].challenge : i \in K} = l.challenge .. m.challenge - 1
          /\ \A i, j \in K : i < j => b.txs[i].challenge < b.txs[j].challenge
      BY <1>3 DEF ClaimsRun, N
    <2>7. Tally(P, w, l.challenge)
      BY <1>3 DEF ClaimsCounted
    <2> HIDE DEF P, K, w, x, Q
    <2>8. {x[<<n + 1, i>>] : i \in K} = l.challenge .. m.challenge - 1
      BY <2>3, <2>6
    <2>9. \A i, j \in K : i < j => x[<<n + 1, i>>] < x[<<n + 1, j>>]
      BY <2>3, <2>6
    <2>10. Tally(P \cup {<<n + 1, i>> : i \in K}, x, m.challenge)
      BY <1>1, <2>1, <2>2, <2>5, <2>6, <2>7, <2>8, <2>9, TallyExtends
    <2>11. Tally(Q, x, m.challenge)
      BY <2>4, <2>10
    <2> QED BY <2>11 DEF ClaimsCounted, Q, x
  <1>4. ASSUME NoncesCounted(ch, l), NEW a \in Addresses, NoncesRun(l, m, b.txs, a)
        PROVE  Tally({p \in Places(d) : At(d, p).sender = a},
                     [p \in Places(d) |-> At(d, p).nonce], m.accounts[a].nonce)
    <2> DEFINE P == {p \in Places(ch) : At(ch, p).sender = a}
               K == {i \in N : b.txs[i].sender = a}
               w == [p \in Places(ch) |-> At(ch, p).nonce]
               x == [p \in Places(d) |-> At(d, p).nonce]
               Q == {p \in Places(d) : At(d, p).sender = a}
               from == l.accounts[a].nonce
               to == m.accounts[a].nonce
    <2>1. P \subseteq (1 .. n) \X Nat /\ K \subseteq Nat
      BY <1>1, <1>2
    <2>2. \A p \in P : x[p] = w[p]
      BY <1>1
    <2>3. \A i \in K : x[<<n + 1, i>>] = b.txs[i].nonce
      BY <1>1
    <2>4. Q = P \cup {<<n + 1, i>> : i \in K}
      BY <1>1
    <2>5. from \in Nat /\ to \in Nat
      BY DEF IsLedger, Accounts
    <2>6. /\ from <= to
          /\ {b.txs[i].nonce : i \in K} = from .. to - 1
          /\ \A i, j \in K : i < j => b.txs[i].nonce < b.txs[j].nonce
      BY <1>4 DEF NoncesRun, N
    <2>7. Tally(P, w, from)
      BY <1>4 DEF NoncesCounted
    <2> HIDE DEF P, K, w, x, Q, from, to
    <2>8. {x[<<n + 1, i>>] : i \in K} = from .. to - 1
      BY <2>3, <2>6
    <2>9. \A i, j \in K : i < j => x[<<n + 1, i>>] < x[<<n + 1, j>>]
      BY <2>3, <2>6
    <2>10. Tally(P \cup {<<n + 1, i>> : i \in K}, x, to)
      BY <1>1, <2>1, <2>2, <2>5, <2>6, <2>7, <2>8, <2>9, TallyExtends
    <2>11. Tally(Q, x, to)
      BY <2>4, <2>10
    <2> QED BY <2>11 DEF Q, x, to
  <1> QED BY <1>3, <1>4 DEF NoncesCounted, d

-------------------------------------------------------------------------------
(* The node *)

\* The ledger is sound and is what the stored chain replays to, the chain's claims
\* and nonces are in order, and what the node holds back executes on the ledger.
LedgerInv ==
    /\ Sound(ledger)
    /\ IsChain(chain) /\ ledger.height = Len(chain) /\ ledger.height <= MaxHeight
    /\ ReplayReproduces
    /\ ClaimsCounted(chain, ledger) /\ NoncesCounted(chain, ledger)
    /\ mempool \in Seq(Transactions) /\ MempoolExecutes
    /\ \A b \in proposals : IsBlock(b)
    /\ ProposalsApply
    /\ proposals # {} => ledger.height < MaxHeight
    /\ syncing \in BOOLEAN

\* The genesis ledger is sound.
LEMMA GenesisSound == Sound(Genesis)
  <1>1. IsLedger(Genesis)
    BY LedgerAssumption DEF Genesis, IsLedger, Accounts, AccountNames
  <1>2. Genesis.supply = 0 /\ Genesis.challenge = 0
        /\ \A a \in Addresses : Genesis.accounts[a].balance = 0
    BY DEF Genesis
  <1>3. Balances(Genesis) \in [Addresses -> Nat] /\ \A a \in Addresses : Balances(Genesis)[a] = 0
    BY <1>2 DEF Balances
  <1>4. Total(Balances(Genesis), Addresses) = 0
    BY <1>3, TotalBounds, LedgerAssumption
  <1> QED BY <1>1, <1>2, <1>4, EmissionDef DEF Sound

\* The initial states satisfy the invariant.
LEMMA InitHolds == Init => LedgerInv
  <1> SUFFICES ASSUME Init PROVE LedgerInv
    OBVIOUS
  <1>1. ledger = Genesis /\ mempool = <<>> /\ proposals = {} /\ chain = <<>> /\ syncing = FALSE
    BY DEF Init
  <1>2. Sound(ledger) /\ ledger # NoLedger
    BY <1>1, GenesisSound, IsLedgerNotNone DEF Sound
  <1>3. IsChain(chain) /\ ClaimsCounted(chain, ledger) /\ NoncesCounted(chain, ledger)
    BY <1>1, PlacesInit
  <1>4. ledger.height = 0 /\ Len(chain) = 0 /\ 0 <= MaxHeight
    BY <1>1, NodeAssumption DEF Genesis
  <1>5. ReplayReproduces
    <2>1. Replays(chain)[0] = Genesis
      BY <1>4, ReplaysSteps
    <2> QED BY <1>1, <1>4, <2>1 DEF ReplayReproduces, Replay
  <1>6. mempool \in Seq(Transactions) /\ MempoolExecutes
    <2>1. Execute(ledger, <<>>, NextHeight) = ledger
      BY ExecuteEmpty
    <2> QED BY <1>1, <1>2, <2>1 DEF MempoolExecutes
  <1> QED BY <1>1, <1>2, <1>3, <1>4, <1>5, <1>6 DEF LedgerInv, ProposalsApply

\* The next block of the chain, whoever built it.
LEMMA CommitHolds ==
    ASSUME LedgerInv, NEW b, IsBlock(b), ledger.height < MaxHeight, CommitFinalized(b)
    PROVE  LedgerInv'
  <1> DEFINE next == ApplyBlock(ledger, b)
  <1>1. /\ next # NoLedger /\ ledger' = next /\ chain' = Append(chain, b)
        /\ mempool' = Admit(next, mempool, next.height + 1).kept
        /\ proposals' = {} /\ syncing' \in {FALSE, syncing}
    BY DEF CommitFinalized, RevalidateMempool
  <1>2. Sound(ledger) /\ IsChain(chain) /\ ledger.height = Len(chain) /\ Replay(chain) = ledger
        /\ ClaimsCounted(chain, ledger) /\ NoncesCounted(chain, ledger)
        /\ mempool \in Seq(Transactions) /\ syncing \in BOOLEAN
    BY DEF LedgerInv, ReplayReproduces
  <1>3. /\ Sound(next) /\ next.height = ledger.height + 1
        /\ ClaimsRun(ledger, next, b.txs)
        /\ \A a \in Addresses : NoncesRun(ledger, next, b.txs, a)
    BY <1>1, <1>2, ApplyBlockEffect
  <1>4. /\ IsChain(Append(chain, b)) /\ Len(Append(chain, b)) = Len(chain) + 1
        /\ Replay(Append(chain, b)) = next
    BY <1>2, ChainAppend
  <1>5. ClaimsCounted(Append(chain, b), next) /\ NoncesCounted(Append(chain, b), next)
    BY <1>2, <1>3, CountedAppend DEF Sound
  <1> HIDE DEF next
  <1>6. mempool' \in Seq(Transactions) /\ Execute(next, mempool', next.height + 1) # NoLedger
    BY <1>1, <1>2, AdmitExecutes
  <1>7. next.height <= MaxHeight
    BY <1>2, <1>3, NodeAssumption DEF Sound, IsLedger
  <1>8. MempoolExecutes' /\ ReplayReproduces' /\ ProposalsApply'
    BY <1>1, <1>4, <1>6 DEF MempoolExecutes, ReplayReproduces, ProposalsApply, NextHeight
  <1>9. syncing' \in BOOLEAN
    BY <1>1, <1>2
  <1> QED BY <1>1, <1>2, <1>3, <1>4, <1>5, <1>6, <1>7, <1>8, <1>9 DEF LedgerInv

\* The oldest transactions of the mempool are transactions.
LEMMA OldestType ==
    ASSUME mempool \in Seq(Transactions)
    PROVE  Oldest \in Seq(Transactions)
  <1> DEFINE S == {Len(mempool), BlockLimit}
             k == Min(S)
  <1>1. Len(mempool) \in Nat /\ BlockLimit \in Nat
    BY NodeAssumption
  <1>2. \E x \in S : \A y \in S : x <= y
    BY <1>1
  <1>3. k \in S /\ \A y \in S : k <= y
    BY <1>2 DEF Min
  <1>4. k \in 0 .. Len(mempool)
    BY <1>1, <1>3
  <1> HIDE DEF k
  <1>5. SubSeq(mempool, 1, k) \in Seq(Transactions)
    BY <1>4
  <1> QED BY <1>5 DEF Oldest, k

\* AcceptTransaction keeps the invariant.
LEMMA AcceptHolds ==
    ASSUME LedgerInv, NEW tx \in Transactions, AcceptTransaction(tx)
    PROVE  LedgerInv'
  <1> DEFINE candidate == Execute(ledger, mempool, NextHeight)
  <1>1. /\ candidate # NoLedger /\ ValidateTransaction(candidate, tx, NextHeight)
        /\ mempool' = Append(mempool, tx)
        /\ UNCHANGED <<ledger, proposals, chain, syncing>>
    BY DEF AcceptTransaction
  <1>2. Sound(ledger) /\ mempool \in Seq(Transactions)
    BY DEF LedgerInv
  <1>3. IsLedger(candidate)
    BY <1>1, <1>2, ListEffects DEF Sound
  <1>4. Execute(ledger, Append(mempool, tx), NextHeight) = ApplyValid(candidate, tx)
    <2>1. Execute(ledger, Append(mempool, tx), NextHeight) = ApplyTransaction(candidate, tx, NextHeight)
      BY <1>2, ExecuteAppend
    <2> QED BY <1>1, <2>1 DEF ApplyTransaction
  <1>5. ApplyValid(candidate, tx) # NoLedger
    <2>1. Effect(candidate, tx, ApplyValid(candidate, tx))
      BY <1>1, <1>3, ApplyValidEffect
    <2> QED BY <2>1, IsLedgerNotNone DEF Effect
  <1>6. MempoolExecutes' /\ mempool' \in Seq(Transactions)
    BY <1>1, <1>2, <1>4, <1>5 DEF MempoolExecutes, NextHeight
  <1> QED BY <1>1, <1>6 DEF LedgerInv, ReplayReproduces, ProposalsApply

\* BuildConsensusProposal keeps the invariant.
LEMMA BuildHolds ==
    ASSUME LedgerInv, NEW clock \in Clocks, BuildConsensusProposal(clock)
    PROVE  LedgerInv'
  <1> DEFINE kept == Admit(ledger, Oldest, NextHeight).kept
             b == BuildBlock(ledger, clock, kept)
  <1>1. /\ ledger.height < MaxHeight /\ proposals' = proposals \cup {b}
        /\ UNCHANGED <<ledger, mempool, chain, syncing>>
    BY DEF BuildConsensusProposal
  <1>2. IsLedger(ledger) /\ ledger # NoLedger /\ Oldest \in Seq(Transactions) /\ clock \in Nat
    BY OldestType, IsLedgerNotNone, NodeAssumption DEF LedgerInv, Sound
  <1>3. kept \in Seq(Transactions) /\ Execute(ledger, kept, NextHeight) # NoLedger
    BY <1>2, AdmitExecutes
  <1> HIDE DEF kept
  <1>4. IsBlock(b) /\ ApplyBlock(ledger, b) # NoLedger
    BY <1>2, <1>3, BuildBlockApplies DEF NextHeight
  <1> HIDE DEF b
  <1>5. ProposalsApply' /\ \A p \in proposals' : IsBlock(p)
    BY <1>1, <1>4 DEF LedgerInv, ProposalsApply
  <1> QED BY <1>1, <1>5 DEF LedgerInv, ReplayReproduces, MempoolExecutes, NextHeight

\* Every step keeps the invariant.
LEMMA NextHolds == LedgerInv /\ [Next]_vars => LedgerInv'
  <1> SUFFICES ASSUME LedgerInv, [Next]_vars PROVE LedgerInv'
    OBVIOUS
  <1>1. CASE \E tx \in Transactions : AcceptTransaction(tx)
    BY <1>1, AcceptHolds
  <1>2. CASE \E clock \in Clocks : BuildConsensusProposal(clock)
    BY <1>2, BuildHolds
  <1>3. CASE \E clock \in Clocks : ProduceStandalone(clock)
    <2>1. PICK clock \in Clocks : ProduceStandalone(clock)
      BY <1>3
    <2> DEFINE b == BuildBlock(ledger, clock, Oldest)
    <2>2. /\ ledger.height < MaxHeight /\ CommitFinalized(b)
          /\ Execute(ledger, Oldest, NextHeight) # NoLedger
      BY <2>1 DEF ProduceStandalone
    <2>3. IsLedger(ledger) /\ Oldest \in Seq(Transactions) /\ clock \in Nat
      BY OldestType, NodeAssumption DEF LedgerInv, Sound
    <2>4. IsBlock(b)
      BY <2>2, <2>3, BuildBlockApplies DEF NextHeight
    <2> HIDE DEF b
    <2> QED BY <2>2, <2>4, CommitHolds
  <1>4. CASE \E b \in proposals : CommitFinalized(b)
    <2>1. PICK b \in proposals : CommitFinalized(b)
      BY <1>4
    <2>2. IsBlock(b) /\ ledger.height < MaxHeight
      BY DEF LedgerInv
    <2> QED BY <2>1, <2>2, CommitHolds
  <1>5. CASE ledger.height < MaxHeight /\ \E b \in ForeignBlocks : CommitFinalized(b)
    <2>1. PICK b \in ForeignBlocks : CommitFinalized(b)
      BY <1>5
    <2>2. PICK txs \in Executable, time \in Clocks : b = ForeignBlock(txs, time)
      BY DEF ForeignBlocks
    <2>3. txs \in Seq(Transactions) /\ time \in Nat
      <3>1. txs \in BoundedSeq(Transactions, ForeignLimit)
        BY DEF Executable
      <3>2. PICK n \in 0 .. ForeignLimit : txs \in [1 .. n -> Transactions]
        BY <3>1 DEF BoundedSeq, SeqOf
      <3> QED BY <3>2, NodeAssumption
    <2>4. IsBlock(b)
      BY <2>2, <2>3 DEF ForeignBlock, NewBlock, IsBlock
    <2> QED BY <1>5, <2>1, <2>4, CommitHolds
  <1>6. CASE BeginSync
    <2>1. syncing' = TRUE /\ UNCHANGED <<ledger, mempool, proposals, chain>>
      BY <1>6 DEF BeginSync
    <2> QED BY <2>1 DEF LedgerInv, ReplayReproduces, MempoolExecutes, ProposalsApply, NextHeight
  <1>7. CASE Restart
    <2>1. /\ ledger' = ledger /\ mempool' = <<>> /\ syncing' = FALSE
          /\ UNCHANGED <<proposals, chain>>
      BY <1>7 DEF Restart, LedgerInv, ReplayReproduces
    <2>2. Execute(ledger, <<>>, NextHeight) = ledger /\ ledger # NoLedger
      BY ExecuteEmpty, IsLedgerNotNone DEF LedgerInv, Sound
    <2>3. MempoolExecutes' /\ mempool' \in Seq(Transactions)
      BY <2>1, <2>2 DEF MempoolExecutes, NextHeight
    <2> QED BY <2>1, <2>3 DEF LedgerInv, ReplayReproduces, ProposalsApply
  <1>8. CASE UNCHANGED vars
    BY <1>8 DEF LedgerInv, ReplayReproduces, MempoolExecutes, ProposalsApply, NextHeight, vars
  <1> QED BY <1>1, <1>2, <1>3, <1>4, <1>5, <1>6, <1>7, <1>8 DEF Next

\* The inductive invariant of the node's ledger, mempool, proposals and stored
\* chain.
THEOREM LedgerInvariant == Spec => []LedgerInv
  BY InitHolds, NextHolds, PTL DEF Spec

\* The invariant implies TypeOK.
LEMMA InvType == LedgerInv => TypeOK
  <1> SUFFICES ASSUME LedgerInv PROVE TypeOK
    OBVIOUS
  <1>1. IsLedger(ledger) /\ ledger.height = Len(chain) /\ ledger.height <= MaxHeight
        /\ mempool \in Seq(Transactions) /\ syncing \in BOOLEAN
    BY DEF LedgerInv, Sound
  <1>2. ledger.height \in 0 .. MaxHeight
    BY <1>1, NodeAssumption DEF IsLedger
  <1>3. \A a \in Addresses : ledger.accounts[a].balance \in Nat /\ ledger.accounts[a].nonce \in Nat
    BY <1>1 DEF IsLedger, Accounts
  <1>4. ToSet(mempool) \subseteq Transactions
    BY <1>1 DEF ToSet
  <1> QED BY <1>1, <1>2, <1>3, <1>4 DEF TypeOK

\* The invariant implies that the supply is the sum of the balances.
LEMMA InvSupply == LedgerInv => SupplyIsBalances
  <1> SUFFICES ASSUME LedgerInv PROVE SupplyIsBalances
    OBVIOUS
  <1>1. IsLedger(ledger) /\ Total(Balances(ledger), Addresses) = ledger.supply
    BY DEF LedgerInv, Sound
  <1>2. Balances(ledger) \in [Addresses -> Int] /\ IsFiniteSet(Addresses)
    BY <1>1, BalancesType
  <1>3. \A a \in Addresses : Balances(ledger)[a] = ledger.accounts[a].balance
    BY DEF Balances
  <1>4. MapThenSumSet(LAMBDA a : ledger.accounts[a].balance, Addresses)
            = Total(Balances(ledger), Addresses)
    BY <1>2, <1>3, TotalIsMapThenSum
  <1>5. ledger.supply <= MaxSupply
    BY <1>1, LedgerAssumption DEF IsLedger
  <1> QED BY <1>1, <1>4, <1>5 DEF SupplyIsBalances

\* The invariant implies that a challenge is rewarded once.
LEMMA InvClaims == LedgerInv => OneRewardPerChallenge
  <1> SUFFICES ASSUME LedgerInv PROVE OneRewardPerChallenge
    OBVIOUS
  <1> DEFINE P == {p \in Places(chain) : At(chain, p).action = "claim"}
             w == [p \in Places(chain) |-> At(chain, p).challenge]
  <1>1. Tally(P, w, ledger.challenge)
    BY DEF LedgerInv, ClaimsCounted
  <1>2. ExecutedClaims = P
    BY DEF ExecutedClaims, Executed, Places, TxAt, At
  <1>3. \A p \in P : TxAt(p).challenge = w[p]
    BY DEF TxAt, At
  <1>4. \A p, q : Before(p, q) <=> Precedes(p, q)
    BY DEF Before, Precedes
  <1> HIDE DEF P, w
  <1>5. {TxAt(p).challenge : p \in P} = {w[p] : p \in P}
    BY <1>3
  <1>6. \A p, q \in P : Before(p, q) => TxAt(p).challenge < TxAt(q).challenge
    BY <1>1, <1>3, <1>4 DEF Tally
  <1>7. ledger.supply = Emission[ledger.challenge]
    BY DEF LedgerInv, Sound
  <1> QED BY <1>1, <1>2, <1>5, <1>6, <1>7 DEF OneRewardPerChallenge, Tally

\* The invariant implies that nonces come in order.
LEMMA InvNonces == LedgerInv => NoncesInOrder
  <1> SUFFICES ASSUME LedgerInv, NEW a \in Addresses
               PROVE  /\ {TxAt(p).nonce : p \in ExecutedBy(a)} = 0 .. ledger.accounts[a].nonce - 1
                      /\ \A p, q \in ExecutedBy(a) : Before(p, q) => TxAt(p).nonce < TxAt(q).nonce
    BY DEF NoncesInOrder
  <1> DEFINE P == {p \in Places(chain) : At(chain, p).sender = a}
             w == [p \in Places(chain) |-> At(chain, p).nonce]
  <1>1. Tally(P, w, ledger.accounts[a].nonce)
    BY DEF LedgerInv, NoncesCounted
  <1>2. ExecutedBy(a) = P
    BY DEF ExecutedBy, Executed, Places, TxAt, At
  <1>3. \A p \in P : TxAt(p).nonce = w[p]
    BY DEF TxAt, At
  <1>4. \A p, q : Before(p, q) <=> Precedes(p, q)
    BY DEF Before, Precedes
  <1> HIDE DEF P, w
  <1>5. {TxAt(p).nonce : p \in P} = {w[p] : p \in P}
    BY <1>3
  <1>6. \A p, q \in P : Before(p, q) => TxAt(p).nonce < TxAt(q).nonce
    BY <1>1, <1>3, <1>4 DEF Tally
  <1> QED BY <1>1, <1>2, <1>5, <1>6 DEF Tally

\* The invariant implies the properties of the mempool, the proposal and the replay.
LEMMA InvRest == LedgerInv => MempoolExecutes /\ ProposalsApply /\ ReplayReproduces
  BY DEF LedgerInv

\* Beside the explorer: what the explorer, its rebuild and the faults do leaves
\* the node alone; a stopped node comes back with the ledger it had.
LEMMA ExplorerKeepsLedgerInv == LedgerInv /\ [ExplorerNext]_explorerVars => LedgerInv'
  <1> SUFFICES ASSUME LedgerInv, [ExplorerNext]_explorerVars PROVE LedgerInv'
    OBVIOUS
  <1>1. CASE [Next]_vars
    BY <1>1, NextHolds
  <1>2. CASE Stop
    <2>1. mempool' = <<>> /\ syncing' = FALSE /\ UNCHANGED <<ledger, proposals, chain>>
      BY <1>2 DEF Stop
    <2>2. Execute(ledger, <<>>, NextHeight) = ledger /\ ledger # NoLedger
      BY ExecuteEmpty, IsLedgerNotNone DEF LedgerInv, Sound
    <2>3. MempoolExecutes' /\ mempool' \in Seq(Transactions)
      BY <2>1, <2>2 DEF MempoolExecutes, NextHeight
    <2> QED BY <2>1, <2>3 DEF LedgerInv, ReplayReproduces, ProposalsApply
  <1>3. ExplorerNext \/ UNCHANGED explorerVars => [Next]_vars \/ Stop
    BY DEF ExplorerNext, NodeStep, Start, Next, SpoilColumns, SpoilBlock, SpoilChallenge,
           BeginReindex, ClearProjections, RefreshBlockProjection, PersistRebuilt,
           VerifyRebuilt, Interrupt, explorerVars
  <1> QED BY <1>1, <1>2, <1>3

\* It also holds beside the explorer, its rebuild and the faults of stored rows.
THEOREM ExplorerLedgerInvariant == ExplorerSpec => []LedgerInv
  <1>1. ExplorerInit => LedgerInv
    BY InitHolds DEF ExplorerInit
  <1> QED BY <1>1, ExplorerKeepsLedgerInv, PTL DEF ExplorerSpec

\* The ledger is as high as the stored chain, balances never go below zero, and
\* the mempool holds only what wallets submitted.
THEOREM LedgerTypeCorrect == (Spec => []TypeOK) /\ (ExplorerSpec => []TypeOK)
  BY LedgerInvariant, ExplorerLedgerInvariant, InvType, PTL

\* apply_transaction creates and destroys no coins but the reward of a claim:
\* whatever blocks are executed, the balances add up to the supply, and
\* reward_for_supply never lets it pass the maximum.
THEOREM LedgerSupply == (Spec => []SupplyIsBalances) /\ (ExplorerSpec => []SupplyIsBalances)
  BY LedgerInvariant, ExplorerLedgerInvariant, InvSupply, PTL

\* Each challenge is rewarded once, in order, and the supply is what the schedule
\* gives for the number of rewarded challenges.
THEOREM LedgerRewards ==
    (Spec => []OneRewardPerChallenge) /\ (ExplorerSpec => []OneRewardPerChallenge)
  BY LedgerInvariant, ExplorerLedgerInvariant, InvClaims, PTL

\* The transactions of every wallet execute in the order of their nonces, without
\* gaps and none twice, in whatever blocks they arrive.
THEOREM LedgerNonces == (Spec => []NoncesInOrder) /\ (ExplorerSpec => []NoncesInOrder)
  BY LedgerInvariant, ExplorerLedgerInvariant, InvNonces, PTL

\* accept_transaction and revalidate_mempool keep a mempool that executes as a
\* whole, so that one entry never blocks the admission of others.
THEOREM LedgerMempool == (Spec => []MempoolExecutes) /\ (ExplorerSpec => []MempoolExecutes)
  BY LedgerInvariant, ExplorerLedgerInvariant, InvRest, PTL

\* A block that build_block made passes apply_block on the node's ledger, for
\* every value of the clock.
THEOREM LedgerProposals == (Spec => []ProposalsApply) /\ (ExplorerSpec => []ProposalsApply)
  BY LedgerInvariant, ExplorerLedgerInvariant, InvRest, PTL

\* replay_finalized_blocks on the stored chain gives the ledger in memory, so that
\* a restart neither fails nor changes the state.
THEOREM LedgerReplay == (Spec => []ReplayReproduces) /\ (ExplorerSpec => []ReplayReproduces)
  BY LedgerInvariant, ExplorerLedgerInvariant, InvRest, PTL

-------------------------------------------------------------------------------
(* The accounts a ledger knows *)

Named(tx) == {a \in Addresses : a \in {tx.sender, Recipient(tx)}}

\* The accounts known after a transaction are the ones before it and the ones it
\* names: an account that spends its last coin stays known by its nonce.
LEMMA KnownEffect ==
    ASSUME NEW l, IsLedger(l), NEW tx \in Transactions, NEW h, ValidateTransaction(l, tx, h)
    PROVE  Known(ApplyValid(l, tx)) = Known(l) \cup Named(tx)
  <1> DEFINE s == tx.sender
             t == Acted(l, tx)
             m == ApplyValid(l, tx)
             none == [balance |-> 0, nonce |-> 0, name |-> None]
  <1>1. s \in Addresses /\ tx.action \in {"transfer", "claim", "name"} /\ None \notin Addresses
    BY NodeAssumption, LedgerAssumption
  <1>2. \A a \in Addresses : Genesis.accounts[a] = none
    BY DEF Genesis
  <1>3. Effect(l, tx, m)
    BY ApplyValidEffect
  <1>4. IsLedger(t)
    BY <1>1, TransferActs, ClaimActs, NameActs DEF ActedWell
  <1>5. \A a \in Addresses : a # s => m.accounts[a] = t.accounts[a]
    <2> HIDE DEF t
    <2>1. m = [t EXCEPT !.accounts = [t.accounts EXCEPT ![s] =
                  [t.accounts[s] EXCEPT !.nonce = t.accounts[s].nonce + 1]],
                        !.applied = t.applied \cup {tx}]
      BY DEF ApplyValid, t
    <2> HIDE DEF m
    <2> QED BY <1>4, <2>1 DEF IsLedger
  <1>6. \A a \in Addresses : a # s => /\ a = Recipient(tx) => t.accounts[a].balance > 0
                                      /\ a # Recipient(tx) => t.accounts[a] = l.accounts[a]
    <2>1. CASE tx.action = "transfer"
      <3> DEFINE r == tx.recipient
      <3>1. r \in Addresses /\ tx.amount \in Nat /\ tx.amount > 0 /\ Recipient(tx) = r
        BY <2>1, NodeAssumption DEF ValidateTransaction, ActionIsValid, Recipient
      <3>2. t = Transfer(l, tx)
        BY <2>1 DEF Acted
      <3>3. CASE r = s
        <4>1. t = l
          BY <3>2, <3>3 DEF Transfer
        <4> QED BY <3>1, <3>3, <4>1
      <3>4. CASE r # s
        <4> DEFINE R == [l.accounts[r] EXCEPT !.balance = l.accounts[r].balance + tx.amount]
                   L == [l.accounts[s] EXCEPT !.balance = l.accounts[s].balance - tx.amount]
        <4>1. t = [l EXCEPT !.accounts = [l.accounts EXCEPT ![r] = R, ![s] = L]]
          BY <1>1, <3>1, <3>2, <3>4 DEF Transfer, IsLedger, Accounts
        <4>2. R.balance > 0
          <5>1. l.accounts[r] \in Accounts
            BY <3>1 DEF IsLedger
          <5> QED BY <3>1, <5>1 DEF Accounts
        <4> HIDE DEF R, L, t
        <4>3. \A a \in Addresses : a # s => t.accounts[a] = IF a = r THEN R ELSE l.accounts[a]
          BY <3>4, <4>1 DEF IsLedger
        <4> QED BY <3>1, <4>2, <4>3
      <3> QED BY <3>3, <3>4
    <2>2. CASE tx.action = "claim"
      <3>1. t = Claim(l, tx) /\ Recipient(tx) = s
        BY <2>2 DEF Acted, Recipient
      <3> QED BY <3>1 DEF Claim, IsLedger
    <2>3. CASE tx.action = "name"
      <3>1. t = [l EXCEPT !.accounts[s].name = tx.name] /\ Recipient(tx) = None
        BY <2>3 DEF Acted, Recipient
      <3> QED BY <1>1, <3>1 DEF IsLedger
    <2> QED BY <1>1, <2>1, <2>2, <2>3
  <1>7. m.accounts[s].nonce > 0
    BY <1>3, NodeAssumption DEF Effect
  <1> HIDE DEF m, t
  <1>8. \A a \in Addresses : m.accounts[a] # none <=> l.accounts[a] # none \/ a \in {s, Recipient(tx)}
    <2> SUFFICES ASSUME NEW a \in Addresses
                 PROVE  m.accounts[a] # none <=> l.accounts[a] # none \/ a \in {s, Recipient(tx)}
      OBVIOUS
    <2>1. CASE a = s
      <3>1. m.accounts[a] # none
        BY <1>7, <2>1
      <3> QED BY <2>1, <3>1
    <2>2. CASE a # s /\ a = Recipient(tx)
      <3>1. m.accounts[a].balance > 0
        BY <1>5, <1>6, <2>2
      <3>2. m.accounts[a] # none
        BY <3>1
      <3> QED BY <2>2, <3>2
    <2>3. CASE a # s /\ a # Recipient(tx)
      <3>1. m.accounts[a] = l.accounts[a]
        BY <1>5, <1>6, <2>3
      <3> QED BY <2>3, <3>1
    <2> QED BY <2>1, <2>2, <2>3
  <1> HIDE DEF none
  <1>9. Known(m) = Known(l) \cup Named(tx)
    BY <1>2, <1>8 DEF Known, Named
  <1> QED BY <1>9 DEF m

NamedIn(txs) == {a \in Addresses : \E i \in 1 .. Len(txs) : a \in Named(txs[i])}

\* A list that executes makes known the addresses it names.
LEMMA ListKnown ==
    ASSUME NEW l, IsLedger(l), NEW txs \in Seq(Transactions), NEW h,
           Execute(l, txs, h) # NoLedger, NEW m, m = Execute(l, txs, h)
    PROVE  Known(m) = Known(l) \cup NamedIn(txs)
  <1> DEFINE n == Len(txs)
             s == States(l, txs, h)
             Upto(i) == {a \in Addresses : \E j \in 1 .. i : a \in Named(txs[j])}
             T == {i \in 0 .. n : Known(s[i]) = Known(l) \cup Upto(i)}
  <1>1. n \in Nat /\ \A i \in 1 .. n : txs[i] \in Transactions
    OBVIOUS
  <1>2. /\ s[0] = l /\ m = s[n]
        /\ \A i \in 1 .. n : s[i] = ApplyTransaction(s[i - 1], txs[i], h)
        /\ \A i \in 0 .. n : s[i] # NoLedger
        /\ \A i \in 0 .. n : IsLedger(s[i])
    BY <1>1, StatesSteps, StatesSucceed, ListEffects DEF Execute
  <1> HIDE DEF s, n
  <1>3. 0 \in T
    BY <1>1, <1>2
  <1>4. ASSUME NEW i \in 0 .. n, i < n, i \in T PROVE i + 1 \in T
    <2>1. i + 1 \in 0 .. n /\ i + 1 \in 1 .. n /\ (i + 1) - 1 = i
      BY <1>1, <1>4
    <2>2. /\ s[i + 1] = ApplyTransaction(s[i], txs[i + 1], h) /\ s[i + 1] # NoLedger
          /\ txs[i + 1] \in Transactions /\ IsLedger(s[i])
      BY <1>1, <1>2, <1>4, <2>1
    <2>3. Known(s[i + 1]) = Known(s[i]) \cup Named(txs[i + 1])
      BY <2>2, KnownEffect DEF ApplyTransaction
    <2>4. \A j : j \in 1 .. i + 1 <=> j \in 1 .. i \/ j = i + 1
      BY <2>1
    <2>5. Upto(i + 1) = Upto(i) \cup Named(txs[i + 1])
      BY <2>4 DEF Named
    <2> HIDE DEF Upto
    <2> QED BY <1>4, <2>1, <2>3, <2>5
  <1>5. n \in T
    <2> HIDE DEF T
    <2>1. \A i \in 0 .. n : i < n /\ i \in T => i + 1 \in T
      BY <1>4
    <2>2. \A i \in 0 .. n : i \in T
      BY <1>1, <1>3, <2>1, IntervalInduction
    <2> QED BY <1>1, <2>2
  <1> QED BY <1>2, <1>5 DEF NamedIn, n

-------------------------------------------------------------------------------
(* The ledgers of a chain *)

\* What one block of a chain did.
BlockStep(l, m, b) ==
    /\ b.height = l.height + 1 /\ IsBlock(b)
    /\ Execute(l, b.txs, b.height) # NoLedger
    /\ ClaimsRun(l, m, b.txs)
    /\ Known(m) = Known(l) \cup NamedIn(b.txs)

\* What a block that applies does to the accounts.
LEMMA ApplyBlockKnown ==
    ASSUME NEW l, Sound(l), NEW b, IsBlock(b), NEW m, m = ApplyBlock(l, b), m # NoLedger
    PROVE  BlockStep(l, m, b)
  <1> DEFINE x == Execute(l, b.txs, b.height)
  <1>1. x # NoLedger /\ m = [Stamped(x, b.height, b.time) EXCEPT !.tip = b]
    BY DEF ApplyBlock
  <1>2. b.height = l.height + 1 /\ ClaimsRun(l, m, b.txs)
    BY ApplyBlockEffect
  <1>3. IsLedger(l) /\ b.txs \in Seq(Transactions)
    BY DEF Sound, IsBlock
  <1>4. IsLedger(x) /\ Known(x) = Known(l) \cup NamedIn(b.txs)
    BY <1>1, <1>3, ListEffects, ListKnown
  <1> HIDE DEF x
  <1>5. m.accounts = x.accounts
    BY <1>1, <1>4 DEF Stamped, IsLedger
  <1>6. Known(m) = Known(x)
    BY <1>5 DEF Known
  <1> QED BY <1>1, <1>2, <1>4, <1>6 DEF BlockStep, x

\* A chain that replays is sound after every block.
LEMMA ReplaysSound ==
    ASSUME NEW ch, IsChain(ch), Replay(ch) # NoLedger
    PROVE  /\ Len(ch) \in Nat /\ DOMAIN ch = 1 .. Len(ch)
           /\ \A k \in 0 .. Len(ch) : Sound(Replays(ch)[k]) /\ Replays(ch)[k].height = k
           /\ \A k \in 1 .. Len(ch) : /\ BlockStep(Replays(ch)[k - 1], Replays(ch)[k], ch[k])
                                      /\ ch[k].height = k
  <1> DEFINE n == Len(ch)
             r == Replays(ch)
  <1>1. n \in Nat /\ DOMAIN ch = 1 .. n /\ \A k \in 1 .. n : IsBlock(ch[k])
    BY DEF IsChain
  <1>2. r[0] = Genesis /\ \A k \in 1 .. n : r[k] = ApplyBlock(r[k - 1], ch[k])
    BY <1>1, ReplaysSteps
  <1>3. r[n] # NoLedger
    BY DEF Replay
  <1> HIDE DEF n, r
  <1>4. \A k \in 0 .. n : r[k] # NoLedger
    <2> DEFINE T == {j \in 0 .. n : r[n - j] # NoLedger}
    <2>1. 0 \in T
      BY <1>1, <1>3
    <2>2. ASSUME NEW m \in 0 .. n, m < n, m \in T PROVE m + 1 \in T
      <3>1. n - m \in 1 .. n /\ (n - m) - 1 = n - (m + 1) /\ m + 1 \in 0 .. n
        BY <1>1, <2>2
      <3>2. r[n - m] # NoLedger
        BY <2>2
      <3>3. r[(n - m) - 1] # NoLedger
        BY <1>2, <3>1, <3>2 DEF ApplyBlock
      <3> QED BY <3>1, <3>3
    <2>3. \A j \in 0 .. n : j \in T
      <3> HIDE DEF T
      <3>1. \A m \in 0 .. n : m < n /\ m \in T => m + 1 \in T
        BY <2>2
      <3> QED BY <1>1, <2>1, <3>1, IntervalInduction
    <2>4. ASSUME NEW k \in 0 .. n PROVE r[k] # NoLedger
      <3>1. n - k \in 0 .. n /\ n - (n - k) = k
        BY <1>1
      <3> QED BY <2>3, <3>1
    <2> QED BY <2>4
  <1>5. \A k \in 0 .. n : Sound(r[k]) /\ r[k].height = k
    <2> DEFINE T == {k \in 0 .. n : Sound(r[k]) /\ r[k].height = k}
    <2>1. 0 \in T
      BY <1>1, <1>2, GenesisSound DEF Genesis
    <2>2. ASSUME NEW k \in 0 .. n, k < n, k \in T PROVE k + 1 \in T
      <3>1. k + 1 \in 1 .. n /\ (k + 1) - 1 = k /\ k + 1 \in 0 .. n
        BY <1>1, <2>2
      <3>2. r[k + 1] = ApplyBlock(r[k], ch[k + 1]) /\ IsBlock(ch[k + 1]) /\ r[k + 1] # NoLedger
            /\ Sound(r[k]) /\ r[k].height = k
        BY <1>1, <1>2, <1>4, <2>2, <3>1
      <3>3. Sound(r[k + 1]) /\ r[k + 1].height = k + 1
        BY <3>2, ApplyBlockEffect
      <3> QED BY <3>1, <3>3
    <2>3. \A k \in 0 .. n : k \in T
      <3> HIDE DEF T
      <3>1. \A m \in 0 .. n : m < n /\ m \in T => m + 1 \in T
        BY <2>2
      <3> QED BY <1>1, <2>1, <3>1, IntervalInduction
    <2> QED BY <2>3
  <1>6. ASSUME NEW k \in 1 .. n PROVE BlockStep(r[k - 1], r[k], ch[k]) /\ ch[k].height = k
    <2>1. k - 1 \in 0 .. n /\ k \in 0 .. n /\ (k - 1) + 1 = k
      BY <1>1
    <2>2. Sound(r[k - 1]) /\ r[k - 1].height = k - 1 /\ IsBlock(ch[k])
          /\ r[k] = ApplyBlock(r[k - 1], ch[k]) /\ r[k] # NoLedger
      BY <1>1, <1>2, <1>4, <1>5, <2>1
    <2>3. BlockStep(r[k - 1], r[k], ch[k])
      BY <2>2, ApplyBlockKnown
    <2> QED BY <2>1, <2>2, <2>3 DEF BlockStep
  <1> QED BY <1>1, <1>5, <1>6 DEF n, r

\* Along a chain challenges only advance and accounts stay known.
LEMMA ReplaysGrow ==
    ASSUME NEW ch, IsChain(ch), Replay(ch) # NoLedger, NEW j \in 0 .. Len(ch)
    PROVE  \A k \in 0 .. Len(ch) : j <= k =>
               /\ Replays(ch)[j].challenge <= Replays(ch)[k].challenge
               /\ Known(Replays(ch)[j]) \subseteq Known(Replays(ch)[k])
  <1> DEFINE n == Len(ch)
             r == Replays(ch)
             Good(k) == j <= k => /\ r[j].challenge <= r[k].challenge
                                  /\ Known(r[j]) \subseteq Known(r[k])
             T == {k \in 0 .. n : Good(k)}
  <1>1. /\ n \in Nat
        /\ \A k \in 0 .. n : Sound(r[k])
        /\ \A k \in 1 .. n : BlockStep(r[k - 1], r[k], ch[k])
    BY ReplaysSound
  <1> HIDE DEF n, r
  <1>2. \A k \in 0 .. n : r[k].challenge \in Nat
    BY <1>1 DEF Sound, IsLedger
  <1>3. j \in 0 .. n
    BY DEF n
  <1>4. Good(j)
    BY <1>2, <1>3
  <1>5. 0 \in T
    <2>1. j # 0 => Good(0)
      BY <1>3
    <2>2. Good(0)
      BY <1>4, <2>1
    <2> HIDE DEF Good
    <2> QED BY <1>1, <2>2
  <1>6. ASSUME NEW k \in 0 .. n, k < n, k \in T PROVE k + 1 \in T
    <2>1. k + 1 \in 1 .. n /\ (k + 1) - 1 = k /\ k + 1 \in 0 .. n
      BY <1>1, <1>6
    <2>2. BlockStep(r[k], r[k + 1], ch[k + 1])
      BY <1>1, <2>1
    <2>3. r[k].challenge <= r[k + 1].challenge /\ Known(r[k]) \subseteq Known(r[k + 1])
      BY <2>2 DEF BlockStep, ClaimsRun
    <2>4. r[j].challenge \in Nat /\ r[k].challenge \in Nat /\ r[k + 1].challenge \in Nat
      BY <1>2, <1>3, <2>1
    <2>5. Good(k + 1)
      <3>1. CASE j <= k
        BY <1>6, <2>3, <2>4, <3>1
      <3>2. CASE j = k + 1
        BY <1>4, <3>2
      <3>3. CASE j > k + 1
        BY <1>3, <2>1, <3>3
      <3> QED BY <1>3, <2>1, <3>1, <3>2, <3>3
    <2> HIDE DEF Good
    <2> QED BY <2>1, <2>5
  <1>7. \A k \in 0 .. n : k \in T
    <2> HIDE DEF T
    <2>1. \A m \in 0 .. n : m < n /\ m \in T => m + 1 \in T
      BY <1>6
    <2> QED BY <1>1, <1>5, <2>1, IntervalInduction
  <1> QED BY <1>7 DEF n, r

\* The block that rewarded the challenge before id is unique, and exists for
\* every challenge reached.
LEMMA IssuersUnique ==
    ASSUME NEW ch, IsChain(ch), NEW l, IsLedger(l), ClaimsCounted(ch, l), NEW id
    PROVE  /\ \A k \in Issuers(ch, id) : Issuers(ch, id) = {k} /\ k \in 1 .. Len(ch)
           /\ id \in 1 .. l.challenge => Issuers(ch, id) # {}
  <1> DEFINE P == {p \in Places(ch) : At(ch, p).action = "claim"}
             w == [p \in Places(ch) |-> At(ch, p).challenge]
  <1>1. Tally(P, w, l.challenge) /\ l.challenge \in Nat
    BY DEF ClaimsCounted, IsLedger
  <1>2. Len(ch) \in Nat /\ DOMAIN ch = 1 .. Len(ch)
        /\ \A k \in 1 .. Len(ch) : ch[k].txs \in Seq(Transactions)
    BY DEF IsChain, IsBlock
  <1>3. \A k : k \in Issuers(ch, id) <=>
               \E i : <<k, i>> \in P /\ w[<<k, i>>] + 1 = id
    <2>1. \A k, i : <<k, i>> \in Places(ch) <=> k \in DOMAIN ch /\ i \in DOMAIN ch[k].txs
      BY DEF Places
    <2>2. \A k, i : At(ch, <<k, i>>) = ch[k].txs[i]
      BY DEF At
    <2>3. \A k, i : <<k, i>> \in Places(ch) => w[<<k, i>>] = ch[k].txs[i].challenge
      BY <2>2
    <2>4. ASSUME NEW k, k \in Issuers(ch, id) PROVE \E i : <<k, i>> \in P /\ w[<<k, i>>] + 1 = id
      <3>1. PICK tx \in ClaimsOf(ch[k]) : tx.challenge + 1 = id
        BY <2>4 DEF Issuers
      <3>2. PICK i \in DOMAIN ch[k].txs : tx = ch[k].txs[i]
        BY DEF ClaimsOf, ToSet
      <3>3. k \in DOMAIN ch /\ tx.action = "claim"
        BY <2>4 DEF Issuers, ClaimsOf
      <3>4. <<k, i>> \in Places(ch)
        BY <2>1, <3>3
      <3>5. <<k, i>> \in P /\ w[<<k, i>>] + 1 = id
        <4> HIDE DEF w
        <4> QED BY <2>2, <2>3, <3>1, <3>2, <3>3, <3>4
      <3> HIDE DEF P, w
      <3> QED BY <3>5
    <2>5. ASSUME NEW k, NEW i, <<k, i>> \in P, w[<<k, i>>] + 1 = id PROVE k \in Issuers(ch, id)
      <3>1. k \in DOMAIN ch /\ i \in DOMAIN ch[k].txs /\ ch[k].txs[i].action = "claim"
        BY <2>1, <2>2, <2>5
      <3>2. ch[k].txs[i].challenge + 1 = id
        BY <2>3, <2>5
      <3>3. ch[k].txs[i] \in ClaimsOf(ch[k])
        BY <3>1 DEF ClaimsOf, ToSet
      <3> QED BY <3>1, <3>2, <3>3 DEF Issuers
    <2> HIDE DEF P, w
    <2> QED BY <2>4, <2>5
  <1>4. \A p \in P : p = <<p[1], p[2]>> /\ p[1] \in 1 .. Len(ch) /\ p[2] \in Nat
    <2>1. \A k \in 1 .. Len(ch) : DOMAIN ch[k].txs \subseteq Nat
      BY <1>2
    <2> QED BY <1>2, <2>1 DEF Places
  <1>5. \A p \in P : w[p] \in 0 .. l.challenge - 1
    <2> HIDE DEF P, w
    <2> QED BY <1>1 DEF Tally
  <1> HIDE DEF P, w
  <1>6. ASSUME NEW k \in Issuers(ch, id), NEW j \in Issuers(ch, id) PROVE k = j /\ k \in 1 .. Len(ch)
    <2>1. PICK i : <<k, i>> \in P /\ w[<<k, i>>] + 1 = id
      BY <1>3
    <2>2. PICK e : <<j, e>> \in P /\ w[<<j, e>>] + 1 = id
      BY <1>3
    <2>3. w[<<k, i>>] \in Int /\ w[<<j, e>>] \in Int
      BY <1>1, <1>5, <2>1, <2>2
    <2>4. w[<<k, i>>] = w[<<j, e>>]
      BY <2>1, <2>2, <2>3
    <2>5. ~Precedes(<<k, i>>, <<j, e>>) /\ ~Precedes(<<j, e>>, <<k, i>>)
      BY <1>1, <2>1, <2>2, <2>3, <2>4 DEF Tally
    <2>6. k \in 1 .. Len(ch) /\ j \in 1 .. Len(ch)
      BY <1>4, <2>1, <2>2
    <2> QED BY <2>5, <2>6 DEF Precedes
  <1>7. ASSUME id \in 1 .. l.challenge PROVE Issuers(ch, id) # {}
    <2>1. id - 1 \in 0 .. l.challenge - 1 /\ (id - 1) + 1 = id
      BY <1>1, <1>7
    <2>2. PICK p \in P : w[p] = id - 1
      BY <1>1, <2>1 DEF Tally
    <2>3. p = <<p[1], p[2]>> /\ w[p] + 1 = id
      BY <1>4, <2>1, <2>2
    <2>4. <<p[1], p[2]>> \in P /\ w[<<p[1], p[2]>>] + 1 = id
      BY <2>3, Zenon
    <2> QED BY <1>3, <2>4
  <1> QED BY <1>6, <1>7

\* No transaction is in a chain twice.
LEMMA ExecutedOnce ==
    ASSUME NEW ch, IsChain(ch), NEW l, IsLedger(l), NoncesCounted(ch, l),
           NEW k \in 1 .. Len(ch), NEW j \in 1 .. Len(ch),
           NEW i \in DOMAIN ch[k].txs, NEW e \in DOMAIN ch[j].txs, ch[k].txs[i] = ch[j].txs[e]
    PROVE  k = j /\ i = e
  <1> DEFINE a == ch[k].txs[i].sender
             P == {p \in Places(ch) : At(ch, p).sender = a}
             w == [p \in Places(ch) |-> At(ch, p).nonce]
  <1>1. DOMAIN ch = 1 .. Len(ch) /\ \A x \in 1 .. Len(ch) : ch[x].txs \in Seq(Transactions)
    BY DEF IsChain, IsBlock
  <1>2. i \in Nat /\ e \in Nat /\ ch[k].txs[i] \in Transactions
    BY <1>1
  <1>3. a \in Addresses
    BY <1>2, NodeAssumption
  <1>4. Tally(P, w, l.accounts[a].nonce)
    BY <1>3 DEF NoncesCounted
  <1>5. <<k, i>> \in Places(ch) /\ <<j, e>> \in Places(ch)
    BY <1>1 DEF Places
  <1>6. At(ch, <<k, i>>) = ch[k].txs[i] /\ At(ch, <<j, e>>) = ch[k].txs[i]
    BY DEF At
  <1>7. <<k, i>> \in P /\ <<j, e>> \in P /\ w[<<k, i>>] = w[<<j, e>>]
    BY <1>5, <1>6
  <1>8. w[<<k, i>>] \in Int
    <2>1. ch[k].txs[i].nonce \in Nat
      BY <1>2, NodeAssumption
    <2> QED BY <1>5, <1>6, <2>1
  <1> HIDE DEF P, w
  <1>9. ~Precedes(<<k, i>>, <<j, e>>) /\ ~Precedes(<<j, e>>, <<k, i>>)
    BY <1>4, <1>7, <1>8 DEF Tally
  <1> QED BY <1>2, <1>9 DEF Precedes

-------------------------------------------------------------------------------
(* The transaction rows of a chain *)

\* A chain that replays, with its claims and nonces in order.
Replayed(ch) ==
    /\ IsChain(ch) /\ Replay(ch) # NoLedger
    /\ ClaimsCounted(ch, Replay(ch)) /\ NoncesCounted(ch, Replay(ch))

RowsOf(ch, k) == TransactionRows(Replays(ch)[k - 1], ch[k])
RowsUpTo(ch, k) == UNION {RowsOf(ch, j) : j \in 1 .. k}

\* The ledgers of a replayed chain.
LEMMA ReplayedFacts ==
    ASSUME NEW ch, Replayed(ch)
    PROVE  /\ Len(ch) \in Nat /\ DOMAIN ch = 1 .. Len(ch)
           /\ \A k \in 1 .. Len(ch) : ch[k].txs \in Seq(Transactions) /\ ch[k].height = k
           /\ \A k \in 0 .. Len(ch) : IsLedger(Replays(ch)[k]) /\ Replays(ch)[k].height = k
           /\ Replay(ch) = Replays(ch)[Len(ch)] /\ IsLedger(Replay(ch))
  <1> DEFINE n == Len(ch)
             r == Replays(ch)
  <1>1. /\ n \in Nat /\ DOMAIN ch = 1 .. n
        /\ \A k \in 0 .. n : Sound(r[k]) /\ r[k].height = k
        /\ \A k \in 1 .. n : BlockStep(r[k - 1], r[k], ch[k]) /\ ch[k].height = k
    BY ReplaysSound DEF Replayed
  <1>2. Replay(ch) = r[n]
    BY DEF Replay
  <1> HIDE DEF n, r
  <1>3. \A k \in 1 .. n : ch[k].txs \in Seq(Transactions)
    BY <1>1 DEF BlockStep, IsBlock
  <1>4. \A k \in 0 .. n : IsLedger(r[k])
    BY <1>1 DEF Sound
  <1>5. IsLedger(r[n])
    BY <1>1, <1>4
  <1> QED BY <1>1, <1>2, <1>3, <1>4, <1>5 DEF n, r

\* A row names its place in the chain.
LEMMA RowFacts ==
    ASSUME NEW ch, Replayed(ch), NEW k \in 1 .. Len(ch)
    PROVE  /\ \A row \in RowsOf(ch, k) :
                 /\ row.height = k /\ row.index \in DOMAIN ch[k].txs
                 /\ row.id = ch[k].txs[row.index] /\ row.recipient = Recipient(row.id)
           /\ \A i \in DOMAIN ch[k].txs :
                 \E row \in RowsOf(ch, k) : row.index = i /\ row.id = ch[k].txs[i]
           /\ \A row, new \in RowsOf(ch, k) : row.index = new.index => row = new
           /\ IsFiniteSet(RowsOf(ch, k))
  <1> DEFINE txs == ch[k].txs
             l == Replays(ch)[k - 1]
             h == ch[k].height
             Row(i) == [id |-> txs[i], height |-> h, index |-> i,
                        recipient |-> Recipient(txs[i]),
                        amount |-> Amount(States(l, txs, h)[i - 1], txs[i])]
             rows == {Row(i) : i \in DOMAIN txs}
             f == [i \in DOMAIN txs |-> Row(i)]
  <1>1. h = k /\ txs \in Seq(Transactions)
    BY ReplayedFacts
  <1>2. RowsOf(ch, k) = rows
    BY DEF RowsOf, TransactionRows
  <1>3. \A i \in DOMAIN txs : /\ Row(i).height = k /\ Row(i).index = i /\ Row(i).id = txs[i]
                              /\ Row(i).recipient = Recipient(txs[i])
    BY <1>1
  <1> HIDE DEF Row
  <1>4. IsFiniteSet(rows)
    <2>1. DOMAIN txs = 1 .. Len(txs) /\ Len(txs) \in Nat
      BY <1>1
    <2>2. IsFiniteSet(DOMAIN txs)
      <3>1. 1 \in Int /\ Len(txs) \in Int
        BY <2>1
      <3>2. IsFiniteSet(1 .. Len(txs))
        BY <3>1, FS_Interval, Zenon
      <3> QED BY <2>1, <3>2, Zenon
    <2>3. f \in Surjection(DOMAIN txs, rows)
      BY DEF Surjection
    <2> HIDE DEF f, rows, txs
    <2> QED BY <2>2, <2>3, FS_Surjection
  <1> QED BY <1>2, <1>3, <1>4

\* The rows of a chain, one block after another.
LEMMA RowsUpToSteps ==
    ASSUME NEW ch, NEW k \in Nat
    PROVE  /\ RowsUpTo(ch, 0) = {}
           /\ k > 0 => RowsUpTo(ch, k) = RowsUpTo(ch, k - 1) \cup RowsOf(ch, k)
  <1>1. \A j : j \notin 1 .. 0
    OBVIOUS
  <1>2. k > 0 => \A j : j \in 1 .. k <=> j \in 1 .. k - 1 \/ j = k
    OBVIOUS
  <1> QED BY <1>1, <1>2 DEF RowsUpTo

\* The rows up to a block are finitely many, and an id has one of them.
LEMMA RowsUpToFacts ==
    ASSUME NEW ch, Replayed(ch), NEW k \in 0 .. Len(ch)
    PROVE  /\ IsFiniteSet(RowsUpTo(ch, k))
           /\ \A row \in RowsUpTo(ch, k) : row.height \in 1 .. k /\ row \in RowsOf(ch, row.height)
           /\ \A row, new \in RowsUpTo(ch, k) : row.id = new.id => row = new
  <1> DEFINE n == Len(ch)
             T == {m \in 0 .. n : IsFiniteSet(RowsUpTo(ch, m))}
  <1>1. n \in Nat
    BY ReplayedFacts
  <1>2. 0 \in T
    BY <1>1, RowsUpToSteps, FS_EmptySet
  <1>3. ASSUME NEW m \in 0 .. n, m < n, m \in T PROVE m + 1 \in T
    <2>1. m + 1 \in 1 .. n /\ m + 1 \in 0 .. n /\ (m + 1) - 1 = m /\ m + 1 \in Nat /\ m + 1 > 0
      BY <1>1, <1>3
    <2>2. RowsUpTo(ch, m + 1) = RowsUpTo(ch, m) \cup RowsOf(ch, m + 1)
      BY <2>1, RowsUpToSteps
    <2>3. IsFiniteSet(RowsOf(ch, m + 1)) /\ IsFiniteSet(RowsUpTo(ch, m))
      BY <1>3, <2>1, RowFacts
    <2>4. IsFiniteSet(RowsUpTo(ch, m) \cup RowsOf(ch, m + 1))
      BY <2>3, FS_Union, Zenon
    <2>5. IsFiniteSet(RowsUpTo(ch, m + 1))
      BY <2>2, <2>4, Zenon
    <2> QED BY <2>1, <2>5
  <1>4. \A m \in 0 .. n : m \in T
    <2> HIDE DEF T, n
    <2>1. \A m \in 0 .. n : m < n /\ m \in T => m + 1 \in T
      BY <1>3
    <2> QED BY <1>1, <1>2, <2>1, IntervalInduction
  <1>5. ASSUME NEW row \in RowsUpTo(ch, k)
        PROVE  row.height \in 1 .. k /\ row \in RowsOf(ch, row.height)
    <2>1. PICK j \in 1 .. k : row \in RowsOf(ch, j)
      BY DEF RowsUpTo
    <2>2. j \in 1 .. Len(ch)
      BY <1>1
    <2>3. row.height = j
      BY <2>1, <2>2, RowFacts
    <2> QED BY <2>1, <2>3
  <1>6. ASSUME NEW row \in RowsUpTo(ch, k), NEW new \in RowsUpTo(ch, k), row.id = new.id
        PROVE  row = new
    <2> DEFINE a == row.height
               b == new.height
    <2>1. a \in 1 .. Len(ch) /\ b \in 1 .. Len(ch) /\ row \in RowsOf(ch, a) /\ new \in RowsOf(ch, b)
      BY <1>1, <1>5
    <2>2. /\ row.index \in DOMAIN ch[a].txs /\ row.id = ch[a].txs[row.index]
          /\ new.index \in DOMAIN ch[b].txs /\ new.id = ch[b].txs[new.index]
      BY <2>1, RowFacts
    <2>3. IsChain(ch) /\ IsLedger(Replay(ch)) /\ NoncesCounted(ch, Replay(ch))
      BY ReplayedFacts DEF Replayed
    <2> HIDE DEF a, b
    <2>4. ch[a].txs[row.index] = ch[b].txs[new.index]
      BY <1>6, <2>2
    <2>5. a = b /\ row.index = new.index
      BY <2>1, <2>2, <2>3, <2>4, ExecutedOnce
    <2> QED BY <2>1, <2>5, RowFacts
  <1> QED BY <1>4, <1>5, <1>6

\* An account is known when a row names it.
LEMMA KnownIsNamed ==
    ASSUME NEW ch, Replayed(ch)
    PROVE  \A k \in 0 .. Len(ch) :
               Known(Replays(ch)[k]) = {a \in Addresses : AddressTransactions(RowsUpTo(ch, k), a) # {}}
  <1> DEFINE n == Len(ch)
             r == Replays(ch)
             Seen(k) == {a \in Addresses : AddressTransactions(RowsUpTo(ch, k), a) # {}}
             T == {k \in 0 .. n : Known(r[k]) = Seen(k)}
  <1>1. /\ n \in Nat
        /\ \A k \in 1 .. n : BlockStep(r[k - 1], r[k], ch[k])
    BY ReplaysSound DEF Replayed
  <1>2. r[0] = Genesis
    BY <1>1, ReplaysSteps
  <1>3. 0 \in T
    <2>1. Known(Genesis) = {}
      BY DEF Known
    <2>2. RowsUpTo(ch, 0) = {}
      BY RowsUpToSteps
    <2>3. Seen(0) = {}
      BY <2>2 DEF AddressTransactions
    <2> HIDE DEF r, Seen
    <2>4. Known(r[0]) = Seen(0) /\ 0 \in 0 .. n
      BY <1>1, <1>2, <2>1, <2>3
    <2> QED BY <2>4
  <1>4. ASSUME NEW k \in 0 .. n, k < n, k \in T PROVE k + 1 \in T
    <2>1. k + 1 \in 1 .. n /\ (k + 1) - 1 = k /\ k + 1 \in 0 .. n /\ k + 1 \in Nat /\ k + 1 > 0
      BY <1>1, <1>4
    <2>2. Known(r[k + 1]) = Known(r[k]) \cup NamedIn(ch[k + 1].txs)
      <3> HIDE DEF r
      <3>1. BlockStep(r[k], r[k + 1], ch[k + 1])
        BY <1>1, <2>1
      <3> QED BY <3>1 DEF BlockStep
    <2>3. RowsUpTo(ch, k + 1) = RowsUpTo(ch, k) \cup RowsOf(ch, k + 1)
      BY <2>1, RowsUpToSteps
    <2>4. /\ \A row \in RowsOf(ch, k + 1) :
                 /\ row.index \in DOMAIN ch[k + 1].txs
                 /\ row.id = ch[k + 1].txs[row.index] /\ row.recipient = Recipient(row.id)
          /\ \A i \in DOMAIN ch[k + 1].txs :
                 \E row \in RowsOf(ch, k + 1) : row.index = i /\ row.id = ch[k + 1].txs[i]
      BY <2>1, RowFacts
    <2>5. DOMAIN ch[k + 1].txs = 1 .. Len(ch[k + 1].txs)
      <3>1. ch[k + 1].txs \in Seq(Transactions)
        BY <2>1, ReplayedFacts
      <3> QED BY <3>1
    <2>6. \A a \in Addresses : a \in NamedIn(ch[k + 1].txs) <=>
                                   \E row \in RowsOf(ch, k + 1) : Names(row, a)
      BY <2>4, <2>5 DEF NamedIn, Named, Names
    <2>7. Seen(k + 1) = Seen(k) \cup NamedIn(ch[k + 1].txs)
      <3>1. \A a \in Addresses : a \in Seen(k + 1) <=> \E row \in RowsUpTo(ch, k + 1) : Names(row, a)
        BY DEF AddressTransactions
      <3>2. \A a \in Addresses : a \in Seen(k) <=> \E row \in RowsUpTo(ch, k) : Names(row, a)
        BY DEF AddressTransactions
      <3>3. Seen(k + 1) \subseteq Addresses /\ Seen(k) \subseteq Addresses
            /\ NamedIn(ch[k + 1].txs) \subseteq Addresses
        BY DEF NamedIn
      <3> HIDE DEF Seen
      <3> QED BY <2>3, <2>6, <3>1, <3>2, <3>3
    <2> HIDE DEF Seen, r
    <2> QED BY <1>4, <2>1, <2>2, <2>7
  <1>5. \A k \in 0 .. n : k \in T
    <2> HIDE DEF T, n
    <2>1. \A m \in 0 .. n : m < n /\ m \in T => m + 1 \in T
      BY <1>4
    <2> QED BY <1>1, <1>3, <2>1, IntervalInduction
  <1> HIDE DEF Seen
  <1>6. \A k \in 0 .. n : Known(r[k]) = Seen(k)
    BY <1>5
  <1> QED BY <1>6 DEF Seen, n, r

CountUpTo(ch, k, a) == Cardinality(AddressTransactions(RowsUpTo(ch, k), a))

\* A block adds the rows that name an account to its count.
LEMMA CountsAdd ==
    ASSUME NEW ch, Replayed(ch), NEW k \in 1 .. Len(ch), NEW a \in Addresses
    PROVE  /\ CountUpTo(ch, k, a) = CountUpTo(ch, k - 1, a) + Activity(RowsOf(ch, k), a)
           /\ a \notin Known(Replays(ch)[k - 1]) => CountUpTo(ch, k - 1, a) = 0
  <1> DEFINE A == AddressTransactions(RowsUpTo(ch, k - 1), a)
             B == AddressTransactions(RowsOf(ch, k), a)
  <1>1. /\ k - 1 \in 0 .. Len(ch) /\ k \in Nat /\ k > 0 /\ k \in 0 .. Len(ch)
        /\ RowsUpTo(ch, k) = RowsUpTo(ch, k - 1) \cup RowsOf(ch, k)
    <2>1. Len(ch) \in Nat
      BY ReplayedFacts
    <2>2. k - 1 \in 0 .. Len(ch) /\ k \in Nat /\ k > 0 /\ k \in 0 .. Len(ch)
      BY <2>1
    <2> QED BY <2>2, RowsUpToSteps
  <1>2. AddressTransactions(RowsUpTo(ch, k), a) = A \cup B
    BY <1>1 DEF AddressTransactions
  <1>3. IsFiniteSet(A) /\ IsFiniteSet(B)
    <2>1. IsFiniteSet(RowsUpTo(ch, k - 1)) /\ IsFiniteSet(RowsOf(ch, k))
      BY <1>1, RowsUpToFacts, RowFacts
    <2>2. A \in SUBSET RowsUpTo(ch, k - 1) /\ B \in SUBSET RowsOf(ch, k)
      BY DEF AddressTransactions
    <2> HIDE DEF A, B
    <2> QED BY <2>1, <2>2, FS_Subset, Zenon
  <1>4. A \cap B = {}
    <2>1. \A row \in RowsUpTo(ch, k - 1) : row.height \in 1 .. k - 1
      BY <1>1, RowsUpToFacts
    <2>2. \A row \in RowsOf(ch, k) : row.height = k
      BY RowFacts
    <2>3. k \notin 1 .. k - 1
      BY <1>1
    <2> QED BY <2>1, <2>2, <2>3 DEF AddressTransactions
  <1>5. a \notin Known(Replays(ch)[k - 1]) => A = {}
    <2>1. Known(Replays(ch)[k - 1]) =
              {x \in Addresses : AddressTransactions(RowsUpTo(ch, k - 1), x) # {}}
      BY <1>1, KnownIsNamed
    <2> QED BY <2>1
  <1> HIDE DEF A, B
  <1>6. /\ Cardinality(A) \in Nat /\ Cardinality(B) \in Nat
        /\ Cardinality(A \cup B) = Cardinality(A) + Cardinality(B) - Cardinality(A \cap B)
    BY <1>3, FS_Union, FS_CardinalityType
  <1>7. Cardinality(A \cap B) = 0 /\ Cardinality({}) = 0
    BY <1>4, FS_EmptySet, Zenon
  <1>8. Cardinality(A \cup B) = Cardinality(A) + Cardinality(B)
    BY <1>6, <1>7
  <1>9. /\ CountUpTo(ch, k, a) = Cardinality(A \cup B) /\ CountUpTo(ch, k - 1, a) = Cardinality(A)
        /\ Activity(RowsOf(ch, k), a) = Cardinality(B)
    BY <1>2 DEF CountUpTo, Activity, A, B
  <1> QED BY <1>5, <1>7, <1>8, <1>9

-------------------------------------------------------------------------------
(* What the explorer tables hold *)

\* The block the metadata is about.
TipHeight(t) == IF t.meta = NoMeta THEN 0 ELSE t.meta.tip.height

\* The row's place in the chain holds the row's transaction.
Placed(ch, row) ==
    /\ row.height \in DOMAIN ch /\ row.index \in DOMAIN ch[row.height].txs
    /\ ch[row.height].txs[row.index] = row.id

IssuedOK(ch, open) == IF open.id = 0 THEN open.issued = 0 ELSE Issuers(ch, open.id) = {open.issued}

\* The tables say nothing wrong about the chain, whatever is missing.
Shown(ch, t) ==
    /\ t \in [txs : {t.txs}, accounts : {t.accounts}, meta : {t.meta}]
    /\ \A row \in t.txs : Placed(ch, row)
    /\ TipHeight(t) \in 0 .. Len(ch)
    /\ DOMAIN t.accounts = Known(Replays(ch)[TipHeight(t)])
    /\ \A a \in DOMAIN t.accounts :
          t.accounts[a] = AccountRow(Replays(ch)[TipHeight(t)], a, t.accounts[a].count)
    /\ t.meta # NoMeta =>
          /\ t.meta \in [tip : {t.meta.tip}, supply : Nat, challenge : {t.meta.challenge}]
          /\ t.meta.challenge # Malformed => IssuedOK(ch, t.meta.challenge)

\* The tables say everything about the first k blocks.
Complete(ch, t, k) ==
    /\ t.txs = RowsUpTo(ch, k)
    /\ t.accounts = [a \in Known(Replays(ch)[k]) |->
                        AccountRow(Replays(ch)[k], a, CountUpTo(ch, k, a))]
    /\ k = 0 => t.meta = NoMeta
    /\ k # 0 => t.meta # NoMeta /\ t.meta.tip = ch[k] /\ t.meta.supply = Replays(ch)[k].supply

\* p is t with block b persisted, whose rows are given.
Persists(p, t, l, next, b, blocks, rows) ==
    /\ p = Persisted(t, l, next, b, blocks) /\ rows = TransactionRows(l, b)
    /\ next.supply \in Nat /\ DOMAIN t.accounts \subseteq Known(next)

\* What persist_finalized writes.
LEMMA PersistedFields ==
    ASSUME NEW p, NEW t, NEW l, NEW next, NEW b, NEW blocks, NEW rows,
           Persists(p, t, l, next, b, blocks, rows)
    PROVE  /\ p \in [txs : {p.txs}, accounts : {p.accounts}, meta : {p.meta}]
           /\ p.txs = rows \cup {row \in t.txs : \A new \in rows : row.id # new.id}
           /\ p.accounts = ChangedAccounts(t, next, rows)
           /\ p.meta # NoMeta
           /\ p.meta \in [tip : {p.meta.tip}, supply : Nat, challenge : {p.meta.challenge}]
           /\ p.meta.tip = b /\ p.meta.supply = next.supply
           /\ p.meta.challenge.id = next.challenge
           /\ p.meta.challenge.issued = IssuedHeight(t, next, b, blocks)
  <1> DEFINE x == rows \cup {row \in t.txs : \A new \in rows : row.id # new.id}
             y == Upserted(ChangedAccounts(t, next, rows), t.accounts)
             c == [id |-> next.challenge, issued |-> IssuedHeight(t, next, b, blocks)]
             m == [tip |-> b, supply |-> next.supply, challenge |-> c]
  <1>1. p = [txs |-> x, accounts |-> y, meta |-> m]
    BY DEF Persisted, Persists
  <1>2. y = ChangedAccounts(t, next, rows)
    <2>1. DOMAIN ChangedAccounts(t, next, rows) = Known(next)
          /\ ChangedAccounts(t, next, rows) = [a \in Known(next) |-> ChangedAccounts(t, next, rows)[a]]
      BY DEF ChangedAccounts
    <2>2. Known(next) \cup DOMAIN t.accounts = Known(next)
      BY DEF Persists
    <2> QED BY <2>1, <2>2 DEF Upserted
  <1>3. c.id = next.challenge /\ c.issued = IssuedHeight(t, next, b, blocks)
    OBVIOUS
  <1> HIDE DEF x, y, c
  <1>4. /\ m # NoMeta /\ m \in [tip : {m.tip}, supply : Nat, challenge : {m.challenge}]
        /\ m.tip = b /\ m.supply = next.supply /\ m.challenge = c
    <2>1. next.supply \in Nat
      BY DEF Persists
    <2>2. m.supply # NoMeta.supply
      BY <2>1 DEF NoMeta
    <2> QED BY <2>1, <2>2
  <1> HIDE DEF m
  <1>5. p.txs = x /\ p.accounts = y /\ p.meta = m
        /\ p \in [txs : {p.txs}, accounts : {p.accounts}, meta : {p.meta}]
    BY <1>1
  <1> QED BY <1>2, <1>3, <1>4, <1>5 DEF x

\* Persisting the block after a complete prefix makes a complete prefix: no row is
\* overwritten, and no count is lost or added twice.
LEMMA PersistComplete ==
    ASSUME NEW ch, Replayed(ch), NEW k \in 1 .. Len(ch), NEW t, Complete(ch, t, k - 1),
           NEW blocks, NEW p,
           p = Persisted(t, Replays(ch)[k - 1], Replays(ch)[k], ch[k], blocks)
    PROVE  Complete(ch, p, k)
  <1> DEFINE l == Replays(ch)[k - 1]
             next == Replays(ch)[k]
             rows == RowsOf(ch, k)
  <1>1. /\ k - 1 \in 0 .. Len(ch) /\ k \in 0 .. Len(ch) /\ k - 1 <= k /\ k # 0
        /\ k \in Nat /\ k > 0
    <2>1. Len(ch) \in Nat
      BY ReplayedFacts
    <2> QED BY <2>1
  <1>2. IsLedger(next)
    BY <1>1, ReplayedFacts
  <1>3. next.supply \in Nat
    BY <1>2 DEF IsLedger
  <1>4. Known(l) \subseteq Known(next)
    BY <1>1, ReplaysGrow DEF Replayed
  <1>5. DOMAIN t.accounts = Known(l)
    BY DEF Complete
  <1>6. TransactionRows(l, ch[k]) = rows
    BY DEF RowsOf
  <1>7. /\ p.txs = rows \cup {row \in t.txs : \A new \in rows : row.id # new.id}
        /\ p.accounts = ChangedAccounts(t, next, rows)
        /\ p.meta # NoMeta /\ p.meta.tip = ch[k] /\ p.meta.supply = next.supply
    <2> HIDE DEF rows, l, next
    <2>1. p = Persisted(t, l, next, ch[k], blocks)
      BY DEF l, next
    <2>2. Persists(p, t, l, next, ch[k], blocks, rows)
      BY <1>3, <1>4, <1>5, <1>6, <2>1 DEF Persists
    <2> QED BY <2>2, PersistedFields
  <1>8. p.txs = RowsUpTo(ch, k)
    <2>1. RowsUpTo(ch, k) = RowsUpTo(ch, k - 1) \cup rows
      BY <1>1, RowsUpToSteps
    <2>2. t.txs = RowsUpTo(ch, k - 1)
      BY DEF Complete
    <2>3. \A row \in RowsUpTo(ch, k - 1) : row.height \in 1 .. k - 1
      BY <1>1, RowsUpToFacts
    <2>4. \A row \in rows : row.height = k
      BY RowFacts
    <2>5. \A row, new \in RowsUpTo(ch, k) : row.id = new.id => row = new
      BY <1>1, RowsUpToFacts
    <2>6. k \notin 1 .. k - 1
      BY <1>1
    <2> HIDE DEF rows
    <2>7. \A row \in RowsUpTo(ch, k - 1), new \in rows : row.id # new.id
      <3> SUFFICES ASSUME NEW row \in RowsUpTo(ch, k - 1), NEW new \in rows, row.id = new.id
                   PROVE  FALSE
        OBVIOUS
      <3>1. row = new
        BY <2>1, <2>5
      <3> QED BY <2>3, <2>4, <2>6, <3>1
    <2> QED BY <1>7, <2>1, <2>2, <2>7
  <1>9. \A a \in Known(next) : StoredCount(t, a) + Activity(rows, a) = CountUpTo(ch, k, a)
    <2> SUFFICES ASSUME NEW a \in Known(next)
                 PROVE  StoredCount(t, a) + Activity(rows, a) = CountUpTo(ch, k, a)
      OBVIOUS
    <2>1. a \in Addresses
      BY DEF Known
    <2>2. /\ CountUpTo(ch, k, a) = CountUpTo(ch, k - 1, a) + Activity(rows, a)
          /\ a \notin Known(l) => CountUpTo(ch, k - 1, a) = 0
      BY <2>1, CountsAdd
    <2>3. a \in Known(l) => StoredCount(t, a) = CountUpTo(ch, k - 1, a)
      BY <1>5 DEF StoredCount, Complete, AccountRow
    <2>4. a \notin Known(l) => StoredCount(t, a) = 0
      BY <1>5 DEF StoredCount
    <2> HIDE DEF rows, l
    <2>5. StoredCount(t, a) = CountUpTo(ch, k - 1, a)
      BY <2>2, <2>3, <2>4
    <2> QED BY <2>2, <2>5
  <1>10. p.accounts = [a \in Known(next) |-> AccountRow(next, a, CountUpTo(ch, k, a))]
    <2> HIDE DEF rows, next
    <2> QED BY <1>7, <1>9 DEF ChangedAccounts
  <1> QED BY <1>1, <1>7, <1>8, <1>10 DEF Complete

\* The issuing block of the challenge that is open after block k: the block itself
\* if it rewarded a claim, otherwise the one the scan of the stored blocks finds.
IssuerOf(ch, k, id) ==
    /\ id \in Nat
    /\ ClaimsOf(ch[k]) # {} => id # 0 /\ Issuers(ch, id) = {k}
    /\ id # 0 => \E x : Issuers(ch, id) = {x}

\* The open challenge was issued once, by the block of the last claim.
LEMMA OpenChallenge ==
    ASSUME NEW ch, Replayed(ch), NEW k \in 1 .. Len(ch)
    PROVE  IssuerOf(ch, k, Replays(ch)[k].challenge)
  <1> DEFINE id == Replays(ch)[k].challenge
             l == Replays(ch)[k - 1]
             m == Replays(ch)[k]
             txs == ch[k].txs
             K == {i \in 1 .. Len(txs) : txs[i].action = "claim"}
  <1>1. /\ Len(ch) \in Nat /\ DOMAIN ch = 1 .. Len(ch)
        /\ IsLedger(Replay(ch)) /\ Replay(ch) = Replays(ch)[Len(ch)]
    BY ReplayedFacts
  <1>2. k - 1 \in 0 .. Len(ch) /\ k \in 0 .. Len(ch) /\ Len(ch) \in 0 .. Len(ch) /\ k <= Len(ch)
    BY <1>1
  <1>3. IsLedger(l) /\ IsLedger(m) /\ txs \in Seq(Transactions)
    BY <1>2, ReplayedFacts
  <1>4. l.challenge \in Nat /\ m.challenge \in Nat /\ Replay(ch).challenge \in Nat
    BY <1>1, <1>3 DEF IsLedger
  <1>5. m.challenge <= Replay(ch).challenge
    <2>1. IsChain(ch) /\ Replay(ch) # NoLedger
      BY DEF Replayed
    <2>2. Replays(ch)[k].challenge <= Replays(ch)[Len(ch)].challenge
      BY <1>2, <2>1, ReplaysGrow
    <2> QED BY <1>1, <2>2
  <1>6. /\ \A j \in Issuers(ch, id) : Issuers(ch, id) = {j}
        /\ id \in 1 .. Replay(ch).challenge => Issuers(ch, id) # {}
    <2>1. IsChain(ch) /\ ClaimsCounted(ch, Replay(ch))
      BY DEF Replayed
    <2> QED BY <1>1, <2>1, IssuersUnique
  <1>7. ASSUME ClaimsOf(ch[k]) # {} PROVE id # 0 /\ Issuers(ch, id) = {k}
    <2>1. {txs[i].challenge : i \in K} = l.challenge .. m.challenge - 1
      <3>1. BlockStep(l, m, ch[k])
        BY ReplaysSound DEF Replayed
      <3> HIDE DEF l, m
      <3> QED BY <3>1 DEF BlockStep, ClaimsRun
    <2>2. DOMAIN txs = 1 .. Len(txs)
      BY <1>3
    <2>3. K # {}
      BY <1>7, <2>2 DEF ClaimsOf, ToSet
    <2> HIDE DEF l, m, txs
    <2>4. PICK i \in K : TRUE
      BY <2>3
    <2>5. txs[i].challenge \in l.challenge .. m.challenge - 1
      BY <2>1, <2>4
    <2>6. m.challenge - 1 \in l.challenge .. m.challenge - 1 /\ m.challenge # 0
      BY <1>4, <2>5
    <2>7. PICK j \in K : txs[j].challenge = m.challenge - 1
      BY <2>1, <2>6
    <2>8. txs[j] \in ClaimsOf(ch[k]) /\ txs[j].challenge + 1 = m.challenge
      <3>1. j \in DOMAIN txs /\ txs[j].action = "claim"
        BY <2>2, <2>7
      <3>2. txs[j].challenge + 1 = m.challenge
        BY <1>4, <2>7
      <3> QED BY <3>1, <3>2 DEF ClaimsOf, ToSet, txs
    <2>9. k \in Issuers(ch, id)
      BY <1>1, <2>8 DEF Issuers, m
    <2> QED BY <1>6, <2>6, <2>9 DEF m
  <1>8. ASSUME id # 0 PROVE \E x : Issuers(ch, id) = {x}
    <2>1. id \in 1 .. Replay(ch).challenge
      BY <1>4, <1>5, <1>8
    <2>2. PICK x : x \in Issuers(ch, id)
      BY <1>6, <2>1
    <2> QED BY <1>6, <2>2
  <1> QED BY <1>4, <1>7, <1>8 DEF IssuerOf

\* Persisting a block at or beyond the tip of the tables leaves them true.
LEMMA PersistShown ==
    ASSUME NEW ch, Replayed(ch), NEW k \in 1 .. Len(ch), NEW t, Shown(ch, t), TipHeight(t) <= k,
           NEW blocks,
           ClaimsOf(ch[k]) = {} => Issuers(blocks, Replays(ch)[k].challenge) =
                                   Issuers(ch, Replays(ch)[k].challenge),
           NEW p, p = Persisted(t, Replays(ch)[k - 1], Replays(ch)[k], ch[k], blocks)
    PROVE  Shown(ch, p)
  <1> DEFINE l == Replays(ch)[k - 1]
             next == Replays(ch)[k]
             rows == RowsOf(ch, k)
             j == TipHeight(t)
             id == next.challenge
  <1>1. /\ Len(ch) \in Nat /\ DOMAIN ch = 1 .. Len(ch) /\ k \in 0 .. Len(ch)
        /\ IsLedger(next) /\ next.height = k /\ ch[k].height = k
    <2>1. Len(ch) \in Nat
      BY ReplayedFacts
    <2>2. k \in 0 .. Len(ch)
      BY <2>1
    <2> QED BY <2>2, ReplayedFacts
  <1>2. j \in 0 .. Len(ch) /\ DOMAIN t.accounts = Known(Replays(ch)[j])
    BY DEF Shown
  <1>3. DOMAIN t.accounts \subseteq Known(next)
    <2>1. IsChain(ch) /\ Replay(ch) # NoLedger
      BY DEF Replayed
    <2>2. Known(Replays(ch)[j]) \subseteq Known(Replays(ch)[k])
      BY <1>1, <1>2, <2>1, ReplaysGrow
    <2> QED BY <1>2, <2>2
  <1>4. /\ p \in [txs : {p.txs}, accounts : {p.accounts}, meta : {p.meta}]
        /\ p.txs = rows \cup {row \in t.txs : \A new \in rows : row.id # new.id}
        /\ p.accounts = ChangedAccounts(t, next, rows)
        /\ p.meta # NoMeta
        /\ p.meta \in [tip : {p.meta.tip}, supply : Nat, challenge : {p.meta.challenge}]
        /\ p.meta.tip = ch[k]
        /\ p.meta.challenge.id = id
        /\ p.meta.challenge.issued = IssuedHeight(t, next, ch[k], blocks)
    <2>1. next.supply \in Nat
      BY <1>1 DEF IsLedger
    <2>2. TransactionRows(l, ch[k]) = rows
      BY DEF RowsOf
    <2> HIDE DEF rows, next, l
    <2>3. p = Persisted(t, l, next, ch[k], blocks)
      BY DEF l, next
    <2>4. Persists(p, t, l, next, ch[k], blocks, rows)
      BY <1>3, <2>1, <2>2, <2>3 DEF Persists
    <2> QED BY <2>4, PersistedFields
  <1>5. \A row \in p.txs : Placed(ch, row)
    <2>1. \A row \in rows : /\ row.height = k /\ row.index \in DOMAIN ch[k].txs
                            /\ row.id = ch[k].txs[row.index]
      BY RowFacts
    <2>2. \A row \in rows : Placed(ch, row)
      BY <1>1, <2>1 DEF Placed
    <2>3. \A row \in t.txs : Placed(ch, row)
      BY DEF Shown
    <2> HIDE DEF rows
    <2> QED BY <1>4, <2>2, <2>3
  <1>6. TipHeight(p) = k
    BY <1>1, <1>4 DEF TipHeight
  <1>7. /\ DOMAIN p.accounts = Known(next)
        /\ \A a \in Known(next) : p.accounts[a] = AccountRow(next, a, p.accounts[a].count)
    <2> HIDE DEF rows, next
    <2> QED BY <1>4 DEF ChangedAccounts, AccountRow
  <1>8. IssuedOK(ch, p.meta.challenge)
    <2>1. /\ id \in Nat
          /\ ClaimsOf(ch[k]) # {} => id # 0 /\ Issuers(ch, id) = {k}
          /\ id # 0 => \E x : Issuers(ch, id) = {x}
      <3>1. IssuerOf(ch, k, id)
        BY OpenChallenge
      <3> QED BY <3>1 DEF IssuerOf
    <2>2. CASE ClaimsOf(ch[k]) # {}
      <3>1. p.meta.challenge.issued = k
        BY <1>1, <1>4, <2>2 DEF IssuedHeight
      <3> QED BY <1>4, <2>1, <2>2, <3>1 DEF IssuedOK
    <2>3. CASE ClaimsOf(ch[k]) = {} /\ Remembered(t, next)
      <3>1. /\ t.meta # NoMeta /\ t.meta.challenge # Malformed
            /\ t.meta.challenge.id = id
        BY <2>3 DEF Remembered
      <3>2. p.meta.challenge.issued = t.meta.challenge.issued
        BY <1>4, <2>3 DEF IssuedHeight
      <3>3. IssuedOK(ch, t.meta.challenge)
        BY <3>1 DEF Shown
      <3> HIDE DEF next
      <3> QED BY <1>4, <3>1, <3>2, <3>3 DEF IssuedOK
    <2>4. CASE ClaimsOf(ch[k]) = {} /\ ~Remembered(t, next)
      <3>1. p.meta.challenge.issued = CanonicalIssued(blocks, id, next.height)
        BY <1>4, <2>4 DEF IssuedHeight
      <3>2. Issuers(blocks, id) = Issuers(ch, id)
        BY <2>4
      <3>3. CASE id = 0
        BY <1>4, <3>1, <3>3 DEF CanonicalIssued, IssuedOK
      <3>4. CASE id # 0
        <4>1. PICK x : Issuers(ch, id) = {x}
          BY <2>1, <3>4
        <4>2. x \in DOMAIN ch
          BY <4>1 DEF Issuers
        <4>3. Max({x}) = x
          <5>1. x \in Int
            BY <1>1, <4>2
          <5> QED BY <5>1 DEF Max
        <4> HIDE DEF next
        <4>4. CanonicalIssued(blocks, id, next.height) = x
          BY <3>2, <3>4, <4>1, <4>3 DEF CanonicalIssued
        <4> QED BY <1>4, <3>1, <3>4, <4>1, <4>4 DEF IssuedOK
      <3> QED BY <3>3, <3>4
    <2> QED BY <2>2, <2>3, <2>4
  <1> HIDE DEF next
  <1>9. next = Replays(ch)[TipHeight(p)]
    BY <1>6 DEF next
  <1> QED BY <1>1, <1>4, <1>5, <1>6, <1>7, <1>8, <1>9 DEF Shown

\* One block more leaves what was said of the blocks before.
Extended(ch, new, b) ==
    /\ new = Append(ch, b) /\ Replayed(ch) /\ Replayed(new)

\* A chain and its extension share their blocks, ledgers and rows.
LEMMA ExtendedFacts ==
    ASSUME NEW ch, NEW new, NEW b, Extended(ch, new, b)
    PROVE  /\ Len(ch) \in Nat /\ Len(new) = Len(ch) + 1 /\ new[Len(ch) + 1] = b
           /\ DOMAIN ch = 1 .. Len(ch) /\ DOMAIN new = 1 .. Len(ch) + 1
           /\ \A k \in 1 .. Len(ch) : new[k] = ch[k]
           /\ \A k \in 0 .. Len(ch) : Replays(new)[k] = Replays(ch)[k]
           /\ \A k \in 0 .. Len(ch) : RowsUpTo(new, k) = RowsUpTo(ch, k)
  <1> DEFINE n == Len(ch)
  <1>1. PICK B : ch \in Seq(B)
    BY DEF Extended, Replayed, IsChain
  <1>2. ch \in Seq(B \cup {b}) /\ b \in B \cup {b}
    BY <1>1
  <1>3. /\ n \in Nat /\ Len(new) = n + 1 /\ new[n + 1] = b
        /\ DOMAIN ch = 1 .. n /\ DOMAIN new = 1 .. n + 1
        /\ \A k \in 1 .. n : new[k] = ch[k]
    BY <1>2 DEF Extended
  <1>4. Agree(new, ch, n)
    BY <1>3 DEF Agree
  <1>5. \A k \in 0 .. n : Replays(new)[k] = Replays(ch)[k]
    BY <1>4, ReplaysPrefix
  <1> HIDE DEF n
  <1>6. \A k \in 1 .. n : RowsOf(new, k) = RowsOf(ch, k)
    <2> SUFFICES ASSUME NEW k \in 1 .. n PROVE RowsOf(new, k) = RowsOf(ch, k)
      OBVIOUS
    <2>1. k - 1 \in 0 .. n
      BY <1>3
    <2> QED BY <1>3, <1>5, <2>1 DEF RowsOf
  <1>7. ASSUME NEW k \in 0 .. n PROVE RowsUpTo(new, k) = RowsUpTo(ch, k)
    <2>1. \A j \in 1 .. k : j \in 1 .. n
      BY <1>3
    <2>2. \A j \in 1 .. k : RowsOf(new, j) = RowsOf(ch, j)
      BY <1>6, <2>1
    <2> QED BY <2>2 DEF RowsUpTo
  <1> QED BY <1>3, <1>5, <1>7 DEF n

\* The issuers of a challenge, with one more block.
LEMMA IssuersGrow ==
    ASSUME NEW ch, NEW new, NEW b, Extended(ch, new, b), NEW id
    PROVE  /\ ClaimsOf(b) = {} => Issuers(ch, id) = Issuers(new, id)
           /\ \A k : Issuers(ch, id) = {k} => Issuers(new, id) = {k}
  <1>1. /\ Len(ch) \in Nat /\ new[Len(ch) + 1] = b
        /\ DOMAIN ch = 1 .. Len(ch) /\ DOMAIN new = 1 .. Len(ch) + 1
        /\ \A k \in 1 .. Len(ch) : new[k] = ch[k]
    BY ExtendedFacts
  <1>2. \A k : k \in DOMAIN new <=> k \in DOMAIN ch \/ k = Len(ch) + 1
    BY <1>1
  <1>3. \A k \in DOMAIN ch : k \in Issuers(ch, id) <=> k \in Issuers(new, id)
    BY <1>1, <1>2 DEF Issuers
  <1>4. Issuers(ch, id) \subseteq DOMAIN ch /\ Issuers(new, id) \subseteq DOMAIN new
    BY DEF Issuers
  <1>5. ClaimsOf(b) = {} => Len(ch) + 1 \notin Issuers(new, id)
    BY <1>1 DEF Issuers
  <1>6. ClaimsOf(b) = {} => Issuers(ch, id) = Issuers(new, id)
    BY <1>2, <1>3, <1>4, <1>5
  <1>7. ASSUME NEW k, Issuers(ch, id) = {k} PROVE Issuers(new, id) = {k}
    <2>1. k \in Issuers(new, id)
      BY <1>3, <1>4, <1>7
    <2>2. IsChain(new) /\ IsLedger(Replay(new)) /\ ClaimsCounted(new, Replay(new))
      BY ReplayedFacts DEF Extended, Replayed
    <2> QED BY <2>1, <2>2, IssuersUnique
  <1> QED BY <1>6, <1>7

\* What is shown of a chain is true of its extension.
LEMMA ShownGrows ==
    ASSUME NEW ch, NEW new, NEW b, Extended(ch, new, b), NEW t
    PROVE  /\ Shown(ch, t) => Shown(new, t)
           /\ \A k \in 0 .. Len(ch) : Complete(ch, t, k) => Complete(new, t, k)
  <1>1. /\ Len(ch) \in Nat /\ Len(new) = Len(ch) + 1
        /\ DOMAIN ch = 1 .. Len(ch) /\ DOMAIN new = 1 .. Len(ch) + 1
        /\ \A k \in 1 .. Len(ch) : new[k] = ch[k]
        /\ \A k \in 0 .. Len(ch) : Replays(new)[k] = Replays(ch)[k]
        /\ \A k \in 0 .. Len(ch) : RowsUpTo(new, k) = RowsUpTo(ch, k)
    BY ExtendedFacts
  <1>2. ASSUME Shown(ch, t) PROVE Shown(new, t)
    <2>1. TipHeight(t) \in 0 .. Len(ch)
      BY <1>2 DEF Shown
    <2>2. TipHeight(t) \in 0 .. Len(new) /\ Replays(new)[TipHeight(t)] = Replays(ch)[TipHeight(t)]
      BY <1>1, <2>1
    <2>3. \A row : Placed(ch, row) => Placed(new, row)
      BY <1>1 DEF Placed
    <2>4. \A open : IssuedOK(ch, open) => IssuedOK(new, open)
      BY IssuersGrow DEF IssuedOK
    <2> QED BY <1>2, <2>2, <2>3, <2>4 DEF Shown
  <1>3. ASSUME NEW k \in 0 .. Len(ch), Complete(ch, t, k) PROVE Complete(new, t, k)
    <2>1. Replays(new)[k] = Replays(ch)[k] /\ RowsUpTo(new, k) = RowsUpTo(ch, k)
      BY <1>1
    <2>2. \A a : CountUpTo(new, k, a) = CountUpTo(ch, k, a)
      BY <2>1 DEF CountUpTo
    <2>3. k # 0 => new[k] = ch[k]
      BY <1>1
    <2> QED BY <1>3, <2>1, <2>2, <2>3 DEF Complete
  <1> QED BY <1>2, <1>3

-------------------------------------------------------------------------------
(* The explorer beside the node *)

Phases == {"up", "stopped", "clear", "refresh", "persist", "verify", "failed"}

\* The tables are true at any time; they are complete up to the block the rebuild
\* has reached, and for the whole chain when they are trusted.  The rebuild has
\* repaired the derived columns it has passed.
TablesInv ==
    /\ Shown(chain, tables)
    /\ stale \subseteq 1 .. Len(chain)
    /\ phase \in Phases
    /\ phase \in {"refresh", "persist"} =>
          /\ position \in 1 .. Len(chain) /\ Complete(chain, tables, position - 1)
          /\ \A k \in 1 .. position - 1 : k \notin stale
    /\ phase = "persist" => position \notin stale
    /\ phase = "verify" => Complete(chain, tables, Len(chain)) /\ stale = {}
    /\ trusted => /\ phase \in {"up", "stopped", "clear"}
                  /\ Complete(chain, tables, Len(chain)) /\ stale = {}
    /\ phase = "failed" => damaged # 0

ExplorerInv == LedgerInv /\ TablesInv

ChainReplayed ==
    /\ Replayed(chain) /\ Len(chain) \in Nat /\ DOMAIN chain = 1 .. Len(chain)
    /\ ledger = Replays(chain)[Len(chain)]

\* A chain under the ledger invariant replays.
LEMMA LedgerReplayed == LedgerInv => ChainReplayed
  <1> SUFFICES ASSUME LedgerInv PROVE ChainReplayed
    OBVIOUS
  <1>1. IsLedger(ledger) /\ Replay(chain) = ledger /\ IsChain(chain)
        /\ ClaimsCounted(chain, ledger) /\ NoncesCounted(chain, ledger)
    BY DEF LedgerInv, Sound, ReplayReproduces
  <1>2. ledger # NoLedger
    BY <1>1, IsLedgerNotNone
  <1>3. Replayed(chain)
    BY <1>1, <1>2 DEF Replayed
  <1> QED BY <1>1, <1>3, ReplayedFacts DEF Replay, ChainReplayed

\* The same in the next state.
LEMMA LedgerReplayedNext == LedgerInv' => ChainReplayed'
  BY LedgerReplayed, PTL

\* Empty tables are true and complete for no block.
LEMMA EmptyShown ==
    ASSUME NEW ch, Replayed(ch)
    PROVE  Shown(ch, EmptyTables) /\ Complete(ch, EmptyTables, 0)
  <1>1. Len(ch) \in Nat /\ Replays(ch)[0] = Genesis
    <2>1. Len(ch) \in Nat
      BY ReplayedFacts
    <2> QED BY <2>1, ReplaysSteps
  <1>2. Known(Genesis) = {} /\ RowsUpTo(ch, 0) = {}
    BY RowsUpToSteps DEF Known
  <1>3. /\ EmptyTables.txs = {} /\ EmptyTables.accounts = <<>> /\ EmptyTables.meta = NoMeta
        /\ EmptyTables \in [txs : {EmptyTables.txs}, accounts : {EmptyTables.accounts},
                            meta : {EmptyTables.meta}]
    BY DEF EmptyTables
  <1>4. TipHeight(EmptyTables) = 0 /\ DOMAIN (<<>>) = {}
    BY <1>3 DEF TipHeight
  <1>5. Shown(ch, EmptyTables)
    BY <1>1, <1>2, <1>3, <1>4 DEF Shown
  <1>6. <<>> = [a \in {} |-> AccountRow(Genesis, a, CountUpTo(ch, 0, a))]
    OBVIOUS
  <1>7. Complete(ch, EmptyTables, 0)
    BY <1>1, <1>2, <1>3, <1>6 DEF Complete
  <1> QED BY <1>5, <1>7

\* The initial states satisfy the explorer invariant.
LEMMA ExplorerInitHolds == ExplorerInit => ExplorerInv
  <1> SUFFICES ASSUME ExplorerInit PROVE ExplorerInv
    OBVIOUS
  <1>1. LedgerInv
    BY InitHolds DEF ExplorerInit
  <1>2. Replayed(chain)
    BY <1>1, LedgerReplayed DEF ChainReplayed
  <1>3. chain = <<>> /\ tables = EmptyTables /\ stale = {} /\ phase = "up"
    BY DEF ExplorerInit, Init
  <1>4. Len(chain) = 0
    BY <1>3
  <1>5. Shown(chain, tables) /\ Complete(chain, tables, Len(chain))
    BY <1>2, <1>3, <1>4, EmptyShown
  <1> QED BY <1>1, <1>3, <1>5 DEF ExplorerInv, TablesInv, Phases

\* A step of the node: the block it finalizes, if any, is projected.
LEMMA NodeStepHolds ==
    ASSUME ExplorerInv, LedgerInv', NodeStep
    PROVE  TablesInv'
  <1>1. /\ Next /\ phase = "up"
        /\ UNCHANGED <<phase, position, stale, damaged, faults, trusted>>
        /\ tables' = IF chain' = chain THEN tables
                     ELSE Persisted(tables, ledger, ledger', Last(chain'), chain)
    BY DEF NodeStep
  <1>2. Shown(chain, tables) /\ stale \subseteq 1 .. Len(chain)
        /\ (trusted => Complete(chain, tables, Len(chain)) /\ stale = {})
    BY DEF ExplorerInv, TablesInv
  <1>3. CASE chain' = chain
    BY <1>1, <1>2, <1>3 DEF TablesInv, Phases
  <1>4. CASE chain' # chain
    <2>1. PICK b : chain' = Append(chain, b)
      BY <1>1, <1>4 DEF Next, CommitFinalized, ProduceStandalone, AcceptTransaction,
                        BuildConsensusProposal, BeginSync, Restart
    <2> DEFINE n == Len(chain)
               new == chain'
               k == n + 1
    <2>2. /\ Replayed(chain) /\ n \in Nat /\ ledger = Replays(chain)[n]
          /\ Replayed(new) /\ ledger' = Replays(new)[Len(new)]
      BY LedgerReplayed, LedgerReplayedNext DEF ExplorerInv, ChainReplayed
    <2>3. Extended(chain, new, b)
      BY <2>1, <2>2 DEF Extended
    <2>4. /\ Len(new) = k /\ new[k] = b
          /\ \A i \in 0 .. n : Replays(new)[i] = Replays(chain)[i]
      BY <2>3, ExtendedFacts
    <2>5. k \in 1 .. Len(new) /\ k - 1 = n /\ n \in 0 .. n
      BY <2>2, <2>4
    <2>6. Last(new) = b
      BY <2>4 DEF Last
    <2>7. ledger = Replays(new)[k - 1] /\ ledger' = Replays(new)[k]
      BY <2>2, <2>4, <2>5
    <2>8. tables' = Persisted(tables, Replays(new)[k - 1], Replays(new)[k], new[k], chain)
      BY <1>1, <1>4, <2>4, <2>6, <2>7
    <2>9. Shown(new, tables) /\ (trusted => Complete(new, tables, k - 1))
      BY <1>2, <2>3, <2>5, ShownGrows
    <2>10. TipHeight(tables) <= k
      BY <1>2, <2>2 DEF Shown
    <2>11. ClaimsOf(new[k]) = {} => Issuers(chain, Replays(new)[k].challenge) =
                                    Issuers(new, Replays(new)[k].challenge)
      BY <2>3, <2>4, IssuersGrow
    <2> HIDE DEF k, n
    <2>12. Shown(new, tables')
      BY <2>2, <2>5, <2>8, <2>9, <2>10, <2>11, PersistShown
    <2>13. trusted => Complete(new, tables', k)
      BY <2>2, <2>5, <2>8, <2>9, PersistComplete
    <2>14. stale' \subseteq 1 .. Len(new)
      BY <1>1, <1>2, <2>2, <2>4 DEF k, n
    <2> QED BY <1>1, <1>2, <2>4, <2>12, <2>13, <2>14 DEF TablesInv, Phases
  <1> QED BY <1>3, <1>4

\* A challenge entry that cannot be read is not a wrong one.
LEMMA SpoilChallengeHolds ==
    ASSUME ExplorerInv, SpoilChallenge
    PROVE  TablesInv'
  <1> DEFINE t == tables
             c == t.meta.challenge
             m == [t.meta EXCEPT !.challenge = Malformed]
             new == [t EXCEPT !.meta = m]
  <1>1. /\ phase = "stopped" /\ t.meta # NoMeta
        /\ tables' = new /\ trusted' = FALSE /\ UNCHANGED <<chain, phase, position, stale, damaged>>
    BY DEF SpoilChallenge, vars
  <1>2. Shown(chain, t) /\ stale \subseteq 1 .. Len(chain)
    BY DEF ExplorerInv, TablesInv
  <1>3. /\ t \in [txs : {t.txs}, accounts : {t.accounts}, meta : {t.meta}]
        /\ t.meta \in [tip : {t.meta.tip}, supply : Nat, challenge : {c}]
    BY <1>1, <1>2 DEF Shown
  <1> HIDE DEF t, c
  <1>4. /\ m.tip = t.meta.tip /\ m.supply = t.meta.supply /\ m.challenge = Malformed
        /\ m \in [tip : {m.tip}, supply : Nat, challenge : {m.challenge}] /\ m.supply \in Nat
    BY <1>3
  <1>5. m # NoMeta
    <2>1. m.supply # NoMeta.supply
      BY <1>4 DEF NoMeta
    <2> QED BY <2>1
  <1> HIDE DEF m
  <1>6. /\ new.txs = t.txs /\ new.accounts = t.accounts /\ new.meta = m
        /\ new \in [txs : {new.txs}, accounts : {new.accounts}, meta : {new.meta}]
    BY <1>3
  <1> HIDE DEF new
  <1>7. TipHeight(new) = TipHeight(t)
    BY <1>1, <1>4, <1>5, <1>6 DEF TipHeight
  <1>8. Shown(chain, new)
    BY <1>2, <1>4, <1>5, <1>6, <1>7 DEF Shown
  <1> QED BY <1>1, <1>2, <1>8 DEF TablesInv, Phases

\* The rebuild projects its block: the tables are complete for one block more.
LEMMA PersistRebuiltHolds ==
    ASSUME ExplorerInv, PersistRebuilt
    PROVE  TablesInv'
  <1> DEFINE k == position
             n == Len(chain)
  <1>1. /\ phase = "persist" /\ Shown(chain, tables) /\ stale \subseteq 1 .. n
        /\ k \in 1 .. n /\ Complete(chain, tables, k - 1) /\ ~trusted
        /\ k \notin stale /\ \A j \in 1 .. k - 1 : j \notin stale
    BY DEF ExplorerInv, TablesInv, PersistRebuilt
  <1>2. /\ tables' = Persisted(tables, Replays(chain)[k - 1], Replays(chain)[k], chain[k], chain)
        /\ position' = k + 1 /\ phase' = RebuildFrom(k + 1)
        /\ UNCHANGED <<chain, stale, damaged, trusted>>
    BY <1>1 DEF PersistRebuilt, LedgerAt, vars
  <1>3. Replayed(chain) /\ n \in Nat
    BY LedgerReplayed DEF ExplorerInv, ChainReplayed
  <1>4. TipHeight(tables) <= k
    <2>1. CASE k - 1 = 0
      <3>1. tables.meta = NoMeta
        BY <1>1, <2>1 DEF Complete
      <3> QED BY <1>1, <3>1 DEF TipHeight
    <2>2. CASE k - 1 # 0
      <3>1. k - 1 \in 1 .. n
        BY <1>1, <1>3, <2>2
      <3>2. tables.meta # NoMeta /\ tables.meta.tip = chain[k - 1]
        BY <1>1, <2>2 DEF Complete
      <3>3. chain[k - 1].height = k - 1
        BY <1>3, <3>1, ReplayedFacts
      <3>4. TipHeight(tables) = k - 1
        BY <3>2, <3>3 DEF TipHeight
      <3> QED BY <1>1, <3>4
    <2> QED BY <2>1, <2>2
  <1>5. Shown(chain, tables')
    BY <1>1, <1>2, <1>3, <1>4, PersistShown
  <1>6. Complete(chain, tables', k)
    BY <1>1, <1>2, <1>3, PersistComplete
  <1>7. \A j \in 1 .. k : j \notin stale
    <2>1. \A j \in 1 .. k : j \in 1 .. k - 1 \/ j = k
      BY <1>1
    <2> QED BY <1>1, <2>1
  <1>8. CASE k + 1 > n
    <2>1. k = n /\ phase' = "verify"
      BY <1>1, <1>2, <1>3, <1>8 DEF RebuildFrom
    <2>2. stale = {}
      BY <1>1, <1>7, <2>1
    <2> QED BY <1>1, <1>2, <1>5, <1>6, <2>1, <2>2 DEF TablesInv, Phases
  <1>9. CASE ~(k + 1 > n)
    <2>1. k + 1 \in 1 .. n /\ (k + 1) - 1 = k /\ phase' = "refresh"
      BY <1>1, <1>2, <1>3, <1>9 DEF RebuildFrom
    <2> QED BY <1>1, <1>2, <1>5, <1>6, <1>7, <2>1 DEF TablesInv, Phases
  <1> QED BY <1>8, <1>9

\* The rebuild's last step finds nothing wrong unless a block is spoiled.
LEMMA VerifyRebuiltHolds ==
    ASSUME ExplorerInv, VerifyRebuilt
    PROVE  TablesInv'
  <1> DEFINE n == Len(chain)
  <1>1. /\ phase = "verify" /\ Shown(chain, tables) /\ stale = {}
        /\ Complete(chain, tables, n)
        /\ UNCHANGED <<chain, tables, stale, damaged>>
    BY DEF ExplorerInv, TablesInv, VerifyRebuilt, vars
  <1>2. Replayed(chain) /\ n \in Nat /\ DOMAIN chain = 1 .. n
    BY LedgerReplayed DEF ExplorerInv, ChainReplayed
  <1>3. CASE Verified
    <2>1. phase' = "stopped"
      BY <1>3 DEF VerifyRebuilt
    <2> QED BY <1>1, <2>1 DEF TablesInv, Phases
  <1>4. CASE ~Verified
    <2>1. phase' = "failed" /\ ~trusted'
      BY <1>4 DEF VerifyRebuilt
    <2>2. Replay(chain) # NoLedger /\ Replay(chain) = Replays(chain)[n]
      BY <1>2, ReplayedFacts DEF Replayed
    <2>3. n = 0 => chain = <<>>
      <3>1. PICK B : chain \in Seq(B)
        BY <1>2 DEF Replayed, IsChain
      <3> QED BY <3>1
    <2>4. n # 0 => /\ tables.meta # NoMeta /\ tables.meta.tip = Last(chain)
                   /\ tables.meta.supply = Replay(chain).supply
      BY <1>1, <2>2 DEF Complete, Last
    <2>5. damaged # 0
      BY <1>1, <1>4, <2>2, <2>3, <2>4 DEF Verified
    <2> QED BY <1>1, <2>1, <2>5 DEF TablesInv, Phases
  <1> QED BY <1>3, <1>4

\* Every step keeps the explorer invariant.
LEMMA ExplorerNextHolds == ExplorerInv /\ [ExplorerNext]_explorerVars => ExplorerInv'
  <1> SUFFICES ASSUME ExplorerInv, [ExplorerNext]_explorerVars PROVE ExplorerInv'
    OBVIOUS
  <1>1. LedgerInv'
    BY ExplorerKeepsLedgerInv DEF ExplorerInv
  <1> SUFFICES TablesInv'
    BY <1>1 DEF ExplorerInv
  <1>2. ChainReplayed /\ TablesInv
    BY LedgerReplayed DEF ExplorerInv
  <1>3. CASE UNCHANGED explorerVars
    BY <1>2, <1>3 DEF TablesInv, explorerVars, vars
  <1>4. CASE NodeStep
    BY <1>1, <1>4, NodeStepHolds
  <1>5. CASE Stop
    BY <1>2, <1>5 DEF TablesInv, Phases, Stop
  <1>6. CASE Start
    <2>1. chain' = chain /\ phase = "stopped" /\ phase' = "up"
          /\ UNCHANGED <<position, tables, stale, damaged, faults, trusted>>
      BY <1>6 DEF Start, Restart
    <2> QED BY <1>2, <2>1 DEF TablesInv, Phases
  <1>7. ASSUME NEW h \in DOMAIN chain, SpoilColumns(h) PROVE TablesInv'
    <2>1. h \in 1 .. Len(chain)
      BY <1>2 DEF ChainReplayed
    <2> QED BY <1>2, <1>7, <2>1 DEF TablesInv, Phases, SpoilColumns, vars
  <1>8. ASSUME NEW h \in DOMAIN chain, SpoilBlock(h) PROVE TablesInv'
    <2>1. h # 0
      BY <1>2 DEF ChainReplayed
    <2> QED BY <1>2, <1>8, <2>1 DEF TablesInv, SpoilBlock, vars
  <1>9. CASE SpoilChallenge
    BY <1>9, SpoilChallengeHolds
  <1>10. CASE BeginReindex
    BY <1>2, <1>10 DEF TablesInv, Phases, BeginReindex, vars
  <1>11. CASE ClearProjections
    <2>1. /\ tables' = EmptyTables /\ ~trusted' /\ position' = 1 /\ phase' = RebuildFrom(1)
          /\ UNCHANGED <<chain, stale, damaged>>
      BY <1>11 DEF ClearProjections, vars
    <2>2. Shown(chain, EmptyTables) /\ Complete(chain, EmptyTables, 0)
      BY <1>2, EmptyShown DEF ChainReplayed
    <2>3. stale \subseteq 1 .. Len(chain) /\ Len(chain) \in Nat /\ 1 - 1 = 0 /\ 1 .. 0 = {}
      BY <1>2 DEF TablesInv, ChainReplayed
    <2>4. CASE 1 > Len(chain)
      <3>1. Len(chain) = 0 /\ stale = {} /\ phase' = "verify"
        BY <2>1, <2>3, <2>4 DEF RebuildFrom
      <3> QED BY <2>1, <2>2, <3>1 DEF TablesInv, Phases
    <2>5. CASE ~(1 > Len(chain))
      <3>1. 1 \in 1 .. Len(chain) /\ phase' = "refresh"
        BY <2>1, <2>3, <2>5 DEF RebuildFrom
      <3> QED BY <2>1, <2>2, <2>3, <3>1 DEF TablesInv, Phases
    <2> QED BY <2>4, <2>5
  <1>12. CASE RefreshBlockProjection
    <2>1. /\ phase = "refresh" /\ UNCHANGED <<chain, position, tables, damaged, trusted>>
          /\ position \in 1 .. Len(chain) /\ ~trusted
      BY <1>2, <1>12 DEF RefreshBlockProjection, TablesInv, vars
    <2>2. CASE RefreshFails
      <3>1. damaged # 0
        BY <2>1, <2>2 DEF RefreshFails, ScanFails
      <3>2. phase' = "failed" /\ stale' = stale
        BY <1>12, <2>2 DEF RefreshBlockProjection
      <3> QED BY <1>2, <2>1, <3>1, <3>2 DEF TablesInv, Phases
    <2>3. CASE ~RefreshFails
      <3>1. phase' = "persist" /\ stale' = stale \ {position}
        BY <1>12, <2>3 DEF RefreshBlockProjection, Refreshed
      <3> QED BY <1>2, <2>1, <3>1 DEF TablesInv, Phases
    <2> QED BY <2>2, <2>3
  <1>13. CASE PersistRebuilt
    BY <1>13, PersistRebuiltHolds
  <1>14. CASE VerifyRebuilt
    BY <1>14, VerifyRebuiltHolds
  <1>15. CASE Interrupt
    BY <1>2, <1>15 DEF TablesInv, Phases, Interrupt, vars
  <1> QED BY <1>3, <1>4, <1>5, <1>6, <1>7, <1>8, <1>9, <1>10, <1>11, <1>12, <1>13, <1>14, <1>15
          DEF ExplorerNext

\* The inductive invariant of the explorer tables beside the node: persist_finalized
\* and the rebuild keep them true to the stored chain, whatever is spoiled.
THEOREM ExplorerInvariant == ExplorerSpec => []ExplorerInv
  BY ExplorerInitHolds, ExplorerNextHolds, PTL DEF ExplorerSpec

-------------------------------------------------------------------------------
(* What the API answers *)

\* A set of numbers has a least member.
LEMMA MinIsMember ==
    ASSUME NEW S, S \subseteq Nat, S # {}
    PROVE  Min(S) \in S
  <1> DEFINE Least(x) == x \in S /\ \A y \in S : x <= y
  <1>1. PICK x \in S : \A y \in S : ~(<<y, x>> \in OpToRel(<, Nat))
    BY NatLessThanWellFounded, WFMin, Zenon
  <1>2. \A y \in S : ~(y < x)
    BY <1>1 DEF OpToRel
  <1>3. Least(x)
    BY <1>2
  <1>4. Min(S) = CHOOSE y : Least(y)
    BY DEF Min
  <1> HIDE DEF Least
  <1>5. Least(CHOOSE y : Least(y))
    BY <1>3, Zenon
  <1> QED BY <1>4, <1>5 DEF Least

\* Leaving out what is zero leaves the sum.
LEMMA TotalRestrict ==
    ASSUME NEW S, IsFiniteSet(S), NEW U \in SUBSET S, NEW f \in [S -> Int], NEW e \in [U -> Int],
           \A x \in U : e[x] = f[x], \A x \in S \ U : f[x] = 0
    PROVE  Total(e, U) = Total(f, S)
  <1>1. IsFiniteSet(U)
    BY FS_Subset
  <1>2. PICK g : IsSum(g, f, S) /\ Total(f, S) = g[S]
    BY SumDef
  <1>3. PICK h : IsSum(h, e, U) /\ Total(e, U) = h[U]
    BY <1>1, SumDef
  <1>4. /\ g[{}] = 0 /\ \A W \in SUBSET S : g[W] \in Int
        /\ \A W \in SUBSET S, x \in S : x \in W => g[W] = f[x] + g[W \ {x}]
    BY <1>2, SumType, SumTakes
  <1>5. /\ h[{}] = 0 /\ \A W \in SUBSET U : h[W] \in Int
        /\ \A W \in SUBSET U, x \in U : x \in W => h[W] = e[x] + h[W \ {x}]
    <2>1. h[{}] = 0 /\ \A W \in SUBSET U : h[W] \in Int
      BY <1>1, <1>3, SumType
    <2>2. \A W \in SUBSET U, x \in U : x \in W => h[W] = e[x] + h[W \ {x}]
      BY <1>1, <1>3, SumTakes
    <2> QED BY <2>1, <2>2
  <1> DEFINE T == {W \in SUBSET S : g[W] = h[W \cap U]}
  <1>6. ASSUME NEW W \in SUBSET S, \A x \in W : W \ {x} \in T PROVE W \in T
    <2>1. CASE W = {}
      <3>1. W \cap U = {}
        BY <2>1
      <3>2. g[W] = h[W \cap U]
        BY <1>4, <1>5, <2>1, <3>1
      <3> QED BY <3>2
    <2>2. CASE W # {}
      <3>1. PICK x \in W : TRUE
        BY <2>2
      <3>2. x \in S /\ W \ {x} \in SUBSET S /\ g[W \ {x}] = h[(W \ {x}) \cap U]
        BY <1>6, <3>1
      <3>3. g[W] = f[x] + g[W \ {x}] /\ g[W \ {x}] \in Int
        BY <1>4, <3>1, <3>2
      <3>4. CASE x \in U
        <4>1. (W \ {x}) \cap U = (W \cap U) \ {x} /\ W \cap U \in SUBSET U /\ x \in W \cap U
          BY <3>1, <3>4
        <4>2. h[W \cap U] = e[x] + h[(W \cap U) \ {x}]
          BY <1>5, <3>4, <4>1
        <4>3. g[W] = h[W \cap U]
          <5>1. e[x] = f[x]
            BY <3>4
          <5>2. g[W \ {x}] = h[(W \cap U) \ {x}]
            BY <3>2, <4>1, Zenon
          <5> QED BY <3>3, <4>2, <5>1, <5>2
        <4> QED BY <4>3
      <3>5. CASE x \notin U
        <4>1. (W \ {x}) \cap U = W \cap U /\ f[x] = 0
          BY <3>1, <3>2, <3>5
        <4>2. g[W] = h[W \cap U]
          <5>1. g[W \ {x}] = h[W \cap U]
            BY <3>2, <4>1, Zenon
          <5>2. g[W] = g[W \ {x}]
            BY <3>3, <4>1
          <5> QED BY <5>1, <5>2
        <4> QED BY <4>2
      <3> QED BY <3>4, <3>5
    <2> QED BY <2>1, <2>2
  <1>7. S \in T
    <2> HIDE DEF T
    <2>1. \A W \in SUBSET S : (\A x \in W : W \ {x} \in T) => W \in T
      BY <1>6
    <2>2. \A W \in SUBSET S : W \in T
      BY <2>1, SubsetInduction
    <2> QED BY <2>2
  <1>8. g[S] = h[S \cap U] /\ S \cap U = U
    BY <1>7
  <1> QED BY <1>2, <1>3, <1>8

\* The balances of the known accounts are all of them.
LEMMA HeldIsSupply ==
    ASSUME NEW l, Sound(l), NEW accounts, DOMAIN accounts = Known(l),
           \A a \in Known(l) : accounts[a].balance = l.accounts[a].balance
    PROVE  MapThenSumSet(LAMBDA a : accounts[a].balance, DOMAIN accounts) = l.supply
  <1> DEFINE K == Known(l)
             f == Balances(l)
             e == [a \in K |-> f[a]]
  <1>1. IsLedger(l) /\ Total(f, Addresses) = l.supply
    BY DEF Sound
  <1>2. IsFiniteSet(Addresses) /\ f \in [Addresses -> Int]
    BY <1>1, BalancesType
  <1>3. K \in SUBSET Addresses
    BY DEF Known
  <1>4. IsFiniteSet(K)
    BY <1>2, <1>3, FS_Subset
  <1>5. \A a \in Addresses \ K : f[a] = 0
    BY DEF Known, Genesis, Balances
  <1>6. \A a \in K : f[a] = accounts[a].balance
    BY <1>3 DEF Balances
  <1> HIDE DEF f, K
  <1>7. e \in [K -> Int] /\ \A a \in K : e[a] = f[a] /\ e[a] = accounts[a].balance
    BY <1>2, <1>3, <1>6
  <1> HIDE DEF e
  <1>8. Total(e, K) = Total(f, Addresses)
    BY <1>2, <1>3, <1>5, <1>7, TotalRestrict
  <1>9. MapThenSumSet(LAMBDA a : accounts[a].balance, K) = Total(e, K)
    BY <1>4, <1>7, TotalIsMapThenSum
  <1>10. DOMAIN accounts = K
    BY DEF K
  <1> QED BY <1>1, <1>8, <1>9, <1>10

\* The invariant implies that the tables match the chain.
LEMMA InvMatches == ExplorerInv => TablesMatchChain
  <1> SUFFICES ASSUME ExplorerInv, trusted, phase \in {"up", "stopped"}
               PROVE  /\ tables.txs = ChainRows
                      /\ tables.accounts =
                             [a \in Known(ledger) |->
                                 AccountRow(ledger, a, Cardinality(AddressTransactions(ChainRows, a)))]
                      /\ stale = {}
                      /\ chain # <<>> => /\ tables.meta.tip = Last(chain)
                                         /\ tables.meta.supply = ledger.supply
                      /\ \A k \in DOMAIN chain : ServesBlock(k)
                      /\ \A a \in Known(ledger) :
                            \E tx \in ToSet(chain[FirstSeen(a)].txs) : a \in {tx.sender, Recipient(tx)}
                      /\ Held = ledger.supply
    BY DEF TablesMatchChain
  <1> DEFINE n == Len(chain)
  <1>1. /\ Replayed(chain) /\ n \in Nat /\ DOMAIN chain = 1 .. n
        /\ ledger = Replays(chain)[n] /\ Sound(ledger)
    BY LedgerReplayed DEF ExplorerInv, ChainReplayed, LedgerInv
  <1>2. Complete(chain, tables, n) /\ stale = {} /\ Shown(chain, tables)
    BY DEF ExplorerInv, TablesInv
  <1>3. ChainRows = RowsUpTo(chain, n)
    BY <1>1 DEF ChainRows, RowsUpTo, RowsOf, LedgerAt
  <1>4. tables.txs = ChainRows
    BY <1>2, <1>3 DEF Complete
  <1>5. tables.accounts = [a \in Known(ledger) |->
                 AccountRow(ledger, a, Cardinality(AddressTransactions(ChainRows, a)))]
    BY <1>1, <1>2, <1>3 DEF Complete, CountUpTo
  <1>6. chain # <<>> => tables.meta.tip = Last(chain) /\ tables.meta.supply = ledger.supply
    <2>1. chain # <<>> => n # 0
      <3>1. PICK B : chain \in Seq(B)
        BY <1>1 DEF Replayed, IsChain
      <3> QED BY <3>1
    <2> QED BY <1>1, <1>2, <2>1 DEF Complete, Last
  <1>7. \A row \in tables.txs : ServesTransaction(row)
    BY <1>2 DEF Shown, Placed, ServesTransaction
  <1>8. ASSUME NEW k \in DOMAIN chain PROVE ServesBlock(k)
    <2> SUFFICES ASSUME NEW tx \in ToSet(chain[k].txs)
                 PROVE  \E row \in tables.txs : row.id = tx /\ ServesTransaction(row)
      BY DEF ServesBlock
    <2>1. PICK i \in DOMAIN chain[k].txs : tx = chain[k].txs[i]
      BY DEF ToSet
    <2>2. k \in 1 .. Len(chain)
      BY <1>1, <1>8
    <2>3. PICK row \in RowsOf(chain, k) : row.id = chain[k].txs[i]
      BY <1>1, <2>1, <2>2, RowFacts
    <2>4. row \in RowsUpTo(chain, n)
      BY <2>2, <2>3 DEF RowsUpTo
    <2> QED BY <1>3, <1>4, <1>7, <2>1, <2>3, <2>4
  <1>9. ASSUME NEW a \in Known(ledger)
        PROVE  \E tx \in ToSet(chain[FirstSeen(a)].txs) : a \in {tx.sender, Recipient(tx)}
    <2> DEFINE rows == AddressTransactions(tables.txs, a)
               S == {row.height : row \in rows}
    <2>1. n \in 0 .. n
      BY <1>1
    <2>2. Known(ledger) = {x \in Addresses : AddressTransactions(RowsUpTo(chain, n), x) # {}}
      BY <1>1, <2>1, KnownIsNamed
    <2>3. rows # {}
      BY <1>3, <1>4, <1>9, <2>2
    <2>4. \A row \in tables.txs : row.height \in 1 .. n /\ row \in RowsOf(chain, row.height)
      BY <1>1, <1>3, <1>4, <2>1, RowsUpToFacts
    <2>5. rows \subseteq tables.txs /\ \A row \in rows : Names(row, a)
      BY DEF AddressTransactions
    <2>6. FirstSeen(a) = Min(S)
      BY DEF FirstSeen
    <2> HIDE DEF rows
    <2>7. S \subseteq Nat /\ S # {}
      BY <1>1, <2>3, <2>4, <2>5
    <2>8. Min(S) \in S
      <3> HIDE DEF S
      <3> QED BY <2>7, MinIsMember
    <2>9. PICK row \in rows : row.height = FirstSeen(a)
      BY <2>6, <2>8
    <2> DEFINE k == row.height
    <2>10. k \in 1 .. n /\ row \in RowsOf(chain, k)
      BY <2>4, <2>5, <2>9
    <2> HIDE DEF k
    <2>11. /\ row.index \in DOMAIN chain[k].txs
           /\ row.id = chain[k].txs[row.index] /\ row.recipient = Recipient(row.id)
      BY <1>1, <2>10, RowFacts
    <2>12. row.id \in ToSet(chain[k].txs) /\ a \in {row.id.sender, Recipient(row.id)}
      BY <2>5, <2>9, <2>11 DEF ToSet, Names
    <2>13. k = FirstSeen(a)
      BY <2>9 DEF k
    <2> QED BY <2>12, <2>13
  <1>10. Held = ledger.supply
    <2>1. DOMAIN tables.accounts = Known(ledger)
      BY <1>5
    <2>2. \A a \in Known(ledger) : tables.accounts[a].balance = ledger.accounts[a].balance
      BY <1>5 DEF AccountRow
    <2>3. MapThenSumSet(LAMBDA a : tables.accounts[a].balance, DOMAIN tables.accounts) = ledger.supply
      BY <1>1, <2>1, <2>2, HeldIsSupply
    <2> QED BY <2>3 DEF Held
  <1> QED BY <1>2, <1>4, <1>5, <1>6, <1>8, <1>9, <1>10

\* The invariant implies the other properties of the explorer.
LEMMA InvShown == ExplorerInv => ShownRowsAreTrue /\ ChallengeIssuedOnce /\ RebuildSucceeds
  <1> SUFFICES ASSUME ExplorerInv PROVE ShownRowsAreTrue /\ ChallengeIssuedOnce /\ RebuildSucceeds
    OBVIOUS
  <1>1. Shown(chain, tables)
    BY DEF ExplorerInv, TablesInv
  <1>2. ShownRowsAreTrue
    <2>1. \A row \in tables.txs : ServesTransaction(row)
      BY <1>1 DEF Shown, Placed, ServesTransaction
    <2>2. tables.meta # NoMeta => TipHeight(tables) = tables.meta.tip.height
      BY DEF TipHeight
    <2> QED BY <1>1, <2>1, <2>2 DEF Shown, ShownRowsAreTrue, LedgerAt
  <1>3. ChallengeIssuedOnce
    BY <1>1 DEF Shown, IssuedOK, ChallengeIssuedOnce
  <1>4. RebuildSucceeds
    BY DEF ExplorerInv, TablesInv, RebuildSucceeds
  <1> QED BY <1>2, <1>3, <1>4

\* Tables that nothing spoiled or cleared since the last full rebuild say what the
\* stored chain says: persist_finalized and reindex_store lose no row and no
\* count and add none twice, every block is served with its transactions, and the
\* leaderboard's shares add up to the supply.
THEOREM ExplorerMatchesChain == ExplorerSpec => []TablesMatchChain
  BY ExplorerInvariant, InvMatches, PTL

\* While a rebuild is under way, and on what an interrupted one left, every
\* transaction row names its place in the stored blocks and every account row is
\* the ledger's at the height in the metadata.
THEOREM ExplorerShowsTruth == ExplorerSpec => []ShownRowsAreTrue
  BY ExplorerInvariant, InvShown, PTL

\* canonical_challenge_issued_height and the remembered height agree with the one
\* block that rewarded the challenge before, whatever became of the metadata.
THEOREM ExplorerChallengeIssue == ExplorerSpec => []ChallengeIssuedOnce
  BY ExplorerInvariant, InvShown, PTL

\* reindex_store fails only over the spoiled bytes of a stored block: it repairs
\* every derived column and the metadata, and its own verification accepts them.
THEOREM ExplorerRebuilds == ExplorerSpec => []RebuildSucceeds
  BY ExplorerInvariant, InvShown, PTL

===============================================================================
