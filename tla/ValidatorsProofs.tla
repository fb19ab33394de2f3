--------------------------- MODULE ValidatorsProofs ---------------------------
(***************************************************************************)
(* Quorum arithmetic, for any number of validators: what quorum_size       *)
(* computes, and why two quorums share an honest validator.                *)
(***************************************************************************)
EXTENDS Validators, FiniteSetTheorems, TLAPS

\* quorum_size computes floor(2N/3) + 1, as its comment says.
THEOREM QuorumSizeFormula == QuorumSize = (2 * N) \div 3 + 1
  BY NAssumption DEF QuorumSize

\* There are N validators, and each set of them is finite.
LEMMA ValidatorsFinite ==
    /\ IsFiniteSet(Validators) /\ Cardinality(Validators) = N
    /\ \A S \in SUBSET Validators :
          IsFiniteSet(S) /\ Cardinality(S) \in Nat /\ Cardinality(S) <= N
  <1>1. IsFiniteSet(Validators) /\ Cardinality(Validators) = N
    BY NAssumption, FS_Interval DEF Validators
  <1>2. ASSUME NEW S \in SUBSET Validators
        PROVE  IsFiniteSet(S) /\ Cardinality(S) \in Nat /\ Cardinality(S) <= N
    BY <1>1, FS_Subset, FS_CardinalityType
  <1> QED BY <1>1, <1>2

\* Two quorums share an honest validator.
LEMMA QuorumIntersection ==
    ASSUME FewFaulty,
           NEW Q1 \in SUBSET Validators, NEW Q2 \in SUBSET Validators,
           IsQuorum(Q1), IsQuorum(Q2)
    PROVE  \E v \in Honest : v \in Q1 /\ v \in Q2
  <1> DEFINE I == Q1 \cap Q2
  <1>1. SUFFICES ASSUME I \subseteq Faulty PROVE FALSE
    BY DEF Honest
  <1>2. Faulty \in SUBSET Validators
    BY FaultyAssumption DEF Validators
  <1>3. /\ Cardinality(Q1) \in Nat /\ Cardinality(Q2) \in Nat
        /\ Cardinality(I) \in Nat /\ Cardinality(Faulty) \in Nat
        /\ Cardinality(Q1 \cup Q2) \in Nat /\ Cardinality(Q1 \cup Q2) <= N
        /\ IsFiniteSet(Q1) /\ IsFiniteSet(Q2) /\ IsFiniteSet(Faulty)
    BY <1>2, ValidatorsFinite
  <1>4. Cardinality(Q1 \cup Q2) = Cardinality(Q1) + Cardinality(Q2) - Cardinality(I)
    BY <1>3, FS_Union
  <1>5. Cardinality(I) <= Cardinality(Faulty)
    BY <1>1, <1>3, FS_Subset
  <1>6. Cardinality(Q1) >= QuorumSize /\ Cardinality(Q2) >= QuorumSize
    BY DEF IsQuorum
  <1>7. 3 * Cardinality(Faulty) < N
    BY DEF FewFaulty
  <1> HIDE DEF I
  <1> QED BY <1>3, <1>4, <1>5, <1>6, <1>7, NAssumption DEF QuorumSize

\* Two quorums share a validator, however many validators are faulty.
LEMMA QuorumsMeet ==
    ASSUME NEW Q1 \in SUBSET Validators, NEW Q2 \in SUBSET Validators,
           IsQuorum(Q1), IsQuorum(Q2)
    PROVE  Q1 \cap Q2 # {}
  <1> SUFFICES ASSUME Q1 \cap Q2 = {} PROVE FALSE
    OBVIOUS
  <1>1. /\ Cardinality(Q1) \in Nat /\ Cardinality(Q2) \in Nat
        /\ Cardinality(Q1 \cup Q2) <= N
        /\ IsFiniteSet(Q1) /\ IsFiniteSet(Q2)
    BY ValidatorsFinite
  <1>2. Cardinality(Q1 \cap Q2) = 0
    BY FS_EmptySet
  <1>3. Cardinality(Q1 \cup Q2) = Cardinality(Q1) + Cardinality(Q2)
    <2>1. Cardinality(Q1 \cup Q2) = Cardinality(Q1) + Cardinality(Q2) - Cardinality(Q1 \cap Q2)
      BY <1>1, FS_Union
    <2> QED BY <1>1, <1>2, <2>1
  <1>4. Cardinality(Q1) >= QuorumSize /\ Cardinality(Q2) >= QuorumSize
    BY DEF IsQuorum
  <1> QED BY <1>1, <1>3, <1>4, NAssumption DEF QuorumSize

\* A superset of a quorum is a quorum.
LEMMA QuorumMonotone ==
    ASSUME NEW T \in SUBSET Validators, NEW S \in SUBSET T, IsQuorum(S)
    PROVE  IsQuorum(T)
  <1>1. IsFiniteSet(T) /\ Cardinality(T) \in Nat /\ Cardinality(S) \in Nat
    BY ValidatorsFinite
  <1>2. Cardinality(S) <= Cardinality(T)
    BY <1>1, FS_Subset
  <1> QED BY <1>1, <1>2, NAssumption DEF IsQuorum, QuorumSize
===============================================================================
