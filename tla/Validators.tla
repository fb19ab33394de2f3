------------------------------ MODULE Validators ------------------------------
(***************************************************************************)
(* The fixed, equal-power validator set of a KCoin chain: its quorums and  *)
(* its proposer rotation (kcoin-consensus types.rs, kcoin-protocol         *)
(* commit.rs).  Validators are named by their index in the genesis list.   *)
(* Faulty is the set of validators that may sign anything at all; every    *)
(* other validator runs the code of this repository.                       *)
(*                                                                         *)
(* In every module, a definition marked "wrong on purpose" is the form its *)
(* successor would have under a plausible bug; PROJECT.json names the      *)
(* property each of them breaks.                                           *)
(***************************************************************************)
EXTENDS Integers, FiniteSets

CONSTANTS
    N,        \* number of validators in the genesis list
    Faulty    \* indices of the Byzantine validators

ASSUME NAssumption == N \in Nat \ {0}
ASSUME FaultyAssumption == Faulty \subseteq 0 .. (N - 1)

Validators == 0 .. (N - 1)
Honest == Validators \ Faulty

\* Wrong on purpose: two thirds, rounded down.
QuorumSizeRoundedDown == (2 * N) \div 3

\* quorum_size: the code computes N - (N-1)/3 instead of floor(2N/3) + 1.
QuorumSize == N - ((N - 1) \div 3)

IsQuorum(S) == Cardinality(S) >= QuorumSize
Quorums == {Q \in SUBSET Validators : IsQuorum(Q)}

\* Height is one-based: validator 0 proposes height 1, round 0.
Proposer(height, round) == (height - 1 + round) % N

\* The threat model's bound: fewer than a third of the validators are faulty.
FewFaulty == 3 * Cardinality(Faulty) < N
===============================================================================
