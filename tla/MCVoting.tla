------------------------------- MODULE MCVoting -------------------------------
(***************************************************************************)
(* Four validators, one of them faulty, two blocks, three rounds: enough   *)
(* for a lock in round 0, a newer proof-of-lock for the other block in     *)
(* round 1 and the released lock voting and committing in round 2.  That   *)
(* behaviour takes nine honest votes.                                      *)
(***************************************************************************)
EXTENDS Voting, TLC

CONSTANTS
    MaxVotes,     \* bound on the honest votes of a behaviour
    NilWeight     \* bound: how many of them a nil vote counts for

FewVotes ==
    LET nils == Cardinality({x \in votes : x.value = Nil})
    IN Cardinality(votes) + (NilWeight - 1) * nils <= MaxVotes

BlockSymmetry == Permutations(Blocks)
===============================================================================
