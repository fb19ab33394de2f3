------------------------------ MODULE MCConsensus -----------------------------
(***************************************************************************)
(* Instances of Consensus.  One or two honest validators run; the votes,   *)
(* proposals and certificates that faulty validators may contribute are    *)
(* bounded per run, so that the interesting locks and conflicts happen     *)
(* without every vote of every validator multiplying the state space.      *)
(***************************************************************************)
EXTENDS TimelyConsensus, TLC

Block(r, s) == [round |-> r, stamp |-> s]

Prevotes(h, r, vs, b) == {Vote("prevote", h, r, v, b) : v \in vs}
Precommits(h, r, vs, b) == {Vote("precommit", h, r, v, b) : v \in vs}

\* Two validators, the second one faulty: it backs or withholds the first
\* block and proposes another one in round 1.
RecoveryBlocks == {Block(0, 1), Block(1, 1)}
RecoveryVotes ==
    Prevotes(1, 0, {1}, Block(0, 1)) \cup Precommits(1, 0, {1}, Block(0, 1))
        \cup Prevotes(1, 1, {1}, Block(1, 1))

\* Four validators, one honest: a proof-of-lock for its own block in round 0
\* and one for another block in round 1; a block that does not execute is
\* proposed too, and one faulty validator votes twice.
LockBlocks == {Block(1, 1), Block(1, 2)}
LockVotes ==
    Prevotes(1, 0, {1, 2}, Block(0, 1)) \cup Prevotes(1, 1, {1, 2, 3}, Block(1, 1))
        \cup Prevotes(1, 0, {1}, Nil)

\* Precommits for a block whose bytes the honest validator never received.
TimerBlocks == {Block(1, 1)}
TimerVotes == Precommits(1, 1, {1, 2, 3}, Block(1, 1))

\* Four validators, the proposer of round 0 faulty: it shows its block and its
\* prevote to whom it likes.
TimelyBlocks == {Block(0, 1)}
TimelyVotes == Prevotes(1, 0, {0}, Block(0, 1))
===============================================================================
