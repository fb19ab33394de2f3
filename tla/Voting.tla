-------------------------------- MODULE Voting --------------------------------
(***************************************************************************)
(* The voting rules, seen through the durable signer slots of the honest   *)
(* validators at every height.  A vote enters `votes` when the node's      *)
(* persist_consensus_decision transaction commits; everything a validator  *)
(* keeps in memory only (round, phase, caches, timers) is left out, and    *)
(* its lock is read back from its own durable precommits.  Faulty          *)
(* validators need no votes of their own: each counts towards any quorum.  *)
(*                                                                         *)
(* Module Consensus models the engine and the node in full and is shown to *)
(* implement this specification.                                           *)
(***************************************************************************)
EXTENDS Validators

CONSTANTS
    Heights,     \* the heights voted on; they share no votes
    Blocks,      \* candidate blocks
    Nil,         \* VoteValue::Nil
    MaxRounds    \* ConsensusConfig::max_rounds_per_height

ASSUME NilAssumption == Nil \notin Blocks
ASSUME MaxRoundsAssumption == MaxRounds \in Nat \ {0}

VARIABLE votes   \* the votes the honest validators have durably signed

Rounds == 0 .. (MaxRounds - 1)
Kinds == {"prevote", "precommit"}
Votes == [kind : Kinds, height : Heights, round : Rounds, validator : Honest,
          value : Blocks \cup {Nil}]

Vote(k, h, r, v, x) ==
    [kind |-> k, height |-> h, round |-> r, validator |-> v, value |-> x]

\* quorum_votes: who is counted for value x; a faulty validator always may be.
Signers(k, h, r, x) == Faulty \cup {v \in Honest : Vote(k, h, r, v, x) \in votes}

\* A proof-of-lock for b can be assembled from the prevotes of round r.
Polc(h, r, b) == IsQuorum(Signers("prevote", h, r, b))

\* A commit certificate for b can be assembled from the precommits of round r.
Committed(h, r, b) == IsQuorum(Signers("precommit", h, r, b))

\* The decisions seen by the rest of the system.
Decided(h) == {b \in Blocks : \E r \in Rounds : Committed(h, r, b)}

\* A signer slot is used once, and slots are used in round and phase order.
SlotOpen(v, k, h, r) ==
    \A x \in votes : x.validator = v /\ x.height = h =>
        \/ x.round < r
        \/ x.round = r /\ x.kind = "prevote" /\ k = "precommit"

\* v has cast a vote in a round after r, so its slots of round r are closed.
IsPast(v, h, r) == \E x \in votes : x.validator = v /\ x.height = h /\ r < x.round

\* The block precommits of v; the latest one is its lock.
Locks(v, h) ==
    {x \in votes : /\ x.validator = v /\ x.height = h
                   /\ x.kind = "precommit" /\ x.value # Nil}

\* Wrong on purpose: the lock is not consulted.
LockAllowsAnything(v, h, r, b) == TRUE

\* Wrong on purpose: a proof-of-lock older than the lock releases it.
LockAllowsOldProof(v, h, r, b) ==
    \A x \in Locks(v, h) :
        x.value = b \/ \E vr \in Rounds : vr < r /\ Polc(h, vr, b)

\* prevote_for: what the lock lets v prevote in round r.
LockAllows(v, h, r, b) ==
    \A x \in Locks(v, h) :
        (\A y \in Locks(v, h) : y.round <= x.round) =>
            \/ x.value = b
            \/ \E vr \in Rounds : x.round < vr /\ vr < r /\ Polc(h, vr, b)

\* Wrong on purpose: the vote is filed under the next round.
CastNextRound(k, h, r, v, x) == votes' = votes \cup {Vote(k, h, r + 1, v, x)}

Cast(k, h, r, v, x) == votes' = votes \cup {Vote(k, h, r, v, x)}

-------------------------------------------------------------------------------
Init == votes = {}

Prevote(v, h, r, b) ==
    /\ SlotOpen(v, "prevote", h, r)
    /\ LockAllows(v, h, r, b)
    /\ Cast("prevote", h, r, v, b)

\* A propose timeout, or a proposal the lock forbids.
PrevoteNil(v, h, r) ==
    /\ SlotOpen(v, "prevote", h, r)
    /\ Cast("prevote", h, r, v, Nil)

Precommit(v, h, r, b) ==
    /\ SlotOpen(v, "precommit", h, r)
    /\ Polc(h, r, b)
    /\ Cast("precommit", h, r, v, b)

\* A prevote timeout, or a quorum of nil prevotes.
PrecommitNil(v, h, r) ==
    /\ SlotOpen(v, "precommit", h, r)
    /\ Cast("precommit", h, r, v, Nil)

Next ==
    \E v \in Honest, h \in Heights, r \in Rounds :
        \/ \E b \in Blocks : Prevote(v, h, r, b) \/ Precommit(v, h, r, b)
        \/ PrevoteNil(v, h, r)
        \/ PrecommitNil(v, h, r)

Spec == Init /\ [][Next]_votes

-------------------------------------------------------------------------------
\* The durable votes are votes of honest validators in rounds below the limit.
TypeOK == votes \subseteq Votes

\* Agreement: two commit certificates of a height never carry different blocks,
\* whatever the faulty validators sign.  This is what the lock, its durable
\* copy and the proof-of-lock rule of prevote_for are for.
Agreement == \A h \in Heights : \A b1, b2 \in Decided(h) : b1 = b2

\* What an honest validator has already prevoted or precommitted makes a block
\* impossible to commit in round r: some quorum's honest members have all moved
\* past the slot without precommitting it.
NeverCommits(h, r, b) ==
    IsQuorum(Faulty \cup {v \in Honest : IsPast(v, h, r)
                                       /\ Vote("precommit", h, r, v, b) \notin votes})

\* A proof-of-lock rules out, for ever, every other block in all earlier
\* rounds.  It is the invariant that lets evaluate_round accept a newer
\* proof-of-lock and prevote_for release an older lock.
PolcExcludes ==
    \A h \in Heights, r \in Rounds, b \in Blocks : Polc(h, r, b) =>
        \A r0 \in Rounds, b0 \in Blocks :
            r0 < r /\ b0 # b => NeverCommits(h, r0, b0)

\* A signer slot never holds two votes.
OneVotePerSlot ==
    \A x, y \in votes :
        /\ x.kind = y.kind /\ x.height = y.height /\ x.round = y.round
        /\ x.validator = y.validator
        => x = y

\* A block precommit rests on a proof-of-lock of its own round.
PrecommitHasPolc ==
    \A x \in votes :
        x.kind = "precommit" /\ x.value # Nil => Polc(x.height, x.round, x.value)

\* Whoever prevotes against one of its earlier block precommits does so after
\* a proof-of-lock that is newer than that precommit.
LockRespected ==
    \A x, y \in votes :
        /\ x.validator = y.validator /\ x.height = y.height /\ x.round < y.round
        /\ x.kind = "precommit" /\ y.kind = "prevote"
        /\ x.value # Nil /\ y.value # Nil /\ x.value # y.value
        => \E vr \in Rounds : x.round < vr /\ vr < y.round /\ Polc(y.height, vr, y.value)

\* The inductive invariant behind Agreement.
IInv ==
    /\ TypeOK
    /\ OneVotePerSlot
    /\ PrecommitHasPolc
    /\ LockRespected
    /\ PolcExcludes

F == INSTANCE Finality WITH decided <- [h \in Heights |-> Decided(h)]
\* The voting rules implement the abstract one-decision-per-height promise.
ImplementsFinality == F!Spec
===============================================================================
