--------------------------- MODULE ConsensusEngine ----------------------------
(***************************************************************************)
(* The deterministic consensus state machine of kcoin-consensus engine.rs, *)
(* for one validator at one height.  It owns no variables: like the code's *)
(* Consensus::step, StepEngine maps an engine state, an event and the      *)
(* block bytes the node holds to a new state, a list of effects for the    *)
(* node to perform, and whether the step returned Ok.                      *)
(*                                                                         *)
(* A step that returns Err keeps the mutations made before the error and   *)
(* loses all of its effects, exactly as the `?` operator does on           *)
(* `&mut self`.                                                            *)
(***************************************************************************)
EXTENDS Validators, Sequences

CONSTANTS
    Nil,              \* VoteValue::Nil
    None,             \* Option::None
    Stamps,           \* what tells apart the blocks built in one round
    BadStamps,        \* stamps of blocks the ledger refuses to execute
    MaxRounds,        \* ConsensusConfig::max_rounds_per_height
    MaxCachedRounds,  \* ConsensusConfig::max_cached_rounds
    MaxRoundAhead     \* ConsensusConfig::max_round_ahead

NoRound == -1    \* Option::<Round>::None

Rounds == 0 .. (MaxRounds - 1)

\* A block is identified by the round its header declares (which fixes the
\* proposer it declares) and by its contents.
Blocks == [round : Rounds, stamp : Stamps]
Executable(b) == b.stamp \notin BadStamps

ASSUME EngineAssumption ==
    /\ MaxRounds \in Nat \ {0}
    /\ MaxCachedRounds \in Nat \ {0}
    /\ MaxRoundAhead \in Nat
    /\ BadStamps \subseteq Stamps

\* ConsensusSafetyState: the row stored beside a signed decision.
SafetyStates ==
    [height : Nat, round : Rounds,
     lockedRound : Rounds \cup {NoRound}, lockedBlock : Blocks \cup {None},
     validRound : Rounds \cup {NoRound}, validBlock : Blocks \cup {None},
     validProof : SUBSET Validators]

ASSUME OptionAssumption == Nil \notin Blocks /\ None \notin Blocks \cup SafetyStates

-------------------------------------------------------------------------------
(* Messages *)

Vote(kind, h, r, v, x) ==
    [kind |-> kind, height |-> h, round |-> r, validator |-> v, value |-> x]

\* A proposal carries the signers of the prevotes that prove its valid round.
Proposal(h, r, b, validRound, proof) ==
    [kind |-> "proposal", height |-> h, round |-> r, validator |-> Proposer(h, r),
     value |-> b, validRound |-> validRound, proof |-> proof]

Certificate(h, r, b, signers) ==
    [kind |-> "certificate", height |-> h, round |-> r, value |-> b,
     signers |-> signers]

\* Two messages of one validator for one signer slot (DecisionKey).
SameSlot(m1, m2) ==
    /\ m1.kind = m2.kind /\ m1.height = m2.height /\ m1.round = m2.round
    /\ m1.validator = m2.validator

-------------------------------------------------------------------------------
(* Engine state *)

NewEngine(v, h) ==
    [id |-> v, height |-> h, round |-> 0, phase |-> "propose", started |-> FALSE,
     finalized |-> None,
     lockedRound |-> NoRound, lockedBlock |-> None,
     validRound |-> NoRound, validBlock |-> None, validProof |-> {},
     proposals |-> {}, votes |-> {}, requested |-> {},
     decisions |-> {}, pending |-> {}]

SafetyState(e) ==
    [height |-> e.height, round |-> e.round,
     lockedRound |-> e.lockedRound, lockedBlock |-> e.lockedBlock,
     validRound |-> e.validRound, validBlock |-> e.validBlock,
     validProof |-> e.validProof]

\* Wrong on purpose: a restart re-enters the last round and forgets the signer
\* slots it has used.
RestoredWithoutSlots(v, s, messages) ==
    [NewEngine(v, s.height) EXCEPT
        !.round = s.round,
        !.lockedRound = s.lockedRound, !.lockedBlock = s.lockedBlock,
        !.validRound = s.validRound, !.validBlock = s.validBlock,
        !.validProof = s.validProof]

\* Wrong on purpose: a restart forgets the lock.
RestoredWithoutLock(v, s, messages) ==
    [NewEngine(v, s.height) EXCEPT
        !.round = s.round + 1,
        !.validRound = s.validRound, !.validBlock = s.validBlock,
        !.validProof = s.validProof,
        !.decisions = messages]

\* A restart resumes in the round after the last durable decision, with the
\* lock, the valid value and the used signer slots restored.
RestoredEngine(v, s, messages) ==
    [NewEngine(v, s.height) EXCEPT
        !.round = s.round + 1,
        !.lockedRound = s.lockedRound, !.lockedBlock = s.lockedBlock,
        !.validRound = s.validRound, !.validBlock = s.validBlock,
        !.validProof = s.validProof,
        !.decisions = messages]

\* new_with_safety_state and restore_local_decision accept the stored state.
Restorable(v, h, s, messages) ==
    /\ s.height = h
    /\ s.round + 1 < MaxRounds
    /\ (s.lockedRound = NoRound) <=> (s.lockedBlock = None)
    /\ (s.validRound = NoRound) <=> (s.validBlock = None)
    /\ s.lockedRound <= s.round
    /\ IF s.validRound = NoRound
         THEN s.validProof = {}
         ELSE s.validRound <= s.round /\ IsQuorum(s.validProof)
    /\ s.lockedRound # NoRound =>
          \/ s.validRound > s.lockedRound
          \/ s.validRound = s.lockedRound /\ s.validBlock = s.lockedBlock
    /\ \A m \in messages :
          /\ m.validator = v /\ m.height = h /\ m.round <= s.round
          /\ m.kind = "proposal" => Proposer(h, m.round) = v
    /\ \A m1, m2 \in messages : SameSlot(m1, m2) => m1 = m2

-------------------------------------------------------------------------------
(* Effects.  A run is a step under way: the engine, the effects so far, and *)
(* whether the step is still Ok.                                            *)

Persist(m, e) == [type |-> "persist", msg |-> m, safety |-> SafetyState(e)]
Broadcast(m) == [type |-> "broadcast", msg |-> m]
Schedule(e, phase) ==
    [type |-> "schedule",
     timeout |-> [height |-> e.height, round |-> e.round, phase |-> phase]]
RequestProposal(e) ==
    [type |-> "request", height |-> e.height, round |-> e.round,
     validBlock |-> e.validBlock]
Finalize(c) == [type |-> "finalize", certificate |-> c]
Evidence(v) == [type |-> "evidence", validator |-> v]

Run(e, fx) == [e |-> e, fx |-> fx, ok |-> TRUE]
Failed(e) == [e |-> e, fx |-> <<>>, ok |-> FALSE]

-------------------------------------------------------------------------------
(* Round windows and validation *)

Cacheable(e, r) ==
    r \in (e.round - (MaxCachedRounds - 1)) .. (e.round + MaxRoundAhead)

PruneCaches(e) ==
    LET Keep(S) == {m \in S : Cacheable(e, m.round)}
    IN [e EXCEPT !.proposals = Keep(@), !.votes = Keep(@),
                 !.requested = {r \in @ : Cacheable(e, r)},
                 !.decisions = Keep(@), !.pending = Keep(@)]

VoteIsValid(e, m) == m.height = e.height /\ m.round < MaxRounds

\* Wrong on purpose: the block is not executed.
BlockIsHeld(m, held) == m.value \in held /\ m.value.round <= m.round

\* NodeMessageValidator::validate_proposal: the bytes are held, fit the
\* proposal's round and execute on the local ledger.
BlockIsValid(m, held) ==
    m.value \in held /\ m.value.round <= m.round /\ Executable(m.value)

ProposalIsValid(e, m, held) ==
    /\ m.height = e.height
    /\ m.validator = Proposer(m.height, m.round)
    /\ m.round < MaxRounds
    /\ \/ m.validRound = NoRound /\ m.proof = {}
       \/ m.validRound \in 0 .. (m.round - 1) /\ m.proof \in Quorums
    /\ BlockIsValid(m, held)

MessageIsValid(e, m, held) ==
    IF m.kind = "proposal" THEN ProposalIsValid(e, m, held) ELSE VoteIsValid(e, m)

-------------------------------------------------------------------------------
(* Voting *)

VotersFor(e, r, kind, x) ==
    {m.validator : m \in {n \in e.votes : n.round = r /\ n.kind = kind /\ n.value = x}}

HasQuorum(e, r, kind, x) == IsQuorum(VotersFor(e, r, kind, x))

\* The blocks with a quorum of votes in round r: at most one.
QuorumBlocks(e, r, kind) ==
    {b \in {m.value : m \in e.votes} \ {Nil} : HasQuorum(e, r, kind, b)}

\* Wrong on purpose: the lock is not consulted.
PrevoteUnlocked(e, p) == p.value

PrevoteFor(e, p) ==
    IF \/ e.lockedBlock = None
       \/ e.lockedBlock = p.value
       \/ p.validRound > e.lockedRound
    THEN p.value ELSE Nil

\* Wrong on purpose: the vote is broadcast before it is persisted.
CastVoteEarly(s, kind, x) ==
    LET m == Vote(kind, s.e.height, s.e.round, s.e.id, x)
        voted == [s.e EXCEPT !.decisions = @ \cup {m}, !.pending = @ \cup {m}]
    IN IF \E d \in s.e.decisions : SameSlot(d, m)
       THEN s
       ELSE [s EXCEPT !.e = [voted EXCEPT !.phase = kind],
                      !.fx = @ \o <<Broadcast(m), Persist(m, voted), Schedule(voted, kind)>>]

CastVote(s, kind, x) ==
    LET m == Vote(kind, s.e.height, s.e.round, s.e.id, x)
        voted == [s.e EXCEPT !.decisions = @ \cup {m}, !.pending = @ \cup {m}]
    IN IF \E d \in s.e.decisions : SameSlot(d, m)
       THEN s
       ELSE [s EXCEPT !.e = [voted EXCEPT !.phase = kind],
                      !.fx = @ \o <<Persist(m, voted), Schedule(voted, kind)>>]

HasProposal(e, r, b) == \E p \in e.proposals : p.round = r /\ p.value = b

\* A quorum of prevotes for b: the valid value, then the lock and a precommit.
AcceptPolc(s, r, b) ==
    LET e == s.e
        valid == IF r <= e.round /\ r > e.validRound
                 THEN [e EXCEPT !.validRound = r, !.validBlock = b,
                                !.validProof = VotersFor(e, r, "prevote", b)]
                 ELSE e
        locked == [valid EXCEPT !.lockedRound = r, !.lockedBlock = b]
    IN IF ~HasProposal(e, r, b) THEN s
       ELSE IF r = e.round /\ e.phase = "prevote"
       THEN CastVote([s EXCEPT !.e = locked], "precommit", b)
       ELSE [s EXCEPT !.e = valid]

EvaluatePrevotes(s, r) ==
    LET e == s.e
        polc == QuorumBlocks(e, r, "prevote")
    IN IF polc # {} THEN AcceptPolc(s, r, CHOOSE b \in polc : TRUE)
       ELSE IF r = e.round /\ e.phase = "prevote" /\ HasQuorum(e, r, "prevote", Nil)
       THEN CastVote(s, "precommit", Nil)
       ELSE s

\* Wrong on purpose: the certificate is assembled from prevotes.
EvaluatePrecommitsByPrevotes(s, r, held) ==
    LET e == s.e
        committed == QuorumBlocks(e, r, "prevote")
    IN IF committed = {} THEN s
       ELSE LET b == CHOOSE c \in committed : TRUE
                cert == Certificate(e.height, r, b, VotersFor(e, r, "prevote", b))
            IN IF b \notin held \/ b.round > r THEN Failed(e)
               ELSE [s EXCEPT !.e = [e EXCEPT !.phase = "finalized", !.finalized = b],
                              !.fx = Append(@, Finalize(cert))]

\* A certificate is only accepted while the node holds the block's bytes
\* (NodeMessageValidator::validate_certificate); otherwise the step fails.
EvaluatePrecommits(s, r, held) ==
    LET e == s.e
        committed == QuorumBlocks(e, r, "precommit")
    IN IF committed = {} THEN s
       ELSE LET b == CHOOSE c \in committed : TRUE
                cert == Certificate(e.height, r, b, VotersFor(e, r, "precommit", b))
            IN IF b \notin held \/ b.round > r THEN Failed(e)
               ELSE [s EXCEPT !.e = [e EXCEPT !.phase = "finalized", !.finalized = b],
                              !.fx = Append(@, Finalize(cert))]

EvaluateRound(s, r, held) == EvaluatePrecommits(EvaluatePrevotes(s, r), r, held)

ActivateCurrentRound(s, held) ==
    LET e == s.e
        current == {p \in e.proposals : p.round = e.round}
        voted == IF e.phase = "propose" /\ current # {}
                 THEN CastVote(s, "prevote", PrevoteFor(e, CHOOSE p \in current : TRUE))
                 ELSE s
    IN EvaluateRound(voted, e.round, held)

-------------------------------------------------------------------------------
(* Event handlers *)

EnterRound(e, r, held) ==
    LET entered == PruneCaches([e EXCEPT !.round = r, !.phase = "propose"])
        scheduled == <<Schedule(entered, "propose")>>
    IN IF r >= MaxRounds THEN Failed(e)
       ELSE IF \E p \in entered.proposals : p.round = r
       THEN ActivateCurrentRound(Run(entered, scheduled), held)
       ELSE IF Proposer(e.height, r) = e.id
       THEN Run([entered EXCEPT !.requested = @ \cup {r}],
                Append(scheduled, RequestProposal(entered)))
       ELSE Run(entered, scheduled)

ProposalReady(e, h, r, b) ==
    LET proven == e.validRound # NoRound /\ e.validRound < r /\ e.validBlock = b
        m == Proposal(h, r, b, IF proven THEN e.validRound ELSE NoRound,
                               IF proven THEN e.validProof ELSE {})
        asked == [e EXCEPT !.requested = @ \ {r}]
        decided == [asked EXCEPT !.decisions = @ \cup {m}, !.pending = @ \cup {m}]
    IN IF h # e.height \/ r \notin e.requested THEN Failed(e)
       ELSE IF m \in e.decisions THEN Run(asked, <<>>)
       ELSE IF \E d \in e.decisions : SameSlot(d, m) THEN Failed(asked)
       ELSE Run(decided, <<Persist(m, decided)>>)

AcceptProposal(s, p, held) ==
    LET e == s.e
        first == {q \in e.proposals : q.round = p.round}
        added == [s EXCEPT !.e = [e EXCEPT !.proposals = @ \cup {p}]]
    IN IF ~Cacheable(e, p.round) \/ p \in first THEN s
       ELSE IF first # {} THEN [s EXCEPT !.fx = Append(@, Evidence(p.validator))]
       ELSE IF p.round = e.round THEN ActivateCurrentRound(added, held)
       ELSE added

\* Wrong on purpose: a prevote and a precommit count as a double vote.
AcceptVoteAnyKind(s, m, held) ==
    LET e == s.e
        first == {n \in e.votes : n.round = m.round /\ n.validator = m.validator}
        added == [s EXCEPT !.e = [e EXCEPT !.votes = @ \cup {m}]]
    IN IF ~Cacheable(e, m.round) \/ m \in first THEN s
       ELSE IF first # {} THEN [s EXCEPT !.fx = Append(@, Evidence(m.validator))]
       ELSE EvaluateRound(added, m.round, held)

AcceptVote(s, m, held) ==
    LET e == s.e
        first == {n \in e.votes : SameSlot(n, m)}
        added == [s EXCEPT !.e = [e EXCEPT !.votes = @ \cup {m}]]
    IN IF ~Cacheable(e, m.round) \/ m \in first THEN s
       ELSE IF first # {} THEN [s EXCEPT !.fx = Append(@, Evidence(m.validator))]
       ELSE EvaluateRound(added, m.round, held)

AcceptMessage(s, m, held) ==
    IF m.kind = "proposal" THEN AcceptProposal(s, m, held) ELSE AcceptVote(s, m, held)

ReceiveMessage(e, m, held) ==
    IF MessageIsValid(e, m, held) THEN AcceptMessage(Run(e, <<>>), m, held) ELSE Failed(e)

Persisted(e, m, held) ==
    IF m \notin e.pending \/ ~MessageIsValid(e, m, held) THEN Failed(e)
    ELSE AcceptMessage(Run([e EXCEPT !.pending = @ \ {m}], <<Broadcast(m)>>), m, held)

HandleTimeout(e, t, held) ==
    LET timedOut(kind) == EvaluateRound(CastVote(Run(e, <<>>), kind, Nil), e.round, held)
    IN IF t # [height |-> e.height, round |-> e.round, phase |-> e.phase]
       THEN Run(e, <<>>)
       ELSE CASE e.phase = "propose"   -> timedOut("prevote")
              [] e.phase = "prevote"   -> timedOut("precommit")
              [] e.phase = "precommit" -> EnterRound(e, e.round + 1, held)
              [] OTHER                 -> Run(e, <<>>)

StepEngine(e, event, held) ==
    IF event.type = "start"
    THEN IF e.started THEN Failed(e)
         ELSE EnterRound([e EXCEPT !.started = TRUE], e.round, held)
    ELSE IF ~e.started THEN Failed(e)
    ELSE IF e.finalized # None THEN Run(e, <<>>)
    ELSE CASE event.type = "ready"     -> ProposalReady(e, event.height, event.round, event.block)
           [] event.type = "message"   -> ReceiveMessage(e, event.msg, held)
           [] event.type = "persisted" -> Persisted(e, event.msg, held)
           [] event.type = "timeout"   -> HandleTimeout(e, event.timeout, held)
===============================================================================
