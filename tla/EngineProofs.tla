----------------------------- MODULE EngineProofs -----------------------------
(***************************************************************************)
(* What one step of the engine keeps true, for every validator set, every  *)
(* set of blocks and every configuration of the caches and rounds.         *)
(*                                                                         *)
(* The engine is a function, so its invariant is stated about an engine    *)
(* state e of validator v and about D, the messages the honest validators  *)
(* have made durable (D[w] for w): what the engine may believe about other *)
(* validators, and what it may ask the node to sign next, both come down   *)
(* to what is in D.  S are the proposals in v's own store.                 *)
(***************************************************************************)
EXTENDS ConsensusEngine, ValidatorsProofs

-------------------------------------------------------------------------------
(* Types *)

VoteKinds == {"prevote", "precommit"}
Phases == {"propose", "prevote", "precommit", "finalized"}

VoteMsgs ==
    [kind : VoteKinds, height : Nat, round : Nat, validator : Validators,
     value : Blocks \cup {Nil}]

ProposalMsgs ==
    [kind : {"proposal"}, height : Nat, round : Rounds, validator : Validators,
     value : Blocks, validRound : Rounds \cup {NoRound}, proof : SUBSET Validators]

Msgs == VoteMsgs \cup ProposalMsgs

Certs ==
    [kind : {"certificate"}, height : Nat, round : Rounds, value : Blocks,
     signers : SUBSET Validators]

Engines ==
    [id : Honest, height : Nat, round : Rounds, phase : Phases, started : BOOLEAN,
     finalized : Blocks \cup {None},
     lockedRound : Rounds \cup {NoRound}, lockedBlock : Blocks \cup {None},
     validRound : Rounds \cup {NoRound}, validBlock : Blocks \cup {None},
     validProof : SUBSET Validators,
     proposals : SUBSET ProposalMsgs, votes : SUBSET VoteMsgs, requested : SUBSET Rounds,
     decisions : SUBSET Msgs, pending : SUBSET Msgs]

Timeouts == [height : Nat, round : Rounds, phase : Phases]

Effects ==
    [type : {"persist"}, msg : Msgs, safety : SafetyStates]
    \cup [type : {"broadcast"}, msg : Msgs]
    \cup [type : {"schedule"}, timeout : Timeouts]
    \cup [type : {"request"}, height : Nat, round : Rounds, validBlock : Blocks \cup {None}]
    \cup [type : {"finalize"}, certificate : Certs]
    \cup [type : {"evidence"}, validator : Validators]

Events ==
    [type : {"start"}]
    \cup [type : {"ready"}, height : Nat, round : Rounds, block : Blocks]
    \cup [type : {"message", "persisted"}, msg : Msgs]
    \cup [type : {"timeout"}, timeout : Timeouts]

-------------------------------------------------------------------------------
(* What durable messages justify *)

\* A block that executes and was declared for round r or an earlier one.
Fits(b, r) == Executable(b) /\ b.round <= r

\* A message of an honest validator is one that validator has made durable.
Signed(D, m) == m.validator \in Honest => m \in D[m.validator]

\* The honest members of S have made their votes for b durable.
Backed(D, kind, h, r, b, S) ==
    S \subseteq Validators /\ \A w \in S \ Faulty : Vote(kind, h, r, w, b) \in D[w]

\* A proof-of-lock for b can be assembled from the durable prevotes of round r.
PolcIn(D, h, r, b) ==
    IsQuorum(Faulty \cup {w \in Honest : Vote("prevote", h, r, w, b) \in D[w]})

\* A proposal that claims a valid round proves it.
ProofOK(D, p) ==
    p.validRound # NoRound =>
        /\ IsQuorum(p.proof)
        /\ Backed(D, "prevote", p.height, p.validRound, p.value, p.proof)

CertOK(D, c) ==
    IsQuorum(c.signers) /\ Backed(D, "precommit", c.height, c.round, c.value, c.signers)

\* The durable messages of each validator are its own, one per signer slot,
\* and what they vote for or propose is acceptable.
DurableOK(D) ==
    /\ D \in [Honest -> SUBSET Msgs]
    /\ \A v \in Honest : \A m \in D[v] :
          /\ m.validator = v /\ m.round \in Rounds
          /\ m.value # Nil => Fits(m.value, m.round)
          /\ m.kind = "proposal" => ProofOK(D, m) /\ Proposer(m.height, m.round) = v
    /\ \A v \in Honest : \A m1, m2 \in D[v] : SameSlot(m1, m2) => m1 = m2

\* The proposals v has stored are acceptable, and include those it has signed.
StoreOK(D, S, v) ==
    /\ S \subseteq ProposalMsgs
    /\ \A p \in S : Fits(p.value, p.round)
    /\ \A m \in D[v] : m.kind = "proposal" => m \in S

\* The store holds a proposal of b for height h.
StoredIn(S, h, b) == \E p \in S : p.height = h /\ p.value = b

-------------------------------------------------------------------------------
(* The invariant of an engine *)

\* The lock and the valid value of s, an engine or a stored safety state of v,
\* rest on durable prevotes and stored blocks, the valid value is not older
\* than the lock, and the lock not older than any durable block precommit of v.
LockOK(D, S, v, s) ==
    /\ s.lockedBlock = None <=> s.lockedRound = NoRound
    /\ s.lockedBlock # None =>
          /\ s.lockedRound <= s.round
          /\ PolcIn(D, s.height, s.lockedRound, s.lockedBlock)
          /\ Fits(s.lockedBlock, s.lockedRound) /\ StoredIn(S, s.height, s.lockedBlock)
          /\ \/ s.lockedRound < s.validRound
             \/ s.lockedRound = s.validRound /\ s.lockedBlock = s.validBlock
    /\ s.validBlock = None <=> s.validRound = NoRound
    /\ s.validBlock = None => s.validProof = {}
    /\ s.validBlock # None =>
          /\ s.validRound <= s.round /\ IsQuorum(s.validProof)
          /\ Backed(D, "prevote", s.height, s.validRound, s.validBlock, s.validProof)
          /\ Fits(s.validBlock, s.validRound) /\ StoredIn(S, s.height, s.validBlock)
    /\ \A m \in D[v] : m.kind = "precommit" /\ m.height = s.height /\ m.value # Nil =>
          \/ m.round < s.lockedRound
          \/ m.round = s.lockedRound /\ m.value = s.lockedBlock

\* What the engine has received is valid and, where honest, durable.
CachesOK(D, S, v, e) ==
    /\ \A m \in e.votes : m.height = e.height /\ m.round \in Rounds /\ Signed(D, m)
    /\ \A m1, m2 \in e.votes : SameSlot(m1, m2) => m1 = m2
    /\ e.validRound = e.round => HasQuorum(e, e.round, "prevote", e.validBlock)
    /\ \A p \in e.proposals :
          /\ p.height = e.height /\ p.validator = Proposer(p.height, p.round)
          /\ Signed(D, p) /\ p \in S
          /\ p.validRound < p.round /\ ProofOK(D, p)
    /\ \A r \in e.requested : Proposer(e.height, r) = v

\* The engine knows every slot of this height it might use again: those of
\* earlier rounds are behind it, those of this round are in `decisions`, and
\* its phase tells which slots of this round are still free.
SlotsOK(D, v, e) ==
    /\ \A m \in e.decisions : m.round <= e.round
    /\ \A m \in D[v] : m.height = e.height =>
          m.round < e.round \/ (m.round = e.round /\ m \in e.decisions)
    /\ e.phase = "propose" =>
          /\ e.lockedRound < e.round
          /\ \A m \in e.decisions : m.round = e.round => m.kind = "proposal"
    /\ e.phase = "prevote" =>
          \A m \in e.decisions : m.round = e.round => m.kind # "precommit"
    /\ ~e.started => e.phase = "propose" /\ e.validRound < e.round

EngineOK(D, S, v, e) ==
    /\ e \in Engines /\ e.id = v
    /\ LockOK(D, S, v, e) /\ CachesOK(D, S, v, e) /\ SlotsOK(D, v, e)

-------------------------------------------------------------------------------
(* The invariant of the effects a step leaves to the node *)

\* What the lock lets v prevote, as module Voting demands it.
LockLets(D, v, h, r, b) ==
    \A m \in D[v] : m.kind = "precommit" /\ m.height = h /\ m.value # Nil =>
        \/ m.value = b
        \/ \E vr \in Rounds : m.round < vr /\ vr < r /\ PolcIn(D, h, vr, b)

\* A decision v may sign in the current round of e: its slot is free, and the
\* voting rules allow it.
DecisionOK(D, v, e, m) ==
    /\ m.validator = v /\ m.height = e.height /\ m.round = e.round /\ m \in e.decisions
    /\ m.value # Nil => Fits(m.value, m.round)
    /\ \A d \in D[v] : ~SameSlot(d, m)
    /\ m.kind = "proposal" => ProofOK(D, m) /\ Proposer(m.height, m.round) = v
    /\ m.kind = "prevote" =>
          /\ \A d \in D[v] : d.height = e.height /\ d.round = e.round => d.kind = "proposal"
          /\ m.value # Nil => LockLets(D, v, e.height, e.round, m.value)
    /\ m.kind = "precommit" /\ m.value # Nil =>
          /\ PolcIn(D, e.height, e.round, m.value)
          /\ e.lockedRound = e.round /\ e.lockedBlock = m.value

\* The safety state stored with m covers m and everything durable.
SafetyOK(D, S, v, e, m, s) ==
    /\ s.height = e.height /\ s.round = e.round
    /\ LockOK(D, S, v, s)
    /\ m.kind = "precommit" /\ m.value # Nil =>
          s.lockedRound = e.round /\ s.lockedBlock = m.value

EffectOK(D, S, v, e, x) ==
    /\ x.type = "persist" => DecisionOK(D, v, e, x.msg) /\ SafetyOK(D, S, v, e, x.msg, x.safety)
    /\ x.type = "broadcast" => x.msg \in D[v]
    /\ x.type = "request" =>
          /\ x.height = e.height /\ x.round = e.round
          /\ x.validBlock # None => Fits(x.validBlock, x.round)
    /\ x.type = "finalize" => CertOK(D, x.certificate) /\ x.certificate.height = e.height
    /\ x.type = "evidence" => x.validator \in Faulty

\* Two decisions of one step are a prevote and then a precommit; nothing comes
\* after a finalized block.
EffectsOK(D, S, v, e, fx) ==
    /\ fx \in Seq(Effects)
    /\ \A i \in 1 .. Len(fx) : EffectOK(D, S, v, e, fx[i])
    /\ \A i, j \in 1 .. Len(fx) : i < j =>
          /\ fx[i].type # "finalize"
          /\ fx[i].type = "persist" /\ fx[j].type = "persist" =>
                fx[i].msg.kind = "prevote" /\ fx[j].msg.kind = "precommit"

\* A step under way.
RunOK(D, S, v, s) ==
    /\ s = [e |-> s.e, fx |-> s.fx, ok |-> s.ok] /\ s.ok \in BOOLEAN
    /\ EngineOK(D, S, v, s.e) /\ EffectsOK(D, S, v, s.e, s.fx)

\* An event the node may hand to e.
EventOK(D, S, v, e, event) ==
    /\ event \in Events
    /\ event.type = "ready" =>
          /\ event.height <= e.height
          /\ event.height = e.height => event.round = e.round
          /\ Fits(event.block, event.round)
    /\ event.type = "message" =>
          /\ Signed(D, event.msg)
          /\ event.msg.kind = "proposal" => ProofOK(D, event.msg) /\ event.msg \in S
    /\ event.type = "persisted" => event.msg \in D[v]

-------------------------------------------------------------------------------
(* Facts about the data *)

\* Every honest validator is a validator, and the two options are not blocks.
LEMMA Basics ==
    /\ Honest \subseteq Validators /\ Faulty \subseteq Validators
    /\ Nil \notin Blocks /\ None \notin Blocks /\ None \notin SafetyStates
    /\ NoRound \in Int /\ \A r \in Rounds : r \in Nat /\ NoRound < r
    /\ MaxRounds \in Nat \ {0} /\ N \in Nat \ {0}
  BY FaultyAssumption, OptionAssumption, EngineAssumption, NAssumption
     DEF Honest, Validators, NoRound, Rounds

\* An effect has the fields of its type.
LEMMA EffectFields ==
    ASSUME NEW x \in Effects
    PROVE  /\ x.type = "persist" => x.msg \in Msgs /\ x.safety \in SafetyStates
           /\ x.type = "broadcast" => x.msg \in Msgs
           /\ x.type = "schedule" => x.timeout \in Timeouts
           /\ x.type = "request" => /\ x.height \in Nat /\ x.round \in Rounds
                                    /\ x.validBlock \in Blocks \cup {None}
           /\ x.type = "finalize" => x.certificate \in Certs
           /\ x.type = "evidence" => x.validator \in Validators
  BY DEF Effects

\* An event has the fields of its type.
LEMMA EventFields ==
    ASSUME NEW x \in Events
    PROVE  /\ x.type \in {"start", "ready", "message", "persisted", "timeout"}
           /\ x.type = "ready" => /\ x.height \in Nat /\ x.round \in Rounds
                                  /\ x.block \in Blocks
           /\ x.type \in {"message", "persisted"} => x.msg \in Msgs
           /\ x.type = "timeout" => x.timeout \in Timeouts
  BY DEF Events

\* A message is a vote or a proposal, by its kind.
LEMMA MsgFields ==
    ASSUME NEW m \in Msgs
    PROVE  /\ m.kind = "proposal" => m \in ProposalMsgs
           /\ m.kind # "proposal" => m \in VoteMsgs
           /\ m.kind \in {"proposal", "prevote", "precommit"}
           /\ m.height \in Nat /\ m.round \in Nat /\ m.validator \in Validators
           /\ m.value \in Blocks \cup {Nil}
  BY DEF Msgs, VoteMsgs, ProposalMsgs, VoteKinds, Rounds

\* A quorum of voters, honest ones durable, makes a proof-of-lock.
LEMMA BackedPolc ==
    ASSUME NEW D, NEW h, NEW r, NEW b, NEW Q,
           IsQuorum(Q), Backed(D, "prevote", h, r, b, Q)
    PROVE  PolcIn(D, h, r, b)
  <1> DEFINE T == Faulty \cup {w \in Honest : Vote("prevote", h, r, w, b) \in D[w]}
  <1>1. T \in SUBSET Validators
    BY Basics
  <1>2. Q \in SUBSET T
    BY DEF Backed, Honest
  <1>3. IsQuorum(T)
    <2> HIDE DEF T
    <2> QED BY <1>1, <1>2, QuorumMonotone
  <1> QED BY <1>3 DEF PolcIn

\* More durable messages never take a justification away.
Grows(D, E) == \A w \in Honest : D[w] \subseteq E[w]

\* Signers stay backed as more messages become durable.
LEMMA BackedGrows ==
    ASSUME NEW D, NEW E, Grows(D, E), NEW k, NEW h, NEW r, NEW b, NEW Q,
           Backed(D, k, h, r, b, Q)
    PROVE  Backed(E, k, h, r, b, Q)
  BY DEF Backed, Grows, Honest

\* A proof-of-lock stays one.
LEMMA PolcGrows ==
    ASSUME NEW D, NEW E, Grows(D, E), NEW h, NEW r, NEW b, PolcIn(D, h, r, b)
    PROVE  PolcIn(E, h, r, b)
  <1> DEFINE T(F) == Faulty \cup {w \in Honest : Vote("prevote", h, r, w, b) \in F[w]}
  <1>1. T(E) \in SUBSET Validators /\ T(D) \in SUBSET T(E)
    BY Basics DEF Grows
  <1>2. IsQuorum(T(E))
    <2>1. IsQuorum(T(D))
      BY DEF PolcIn
    <2> HIDE DEF T
    <2> QED BY <1>1, <2>1, QuorumMonotone
  <1> QED BY <1>2 DEF PolcIn

\* A sequence keeps its elements when two are added at its end.
LEMMA AddTwo ==
    ASSUME NEW T, NEW s \in Seq(T), NEW x \in T, NEW y \in T
    PROVE  /\ s \o <<x, y>> \in Seq(T) /\ Len(s \o <<x, y>>) = Len(s) + 2
           /\ Len(s) \in Nat
           /\ \A i \in 1 .. Len(s) : (s \o <<x, y>>)[i] = s[i]
           /\ (s \o <<x, y>>)[Len(s) + 1] = x /\ (s \o <<x, y>>)[Len(s) + 2] = y
  OBVIOUS

\* A sequence keeps its elements when one is added at its end.
LEMMA AddOne ==
    ASSUME NEW T, NEW s \in Seq(T), NEW x \in T
    PROVE  /\ Append(s, x) \in Seq(T) /\ Len(Append(s, x)) = Len(s) + 1
           /\ Len(s) \in Nat
           /\ \A i \in 1 .. Len(s) : Append(s, x)[i] = s[i]
           /\ Append(s, x)[Len(s) + 1] = x
  OBVIOUS

-------------------------------------------------------------------------------
(* Casting a vote *)

\* What is assumed of the validator, the durable messages and its store.
Context(D, S, v) == v \in Honest /\ DurableOK(D) /\ StoreOK(D, S, v)

\* A handler stays at its height and in its round.
Stays(e, f) == f.height = e.height /\ f.round = e.round /\ f.started = e.started

\* The effects so far decide nothing but the kinds in K, and finalize nothing.
Open(fx, K) ==
    \A i \in 1 .. Len(fx) :
        fx[i].type # "finalize" /\ (fx[i].type = "persist" => fx[i].msg.kind \in K)

\* An effect stays justified while the engine's round and lock stand.
LEMMA EffectStands ==
    ASSUME NEW D, NEW S, NEW v, NEW e, NEW f, NEW x, EffectOK(D, S, v, e, x),
           f.height = e.height, f.round = e.round, e.decisions \subseteq f.decisions,
           \/ x.type = "persist" => x.msg.kind # "precommit"
           \/ f.lockedRound = e.lockedRound /\ f.lockedBlock = e.lockedBlock
    PROVE  EffectOK(D, S, v, f, x)
  <1>1. ASSUME x.type = "persist" PROVE DecisionOK(D, v, f, x.msg)
    BY <1>1 DEF EffectOK, DecisionOK
  <1>2. ASSUME x.type = "persist" PROVE SafetyOK(D, S, v, f, x.msg, x.safety)
    BY <1>2 DEF EffectOK, SafetyOK
  <1> QED BY <1>1, <1>2 DEF EffectOK

\* So do the effects of a step.
LEMMA EffectsStand ==
    ASSUME NEW D, NEW S, NEW v, NEW e, NEW f, NEW fx, EffectsOK(D, S, v, e, fx),
           f.height = e.height, f.round = e.round, e.decisions \subseteq f.decisions,
           \/ Open(fx, {"prevote"}) 
           \/ f.lockedRound = e.lockedRound /\ f.lockedBlock = e.lockedBlock
    PROVE  EffectsOK(D, S, v, f, fx)
  <1>1. ASSUME NEW i \in 1 .. Len(fx) PROVE EffectOK(D, S, v, f, fx[i])
    <2>1. EffectOK(D, S, v, e, fx[i])
      BY DEF EffectsOK
    <2>2. Open(fx, {"prevote"}) => (fx[i].type = "persist" => fx[i].msg.kind # "precommit")
      BY DEF Open
    <2> QED BY <2>1, <2>2, EffectStands
  <1> QED BY <1>1 DEF EffectsOK

\* Adding an effect after effects that finalize nothing.
LEMMA AddEffect ==
    ASSUME NEW D, NEW S, NEW v, NEW e, NEW fx, EffectsOK(D, S, v, e, fx),
           NEW x \in Effects, EffectOK(D, S, v, e, x),
           NEW K, Open(fx, K),
           x.type = "persist" => (K \subseteq {"prevote"} /\ x.msg.kind = "precommit") \/ K = {}
    PROVE  EffectsOK(D, S, v, e, Append(fx, x))
  <1> DEFINE gx == Append(fx, x)
  <1>1. /\ fx \in Seq(Effects) /\ gx \in Seq(Effects) /\ Len(gx) = Len(fx) + 1
        /\ Len(fx) \in Nat
        /\ \A i \in 1 .. Len(fx) : gx[i] = fx[i]
        /\ gx[Len(fx) + 1] = x
    <2>1. fx \in Seq(Effects)
      BY DEF EffectsOK
    <2> QED BY <2>1, AddOne
  <1> HIDE DEF gx
  <1>2. ASSUME NEW i \in 1 .. Len(gx) PROVE EffectOK(D, S, v, e, gx[i])
    BY <1>1 DEF EffectsOK
  <1>3. ASSUME NEW i \in 1 .. Len(gx), NEW j \in 1 .. Len(gx), i < j
        PROVE  /\ gx[i].type # "finalize"
               /\ gx[i].type = "persist" /\ gx[j].type = "persist" =>
                     gx[i].msg.kind = "prevote" /\ gx[j].msg.kind = "precommit"
    <2>1. i \in 1 .. Len(fx) /\ gx[i] = fx[i]
      BY <1>1, <1>3
    <2>2. CASE j \in 1 .. Len(fx)
      BY <1>1, <1>3, <2>1, <2>2 DEF EffectsOK
    <2>3. CASE j = Len(fx) + 1
      BY <1>1, <2>1, <2>3 DEF Open
    <2> QED BY <1>1, <2>2, <2>3
  <1> QED BY <1>1, <1>2, <1>3 DEF EffectsOK, gx

\* Effects that are not decisions and finalize nothing leave the list open.
LEMMA StaysOpen ==
    ASSUME NEW fx \in Seq(Effects), NEW x \in Effects, NEW K, NEW L,
           Open(fx, K), K \subseteq L,
           x.type # "finalize", x.type = "persist" => x.msg.kind \in L
    PROVE  Open(Append(fx, x), L)
  BY AddOne DEF Open

\* Two effects are added one after the other.
LEMMA TwoIsOneAndOne ==
    ASSUME NEW T, NEW s \in Seq(T), NEW x \in T, NEW y \in T
    PROVE  s \o <<x, y>> = Append(Append(s, x), y)
  OBVIOUS

\* Recording a decision in a free slot of the current round keeps the engine's
\* invariant, in the phase the decision leads to.
LEMMA DecideOK ==
    ASSUME NEW D, NEW S, NEW v, Context(D, S, v), NEW e, EngineOK(D, S, v, e),
           NEW m \in Msgs, m.round = e.round,
           NEW phase \in Phases, NEW f,
           f = [e EXCEPT !.decisions = @ \cup {m}, !.pending = @ \cup {m}, !.phase = phase],
           phase = "propose" => e.phase = "propose" /\ m.kind = "proposal",
           phase = "prevote" => \/ e.phase = "propose" /\ m.kind = "prevote"
                                \/ e.phase = "prevote" /\ m.kind = "proposal",
           phase # "propose" => e.started
    PROVE  EngineOK(D, S, v, f)
  <1>1. e \in Engines /\ f \in Engines
    BY DEF EngineOK, Engines
  <1>2. /\ f.id = e.id /\ f.height = e.height /\ f.round = e.round /\ f.phase = phase
        /\ f.started = e.started /\ f.lockedRound = e.lockedRound
        /\ f.lockedBlock = e.lockedBlock /\ f.validRound = e.validRound
        /\ f.validBlock = e.validBlock /\ f.validProof = e.validProof
        /\ f.proposals = e.proposals /\ f.votes = e.votes /\ f.requested = e.requested
        /\ f.decisions = e.decisions \cup {m}
    BY <1>1 DEF Engines
  <1>3. LockOK(D, S, v, f)
    BY <1>2 DEF EngineOK, LockOK
  <1>4. CachesOK(D, S, v, f)
    BY <1>2 DEF EngineOK, CachesOK, HasQuorum, VotersFor
  <1>5. SlotsOK(D, v, f)
    BY <1>1, <1>2 DEF EngineOK, SlotsOK, Engines, Rounds
  <1> QED BY <1>1, <1>2, <1>3, <1>4, <1>5 DEF EngineOK

\* The safety state of an engine is a safety state.
LEMMA SafetyStateOK ==
    ASSUME NEW D, NEW S, NEW v, NEW e, EngineOK(D, S, v, e)
    PROVE  /\ SafetyState(e) \in SafetyStates
           /\ SafetyState(e).height = e.height /\ SafetyState(e).round = e.round
           /\ SafetyState(e).lockedRound = e.lockedRound
           /\ SafetyState(e).lockedBlock = e.lockedBlock
           /\ LockOK(D, S, v, SafetyState(e))
  <1>1. /\ SafetyState(e).height = e.height /\ SafetyState(e).round = e.round
        /\ SafetyState(e).lockedRound = e.lockedRound
        /\ SafetyState(e).lockedBlock = e.lockedBlock
        /\ SafetyState(e).validRound = e.validRound
        /\ SafetyState(e).validBlock = e.validBlock
        /\ SafetyState(e).validProof = e.validProof
    BY DEF SafetyState
  <1>2. LockOK(D, S, v, SafetyState(e))
    BY <1>1 DEF EngineOK, LockOK
  <1>3. SafetyState(e) \in SafetyStates
    BY DEF EngineOK, Engines, SafetyState, SafetyStates
  <1> QED BY <1>1, <1>2, <1>3

\* A decision recorded in a free slot may be signed under the voting rules.
LEMMA FreeSlotDecision ==
    ASSUME NEW D, NEW S, NEW v, Context(D, S, v), NEW e, EngineOK(D, S, v, e),
           NEW m \in Msgs, m.round = e.round, m.height = e.height, m.validator = v,
           m.value # Nil => Fits(m.value, m.round),
           \A d \in e.decisions : ~SameSlot(d, m),
           m.kind = "proposal" => ProofOK(D, m) /\ Proposer(m.height, m.round) = v,
           m.kind = "prevote" =>
              e.phase = "propose" /\ (m.value # Nil => LockLets(D, v, e.height, e.round, m.value)),
           m.kind = "precommit" /\ m.value # Nil =>
              /\ PolcIn(D, e.height, e.round, m.value)
              /\ e.lockedRound = e.round /\ e.lockedBlock = m.value,
           NEW f, Stays(e, f), f.decisions = e.decisions \cup {m},
           f.lockedRound = e.lockedRound, f.lockedBlock = e.lockedBlock
    PROVE  DecisionOK(D, v, f, m)
  <1>1. ASSUME NEW d \in D[v], d.height = e.height, d.round = e.round PROVE d \in e.decisions
    <2>1. d.round \in Nat /\ e.round \in Nat
      BY MsgFields, Basics DEF Context, DurableOK, EngineOK, Engines
    <2> QED BY <1>1, <2>1 DEF EngineOK, SlotsOK
  <1>2. \A d \in D[v] : ~SameSlot(d, m)
    BY <1>1 DEF SameSlot
  <1>3. ASSUME m.kind = "prevote", NEW d \in D[v], d.height = e.height, d.round = e.round
        PROVE  d.kind = "proposal"
    BY <1>1, <1>3 DEF EngineOK, SlotsOK
  <1> QED BY <1>2, <1>3 DEF DecisionOK, Stays

\* The kinds of votes a step has decided by the time it reaches a phase.
Decided(phase) ==
    CASE phase = "propose" -> {} [] phase = "prevote" -> {"prevote"} [] OTHER -> VoteKinds

\* A step under way: nothing is finalized yet, nothing has failed.
Underway(D, S, v, s) ==
    RunOK(D, S, v, s) /\ s.ok = TRUE /\ s.e.started /\ Open(s.fx, Decided(s.e.phase))

\* What the voting rules demand before x is cast.
MayCast(D, v, e, kind, x) ==
    /\ kind \in VoteKinds /\ x \in Blocks \cup {Nil} /\ (x # Nil => Fits(x, e.round))
    /\ kind = "prevote" =>
          e.phase = "propose" /\ (x # Nil => LockLets(D, v, e.height, e.round, x))
    /\ kind = "precommit" =>
          /\ e.phase = "prevote"
          /\ x # Nil => /\ PolcIn(D, e.height, e.round, x)
                        /\ e.lockedRound = e.round /\ e.lockedBlock = x

\* The step goes on from s to t, in the same round and with the same messages.
Continues(D, S, v, s, t) ==
    /\ Underway(D, S, v, t) /\ Stays(s.e, t.e)
    /\ t.e.votes = s.e.votes /\ t.e.proposals = s.e.proposals

\* cast_vote signs at most one vote, in a slot the engine knows to be free.
LEMMA CastVoteOK ==
    ASSUME NEW D, NEW S, NEW v, Context(D, S, v), NEW s, Underway(D, S, v, s),
           NEW kind, NEW x, MayCast(D, v, s.e, kind, x),
           NEW t, t = CastVote(s, kind, x)
    PROVE  Continues(D, S, v, s, t)
  <1> USE DEF MayCast, Continues, Underway
  <1> DEFINE K == Decided(s.e.phase)
             L == Decided(kind)
             e == s.e
             m == Vote(kind, e.height, e.round, e.id, x)
             voted == [e EXCEPT !.decisions = @ \cup {m}, !.pending = @ \cup {m}]
             f == [voted EXCEPT !.phase = kind]
             fx1 == Append(s.fx, Persist(m, voted))
             fx2 == Append(fx1, Schedule(voted, kind))
  <1>1. e \in Engines /\ e.id = v /\ EngineOK(D, S, v, e) /\ EffectsOK(D, S, v, e, s.fx)
    BY DEF RunOK, EngineOK
  <1>a. /\ K \subseteq L /\ kind \in L /\ Open(s.fx, K) /\ K \subseteq {"prevote"}
        /\ kind = "prevote" => K = {}
    BY DEF Decided, VoteKinds
  <1> HIDE DEF K, L
  <1>2. CASE \E d \in e.decisions : SameSlot(d, m)
    <2>1. t = s
      BY <1>2 DEF CastVote
    <2> QED BY <1>1, <2>1 DEF Stays
  <1>3. CASE ~\E d \in e.decisions : SameSlot(d, m)
    <2>1. /\ m \in Msgs /\ m.kind = kind /\ m.height = e.height /\ m.round = e.round
          /\ m.validator = v /\ m.value = x
      BY <1>1, Basics DEF Vote, Msgs, VoteMsgs, Engines, Rounds
    <2> HIDE DEF m
    <2>2. f = [e EXCEPT !.decisions = @ \cup {m}, !.pending = @ \cup {m}, !.phase = kind]
      BY <1>1 DEF Engines
    <2>3. /\ Stays(e, f) /\ f.decisions = e.decisions \cup {m} /\ f.phase = kind
          /\ f.lockedRound = e.lockedRound /\ f.lockedBlock = e.lockedBlock
          /\ f.votes = e.votes /\ f.proposals = e.proposals
      BY <1>1 DEF Stays, Engines
    <2>4. EngineOK(D, S, v, f)
      BY <1>1, <2>1, <2>2, DecideOK DEF VoteKinds, Phases
    <2>5. /\ SafetyState(voted) = SafetyState(f)
          /\ Schedule(voted, kind) = Schedule(f, kind)
          /\ f \in Engines
      BY <1>1, <2>4 DEF SafetyState, Schedule, Engines, EngineOK
    <2>6. t = [e |-> f, fx |-> s.fx \o <<Persist(m, voted), Schedule(voted, kind)>>,
               ok |-> s.ok]
      <3>1. s = [e |-> s.e, fx |-> s.fx, ok |-> s.ok]
        BY DEF RunOK
      <3> QED BY <1>3, <3>1 DEF CastVote, m
    <2> HIDE DEF voted, f
    <2>7. DecisionOK(D, v, f, m)
      BY <1>1, <1>3, <2>1, <2>3, FreeSlotDecision DEF VoteKinds
    <2>8. Persist(m, voted) \in Effects /\ EffectOK(D, S, v, f, Persist(m, voted))
      <3>1. SafetyState(f) \in SafetyStates /\ SafetyOK(D, S, v, f, m, SafetyState(f))
        BY <2>4, <2>7, SafetyStateOK DEF SafetyOK, DecisionOK
      <3> QED BY <2>1, <2>5, <2>7, <3>1 DEF Persist, Effects, EffectOK
    <2>9. Schedule(voted, kind) \in Effects /\ EffectOK(D, S, v, f, Schedule(voted, kind))
      BY <2>5 DEF Schedule, Effects, EffectOK, Timeouts, Engines, Phases, VoteKinds
    <2>10. /\ Persist(m, voted).type = "persist" /\ Persist(m, voted).msg = m
           /\ Schedule(voted, kind).type = "schedule"
      BY DEF Persist, Schedule
    <2>11. s.fx \in Seq(Effects)
      BY <1>1 DEF EffectsOK
    <2>12. fx2 = s.fx \o <<Persist(m, voted), Schedule(voted, kind)>>
      BY <2>8, <2>9, <2>11, TwoIsOneAndOne
    <2>13. EffectsOK(D, S, v, f, s.fx)
      BY <1>1, <2>3, EffectsStand DEF Stays
    <2>14. EffectsOK(D, S, v, f, fx1)
      BY <1>a, <2>1, <2>8, <2>10, <2>13, AddEffect DEF VoteKinds
    <2>15. Open(fx1, L)
      BY <1>a, <2>1, <2>8, <2>10, <2>11, StaysOpen
    <2> HIDE DEF fx1
    <2>16. EffectsOK(D, S, v, f, fx2)
      BY <2>9, <2>10, <2>14, <2>15, AddEffect
    <2>17. Open(fx2, L)
      <3>1. fx1 \in Seq(Effects)
        BY <2>14 DEF EffectsOK
      <3> QED BY <2>9, <2>10, <2>15, <3>1, StaysOpen
    <2> HIDE DEF fx2
    <2>18. t.e = f /\ t.fx = fx2 /\ t.ok = TRUE /\ t = [e |-> t.e, fx |-> t.fx, ok |-> t.ok]
      BY <2>6, <2>12
    <2> QED BY <2>3, <2>4, <2>16, <2>17, <2>18 DEF RunOK, Stays, L
  <1> QED BY <1>2, <1>3

-------------------------------------------------------------------------------
(* Evaluating a round *)

\* Whoever is counted for a value has voted for it, durably if honest.
LEMMA VotersBacked ==
    ASSUME NEW D, NEW S, NEW v, NEW e, EngineOK(D, S, v, e), NEW r, NEW kind, NEW b
    PROVE  /\ Backed(D, kind, e.height, r, b, VotersFor(e, r, kind, b))
           /\ VotersFor(e, r, kind, b) \in SUBSET Validators
  <1>1. e.votes \subseteq VoteMsgs
    BY DEF EngineOK, Engines
  <1>2. ASSUME NEW w \in VotersFor(e, r, kind, b)
        PROVE  w \in Validators /\ (w \notin Faulty => Vote(kind, e.height, r, w, b) \in D[w])
    <2>1. PICK n \in e.votes : n.round = r /\ n.kind = kind /\ n.value = b /\ n.validator = w
      BY <1>2 DEF VotersFor
    <2>2. n \in VoteMsgs /\ n.height = e.height /\ Signed(D, n)
      BY <1>1 DEF EngineOK, CachesOK
    <2>3. n = Vote(kind, e.height, r, w, b)
      BY <2>1, <2>2 DEF VoteMsgs, Vote
    <2> QED BY <2>1, <2>2, <2>3 DEF VoteMsgs, Signed, Honest
  <1> QED BY <1>2 DEF Backed

\* A validator is counted once per slot, so a round has one value with a quorum.
LEMMA OneQuorum ==
    ASSUME NEW D, NEW S, NEW v, NEW e, EngineOK(D, S, v, e), NEW r, NEW kind, NEW b, NEW c,
           HasQuorum(e, r, kind, b), HasQuorum(e, r, kind, c)
    PROVE  b = c
  <1>1. VotersFor(e, r, kind, b) \cap VotersFor(e, r, kind, c) # {}
    BY VotersBacked, QuorumsMeet DEF HasQuorum
  <1>2. PICK m, n \in e.votes : /\ m.round = r /\ m.kind = kind /\ m.value = b
                                /\ n.round = r /\ n.kind = kind /\ n.value = c
                                /\ m.validator = n.validator
    BY <1>1 DEF VotersFor
  <1>3. SameSlot(m, n)
    BY <1>2 DEF SameSlot, EngineOK, CachesOK
  <1> QED BY <1>2, <1>3 DEF EngineOK, CachesOK

\* A cached proposal's block is stored, executes and fits its round.
LEMMA ProposalBlock ==
    ASSUME NEW D, NEW S, NEW v, Context(D, S, v), NEW e, EngineOK(D, S, v, e),
           NEW r, NEW b, HasProposal(e, r, b)
    PROVE  b \in Blocks /\ Fits(b, r) /\ StoredIn(S, e.height, b)
  <1>1. PICK p \in e.proposals : p.round = r /\ p.value = b
    BY DEF HasProposal
  <1>2. p \in ProposalMsgs /\ p.height = e.height /\ p \in S
    BY DEF EngineOK, Engines, CachesOK
  <1> QED BY <1>1, <1>2 DEF ProposalMsgs, Context, StoreOK, StoredIn

\* A newer proof-of-lock becomes the valid value.
LEMMA ValidOK ==
    ASSUME NEW D, NEW S, NEW v, Context(D, S, v), NEW e, EngineOK(D, S, v, e), e.started,
           NEW r \in Rounds, NEW b, HasQuorum(e, r, "prevote", b), HasProposal(e, r, b),
           r <= e.round, r > e.validRound,
           NEW f, f = [e EXCEPT !.validRound = r, !.validBlock = b,
                                !.validProof = VotersFor(e, r, "prevote", b)]
    PROVE  EngineOK(D, S, v, f)
  <1>1. b \in Blocks /\ Fits(b, r) /\ StoredIn(S, e.height, b)
    BY ProposalBlock
  <1>2. /\ Backed(D, "prevote", e.height, r, b, VotersFor(e, r, "prevote", b))
        /\ VotersFor(e, r, "prevote", b) \in SUBSET Validators
        /\ IsQuorum(VotersFor(e, r, "prevote", b))
    BY VotersBacked DEF HasQuorum
  <1>3. e \in Engines /\ f \in Engines
    BY <1>1, <1>2 DEF EngineOK, Engines
  <1>4. /\ f.id = e.id /\ f.height = e.height /\ f.round = e.round /\ f.phase = e.phase
        /\ f.started = e.started /\ f.lockedRound = e.lockedRound
        /\ f.lockedBlock = e.lockedBlock /\ f.validRound = r
        /\ f.validBlock = b /\ f.validProof = VotersFor(e, r, "prevote", b)
        /\ f.proposals = e.proposals /\ f.votes = e.votes /\ f.requested = e.requested
        /\ f.decisions = e.decisions
    BY <1>3 DEF Engines
  <1>5. /\ e.lockedRound \in Int /\ e.validRound \in Int /\ r \in Nat /\ NoRound \in Int
        /\ NoRound < r /\ b # None
    BY <1>1, <1>3, Basics DEF Engines
  <1>6. LockOK(D, S, v, f)
    BY <1>1, <1>2, <1>4, <1>5 DEF EngineOK, LockOK
  <1>7. CachesOK(D, S, v, f)
    BY <1>4 DEF EngineOK, CachesOK, HasQuorum, VotersFor
  <1>8. SlotsOK(D, v, f)
    BY <1>4 DEF EngineOK, SlotsOK
  <1> QED BY <1>3, <1>4, <1>6, <1>7, <1>8 DEF EngineOK

\* A proof-of-lock of the current round, seen before precommitting, becomes the
\* lock: no durable block precommit can be newer.
LEMMA LockingOK ==
    ASSUME NEW D, NEW S, NEW v, Context(D, S, v), NEW e, EngineOK(D, S, v, e),
           e.started, e.phase = "prevote", e.validRound = e.round,
           NEW b, HasQuorum(e, e.round, "prevote", b), HasProposal(e, e.round, b),
           NEW f, f = [e EXCEPT !.lockedRound = e.round, !.lockedBlock = b]
    PROVE  EngineOK(D, S, v, f) /\ PolcIn(D, e.height, e.round, b) /\ Fits(b, e.round)
  <1>1. b \in Blocks /\ Fits(b, e.round) /\ StoredIn(S, e.height, b) /\ b # None
    BY ProposalBlock, Basics
  <1>2. PolcIn(D, e.height, e.round, b)
    BY VotersBacked, BackedPolc DEF HasQuorum
  <1>3. e.validBlock = b
    <2>1. HasQuorum(e, e.round, "prevote", e.validBlock)
      BY DEF EngineOK, CachesOK
    <2> QED BY <2>1, OneQuorum
  <1>4. e \in Engines /\ f \in Engines
    BY <1>1 DEF EngineOK, Engines
  <1>5. /\ f.id = e.id /\ f.height = e.height /\ f.round = e.round /\ f.phase = e.phase
        /\ f.started = e.started /\ f.lockedRound = e.round
        /\ f.lockedBlock = b /\ f.validRound = e.validRound
        /\ f.validBlock = e.validBlock /\ f.validProof = e.validProof
        /\ f.proposals = e.proposals /\ f.votes = e.votes /\ f.requested = e.requested
        /\ f.decisions = e.decisions
    BY <1>4 DEF Engines
  <1>6. e.round \in Nat /\ NoRound # e.round
    BY <1>4, Basics DEF Engines
  <1>7. ASSUME NEW m \in D[v], m.kind = "precommit", m.height = e.height
        PROVE  m.round < e.round
    BY <1>7 DEF EngineOK, SlotsOK
  <1>8. LockOK(D, S, v, f)
    BY <1>1, <1>2, <1>3, <1>5, <1>6, <1>7 DEF EngineOK, LockOK
  <1>9. CachesOK(D, S, v, f)
    BY <1>5 DEF EngineOK, CachesOK, HasQuorum, VotersFor
  <1>10. SlotsOK(D, v, f)
    BY <1>5 DEF EngineOK, SlotsOK
  <1> QED BY <1>1, <1>2, <1>4, <1>5, <1>8, <1>9, <1>10 DEF EngineOK

\* Replacing the engine of a run by one of the same round and decisions.
LEMMA ReplaceEngine ==
    ASSUME NEW D, NEW S, NEW v, NEW s, RunOK(D, S, v, s),
           NEW f, EngineOK(D, S, v, f), Stays(s.e, f), s.e.decisions \subseteq f.decisions,
           \/ Open(s.fx, {"prevote"})
           \/ f.lockedRound = s.e.lockedRound /\ f.lockedBlock = s.e.lockedBlock,
           NEW t, t = [s EXCEPT !.e = f]
    PROVE  RunOK(D, S, v, t) /\ t.e = f /\ t.fx = s.fx /\ t.ok = s.ok
  <1>1. t.e = f /\ t.fx = s.fx /\ t.ok = s.ok /\ t = [e |-> t.e, fx |-> t.fx, ok |-> t.ok]
    BY DEF RunOK
  <1>2. EffectsOK(D, S, v, f, s.fx)
    BY EffectsStand DEF RunOK, Stays
  <1> QED BY <1>1, <1>2 DEF RunOK

\* accept_polc: the valid value, then the lock and a precommit.
LEMMA AcceptPolcOK ==
    ASSUME NEW D, NEW S, NEW v, Context(D, S, v), NEW s, Underway(D, S, v, s),
           NEW r \in Rounds, NEW b, HasQuorum(s.e, r, "prevote", b),
           NEW t, t = AcceptPolc(s, r, b)
    PROVE  Continues(D, S, v, s, t)
  <1> DEFINE e == s.e
             newer == [e EXCEPT !.validRound = r, !.validBlock = b,
                                !.validProof = VotersFor(e, r, "prevote", b)]
             valid == IF r <= e.round /\ r > e.validRound THEN newer ELSE e
             locked == [valid EXCEPT !.lockedRound = r, !.lockedBlock = b]
             l == [s EXCEPT !.e = locked]
  <1>1. EngineOK(D, S, v, e) /\ e \in Engines /\ e.round \in Nat /\ e.validRound \in Int
    BY Basics DEF Underway, RunOK, EngineOK, Engines
  <1>2. RunOK(D, S, v, s) /\ s.ok = TRUE /\ s.e.started /\ Open(s.fx, Decided(e.phase))
    BY DEF Underway
  <1>3. CASE ~HasProposal(e, r, b)
    <2>1. t = s
      BY <1>3 DEF AcceptPolc
    <2> QED BY <2>1 DEF Stays, Continues
  <1>4. CASE HasProposal(e, r, b)
    <2>1. EngineOK(D, S, v, valid)
      <3> HIDE DEF newer
      <3>1. CASE r <= e.round /\ r > e.validRound
        <4>1. EngineOK(D, S, v, newer)
          BY <1>1, <1>2, <1>4, <3>1, ValidOK DEF newer
        <4> QED BY <3>1, <4>1
      <3>2. CASE ~(r <= e.round /\ r > e.validRound)
        BY <1>1, <3>2
      <3> QED BY <3>1, <3>2
    <2>2. /\ Stays(e, valid) /\ valid.decisions = e.decisions /\ valid.votes = e.votes
          /\ valid.lockedRound = e.lockedRound /\ valid.lockedBlock = e.lockedBlock
          /\ valid.phase = e.phase /\ valid.proposals = e.proposals
      BY <1>1 DEF Stays, Engines
    <2>3. valid.validRound = IF r <= e.round /\ r > e.validRound THEN r ELSE e.validRound
      BY <1>1 DEF Engines
    <2> HIDE DEF valid
    <2>4. CASE ~(r = e.round /\ e.phase = "prevote")
      <3>1. t = [s EXCEPT !.e = valid]
        BY <1>4, <2>4 DEF AcceptPolc, valid
      <3>2. RunOK(D, S, v, t) /\ t.e = valid /\ t.fx = s.fx /\ t.ok = s.ok
        BY <1>2, <2>1, <2>2, <3>1, ReplaceEngine
      <3> QED BY <1>2, <2>2, <3>2 DEF Continues, Underway, Stays
    <2>5. CASE r = e.round /\ e.phase = "prevote"
      <3>1. t = CastVote(l, "precommit", b)
        BY <1>4, <2>5 DEF AcceptPolc, valid
      <3>2. valid.validRound = valid.round /\ valid.round = r
        <4>1. e.validRound <= e.round
          BY <1>1, Basics DEF EngineOK, LockOK, Engines
        <4> QED BY <1>1, <2>2, <2>3, <2>5, <4>1 DEF Stays
      <3>3. /\ HasQuorum(valid, valid.round, "prevote", b) /\ HasProposal(valid, valid.round, b)
            /\ valid.phase = "prevote" /\ valid.started
        BY <1>2, <1>4, <2>2, <2>5, <3>2 DEF HasQuorum, VotersFor, HasProposal, Stays
      <3>4. EngineOK(D, S, v, locked) /\ PolcIn(D, valid.height, r, b) /\ Fits(b, r)
        BY <2>1, <3>2, <3>3, LockingOK
      <3>5. /\ Stays(e, locked) /\ locked.decisions = e.decisions /\ locked.votes = e.votes
            /\ locked.phase = "prevote" /\ locked.lockedRound = r /\ locked.lockedBlock = b
            /\ locked.proposals = e.proposals
        <4>1. valid \in Engines
          BY <2>1 DEF EngineOK
        <4> QED BY <2>2, <2>5, <4>1 DEF Stays, Engines
      <3> HIDE DEF locked
      <3>6. Open(s.fx, {"prevote"})
        BY <1>2, <2>5 DEF Decided
      <3>7. RunOK(D, S, v, l) /\ l.e = locked /\ l.fx = s.fx /\ l.ok = TRUE
        BY <1>2, <3>4, <3>5, <3>6, ReplaceEngine
      <3> HIDE DEF l
      <3>8. b \in Blocks
        BY <1>1, <1>4, ProposalBlock
      <3>9. MayCast(D, v, l.e, "precommit", b)
        BY <2>2, <2>5, <3>4, <3>5, <3>7, <3>8, Basics DEF MayCast, Stays, VoteKinds
      <3>10. Underway(D, S, v, l)
        BY <1>2, <3>5, <3>6, <3>7 DEF Underway, Stays, Decided
      <3>11. Continues(D, S, v, l, t)
        BY <3>1, <3>9, <3>10, CastVoteOK
      <3> QED BY <3>5, <3>7, <3>11 DEF Stays, Continues
    <2> QED BY <2>4, <2>5
  <1> QED BY <1>3, <1>4

\* evaluate_prevotes: a quorum for a block, or a quorum for nil.
LEMMA EvaluatePrevotesOK ==
    ASSUME NEW D, NEW S, NEW v, Context(D, S, v), NEW s, Underway(D, S, v, s),
           NEW r \in Rounds, NEW t, t = EvaluatePrevotes(s, r)
    PROVE  Continues(D, S, v, s, t)
  <1> DEFINE polc == QuorumBlocks(s.e, r, "prevote")
             b == CHOOSE c \in polc : TRUE
  <1>1. CASE polc # {}
    <2>1. b \in polc
      BY <1>1
    <2>2. t = AcceptPolc(s, r, b)
      BY <1>1 DEF EvaluatePrevotes
    <2>3. HasQuorum(s.e, r, "prevote", b)
      BY <2>1 DEF QuorumBlocks
    <2> HIDE DEF b
    <2> QED BY <2>2, <2>3, AcceptPolcOK
  <1>2. CASE polc = {} /\ r = s.e.round /\ s.e.phase = "prevote"
                       /\ HasQuorum(s.e, r, "prevote", Nil)
    <2>1. t = CastVote(s, "precommit", Nil)
      BY <1>2 DEF EvaluatePrevotes
    <2>2. MayCast(D, v, s.e, "precommit", Nil)
      BY <1>2 DEF MayCast, VoteKinds
    <2> QED BY <2>1, <2>2, CastVoteOK
  <1>3. CASE polc = {} /\ ~(r = s.e.round /\ s.e.phase = "prevote"
                                        /\ HasQuorum(s.e, r, "prevote", Nil))
    <2>1. t = s
      BY <1>3 DEF EvaluatePrevotes
    <2> QED BY <2>1 DEF Continues, Stays
  <1> QED BY <1>1, <1>2, <1>3

\* A step that lost its effects, or has none yet.
LEMMA NoEffects ==
    ASSUME NEW D, NEW S, NEW v, NEW e, NEW K
    PROVE  EffectsOK(D, S, v, e, <<>>) /\ Open(<<>>, K)
  BY DEF EffectsOK, Open

\* A step that fails keeps the engine's invariant.
LEMMA FailedOK ==
    ASSUME NEW D, NEW S, NEW v, NEW e, EngineOK(D, S, v, e), NEW t, t = Failed(e)
    PROVE  RunOK(D, S, v, t) /\ t.e = e
  BY NoEffects DEF RunOK, Failed

\* A step ends, in the round it began in.
Ends(D, S, v, s, t) == RunOK(D, S, v, t) /\ Stays(s.e, t.e)

\* evaluate_precommits: a certificate, if the block is at hand.
LEMMA EvaluatePrecommitsOK ==
    ASSUME NEW D, NEW S, NEW v, Context(D, S, v), NEW s, Underway(D, S, v, s),
           NEW r \in Rounds, NEW held, NEW t, t = EvaluatePrecommits(s, r, held)
    PROVE  Ends(D, S, v, s, t)
  <1> DEFINE e == s.e
             committed == QuorumBlocks(e, r, "precommit")
             b == CHOOSE c \in committed : TRUE
             Q == VotersFor(e, r, "precommit", b)
             cert == Certificate(e.height, r, b, Q)
             f == [e EXCEPT !.phase = "finalized", !.finalized = b]
  <1>1. EngineOK(D, S, v, e) /\ e \in Engines /\ RunOK(D, S, v, s) /\ s.fx \in Seq(Effects)
    BY DEF Underway, RunOK, EngineOK, EffectsOK
  <1>2. CASE committed = {}
    <2>1. t = s
      BY <1>2 DEF EvaluatePrecommits
    <2> QED BY <1>1, <2>1 DEF Ends, Stays
  <1>3. CASE committed # {}
    <2>1. b \in Blocks /\ HasQuorum(e, r, "precommit", b)
      <3>1. b \in committed
        BY <1>3
      <3>2. e.votes \subseteq VoteMsgs
        BY <1>1 DEF Engines
      <3> HIDE DEF b
      <3> QED BY <3>1, <3>2 DEF QuorumBlocks, VoteMsgs
    <2>2. CASE b \notin held \/ b.round > r
      <3>1. t = Failed(e)
        BY <1>3, <2>2 DEF EvaluatePrecommits
      <3>2. RunOK(D, S, v, t) /\ t.e = e
        BY <1>1, <3>1, FailedOK
      <3> QED BY <3>2 DEF Ends, Stays
    <2>3. CASE ~(b \notin held \/ b.round > r)
      <3>1. t = [s EXCEPT !.e = f, !.fx = Append(@, Finalize(cert))]
        BY <1>3, <2>3 DEF EvaluatePrecommits
      <3> HIDE DEF b
      <3>2. f \in Engines
        BY <1>1, <2>1 DEF Engines, Phases
      <3>3. /\ f.id = e.id /\ f.height = e.height /\ f.round = e.round /\ f.phase = "finalized"
            /\ f.started = e.started /\ f.lockedRound = e.lockedRound
            /\ f.lockedBlock = e.lockedBlock /\ f.validRound = e.validRound
            /\ f.validBlock = e.validBlock /\ f.validProof = e.validProof
            /\ f.proposals = e.proposals /\ f.votes = e.votes /\ f.requested = e.requested
            /\ f.decisions = e.decisions
        BY <1>1 DEF Engines
      <3>4. EngineOK(D, S, v, f)
        <4>1. LockOK(D, S, v, f)
          BY <1>1, <3>3 DEF EngineOK, LockOK
        <4>2. CachesOK(D, S, v, f)
          BY <1>1, <3>3 DEF EngineOK, CachesOK, HasQuorum, VotersFor
        <4>3. SlotsOK(D, v, f)
          BY <1>1, <3>3 DEF Underway, EngineOK, SlotsOK
        <4> QED BY <1>1, <3>2, <3>3, <4>1, <4>2, <4>3 DEF EngineOK
      <3>5. /\ Finalize(cert) \in Effects /\ EffectOK(D, S, v, f, Finalize(cert))
            /\ Finalize(cert).type = "finalize"
        <4>1. /\ Backed(D, "precommit", e.height, r, b, Q) /\ Q \in SUBSET Validators
              /\ IsQuorum(Q)
          BY <1>1, <2>1, VotersBacked DEF HasQuorum
        <4> HIDE DEF Q
        <4>2. cert \in Certs /\ CertOK(D, cert) /\ cert.height = e.height
          BY <1>1, <2>1, <4>1 DEF Certificate, Certs, CertOK, Engines
        <4> QED BY <3>3, <4>2 DEF Finalize, Effects, EffectOK
      <3> HIDE DEF f, cert
      <3>6. EffectsOK(D, S, v, f, s.fx)
        BY <1>1, <3>3, EffectsStand DEF RunOK
      <3>7. EffectsOK(D, S, v, f, Append(s.fx, Finalize(cert)))
        <4>1. Open(s.fx, Decided(e.phase))
          BY DEF Underway
        <4> QED BY <3>5, <3>6, <4>1, AddEffect
      <3>8. /\ t.e = f /\ t.fx = Append(s.fx, Finalize(cert)) /\ t.ok = s.ok
            /\ t = [e |-> t.e, fx |-> t.fx, ok |-> t.ok]
        BY <1>1, <3>1 DEF RunOK
      <3> QED BY <1>1, <3>3, <3>4, <3>7, <3>8 DEF Ends, Stays, RunOK
    <2> QED BY <2>2, <2>3
  <1> QED BY <1>2, <1>3

\* evaluate_round: prevotes, then precommits.
LEMMA EvaluateRoundOK ==
    ASSUME NEW D, NEW S, NEW v, Context(D, S, v), NEW s, Underway(D, S, v, s),
           NEW r \in Rounds, NEW held, NEW t, t = EvaluateRound(s, r, held)
    PROVE  Ends(D, S, v, s, t)
  <1> DEFINE p == EvaluatePrevotes(s, r)
  <1>1. Continues(D, S, v, s, p)
    BY EvaluatePrevotesOK
  <1>2. t = EvaluatePrecommits(p, r, held)
    BY DEF EvaluateRound
  <1> HIDE DEF p
  <1>3. Ends(D, S, v, p, t)
    BY <1>1, <1>2, EvaluatePrecommitsOK DEF Continues
  <1> QED BY <1>1, <1>3 DEF Continues, Ends, Stays

\* activate_current_round: the prevote the lock allows, then the evaluation.
LEMMA ActivateOK ==
    ASSUME NEW D, NEW S, NEW v, Context(D, S, v), NEW s, Underway(D, S, v, s),
           NEW held, NEW t, t = ActivateCurrentRound(s, held)
    PROVE  Ends(D, S, v, s, t)
  <1> DEFINE e == s.e
             current == {q \in e.proposals : q.round = e.round}
             p == CHOOSE q \in current : TRUE
             x == PrevoteFor(e, p)
             voted == IF e.phase = "propose" /\ current # {}
                      THEN CastVote(s, "prevote", x) ELSE s
  <1>1. EngineOK(D, S, v, e) /\ e \in Engines /\ e.round \in Rounds
    BY DEF Underway, RunOK, EngineOK, Engines
  <1>2. t = EvaluateRound(voted, e.round, held)
    BY DEF ActivateCurrentRound
  <1>3. Continues(D, S, v, s, voted)
    <2>1. CASE ~(e.phase = "propose" /\ current # {})
      BY <2>1 DEF Continues, Stays
    <2>2. CASE e.phase = "propose" /\ current # {}
      <3>1. voted = CastVote(s, "prevote", x)
        BY <2>2
      <3>2. p \in e.proposals /\ p.round = e.round
        <4>1. p \in current
          BY <2>2
        <4> HIDE DEF p
        <4> QED BY <4>1
      <3> HIDE DEF p, voted
      <3>3. /\ p \in ProposalMsgs /\ p.value \in Blocks /\ p \in S
            /\ p.height = e.height /\ p.validRound < p.round /\ ProofOK(D, p)
        BY <1>1, <3>2 DEF EngineOK, CachesOK, Engines, ProposalMsgs
      <3>4. Fits(p.value, e.round)
        BY <3>2, <3>3 DEF Context, StoreOK
      <3>5. CASE x = Nil
        <4>1. MayCast(D, v, e, "prevote", x)
          BY <2>2, <3>5 DEF MayCast, VoteKinds
        <4> QED BY <3>1, <4>1, CastVoteOK
      <3>6. CASE x # Nil
        <4>1. /\ x = p.value
              /\ \/ e.lockedBlock = None \/ e.lockedBlock = p.value
                 \/ p.validRound > e.lockedRound
          BY <3>6 DEF PrevoteFor
        <4>2. LockLets(D, v, e.height, e.round, p.value)
          <5> SUFFICES ASSUME NEW m \in D[v], m.kind = "precommit", m.height = e.height,
                              m.value # Nil, m.value # p.value
                       PROVE  \E vr \in Rounds : /\ m.round < vr /\ vr < e.round
                                                 /\ PolcIn(D, e.height, vr, p.value)
            BY DEF LockLets
          <5>1. \/ m.round < e.lockedRound
                \/ m.round = e.lockedRound /\ m.value = e.lockedBlock
            BY <1>1 DEF EngineOK, LockOK
          <5>2. m.round \in Nat /\ e.round \in Nat
            BY <1>1, Basics, MsgFields DEF Context, DurableOK
          <5>3. e.lockedBlock # None /\ e.lockedRound \in Rounds /\ e.lockedRound < e.round
            <6>1. e.lockedRound \in Rounds \cup {NoRound}
              BY <1>1 DEF Engines
            <6>2. NoRound < m.round
              BY <5>2 DEF NoRound
            <6>3. e.lockedRound # NoRound
              BY <5>1, <5>2, <6>2, Basics
            <6> QED BY <1>1, <2>2, <6>1, <6>3 DEF EngineOK, LockOK, SlotsOK
          <5>4. CASE e.lockedBlock = p.value
            <6>1. PolcIn(D, e.height, e.lockedRound, p.value)
              BY <1>1, <5>3, <5>4 DEF EngineOK, LockOK
            <6> QED BY <5>1, <5>3, <5>4, <6>1
          <5>5. CASE p.validRound > e.lockedRound
            <6>1. p.validRound \in Rounds /\ p.validRound # NoRound
              BY <3>3, <5>3, <5>5, Basics DEF ProposalMsgs
            <6>2. PolcIn(D, e.height, p.validRound, p.value)
              BY <3>3, <6>1, BackedPolc DEF ProofOK
            <6>3. m.round < p.validRound /\ p.validRound < e.round
              BY <3>2, <3>3, <5>1, <5>2, <5>3, <5>5, <6>1, Basics
            <6> QED BY <6>1, <6>2, <6>3
          <5> QED BY <4>1, <5>3, <5>4, <5>5
        <4>3. MayCast(D, v, e, "prevote", x)
          BY <2>2, <3>3, <3>4, <4>1, <4>2 DEF MayCast, VoteKinds
        <4> QED BY <3>1, <4>3, CastVoteOK
      <3> QED BY <3>5, <3>6
    <2> QED BY <2>1, <2>2
  <1> HIDE DEF voted
  <1>4. Ends(D, S, v, voted, t)
    BY <1>1, <1>2, <1>3, EvaluateRoundOK DEF Continues
  <1> QED BY <1>3, <1>4 DEF Continues, Ends, Stays

-------------------------------------------------------------------------------
(* Entering a round *)

\* The current round is always within the cache window.
LEMMA CurrentCacheable ==
    ASSUME NEW e, e.round \in Nat
    PROVE  Cacheable(e, e.round)
  BY EngineAssumption DEF Cacheable

\* The engine as it enters round r.
Entered(e, r) == PruneCaches([e EXCEPT !.round = r, !.phase = "propose"])

\* enter_round and prune_caches: nothing is decided in the new round yet, or
\* only its proposal.
LEMMA EnteredOK ==
    ASSUME NEW D, NEW S, NEW v, Context(D, S, v), NEW e, EngineOK(D, S, v, e), e.started,
           NEW r \in Rounds, e.round <= r, e.validRound < r, e.lockedRound < r,
           \A m \in e.decisions : m.round = r => m.kind = "proposal",
           NEW f, f = Entered(e, r)
    PROVE  /\ EngineOK(D, S, v, f) /\ f.height = e.height /\ f.round = r /\ f.phase = "propose"
           /\ f.validBlock = e.validBlock /\ f.validRound = e.validRound
  <1> DEFINE g == [e EXCEPT !.round = r, !.phase = "propose"]
  <1>1. e \in Engines /\ g \in Engines
    BY DEF EngineOK, Engines, Phases
  <1>2. g.round = r /\ r \in Nat /\ e.round \in Nat
    BY <1>1, Basics DEF Engines
  <1>3. /\ f.id = e.id /\ f.height = e.height /\ f.round = r /\ f.phase = "propose"
        /\ f.started = e.started /\ f.lockedRound = e.lockedRound
        /\ f.lockedBlock = e.lockedBlock /\ f.validRound = e.validRound
        /\ f.validBlock = e.validBlock /\ f.validProof = e.validProof
        /\ f.proposals \subseteq e.proposals /\ f.votes \subseteq e.votes
        /\ f.requested \subseteq e.requested /\ f.pending \subseteq e.pending
        /\ f.decisions = {m \in e.decisions : Cacheable(g, m.round)}
        /\ f.finalized = e.finalized
    BY <1>1 DEF Entered, PruneCaches, Engines
  <1>4. f \in Engines
    <2>1. f = [id |-> f.id, height |-> f.height, round |-> f.round, phase |-> f.phase,
               started |-> f.started, finalized |-> f.finalized,
               lockedRound |-> f.lockedRound, lockedBlock |-> f.lockedBlock,
               validRound |-> f.validRound, validBlock |-> f.validBlock,
               validProof |-> f.validProof, proposals |-> f.proposals, votes |-> f.votes,
               requested |-> f.requested, decisions |-> f.decisions, pending |-> f.pending]
      BY <1>1 DEF Entered, PruneCaches, Engines
    <2> QED BY <1>1, <1>3, <2>1 DEF Engines, Phases
  <1> HIDE DEF g
  <1>5. LockOK(D, S, v, f)
    <2>1. e.lockedRound \in Int /\ e.validRound \in Int
      BY <1>1, Basics DEF Engines
    <2> QED BY <1>2, <1>3, <2>1 DEF EngineOK, LockOK
  <1>6. CachesOK(D, S, v, f)
    <2>1. f.validRound # f.round
      BY <1>1, <1>2, <1>3, Basics DEF Engines
    <2> QED BY <1>3, <2>1 DEF EngineOK, CachesOK
  <1>7. SlotsOK(D, v, f)
    <2>1. ASSUME NEW m \in D[v], m.height = f.height
          PROVE  m.round < f.round \/ (m.round = f.round /\ m \in f.decisions)
      <3>1. m.round \in Nat
        BY MsgFields DEF Context, DurableOK
      <3>2. m.round < e.round \/ (m.round = e.round /\ m \in e.decisions)
        BY <1>3, <2>1 DEF EngineOK, SlotsOK
      <3>3. Cacheable(g, r)
        BY <1>2, CurrentCacheable
      <3> QED BY <1>2, <1>3, <3>1, <3>2, <3>3
    <2>2. ASSUME NEW m \in f.decisions PROVE m.round <= f.round
      <3>1. m \in Msgs /\ m.round <= e.round
        BY <1>1, <1>3 DEF EngineOK, SlotsOK, Engines
      <3> QED BY <1>2, <1>3, <3>1, MsgFields
    <2> QED BY <1>3, <2>1, <2>2 DEF EngineOK, SlotsOK
  <1> QED BY <1>3, <1>4, <1>5, <1>6, <1>7 DEF EngineOK

\* A list of one effect.
LEMMA OneEffect ==
    ASSUME NEW D, NEW S, NEW v, NEW e, NEW x \in Effects, EffectOK(D, S, v, e, x)
    PROVE  EffectsOK(D, S, v, e, <<x>>)
  BY DEF EffectsOK

\* Timers are set for the round the engine is in.
LEMMA ScheduleOK ==
    ASSUME NEW D, NEW S, NEW v, NEW e \in Engines, NEW phase \in Phases, NEW f
    PROVE  Schedule(e, phase) \in Effects /\ EffectOK(D, S, v, f, Schedule(e, phase))
  BY DEF Schedule, Effects, EffectOK, Timeouts, Engines

\* A step ends, at the height it began at, perhaps in a later round.
Moves(D, S, v, e, t) == RunOK(D, S, v, t) /\ t.e.height = e.height /\ t.e.started

\* enter_round.
LEMMA EnterRoundOK ==
    ASSUME NEW D, NEW S, NEW v, Context(D, S, v), NEW e, EngineOK(D, S, v, e), e.started,
           NEW r \in Nat, e.round <= r, e.validRound < r, e.lockedRound < r,
           \A m \in e.decisions : m.round = r => m.kind = "proposal",
           NEW held, NEW t, t = EnterRound(e, r, held)
    PROVE  Moves(D, S, v, e, t)
  <1> DEFINE f == Entered(e, r)
             fx == <<Schedule(f, "propose")>>
  <1>1. CASE r >= MaxRounds
    <2>1. t = Failed(e)
      BY <1>1 DEF EnterRound
    <2>2. RunOK(D, S, v, t) /\ t.e = e
      BY <2>1, FailedOK
    <2> QED BY <2>2 DEF Moves
  <1>2. CASE r < MaxRounds
    <2>1. r \in Rounds /\ ~(r >= MaxRounds)
      BY <1>2, Basics DEF Rounds
    <2>2. /\ EngineOK(D, S, v, f) /\ f.height = e.height /\ f.round = r /\ f.phase = "propose"
          /\ f.validBlock = e.validBlock /\ f.validRound = e.validRound
      BY <2>1, EnteredOK
    <2>3. f.started = e.started /\ f.id = e.id /\ f \in Engines
      <3>1. e \in Engines
        BY DEF EngineOK
      <3>2. f.started = e.started /\ f.id = e.id
        BY <3>1 DEF Entered, PruneCaches, Engines
      <3> QED BY <2>2, <3>2 DEF EngineOK
    <2>4. t = IF \E p \in f.proposals : p.round = r
              THEN ActivateCurrentRound(Run(f, fx), held)
              ELSE IF Proposer(e.height, r) = e.id
              THEN Run([f EXCEPT !.requested = @ \cup {r}], Append(fx, RequestProposal(f)))
              ELSE Run(f, fx)
      BY <2>1 DEF EnterRound, Entered
    <2> HIDE DEF f
    <2>5. /\ Schedule(f, "propose") \in Effects /\ EffectOK(D, S, v, f, Schedule(f, "propose"))
          /\ Schedule(f, "propose").type = "schedule"
      BY <2>3, ScheduleOK DEF Phases, Schedule
    <2>6. EffectsOK(D, S, v, f, fx) /\ fx \in Seq(Effects) /\ Open(fx, {})
      <3>1. EffectsOK(D, S, v, f, fx)
        BY <2>5, OneEffect
      <3> QED BY <2>5, <3>1 DEF EffectsOK, Open
    <2> HIDE DEF fx
    <2>7. CASE \E p \in f.proposals : p.round = r
      <3> DEFINE s == Run(f, fx)
      <3>1. s.e = f /\ s.fx = fx /\ s.ok = TRUE /\ s = [e |-> s.e, fx |-> s.fx, ok |-> s.ok]
        BY DEF Run
      <3>2. t = ActivateCurrentRound(s, held)
        BY <2>4, <2>7
      <3> HIDE DEF s
      <3>3. Underway(D, S, v, s)
        BY <2>2, <2>3, <2>6, <3>1 DEF Underway, RunOK, Decided
      <3>4. Ends(D, S, v, s, t)
        BY <3>2, <3>3, ActivateOK
      <3> QED BY <2>2, <2>3, <3>1, <3>4 DEF Ends, Stays, Moves
    <2>8. CASE ~(\E p \in f.proposals : p.round = r) /\ Proposer(e.height, r) = e.id
      <3> DEFINE g == [f EXCEPT !.requested = @ \cup {r}]
      <3>1. t = Run(g, Append(fx, RequestProposal(f)))
        BY <2>4, <2>8
      <3>2. g \in Engines
        BY <2>1, <2>3 DEF Engines
      <3>3. /\ g.id = f.id /\ g.height = f.height /\ g.round = f.round /\ g.phase = f.phase
            /\ g.started = f.started /\ g.lockedRound = f.lockedRound
            /\ g.lockedBlock = f.lockedBlock /\ g.validRound = f.validRound
            /\ g.validBlock = f.validBlock /\ g.validProof = f.validProof
            /\ g.proposals = f.proposals /\ g.votes = f.votes
            /\ g.requested = f.requested \cup {r} /\ g.decisions = f.decisions
        BY <2>3 DEF Engines
      <3> HIDE DEF g
      <3>4. EngineOK(D, S, v, g)
        <4>1. LockOK(D, S, v, g)
          BY <2>2, <3>3 DEF EngineOK, LockOK
        <4>2. CachesOK(D, S, v, g)
          BY <2>2, <2>3, <2>8, <3>3 DEF EngineOK, CachesOK, HasQuorum, VotersFor
        <4>3. SlotsOK(D, v, g)
          BY <2>2, <3>3 DEF EngineOK, SlotsOK
        <4> QED BY <2>2, <2>3, <3>2, <3>3, <4>1, <4>2, <4>3 DEF EngineOK
      <3>5. /\ RequestProposal(f) \in Effects /\ EffectOK(D, S, v, g, RequestProposal(f))
            /\ RequestProposal(f).type = "request"
        <4>1. f.validBlock # None => Fits(f.validBlock, f.round)
          <5> SUFFICES ASSUME f.validBlock # None PROVE Fits(f.validBlock, f.round)
            OBVIOUS
          <5>1. Fits(f.validBlock, f.validRound) /\ f.validRound <= f.round
            BY <2>2 DEF EngineOK, LockOK
          <5>2. f.validBlock \in Blocks /\ f.validRound \in Int /\ f.round \in Int
            BY <2>3, Basics DEF Engines
          <5>3. f.validBlock.round \in Int
            BY <5>2, Basics DEF Blocks
          <5> QED BY <5>1, <5>2, <5>3 DEF Fits
        <4> QED BY <2>3, <3>3, <4>1 DEF RequestProposal, Effects, EffectOK, Engines
      <3>6. EffectsOK(D, S, v, g, fx)
        BY <2>6, <3>3, EffectsStand
      <3>7. EffectsOK(D, S, v, g, Append(fx, RequestProposal(f)))
        <4> DEFINE K == {}
        <4>1. Open(fx, K)
          BY <2>6
        <4> HIDE DEF K
        <4> QED BY <3>5, <3>6, <4>1, AddEffect
      <3>8. /\ t.e = g /\ t.fx = Append(fx, RequestProposal(f)) /\ t.ok = TRUE
            /\ t = [e |-> t.e, fx |-> t.fx, ok |-> t.ok]
        BY <3>1 DEF Run
      <3> QED BY <2>2, <2>3, <3>3, <3>4, <3>7, <3>8 DEF RunOK, Moves
    <2>9. CASE ~(\E p \in f.proposals : p.round = r) /\ Proposer(e.height, r) # e.id
      <3>1. t = Run(f, fx)
        BY <2>4, <2>9
      <3>2. t.e = f /\ t.fx = fx /\ t.ok = TRUE /\ t = [e |-> t.e, fx |-> t.fx, ok |-> t.ok]
        BY <3>1 DEF Run
      <3> QED BY <2>2, <2>3, <2>6, <3>2 DEF RunOK, Moves
    <2> QED BY <2>7, <2>8, <2>9
  <1>3. r >= MaxRounds \/ r < MaxRounds
    BY Basics
  <1> QED BY <1>1, <1>2, <1>3

-------------------------------------------------------------------------------
(* Event handlers *)

\* A run without effects.
LEMMA QuietOK ==
    ASSUME NEW D, NEW S, NEW v, NEW e, EngineOK(D, S, v, e), NEW t, t = Run(e, <<>>)
    PROVE  /\ RunOK(D, S, v, t) /\ t.e = e /\ t.fx = <<>>
           /\ e.started => Underway(D, S, v, t)
  <1>1. t.e = e /\ t.fx = <<>> /\ t.ok = TRUE /\ t = [e |-> t.e, fx |-> t.fx, ok |-> t.ok]
    BY DEF Run
  <1>2. RunOK(D, S, v, t)
    BY <1>1, NoEffects DEF RunOK
  <1> QED BY <1>1, <1>2, NoEffects DEF Underway

\* The engine with other lists of requested rounds and pending messages.
WithLists(e, R, P) == [e EXCEPT !.requested = R, !.pending = P]

\* What ProposalReady and Persisted take off the engine's lists.
LEMMA FewerOK ==
    ASSUME NEW D, NEW S, NEW v, NEW e, EngineOK(D, S, v, e),
           NEW R \in SUBSET e.requested, NEW P \in SUBSET e.pending,
           NEW f, f = WithLists(e, R, P)
    PROVE  /\ EngineOK(D, S, v, f) /\ Stays(e, f) /\ f.phase = e.phase
           /\ f.decisions = e.decisions /\ f.lockedRound = e.lockedRound
           /\ f.lockedBlock = e.lockedBlock /\ f.validRound = e.validRound
           /\ f.validBlock = e.validBlock /\ f.validProof = e.validProof
           /\ f.proposals = e.proposals /\ f.votes = e.votes
  <1>1. e \in Engines /\ f \in Engines
    BY DEF EngineOK, Engines, WithLists
  <1>2. /\ f.id = e.id /\ f.height = e.height /\ f.round = e.round /\ f.phase = e.phase
        /\ f.started = e.started /\ f.lockedRound = e.lockedRound
        /\ f.lockedBlock = e.lockedBlock /\ f.validRound = e.validRound
        /\ f.validBlock = e.validBlock /\ f.validProof = e.validProof
        /\ f.proposals = e.proposals /\ f.votes = e.votes /\ f.requested = R
        /\ f.decisions = e.decisions
    BY <1>1 DEF Engines, WithLists
  <1>3. LockOK(D, S, v, f)
    BY <1>2 DEF EngineOK, LockOK
  <1>4. CachesOK(D, S, v, f)
    BY <1>2 DEF EngineOK, CachesOK, HasQuorum, VotersFor
  <1>5. SlotsOK(D, v, f)
    BY <1>2 DEF EngineOK, SlotsOK
  <1> QED BY <1>1, <1>2, <1>3, <1>4, <1>5 DEF EngineOK, Stays

\* proposal_ready: the proposer signs one proposal per round, with a proof of
\* the valid round it claims.
LEMMA ProposalReadyOK ==
    ASSUME NEW D, NEW S, NEW v, Context(D, S, v), NEW e, EngineOK(D, S, v, e), e.started,
           NEW h \in Nat, NEW r \in Rounds, NEW b \in Blocks,
           h = e.height => r = e.round, Fits(b, r),
           NEW t, t = ProposalReady(e, h, r, b)
    PROVE  RunOK(D, S, v, t) /\ Stays(e, t.e)
  <1> DEFINE proven == e.validRound # NoRound /\ e.validRound < r /\ e.validBlock = b
             vr == IF proven THEN e.validRound ELSE NoRound
             proof == IF proven THEN e.validProof ELSE {}
             m == Proposal(h, r, b, vr, proof)
             asked == [e EXCEPT !.requested = @ \ {r}]
             decided == [asked EXCEPT !.decisions = @ \cup {m}, !.pending = @ \cup {m}]
  <1>1. e \in Engines
    BY DEF EngineOK
  <1>2. CASE h # e.height \/ r \notin e.requested
    <2>1. t = Failed(e)
      BY <1>2 DEF ProposalReady
    <2>2. RunOK(D, S, v, t) /\ t.e = e
      BY <2>1, FailedOK
    <2> QED BY <2>2 DEF Stays
  <1>3. CASE ~(h # e.height \/ r \notin e.requested)
    <2>1. /\ EngineOK(D, S, v, asked) /\ Stays(e, asked) /\ asked.phase = e.phase
          /\ asked.decisions = e.decisions /\ asked.lockedRound = e.lockedRound
          /\ asked.lockedBlock = e.lockedBlock
      <3> DEFINE R == e.requested \ {r}
                 P == e.pending
      <3>1. asked = WithLists(e, R, P)
        BY <1>1 DEF Engines, WithLists
      <3>2. R \in SUBSET e.requested /\ P \in SUBSET e.pending
        OBVIOUS
      <3> HIDE DEF asked, R, P
      <3> QED BY <3>1, <3>2, FewerOK
    <2>2. /\ m \in Msgs /\ m.kind = "proposal" /\ m.height = e.height /\ m.round = e.round
          /\ m.validator = v /\ m.value = b /\ m.validRound = vr /\ m.proof = proof
          /\ Proposer(m.height, m.round) = v
      <3>1. Proposer(e.height, r) = v /\ v \in Validators
        BY <1>3, Basics DEF EngineOK, CachesOK, Context
      <3>2. vr \in Rounds \cup {NoRound} /\ proof \in SUBSET Validators
        BY <1>1 DEF Engines
      <3> HIDE DEF vr, proof
      <3>3. m.kind = "proposal" /\ m.height = h /\ m.round = r /\ m.validator = v
        BY <1>3, <3>1 DEF Proposal
      <3>4. m \in Msgs
        BY <1>3, <3>1, <3>2 DEF Proposal, Msgs, ProposalMsgs
      <3> QED BY <1>3, <3>1, <3>3, <3>4 DEF Proposal
    <2>3. ProofOK(D, m)
      <3>1. CASE proven
        <4>1. e.validBlock # None
          BY <3>1, Basics
        <4>2. /\ IsQuorum(e.validProof)
              /\ Backed(D, "prevote", e.height, e.validRound, e.validBlock, e.validProof)
          BY <4>1 DEF EngineOK, LockOK
        <4>3. vr = e.validRound /\ proof = e.validProof /\ e.validBlock = b
          BY <3>1
        <4> HIDE DEF m, vr, proof
        <4> QED BY <2>2, <4>2, <4>3 DEF ProofOK
      <3>2. CASE ~proven
        <4>1. vr = NoRound
          BY <3>2
        <4> HIDE DEF m, vr, proof
        <4> QED BY <2>2, <4>1 DEF ProofOK
      <3> QED BY <3>1, <3>2
    <2>4. t = IF m \in e.decisions THEN Run(asked, <<>>)
              ELSE IF \E d \in e.decisions : SameSlot(d, m) THEN Failed(asked)
              ELSE Run(decided, <<Persist(m, decided)>>)
      BY <1>3 DEF ProposalReady
    <2> HIDE DEF m, vr, proof
    <2>5. CASE m \in e.decisions
      <3>1. t = Run(asked, <<>>)
        BY <2>4, <2>5
      <3> HIDE DEF asked
      <3>2. RunOK(D, S, v, t) /\ t.e = asked
        BY <2>1, <3>1, QuietOK
      <3> QED BY <2>1, <3>2
    <2>6. CASE m \notin e.decisions /\ \E d \in e.decisions : SameSlot(d, m)
      <3>1. t = Failed(asked)
        BY <2>4, <2>6
      <3> HIDE DEF asked
      <3>2. RunOK(D, S, v, t) /\ t.e = asked
        BY <2>1, <3>1, FailedOK
      <3> QED BY <2>1, <3>2
    <2>7. CASE m \notin e.decisions /\ ~\E d \in e.decisions : SameSlot(d, m)
      <3>1. t = Run(decided, <<Persist(m, decided)>>)
        BY <2>4, <2>7
      <3> HIDE DEF asked
      <3>2. asked \in Engines
        BY <2>1 DEF EngineOK
      <3>3. decided = [asked EXCEPT !.decisions = @ \cup {m}, !.pending = @ \cup {m},
                                    !.phase = asked.phase]
        BY <3>2 DEF Engines
      <3>4. /\ Stays(asked, decided) /\ decided.decisions = asked.decisions \cup {m}
            /\ decided.lockedRound = asked.lockedRound
            /\ decided.lockedBlock = asked.lockedBlock
        BY <3>2 DEF Engines, Stays
      <3> HIDE DEF decided
      <3>5. asked.phase \in Phases /\ m.round = asked.round /\ asked.started
        BY <2>1, <2>2, <3>2 DEF Engines, Stays
      <3>6. EngineOK(D, S, v, decided)
        BY <2>1, <2>2, <3>3, <3>5, DecideOK
      <3>7. DecisionOK(D, v, decided, m)
        <4>1. \A d \in asked.decisions : ~SameSlot(d, m)
          BY <2>1, <2>7
        <4>2. m.height = asked.height /\ Fits(m.value, m.round) /\ m.validator = v
          BY <1>3, <2>1, <2>2 DEF Stays
        <4> QED BY <2>1, <2>2, <2>3, <3>4, <3>5, <4>1, <4>2, FreeSlotDecision
      <3>8. Persist(m, decided) \in Effects /\ EffectOK(D, S, v, decided, Persist(m, decided))
        <4>1. /\ SafetyState(decided) \in SafetyStates
              /\ SafetyOK(D, S, v, decided, m, SafetyState(decided))
          BY <3>6, <3>7, <2>2, SafetyStateOK DEF SafetyOK
        <4> QED BY <2>2, <3>7, <4>1 DEF Persist, Effects, EffectOK
      <3>9. EffectsOK(D, S, v, decided, <<Persist(m, decided)>>)
        BY <3>8, OneEffect
      <3>10. /\ t.e = decided /\ t.fx = <<Persist(m, decided)>> /\ t.ok = TRUE
             /\ t = [e |-> t.e, fx |-> t.fx, ok |-> t.ok]
        BY <3>1 DEF Run
      <3> QED BY <2>1, <3>4, <3>6, <3>9, <3>10 DEF RunOK, Stays
    <2> QED BY <2>5, <2>6, <2>7
  <1> QED BY <1>2, <1>3

\* A message that has been validated.
MessageOK(D, S, e, m) ==
    /\ m \in Msgs /\ m.height = e.height /\ m.round \in Rounds /\ Signed(D, m)
    /\ m.kind = "proposal" =>
          /\ m.validator = Proposer(m.height, m.round) /\ m.validRound < m.round
          /\ ProofOK(D, m) /\ m \in S

\* Two messages of an honest validator never fill one slot, so evidence of
\* that only ever names faulty validators.
LEMMA EvidenceOK ==
    ASSUME NEW D, NEW S, NEW v, Context(D, S, v), NEW e, NEW m, NEW n,
           Signed(D, m), Signed(D, n), SameSlot(n, m), m # n, m.validator \in Validators
    PROVE  /\ Evidence(m.validator) \in Effects /\ EffectOK(D, S, v, e, Evidence(m.validator))
           /\ Evidence(m.validator).type = "evidence"
  <1>1. m.validator \in Faulty
    BY DEF Signed, SameSlot, Context, DurableOK, Honest
  <1> QED BY <1>1 DEF Evidence, Effects, EffectOK

\* Adding one effect to a step under way ends it well.
LEMMA AddLastEffect ==
    ASSUME NEW D, NEW S, NEW v, NEW s, Underway(D, S, v, s),
           NEW x \in Effects, EffectOK(D, S, v, s.e, x), x.type = "evidence",
           NEW t, t = [s EXCEPT !.fx = Append(@, x)]
    PROVE  Ends(D, S, v, s, t)
  <1>1. /\ t.e = s.e /\ t.fx = Append(s.fx, x) /\ t.ok = s.ok
        /\ t = [e |-> t.e, fx |-> t.fx, ok |-> t.ok]
    BY DEF Underway, RunOK
  <1>2. EffectsOK(D, S, v, s.e, Append(s.fx, x))
    <2>1. EffectsOK(D, S, v, s.e, s.fx) /\ Open(s.fx, Decided(s.e.phase))
      BY DEF Underway, RunOK
    <2> QED BY <2>1, AddEffect
  <1> QED BY <1>1, <1>2 DEF Underway, RunOK, Ends, Stays

\* The engine with other sets of received messages.
WithMessages(e, P, M) == [e EXCEPT !.proposals = P, !.votes = M]

\* A first proposal of its round may be cached.
LEMMA AddProposalOK ==
    ASSUME NEW D, NEW S, NEW v, NEW e, EngineOK(D, S, v, e),
           NEW p, MessageOK(D, S, e, p), p.kind = "proposal",
           NEW f, f = WithMessages(e, e.proposals \cup {p}, e.votes)
    PROVE  /\ EngineOK(D, S, v, f) /\ Stays(e, f) /\ f.phase = e.phase
           /\ f.decisions = e.decisions /\ f.lockedRound = e.lockedRound
           /\ f.lockedBlock = e.lockedBlock
  <1>1. p \in ProposalMsgs
    BY MsgFields DEF MessageOK
  <1>2. e \in Engines /\ f \in Engines
    BY <1>1 DEF EngineOK, Engines, WithMessages
  <1>3. /\ f.id = e.id /\ f.height = e.height /\ f.round = e.round /\ f.phase = e.phase
        /\ f.started = e.started /\ f.lockedRound = e.lockedRound
        /\ f.lockedBlock = e.lockedBlock /\ f.validRound = e.validRound
        /\ f.validBlock = e.validBlock /\ f.validProof = e.validProof
        /\ f.proposals = e.proposals \cup {p} /\ f.votes = e.votes
        /\ f.requested = e.requested /\ f.decisions = e.decisions
    BY <1>2 DEF Engines, WithMessages
  <1>4. LockOK(D, S, v, f)
    BY <1>3 DEF EngineOK, LockOK
  <1>5. CachesOK(D, S, v, f)
    BY <1>3 DEF EngineOK, CachesOK, MessageOK, HasQuorum, VotersFor
  <1>6. SlotsOK(D, v, f)
    BY <1>3 DEF EngineOK, SlotsOK
  <1> QED BY <1>2, <1>3, <1>4, <1>5, <1>6 DEF EngineOK, Stays

\* A first vote in its slot may be counted.
LEMMA AddVoteOK ==
    ASSUME NEW D, NEW S, NEW v, NEW e, EngineOK(D, S, v, e),
           NEW m, MessageOK(D, S, e, m), m.kind # "proposal",
           \A n \in e.votes : ~SameSlot(n, m),
           NEW f, f = WithMessages(e, e.proposals, e.votes \cup {m})
    PROVE  /\ EngineOK(D, S, v, f) /\ Stays(e, f) /\ f.phase = e.phase
           /\ f.decisions = e.decisions /\ f.lockedRound = e.lockedRound
           /\ f.lockedBlock = e.lockedBlock
  <1>1. m \in VoteMsgs
    BY MsgFields DEF MessageOK
  <1>2. e \in Engines /\ f \in Engines
    BY <1>1 DEF EngineOK, Engines, WithMessages
  <1>3. /\ f.id = e.id /\ f.height = e.height /\ f.round = e.round /\ f.phase = e.phase
        /\ f.started = e.started /\ f.lockedRound = e.lockedRound
        /\ f.lockedBlock = e.lockedBlock /\ f.validRound = e.validRound
        /\ f.validBlock = e.validBlock /\ f.validProof = e.validProof
        /\ f.proposals = e.proposals /\ f.votes = e.votes \cup {m}
        /\ f.requested = e.requested /\ f.decisions = e.decisions
    BY <1>2 DEF Engines, WithMessages
  <1>4. LockOK(D, S, v, f)
    BY <1>3 DEF EngineOK, LockOK
  <1>5. CachesOK(D, S, v, f)
    <2>1. \A n \in f.votes : n.height = f.height /\ n.round \in Rounds /\ Signed(D, n)
      BY <1>3 DEF EngineOK, CachesOK, MessageOK
    <2>2. \A n1, n2 \in f.votes : SameSlot(n1, n2) => n1 = n2
      <3>1. \A n1, n2 \in e.votes : SameSlot(n1, n2) => n1 = n2
        BY DEF EngineOK, CachesOK
      <3>2. \A n \in e.votes : ~SameSlot(m, n)
        BY DEF SameSlot
      <3> QED BY <1>3, <3>1, <3>2
    <2>3. ASSUME f.validRound = f.round
          PROVE  HasQuorum(f, f.round, "prevote", f.validBlock)
      <3> DEFINE Q == VotersFor(e, e.round, "prevote", e.validBlock)
                 T == VotersFor(f, f.round, "prevote", f.validBlock)
      <3>1. IsQuorum(Q)
        BY <1>3, <2>3 DEF EngineOK, CachesOK, HasQuorum
      <3>2. Q \subseteq T
        BY <1>3 DEF VotersFor
      <3>3. T \in SUBSET Validators
        <4>1. f.votes \subseteq VoteMsgs
          BY <1>2 DEF Engines
        <4> QED BY <4>1 DEF VotersFor, VoteMsgs
      <3> HIDE DEF Q, T
      <3>4. IsQuorum(T)
        BY <3>1, <3>2, <3>3, QuorumMonotone
      <3> QED BY <3>4 DEF T, HasQuorum
    <2> QED BY <1>3, <2>1, <2>2, <2>3 DEF EngineOK, CachesOK
  <1>6. SlotsOK(D, v, f)
    BY <1>3 DEF EngineOK, SlotsOK
  <1> QED BY <1>2, <1>3, <1>4, <1>5, <1>6 DEF EngineOK, Stays

\* accept_proposal.
LEMMA AcceptProposalOK ==
    ASSUME NEW D, NEW S, NEW v, Context(D, S, v), NEW s, Underway(D, S, v, s),
           NEW p, MessageOK(D, S, s.e, p), p.kind = "proposal",
           NEW held, NEW t, t = AcceptProposal(s, p, held)
    PROVE  Ends(D, S, v, s, t)
  <1> DEFINE e == s.e
             first == {q \in e.proposals : q.round = p.round}
             f == [e EXCEPT !.proposals = @ \cup {p}]
             added == [s EXCEPT !.e = f]
  <1>1. EngineOK(D, S, v, e) /\ e \in Engines /\ RunOK(D, S, v, s)
    BY DEF Underway, RunOK, EngineOK
  <1>2. CASE ~Cacheable(e, p.round) \/ p \in first
    <2>1. t = s
      BY <1>2 DEF AcceptProposal
    <2> QED BY <1>1, <2>1 DEF Ends, Stays
  <1>3. CASE ~(~Cacheable(e, p.round) \/ p \in first) /\ first # {}
    <2>1. PICK q \in first : TRUE
      BY <1>3
    <2>2. t = [s EXCEPT !.fx = Append(@, Evidence(p.validator))]
      BY <1>3 DEF AcceptProposal
    <2>3. SameSlot(q, p) /\ p # q /\ Signed(D, q) /\ Signed(D, p) /\ p.validator \in Validators
      <3>1. q \in e.proposals /\ q.round = p.round /\ q \in ProposalMsgs
        BY <1>1, <2>1 DEF Engines
      <3> QED BY <1>1, <1>3, <3>1, MsgFields
              DEF EngineOK, CachesOK, MessageOK, SameSlot, ProposalMsgs
    <2> DEFINE x == Evidence(p.validator)
    <2>4. x \in Effects /\ EffectOK(D, S, v, e, x) /\ x.type = "evidence"
      BY <2>3, EvidenceOK
    <2> HIDE DEF x
    <2> QED BY <2>2, <2>4, AddLastEffect DEF x
  <1>4. CASE ~(~Cacheable(e, p.round) \/ p \in first) /\ first = {}
    <2>1. t = IF p.round = e.round THEN ActivateCurrentRound(added, held) ELSE added
      BY <1>4 DEF AcceptProposal
    <2>2. f = WithMessages(e, e.proposals \cup {p}, e.votes)
      BY <1>1 DEF Engines, WithMessages
    <2> HIDE DEF f
    <2>3. /\ EngineOK(D, S, v, f) /\ Stays(e, f) /\ f.phase = e.phase
          /\ f.decisions = e.decisions /\ f.lockedRound = e.lockedRound
          /\ f.lockedBlock = e.lockedBlock
      BY <1>1, <2>2, AddProposalOK
    <2>4. RunOK(D, S, v, added) /\ added.e = f /\ added.fx = s.fx /\ added.ok = s.ok
      BY <1>1, <2>3, ReplaceEngine
    <2> HIDE DEF added
    <2>5. Underway(D, S, v, added)
      BY <2>3, <2>4 DEF Underway, Stays
    <2>6. CASE p.round = e.round
      <3>1. Ends(D, S, v, added, t)
        BY <2>1, <2>5, <2>6, ActivateOK
      <3> QED BY <2>3, <2>4, <3>1 DEF Ends, Stays
    <2>7. CASE p.round # e.round
      BY <2>1, <2>3, <2>4, <2>7 DEF Ends
    <2> QED BY <2>6, <2>7
  <1> QED BY <1>2, <1>3, <1>4

\* accept_vote.
LEMMA AcceptVoteOK ==
    ASSUME NEW D, NEW S, NEW v, Context(D, S, v), NEW s, Underway(D, S, v, s),
           NEW m, MessageOK(D, S, s.e, m), m.kind # "proposal",
           NEW held, NEW t, t = AcceptVote(s, m, held)
    PROVE  Ends(D, S, v, s, t)
  <1> DEFINE e == s.e
             first == {n \in e.votes : SameSlot(n, m)}
             f == [e EXCEPT !.votes = @ \cup {m}]
             added == [s EXCEPT !.e = f]
  <1>1. EngineOK(D, S, v, e) /\ e \in Engines /\ RunOK(D, S, v, s)
    BY DEF Underway, RunOK, EngineOK
  <1>2. CASE ~Cacheable(e, m.round) \/ m \in first
    <2>1. t = s
      BY <1>2 DEF AcceptVote
    <2> QED BY <1>1, <2>1 DEF Ends, Stays
  <1>3. CASE ~(~Cacheable(e, m.round) \/ m \in first) /\ first # {}
    <2>1. PICK n \in first : TRUE
      BY <1>3
    <2>2. t = [s EXCEPT !.fx = Append(@, Evidence(m.validator))]
      BY <1>3 DEF AcceptVote
    <2>3. SameSlot(n, m) /\ m # n /\ Signed(D, n) /\ Signed(D, m) /\ m.validator \in Validators
      BY <1>1, <1>3, <2>1, MsgFields DEF EngineOK, CachesOK, MessageOK
    <2> DEFINE x == Evidence(m.validator)
    <2>4. x \in Effects /\ EffectOK(D, S, v, e, x) /\ x.type = "evidence"
      BY <2>3, EvidenceOK
    <2> HIDE DEF x
    <2> QED BY <2>2, <2>4, AddLastEffect DEF x
  <1>4. CASE ~(~Cacheable(e, m.round) \/ m \in first) /\ first = {}
    <2>1. t = EvaluateRound(added, m.round, held)
      BY <1>4 DEF AcceptVote
    <2>2. f = WithMessages(e, e.proposals, e.votes \cup {m})
      BY <1>1 DEF Engines, WithMessages
    <2> HIDE DEF f
    <2>3. /\ EngineOK(D, S, v, f) /\ Stays(e, f) /\ f.phase = e.phase
          /\ f.decisions = e.decisions /\ f.lockedRound = e.lockedRound
          /\ f.lockedBlock = e.lockedBlock
      BY <1>1, <1>4, <2>2, AddVoteOK
    <2>4. RunOK(D, S, v, added) /\ added.e = f /\ added.fx = s.fx /\ added.ok = s.ok
      BY <1>1, <2>3, ReplaceEngine
    <2> HIDE DEF added
    <2>5. Underway(D, S, v, added)
      BY <2>3, <2>4 DEF Underway, Stays
    <2>6. m.round \in Rounds
      BY DEF MessageOK
    <2>7. Ends(D, S, v, added, t)
      BY <2>1, <2>5, <2>6, EvaluateRoundOK
    <2> QED BY <2>3, <2>4, <2>7 DEF Ends, Stays
  <1> QED BY <1>2, <1>3, <1>4

\* accept_message.
LEMMA AcceptMessageOK ==
    ASSUME NEW D, NEW S, NEW v, Context(D, S, v), NEW s, Underway(D, S, v, s),
           NEW m, MessageOK(D, S, s.e, m), NEW held, NEW t, t = AcceptMessage(s, m, held)
    PROVE  Ends(D, S, v, s, t)
  <1>1. CASE m.kind = "proposal"
    <2>1. t = AcceptProposal(s, m, held)
      BY <1>1 DEF AcceptMessage
    <2> QED BY <1>1, <2>1, AcceptProposalOK
  <1>2. CASE m.kind # "proposal"
    <2>1. t = AcceptVote(s, m, held)
      BY <1>2 DEF AcceptMessage
    <2> QED BY <1>2, <2>1, AcceptVoteOK
  <1> QED BY <1>1, <1>2

\* What validate_message accepts, of a message that is signed as it says.
LEMMA ValidMessageOK ==
    ASSUME NEW D, NEW S, NEW e, NEW m \in Msgs, NEW held, MessageIsValid(e, m, held),
           Signed(D, m), m.kind = "proposal" => ProofOK(D, m) /\ m \in S
    PROVE  MessageOK(D, S, e, m)
  <1>1. m.height = e.height /\ m.round < MaxRounds
    BY DEF MessageIsValid, ProposalIsValid, VoteIsValid
  <1>2. m.round \in Rounds
    BY <1>1, MsgFields, Basics DEF Rounds
  <1>3. ASSUME m.kind = "proposal"
        PROVE  m.validator = Proposer(m.height, m.round) /\ m.validRound < m.round
    BY <1>2, <1>3, Basics DEF MessageIsValid, ProposalIsValid
  <1> QED BY <1>1, <1>2, <1>3 DEF MessageOK

\* receive_message.
LEMMA ReceiveMessageOK ==
    ASSUME NEW D, NEW S, NEW v, Context(D, S, v), NEW e, EngineOK(D, S, v, e), e.started,
           NEW m \in Msgs, Signed(D, m), m.kind = "proposal" => ProofOK(D, m) /\ m \in S,
           NEW held, NEW t, t = ReceiveMessage(e, m, held)
    PROVE  RunOK(D, S, v, t) /\ Stays(e, t.e)
  <1>1. CASE MessageIsValid(e, m, held)
    <2> DEFINE s == Run(e, <<>>)
    <2>1. t = AcceptMessage(s, m, held)
      BY <1>1 DEF ReceiveMessage
    <2>2. Underway(D, S, v, s) /\ s.e = e
      BY QuietOK
    <2> HIDE DEF s
    <2>3. MessageOK(D, S, s.e, m)
      BY <1>1, <2>2, ValidMessageOK
    <2>4. Ends(D, S, v, s, t)
      BY <2>1, <2>2, <2>3, AcceptMessageOK
    <2> QED BY <2>2, <2>4 DEF Ends
  <1>2. CASE ~MessageIsValid(e, m, held)
    <2>1. t = Failed(e)
      BY <1>2 DEF ReceiveMessage
    <2>2. RunOK(D, S, v, t) /\ t.e = e
      BY <2>1, FailedOK
    <2> QED BY <2>2 DEF Stays
  <1> QED BY <1>1, <1>2

\* persisted: a message is broadcast once it is durable, and then counted.
LEMMA PersistedOK ==
    ASSUME NEW D, NEW S, NEW v, Context(D, S, v), NEW e, EngineOK(D, S, v, e), e.started,
           NEW m \in D[v], NEW held, NEW t, t = Persisted(e, m, held)
    PROVE  RunOK(D, S, v, t) /\ Stays(e, t.e)
  <1>1. m \in Msgs /\ Signed(D, m) /\ (m.kind = "proposal" => ProofOK(D, m) /\ m \in S)
    BY DEF Context, DurableOK, StoreOK, Signed
  <1>2. CASE m \notin e.pending \/ ~MessageIsValid(e, m, held)
    <2>1. t = Failed(e)
      BY <1>2 DEF Persisted
    <2>2. RunOK(D, S, v, t) /\ t.e = e
      BY <2>1, FailedOK
    <2> QED BY <2>2 DEF Stays
  <1>3. CASE ~(m \notin e.pending \/ ~MessageIsValid(e, m, held))
    <2> DEFINE f == [e EXCEPT !.pending = @ \ {m}]
               P == e.pending \ {m}
               R == e.requested
               fx == <<Broadcast(m)>>
               s == Run(f, fx)
    <2>1. t = AcceptMessage(s, m, held)
      BY <1>3 DEF Persisted
    <2>2. f = WithLists(e, R, P) /\ R \in SUBSET e.requested /\ P \in SUBSET e.pending
      <3>1. e \in Engines
        BY DEF EngineOK
      <3> QED BY <3>1 DEF WithLists, Engines
    <2> HIDE DEF f, P, R
    <2>3. EngineOK(D, S, v, f) /\ Stays(e, f)
      BY <2>2, FewerOK
    <2>4. /\ Broadcast(m) \in Effects /\ EffectOK(D, S, v, f, Broadcast(m))
          /\ Broadcast(m).type = "broadcast"
      BY <1>1 DEF Broadcast, Effects, EffectOK
    <2>5. EffectsOK(D, S, v, f, fx)
      BY <2>4, OneEffect
    <2>6. Open(fx, Decided(f.phase))
      BY <2>4 DEF Open
    <2> HIDE DEF fx
    <2>7. s.e = f /\ s.fx = fx /\ s.ok = TRUE /\ s = [e |-> s.e, fx |-> s.fx, ok |-> s.ok]
      BY DEF Run
    <2> HIDE DEF s
    <2>8. Underway(D, S, v, s)
      BY <2>3, <2>5, <2>6, <2>7 DEF Underway, RunOK, Stays
    <2>9. MessageOK(D, S, s.e, m)
      <3>1. MessageOK(D, S, e, m)
        BY <1>1, <1>3, ValidMessageOK
      <3> QED BY <2>3, <2>7, <3>1 DEF MessageOK, Stays
    <2>10. Ends(D, S, v, s, t)
      BY <2>1, <2>8, <2>9, AcceptMessageOK
    <2> QED BY <2>3, <2>7, <2>10 DEF Ends, Stays
  <1> QED BY <1>2, <1>3

\* handle_timeout: a nil vote, or the next round.
LEMMA HandleTimeoutOK ==
    ASSUME NEW D, NEW S, NEW v, Context(D, S, v), NEW e, EngineOK(D, S, v, e), e.started,
           NEW o, NEW held, NEW t, t = HandleTimeout(e, o, held)
    PROVE  Moves(D, S, v, e, t)
  <1> DEFINE now == [height |-> e.height, round |-> e.round, phase |-> e.phase]
             s == Run(e, <<>>)
  <1>1. e \in Engines /\ e.phase \in Phases /\ e.round \in Rounds /\ e.round \in Nat
    BY Basics DEF EngineOK, Engines
  <1>2. RunOK(D, S, v, s) /\ s.e = e /\ Underway(D, S, v, s)
    BY QuietOK
  <1>3. CASE o # now \/ e.phase = "finalized"
    <2>1. t = s
      BY <1>3 DEF HandleTimeout
    <2> HIDE DEF s
    <2> QED BY <1>2, <2>1 DEF Moves
  <1>4. ASSUME NEW kind, MayCast(D, v, e, kind, Nil),
               t = EvaluateRound(CastVote(s, kind, Nil), e.round, held)
        PROVE  Moves(D, S, v, e, t)
    <2> DEFINE c == CastVote(s, kind, Nil)
    <2> HIDE DEF s
    <2>1. Continues(D, S, v, s, c)
      BY <1>2, <1>4, CastVoteOK
    <2>2. t = EvaluateRound(c, e.round, held)
      BY <1>4
    <2> HIDE DEF c
    <2>3. Ends(D, S, v, c, t)
      BY <1>1, <2>1, <2>2, EvaluateRoundOK DEF Continues
    <2> QED BY <1>2, <2>1, <2>3 DEF Continues, Ends, Stays, Moves
  <1>5. CASE o = now /\ e.phase = "propose"
    <2>1. t = EvaluateRound(CastVote(s, "prevote", Nil), e.round, held)
      BY <1>5 DEF HandleTimeout
    <2>2. MayCast(D, v, e, "prevote", Nil)
      BY <1>5 DEF MayCast, VoteKinds
    <2> HIDE DEF s
    <2> QED BY <1>4, <2>1, <2>2
  <1>6. CASE o = now /\ e.phase = "prevote"
    <2>1. t = EvaluateRound(CastVote(s, "precommit", Nil), e.round, held)
      BY <1>6 DEF HandleTimeout
    <2>2. MayCast(D, v, e, "precommit", Nil)
      BY <1>6 DEF MayCast, VoteKinds
    <2> HIDE DEF s
    <2> QED BY <1>4, <2>1, <2>2
  <1>7. CASE o = now /\ e.phase = "precommit"
    <2>1. t = EnterRound(e, e.round + 1, held)
      BY <1>7 DEF HandleTimeout
    <2>2. e.validRound < e.round + 1 /\ e.lockedRound < e.round + 1
      <3>1. e.validRound \in Int /\ e.lockedRound \in Int /\ NoRound < e.round /\ NoRound \in Int
        BY <1>1, Basics DEF Engines
      <3>2. e.validRound <= e.round /\ e.lockedRound <= e.round
        BY <1>1, <3>1 DEF EngineOK, LockOK
      <3> QED BY <1>1, <3>1, <3>2
    <2>3. \A m \in e.decisions : m.round = e.round + 1 => m.kind = "proposal"
      BY <1>1, MsgFields DEF EngineOK, SlotsOK, Engines
    <2> DEFINE r == e.round + 1
    <2>4. /\ r \in Nat /\ e.round <= r /\ e.validRound < r /\ e.lockedRound < r
          /\ \A m \in e.decisions : m.round = r => m.kind = "proposal"
          /\ t = EnterRound(e, r, held)
      BY <1>1, <2>1, <2>2, <2>3
    <2> HIDE DEF r
    <2> QED BY <2>4, EnterRoundOK
  <1> QED BY <1>1, <1>3, <1>5, <1>6, <1>7 DEF Phases

\* What a step of the engine establishes.  Only a start or a timeout leaves the
\* round, and only a start starts the engine.
StepEnds(D, S, v, e, event, t) ==
    /\ RunOK(D, S, v, t) /\ t.e.height = e.height
    /\ event.type \notin {"start", "timeout"} => t.e.round = e.round
    /\ t.ok = TRUE => t.e.started = TRUE
    /\ t.e.started = TRUE => e.started = TRUE \/ event.type = "start"

\* A start enters the round the engine was created in.
LEMMA StartOK ==
    ASSUME NEW D, NEW S, NEW v, Context(D, S, v), NEW e, EngineOK(D, S, v, e), ~e.started,
           NEW held, NEW t, t = EnterRound([e EXCEPT !.started = TRUE], e.round, held)
    PROVE  Moves(D, S, v, e, t)
  <1> DEFINE f == [e EXCEPT !.started = TRUE]
             r == e.round
  <1>1. e \in Engines /\ f \in Engines /\ r \in Nat
    BY Basics DEF EngineOK, Engines
  <1>2. /\ f.id = e.id /\ f.height = e.height /\ f.round = r /\ f.phase = e.phase
        /\ f.started = TRUE /\ f.lockedRound = e.lockedRound
        /\ f.lockedBlock = e.lockedBlock /\ f.validRound = e.validRound
        /\ f.validBlock = e.validBlock /\ f.validProof = e.validProof
        /\ f.proposals = e.proposals /\ f.votes = e.votes
        /\ f.requested = e.requested /\ f.decisions = e.decisions
    BY <1>1 DEF Engines
  <1>3. t = EnterRound(f, r, held)
    OBVIOUS
  <1> HIDE DEF f
  <1>4. LockOK(D, S, v, f)
    BY <1>2 DEF EngineOK, LockOK
  <1>5. CachesOK(D, S, v, f)
    BY <1>2 DEF EngineOK, CachesOK, HasQuorum, VotersFor
  <1>6. SlotsOK(D, v, f)
    BY <1>2 DEF EngineOK, SlotsOK
  <1>7. EngineOK(D, S, v, f)
    BY <1>1, <1>2, <1>4, <1>5, <1>6 DEF EngineOK
  <1>8. /\ f.started /\ f.round <= r /\ f.validRound < r /\ f.lockedRound < r
        /\ \A m \in f.decisions : m.round = r => m.kind = "proposal"
    BY <1>1, <1>2 DEF EngineOK, SlotsOK
  <1> HIDE DEF r
  <1>9. Moves(D, S, v, f, t)
    BY <1>1, <1>3, <1>7, <1>8, EnterRoundOK
  <1> QED BY <1>2, <1>9 DEF Moves

\* Every step of the engine keeps its invariant and leaves effects the node may
\* perform in their order.
THEOREM StepEngineOK ==
    ASSUME NEW D, NEW S, NEW v, Context(D, S, v), NEW e, EngineOK(D, S, v, e),
           NEW event, EventOK(D, S, v, e, event),
           NEW held, NEW t, t = StepEngine(e, event, held)
    PROVE  StepEnds(D, S, v, e, event, t)
  <1>1. event \in Events /\ e \in Engines /\ e.started \in BOOLEAN
    BY DEF EventOK, EngineOK, Engines
  <1>2. ASSUME t = Failed(e) PROVE StepEnds(D, S, v, e, event, t)
    <2>1. RunOK(D, S, v, t) /\ t.e = e
      BY <1>2, FailedOK
    <2>2. t.ok = FALSE
      BY <1>2 DEF Failed
    <2> QED BY <2>1, <2>2 DEF StepEnds
  <1>3. ASSUME e.started, RunOK(D, S, v, t), Stays(e, t.e)
        PROVE  StepEnds(D, S, v, e, event, t)
    BY <1>1, <1>3 DEF StepEnds, Stays
  <1>4. CASE event.type = "start"
    <2>1. CASE e.started
      <3>1. t = Failed(e)
        BY <1>4, <2>1 DEF StepEngine
      <3> QED BY <1>2, <3>1
    <2>2. CASE ~e.started
      <3>1. t = EnterRound([e EXCEPT !.started = TRUE], e.round, held)
        BY <1>4, <2>2 DEF StepEngine
      <3>2. Moves(D, S, v, e, t)
        BY <2>2, <3>1, StartOK
      <3>3. t.e.started \in BOOLEAN
        BY <3>2 DEF Moves, RunOK, EngineOK, Engines
      <3> QED BY <1>4, <3>2, <3>3 DEF Moves, StepEnds
    <2> QED BY <2>1, <2>2
  <1>5. CASE event.type # "start" /\ ~e.started
    <2>1. t = Failed(e)
      BY <1>5 DEF StepEngine
    <2> QED BY <1>2, <2>1
  <1>6. CASE event.type # "start" /\ e.started /\ e.finalized # None
    <2>1. t = Run(e, <<>>)
      BY <1>6 DEF StepEngine
    <2>2. RunOK(D, S, v, t) /\ t.e = e
      BY <2>1, QuietOK
    <2> QED BY <1>3, <1>6, <2>2 DEF Stays
  <1>7. CASE event.type # "start" /\ e.started /\ e.finalized = None
    <2>1. CASE event.type = "ready"
      <3> DEFINE h == event.height  r == event.round  b == event.block
      <3>1. t = ProposalReady(e, h, r, b)
        BY <1>7, <2>1 DEF StepEngine
      <3>2. h \in Nat /\ r \in Rounds /\ b \in Blocks /\ (h = e.height => r = e.round) /\ Fits(b, r)
        BY <1>1, <2>1, EventFields DEF EventOK
      <3> HIDE DEF h, r, b
      <3>3. RunOK(D, S, v, t) /\ Stays(e, t.e)
        BY <1>7, <3>1, <3>2, ProposalReadyOK
      <3> QED BY <1>3, <1>7, <3>3
    <2>2. CASE event.type = "message"
      <3> DEFINE m == event.msg
      <3>1. t = ReceiveMessage(e, m, held)
        BY <1>7, <2>2 DEF StepEngine
      <3>2. m \in Msgs /\ Signed(D, m) /\ (m.kind = "proposal" => ProofOK(D, m) /\ m \in S)
        BY <1>1, <2>2, EventFields DEF EventOK
      <3> HIDE DEF m
      <3>3. RunOK(D, S, v, t) /\ Stays(e, t.e)
        BY <1>7, <3>1, <3>2, ReceiveMessageOK
      <3> QED BY <1>3, <1>7, <3>3
    <2>3. CASE event.type = "persisted"
      <3> DEFINE m == event.msg
      <3>1. t = Persisted(e, m, held)
        BY <1>7, <2>3 DEF StepEngine
      <3>2. m \in D[v]
        BY <2>3 DEF EventOK
      <3> HIDE DEF m
      <3>3. RunOK(D, S, v, t) /\ Stays(e, t.e)
        BY <1>7, <3>1, <3>2, PersistedOK
      <3> QED BY <1>3, <1>7, <3>3
    <2>4. CASE event.type = "timeout"
      <3> DEFINE o == event.timeout
      <3>1. t = HandleTimeout(e, o, held)
        BY <1>7, <2>4 DEF StepEngine
      <3> HIDE DEF o
      <3>2. Moves(D, S, v, e, t)
        BY <1>7, <3>1, HandleTimeoutOK
      <3>3. t.e.started \in BOOLEAN
        BY <3>2 DEF Moves, RunOK, EngineOK, Engines
      <3> QED BY <1>1, <1>7, <2>4, <3>2, <3>3 DEF Moves, StepEnds
    <2> QED BY <1>1, <1>7, <2>1, <2>2, <2>3, <2>4, EventFields
  <1> QED BY <1>1, <1>4, <1>5, <1>6, <1>7

===============================================================================
