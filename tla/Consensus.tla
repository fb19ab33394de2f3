------------------------------ MODULE Consensus -------------------------------
(***************************************************************************)
(* Validators running the consensus driver of kcoin-node runtime.rs over   *)
(* the engine of module ConsensusEngine and the SQLite rows of storage.rs, *)
(* with process crashes at every durable boundary, restarts, a network     *)
(* that delays, reorders, duplicates and loses messages, and validators    *)
(* that sign whatever they like.                                           *)
(*                                                                         *)
(* The node actor handles one command at a time.  A command is a list of   *)
(* jobs (events given to process_consensus_event one after another); a job *)
(* makes the engine produce effects, performing an effect may queue        *)
(* further events, and the next command waits until all of them are done.  *)
(* Every effect is an action of its own, so a crash can fall between any   *)
(* two.  The first error of a job abandons the rest of the command.        *)
(***************************************************************************)
EXTENDS ConsensusEngine, SequencesExt

CONSTANTS
    MaxHeight,      \* bound: nodes stop after this many blocks
    MaxCrashes,     \* bound: crashes in a behaviour
    MaxTimers,      \* bound: pending timers of a node; older ones, which are
                    \* stale and ignored by handle_timeout, count as fired
    FaultyBlocks,   \* bound: the blocks faulty validators propose and certify
    FaultyVotes     \* bound: the votes faulty validators cast

Heights == 1 .. MaxHeight

ASSUME ConsensusAssumption ==
    /\ MaxHeight \in Nat \ {0}
    /\ MaxCrashes \in Nat
    /\ MaxTimers \in Nat \ {0}
    /\ FaultyBlocks \subseteq Blocks
    /\ FaultyVotes \subseteq [kind : {"prevote", "precommit"}, height : Heights, round : Nat,
                              validator : Faulty, value : Blocks \cup {Nil}]

VARIABLES
    node,       \* node[v]: what the process of v keeps in memory
    disk,       \* disk[v]: the SQLite rows of v
    net,        \* every message published by an honest validator
    crashes     \* number of crashes so far

vars == <<node, disk, net, crashes>>

-------------------------------------------------------------------------------
(* Node state *)

\* A freshly started process: engine e, block bytes blocks, first jobs.
Process(mode, e, blocks, jobs) ==
    [mode |-> mode, eng |-> e, blocks |-> blocks, timers |-> <<>>, target |-> 0,
     jobs |-> jobs, events |-> <<>>, effects |-> <<>>]

DownProcess(v) == Process("down", NewEngine(v, 1), {}, <<>>)

EmptyDisk ==
    [chain |-> <<>>, decisions |-> <<>>, safety |-> None, stored |-> {}, accused |-> {}]

\* The signed decisions v has made durable, with their safety states.
Rows(v) == {disk[v].decisions[i] : i \in DOMAIN disk[v].decisions}
Durable(v) == {row.msg : row \in Rows(v)}

LedgerHeight(v) == Len(disk[v].chain)
NextHeight(v) == LedgerHeight(v) + 1

Idle(v) == node[v].jobs = <<>> /\ node[v].events = <<>> /\ node[v].effects = <<>>

\* The actor is in its command loop and waits for a command.
Ready(v) == node[v].mode = "running" /\ Idle(v)

\* The actor takes part in consensus: not halted, no sync target.
Participates(v) == Ready(v) /\ node[v].target = 0

\* process_consensus_event or sign_and_persist returned Err: the command ends,
\* and an error while resuming an interrupted round halts the node.
Abort(n) ==
    [n EXCEPT !.jobs = <<>>, !.events = <<>>, !.effects = <<>>,
              !.mode = IF @ = "recovering" THEN "halted" ELSE @]

Start == [type |-> "start"]

\* ensure_consensus_started before a job.
StartThen(v, job) == IF node[v].eng.started THEN <<job>> ELSE <<Start, job>>

Effect(v) == Head(node[v].effects)
Done(v) == [node[v] EXCEPT !.effects = Tail(@)]

\* The head of v's effect list has the given type and is about to be performed.
Performs(v, type) ==
    /\ node[v].mode \in {"running", "recovering"}
    /\ node[v].effects # <<>>
    /\ Effect(v).type = type

-------------------------------------------------------------------------------
(* What the network may hand to a validator: published messages, and       *)
(* whatever the faulty validators can sign or assemble.                    *)

Published(kind, h, r, b) ==
    Faulty \cup {v \in Honest : Vote(kind, h, r, v, b) \in net}

ForgedProposals ==
    {p \in {Proposal(h, r, b, NoRound, {}) :
               h \in Heights, r \in Rounds, b \in FaultyBlocks}
        \cup {Proposal(h, r, b, vr, Published("prevote", h, vr, b)) :
               h \in Heights, r \in Rounds, b \in FaultyBlocks, vr \in Rounds} :
        p.validator \in Faulty /\ (p.proof = {} \/ IsQuorum(p.proof))}

ForgedCertificates ==
    IF Faulty = {} THEN {}
    ELSE {c \in {Certificate(h, r, b, Published("precommit", h, r, b)) :
                    h \in Heights, r \in Rounds, b \in FaultyBlocks} :
             IsQuorum(c.signers)}

Deliverable ==
    {m \in net : m.kind # "certificate"} \cup FaultyVotes \cup ForgedProposals

Importable == {m \in net : m.kind = "certificate"} \cup ForgedCertificates

-------------------------------------------------------------------------------
Init ==
    /\ node = [v \in Honest |-> DownProcess(v)]
    /\ disk = [v \in Honest |-> EmptyDisk]
    /\ net = {}
    /\ crashes = 0

(* Commands *)

\* A tick with a pending transaction or a due heartbeat starts the height.
Tick(v) ==
    /\ Participates(v)
    /\ ~node[v].eng.started
    /\ LedgerHeight(v) < MaxHeight
    /\ node' = [node EXCEPT ![v].jobs = <<Start>>]
    /\ UNCHANGED <<disk, net, crashes>>

DeliverVote(v, m) ==
    /\ Participates(v)
    /\ m.kind # "proposal"
    /\ m.height = NextHeight(v)
    /\ node' = [node EXCEPT ![v].jobs = StartThen(v, [type |-> "message", msg |-> m])]
    /\ UNCHANGED <<disk, net, crashes>>

\* Wrong on purpose: a proposal's bytes are kept in memory only.
DeliverUnstoredProposal(v, m) ==
    LET held == node[v].blocks \cup {m.value}
    IN /\ Participates(v)
       /\ m.kind = "proposal"
       /\ m.height = NextHeight(v)
       /\ ProposalIsValid(node[v].eng, m, held)
       /\ Cacheable(node[v].eng, m.round)
       /\ node' = [node EXCEPT
              ![v].blocks = held,
              ![v].jobs = StartThen(v, [type |-> "message", msg |-> m])]
       /\ UNCHANGED <<disk, net, crashes>>

\* A proposal's bytes are stored before the engine sees it; a second, different
\* proposal of a round is refused by the store.
DeliverProposal(v, m) ==
    LET held == node[v].blocks \cup {m.value}
    IN /\ Participates(v)
       /\ m.kind = "proposal"
       /\ m.height = NextHeight(v)
       /\ ProposalIsValid(node[v].eng, m, held)
       /\ Cacheable(node[v].eng, m.round)
       /\ \A p \in disk[v].stored : SameSlot(p, m) => p = m
       /\ disk' = [disk EXCEPT ![v].stored = @ \cup {m}]
       /\ node' = [node EXCEPT
              ![v].blocks = held,
              ![v].jobs = StartThen(v, [type |-> "message", msg |-> m])]
       /\ UNCHANGED <<net, crashes>>

\* Wrong on purpose: timers are handled while the node synchronizes.
TimerFiresAlways(v, i) ==
    /\ Ready(v)
    /\ node' = [node EXCEPT
           ![v].timers = RemoveAt(@, i),
           ![v].jobs = IF node[v].eng.started
                       THEN <<[type |-> "timeout", timeout |-> node[v].timers[i]]>>
                       ELSE <<>>]
    /\ UNCHANGED <<disk, net, crashes>>

\* A timer fires once, at any time; it is dropped while the node synchronizes.
TimerFires(v, i) ==
    /\ Ready(v)
    /\ node' = [node EXCEPT
           ![v].timers = RemoveAt(@, i),
           ![v].jobs = IF node[v].eng.started /\ node[v].target = 0
                       THEN <<[type |-> "timeout", timeout |-> node[v].timers[i]]>>
                       ELSE <<>>]
    /\ UNCHANGED <<disk, net, crashes>>

-------------------------------------------------------------------------------
(* The event loop of process_consensus_event *)

RunEvent(v) ==
    LET n == node[v]
        event == IF n.events # <<>> THEN Head(n.events) ELSE Head(n.jobs)
        rest == IF n.events # <<>> THEN [n EXCEPT !.events = Tail(@)]
                                   ELSE [n EXCEPT !.jobs = Tail(@)]
        s == StepEngine(n.eng, event, n.blocks)
        stepped == [rest EXCEPT !.eng = s.e, !.effects = s.fx]
    IN /\ n.mode \in {"running", "recovering"}
       /\ n.effects = <<>>
       /\ n.events # <<>> \/ n.jobs # <<>>
       /\ node' = [node EXCEPT ![v] = IF s.ok THEN stepped ELSE Abort(stepped)]
       /\ UNCHANGED <<disk, net, crashes>>

\* resume_interrupted_consensus has returned Ok: the command loop begins.
Resumed(v) ==
    /\ node[v].mode = "recovering" /\ Idle(v)
    /\ node' = [node EXCEPT ![v].mode = "running"]
    /\ UNCHANGED <<disk, net, crashes>>

-------------------------------------------------------------------------------
(* Effects *)

\* Wrong on purpose: every proposal is a new block.
BuildFreshProposal(v, stamp) ==
    LET fx == Effect(v)
        b == [round |-> fx.round, stamp |-> stamp]
        ready == [type |-> "ready", height |-> fx.height, round |-> fx.round, block |-> b]
    IN /\ Performs(v, "request")
       /\ node' = [node EXCEPT ![v] =
              [Done(v) EXCEPT !.blocks = @ \cup {b}, !.events = Append(@, ready)]]
       /\ UNCHANGED <<disk, net, crashes>>

\* The valid or locked block is proposed again, if its bytes are held;
\* otherwise a new block is built from the mempool and the clock.
BuildProposal(v, stamp) ==
    LET fx == Effect(v)
        e == node[v].eng
        reuse == IF fx.validBlock # None THEN fx.validBlock ELSE e.lockedBlock
        b == IF reuse # None /\ reuse \in node[v].blocks THEN reuse
             ELSE [round |-> fx.round, stamp |-> stamp]
        ready == [type |-> "ready", height |-> fx.height, round |-> fx.round, block |-> b]
    IN /\ Performs(v, "request")
       /\ node' = [node EXCEPT ![v] =
              [Done(v) EXCEPT !.blocks = @ \cup {b}, !.events = Append(@, ready)]]
       /\ UNCHANGED <<disk, net, crashes>>

\* First transaction of sign_and_persist for a proposal.
PersistProposal(v) ==
    LET m == Effect(v).msg
    IN /\ Performs(v, "persist")
       /\ m.kind = "proposal" /\ m \notin disk[v].stored
       /\ IF \E p \in disk[v].stored : SameSlot(p, m)
          THEN /\ node' = [node EXCEPT ![v] = Abort(@)]
               /\ UNCHANGED disk
          ELSE /\ disk' = [disk EXCEPT ![v].stored = @ \cup {m}]
               /\ UNCHANGED node
       /\ UNCHANGED <<net, crashes>>

\* persist_consensus_decision: the signer slot and the safety row, in one
\* transaction.  A repeated decision is idempotent, a different one an error.
PersistDecision(v) ==
    LET fx == Effect(v)
        row == [msg |-> fx.msg, safety |-> fx.safety]
        taken == {d \in Rows(v) : SameSlot(d.msg, fx.msg)}
        persisted == [Done(v) EXCEPT
            !.events = Append(@, [type |-> "persisted", msg |-> fx.msg])]
    IN /\ Performs(v, "persist")
       /\ fx.msg.kind = "proposal" => fx.msg \in disk[v].stored
       /\ disk' = IF taken = {}
                  THEN [disk EXCEPT ![v].decisions = Append(@, row), ![v].safety = fx.safety]
                  ELSE disk
       /\ node' = [node EXCEPT ![v] = IF taken \subseteq {row} THEN persisted ELSE Abort(@)]
       /\ UNCHANGED <<net, crashes>>

BroadcastMessage(v) ==
    LET m == Effect(v).msg
    IN /\ Performs(v, "broadcast")
       /\ IF m.kind = "proposal" /\ m.value \notin node[v].blocks
          THEN /\ node' = [node EXCEPT ![v] = Abort(@)]
               /\ UNCHANGED net
          ELSE /\ node' = [node EXCEPT ![v] = Done(v)]
               /\ net' = net \cup {m}
       /\ UNCHANGED <<disk, crashes>>

Newest(timers) ==
    IF Len(timers) <= MaxTimers THEN timers
    ELSE SubSeq(timers, Len(timers) - MaxTimers + 1, Len(timers))

ScheduleTimeout(v) ==
    /\ Performs(v, "schedule")
    /\ node' = [node EXCEPT ![v] =
           [Done(v) EXCEPT !.timers = Newest(Append(@, Effect(v).timeout))]]
    /\ UNCHANGED <<disk, net, crashes>>

RecordEvidence(v) ==
    /\ Performs(v, "evidence")
    /\ node' = [node EXCEPT ![v] = Done(v)]
    /\ disk' = [disk EXCEPT ![v].accused = @ \cup {Effect(v).validator}]
    /\ UNCHANGED <<net, crashes>>

\* persist_finalized: append the block and drop the height's safety row, in
\* one transaction.
Commit(d, c) ==
    [d EXCEPT !.chain = Append(@, c),
              !.safety = IF @ # None /\ @.height = c.height THEN None ELSE @]

\* Wrong on purpose: the fresh engine works on the height just finalized.
ResetSameHeight(n, h) == [n EXCEPT !.eng = NewEngine(@.id, h - 1), !.blocks = {}]

\* reset_consensus: a fresh engine for the next height, no block bytes.
Reset(n, h) == [n EXCEPT !.eng = NewEngine(@.id, h), !.blocks = {}]

CommitFinalized(v) ==
    LET c == Effect(v).certificate
        able == c.value \in node[v].blocks /\ c.value.round <= c.round /\ Executable(c.value)
    IN /\ Performs(v, "finalize")
       /\ IF able
          THEN /\ disk' = [disk EXCEPT ![v] = Commit(@, c)]
               /\ node' = [node EXCEPT ![v] = Reset(Done(v), c.height + 1)]
               /\ net' = net \cup {c}
          ELSE /\ node' = [node EXCEPT ![v] = Abort(@)]
               /\ UNCHANGED <<disk, net>>
       /\ UNCHANGED crashes

-------------------------------------------------------------------------------
(* Finalized records from gossip or synchronization *)

VerifiedCertificate(c) == c.value.round <= c.round /\ IsQuorum(c.signers)

\* The next block is committed; sync ends when its target is reached.
ImportNext(v, c) ==
    /\ Ready(v)
    /\ VerifiedCertificate(c) /\ Executable(c.value)
    /\ c.height = NextHeight(v)
    /\ disk' = [disk EXCEPT ![v] = Commit(@, c)]
    /\ node' = [node EXCEPT ![v] =
           [Reset(@, c.height + 1) EXCEPT
               !.target = IF node[v].target <= c.height THEN 0 ELSE node[v].target]]
    /\ UNCHANGED <<net, crashes>>

\* A certified tip above the ledger, in a peer's status or (beyond the next
\* height) in gossip, makes the node synchronize and stop voting.
BeginSync(v, c) ==
    /\ Ready(v)
    /\ VerifiedCertificate(c)
    /\ c.height > LedgerHeight(v) /\ c.height > node[v].target
    /\ node' = [node EXCEPT ![v].target = c.height]
    /\ UNCHANGED <<disk, net, crashes>>

\* A certified block that contradicts a finalized one halts the node.
HaltOnConflict(v, c) ==
    /\ Ready(v)
    /\ VerifiedCertificate(c)
    /\ c.height <= LedgerHeight(v)
    /\ disk[v].chain[c.height].value # c.value
    /\ node' = [node EXCEPT ![v].mode = "halted", ![v].target = 0]
    /\ UNCHANGED <<disk, net, crashes>>

-------------------------------------------------------------------------------
(* Crash and restart *)

Crash(v) ==
    /\ node[v].mode # "down"
    /\ crashes < MaxCrashes
    /\ crashes' = crashes + 1
    /\ node' = [node EXCEPT ![v] = DownProcess(v)]
    /\ UNCHANGED <<disk, net>>

\* The rows of height h, by their place in the table.
DecisionsAt(v, h) ==
    {i \in DOMAIN disk[v].decisions : disk[v].decisions[i].msg.height = h}
MessagesAt(v, h) == {disk[v].decisions[i].msg : i \in DecisionsAt(v, h)}
StoredAt(v, h) == {p \in disk[v].stored : p.height = h}
StoredBlocks(v, h) == {p.value : p \in StoredAt(v, h)}

\* Everything initialize_consensus_recovery demands of the active safety row.
Recoverable(v) ==
    LET s == disk[v].safety
        h == NextHeight(v)
        ds == DecisionsAt(v, h)
    IN /\ s.lockedBlock \in StoredBlocks(v, h) \cup {None}
       /\ s.validBlock \in StoredBlocks(v, h) \cup {None}
       /\ \A p \in StoredAt(v, h) : BlockIsValid(p, StoredBlocks(v, h))
       /\ Restorable(v, h, s, MessagesAt(v, h))
       /\ \E i \in ds : (\A j \in ds : j <= i) /\ disk[v].decisions[i].safety = s
       /\ \A m \in MessagesAt(v, h) : m.kind = "proposal" =>
             \E p \in StoredAt(v, h) : p.round = m.round /\ p.value = m.value

RestartFresh(v) ==
    /\ node[v].mode = "down"
    /\ disk[v].safety = None
    /\ node' = [node EXCEPT ![v] = Process("running", NewEngine(v, NextHeight(v)), {}, <<>>)]
    /\ UNCHANGED <<disk, net, crashes>>

\* An interrupted height: the signed messages are published again, none is fed
\* to the engine, and the engine starts in the next round at once.
RestartInterrupted(v) ==
    LET h == NextHeight(v)
        e == RestoredEngine(v, disk[v].safety, MessagesAt(v, h))
    IN /\ node[v].mode = "down"
       /\ disk[v].safety # None
       /\ Recoverable(v)
       /\ node' = [node EXCEPT ![v] = Process("recovering", e, StoredBlocks(v, h), <<Start>>)]
       /\ net' = net \cup MessagesAt(v, h)
       /\ UNCHANGED <<disk, crashes>>

-------------------------------------------------------------------------------
NodeStep(v) ==
    \/ RunEvent(v) \/ Resumed(v)
    \/ \E stamp \in Stamps \ BadStamps : BuildProposal(v, stamp)
    \/ PersistProposal(v) \/ PersistDecision(v)
    \/ BroadcastMessage(v) \/ ScheduleTimeout(v) \/ RecordEvidence(v)
    \/ CommitFinalized(v)

Command(v) ==
    \/ Tick(v)
    \/ \E m \in Deliverable : DeliverVote(v, m) \/ DeliverProposal(v, m)
    \/ \E i \in DOMAIN node[v].timers : TimerFires(v, i)
    \/ \E c \in Importable : ImportNext(v, c) \/ BeginSync(v, c) \/ HaltOnConflict(v, c)

Next ==
    \E v \in Honest :
        NodeStep(v) \/ Command(v) \/ Crash(v) \/ RestartFresh(v) \/ RestartInterrupted(v)

Spec == Init /\ [][Next]_vars

-------------------------------------------------------------------------------
(* Properties *)

Signable == UNION {[kind : {"prevote", "precommit"}, height : Heights, round : Rounds,
                    validator : {v}, value : Blocks \cup {Nil}] : v \in Honest}

\* The states are well-formed: in particular a running node's engine always
\* works on the height after its ledger's.
TypeOK ==
    /\ \A v \in Honest :
          /\ node[v].mode \in {"down", "recovering", "running", "halted"}
          /\ node[v].eng.id = v
          /\ node[v].eng.round \in Rounds
          /\ node[v].eng.phase \in {"propose", "prevote", "precommit", "finalized"}
          /\ node[v].blocks \subseteq Blocks
          /\ node[v].target \in 0 .. MaxHeight
          /\ node[v].mode # "down" => node[v].eng.height = NextHeight(v)
          /\ {m \in Durable(v) : m.kind # "proposal"} \subseteq Signable
          /\ LedgerHeight(v) <= MaxHeight
          /\ disk[v].accused \subseteq Validators
    /\ crashes \in 0 .. MaxCrashes

\* Nothing an honest validator signed reaches the network before the signer
\* slot, the safety state and the message are durable (sign_and_persist runs
\* before Persisted, which produces Broadcast).
DurableBeforeBroadcast ==
    \A m \in net : m.kind # "certificate" => m \in Durable(m.validator)

\* The engine never asks for a second, different decision in a signer slot
\* that is already durable, whatever crashed and restarted in between: the
\* conflict check of persist_consensus_decision is never what saves the node.
NoSlotConflict ==
    \A v \in Honest : Performs(v, "persist") =>
        \A row \in Rows(v) : SameSlot(row.msg, Effect(v).msg) =>
            row = [msg |-> Effect(v).msg, safety |-> Effect(v).safety]

\* A node signs nothing for a height its ledger has finalized, nothing while it
\* synchronizes and nothing once it has halted, whatever timers, queued events
\* and effects the previous height left behind.
SignsOnlyNextHeight ==
    [][\A v \in Honest : \A m \in Durable(v)' \ Durable(v) :
          /\ m.height = NextHeight(v)
          /\ node[v].target = 0 /\ node[v].mode # "halted"]_vars

\* Evidence of double signing is only ever recorded against faulty validators.
EvidenceOnlyAgainstFaulty == \A v \in Honest : disk[v].accused \subseteq Faulty

\* At every crash point the safety row left on disk passes the validation of
\* initialize_consensus_recovery, unless the round limit is exhausted.
AlwaysRecoverable ==
    \A v \in Honest :
        disk[v].safety # None /\ disk[v].safety.round + 1 < MaxRounds => Recoverable(v)

\* The lock in memory is never older than the last durable block precommit,
\* also after a restart.
LockCoversPrecommits ==
    \A v \in Honest : node[v].mode # "down" =>
        \A m \in Durable(v) :
            m.kind = "precommit" /\ m.height = node[v].eng.height /\ m.value # Nil =>
                \/ node[v].eng.lockedRound > m.round
                \/ node[v].eng.lockedRound = m.round /\ node[v].eng.lockedBlock = m.value

\* A proposer's own lock accepts what it proposes: it never prevotes nil, or
\* another block, in the round of its own proposal.
ProposerBacksItself ==
    \A v \in Honest : \A p, m \in Durable(v) :
        /\ p.kind = "proposal" /\ m.kind = "prevote"
        /\ p.height = m.height /\ p.round = m.round
        => m.value = p.value

\* Honest validators vote for blocks that execute on their ledger and were
\* declared for this round or an earlier one.
VotesAreExecutable ==
    \A v \in Honest : \A m \in Durable(v) :
        m.value # Nil => Executable(m.value) /\ m.value.round <= m.round

\* Every finalized block is backed by durable precommits of the honest
\* validators its certificate names.
CertificatesAreBacked ==
    \A v \in Honest : \A h \in 1 .. LedgerHeight(v) :
        LET c == disk[v].chain[h]
        IN /\ c.height = h /\ IsQuorum(c.signers)
           /\ \A w \in c.signers \ Faulty :
                 Vote("precommit", h, c.round, w, c.value) \in Durable(w)

\* Honest nodes finalize the same block at every height they share.
ChainsAgree ==
    \A v, w \in Honest :
        \A h \in 1 .. LedgerHeight(v) : h <= LedgerHeight(w) =>
            disk[v].chain[h].value = disk[w].chain[h].value

-------------------------------------------------------------------------------
(* The durable votes implement module Voting *)

DurableVotes == UNION {{m \in Durable(v) : m.kind # "proposal"} : v \in Honest}

V == INSTANCE Voting WITH votes <- DurableVotes

\* At every height the durable votes follow the voting rules of module Voting,
\* through crashes, restarts and lost messages.
ImplementsVoting == V!Spec

-------------------------------------------------------------------------------
(* What the documentation says and the code does not do *)

\* docs/architecture.md: "If a proposal is missing or invalid, validators time
\* out into a later round": a validator that waits in a round has a timer
\* running for the phase it waits in.
TimerArmed ==
    \A v \in Honest : LET e == node[v].eng IN
        Ready(v) /\ e.started /\ node[v].target = 0 /\ e.round + 1 < MaxRounds =>
            \E i \in DOMAIN node[v].timers : node[v].timers[i] =
                [height |-> e.height, round |-> e.round, phase |-> e.phase]

\* docs/synchronization.md: "A node either verifies the unique
\* certificate-backed chain or halts on conflicting finality".
HaltsOnlyOnConflict ==
    \A v \in Honest : node[v].mode = "halted" =>
        \E c \in Importable : /\ c.height <= LedgerHeight(v)
                               /\ disk[v].chain[c.height].value # c.value
===============================================================================
