---------------------------- MODULE ConsensusProofs ----------------------------
(***************************************************************************)
(* Safety of the nodes, through crashes, restarts and an unreliable        *)
(* network, for any number of validators, heights, rounds and crashes.     *)
(*                                                                         *)
(* The inductive invariant IInv is a conjunction over the validators of    *)
(* what holds of a validator's disk d and process n, given D, the messages *)
(* every honest validator has made durable.  An action changes the disk    *)
(* and the process of one validator, so each action is a lemma about some  *)
(* d and n, and StepOne and StepPersist put it in its place.               *)
(*                                                                         *)
(* Two theorems need more than IInv: the agreement of the chains comes     *)
(* from the voting rules of module Voting, which the durable votes follow, *)
(* and that a proposer backs itself from a second invariant, OwnInv, about *)
(* the way of a proposal from its request to its prevote.                  *)
(***************************************************************************)
EXTENDS Consensus, EngineProofs, SequenceTheorems

-------------------------------------------------------------------------------
(* The inductive invariant *)

DurableBy == [v \in Honest |-> Durable(v)]

\* The messages in the rows of a disk.
RowMsgs(d) == {d.decisions[i].msg : i \in DOMAIN d.decisions}

Modes == {"down", "recovering", "running", "halted"}
DecisionRows == [msg : Msgs, safety : SafetyStates]

Nodes ==
    [mode : Modes, eng : Engines, blocks : SUBSET Blocks, timers : Seq(Timeouts),
     target : 0 .. MaxHeight, jobs : Seq(Events), events : Seq(Events),
     effects : Seq(Effects)]

Disks ==
    [chain : Seq(Certs), decisions : Seq(DecisionRows), safety : SafetyStates \cup {None},
     stored : SUBSET ProposalMsgs, accused : SUBSET Faulty]

\* The height a node with this disk works on.
Height(d) == Len(d.chain) + 1

\* The ledger holds one backed certificate per height.
ChainOK(D, d) ==
    /\ Len(d.chain) <= MaxHeight
    /\ \A h \in 1 .. Len(d.chain) : d.chain[h].height = h /\ CertOK(D, d.chain[h])

\* The safety row belongs to the next height, covers every decision there and
\* is the one stored with the last decision; without it there is none.
RowsOK(D, v, d) ==
    /\ \A m \in D[v] : m.height \in Heights /\ m.height <= Height(d)
    /\ d.safety = None => \A m \in D[v] : m.height < Height(d)
    /\ d.safety # None =>
          /\ d.safety.height = Height(d) /\ Height(d) <= MaxHeight
          /\ LockOK(D, d.stored, v, d.safety)
          /\ \A m \in D[v] : m.height = Height(d) => m.round <= d.safety.round
          /\ d.decisions # <<>>
          /\ d.decisions[Len(d.decisions)].msg.height = Height(d)
          /\ d.decisions[Len(d.decisions)].safety = d.safety

DiskOK(D, v, d) ==
    d \in Disks /\ StoreOK(D, d.stored, v) /\ ChainOK(D, d) /\ RowsOK(D, v, d)

Quiet(n) == n.jobs = <<>> /\ n.events = <<>> /\ n.effects = <<>>

\* Only a first job starts the engine.
JobOK(D, S, v, n, i) ==
    /\ n.jobs[i].type \in {"start", "message", "timeout"}
    /\ EventOK(D, S, v, n.eng, n.jobs[i])
    /\ n.jobs[i].type = "start" =>
          i = 1 /\ n.events = <<>> /\ n.effects = <<>> /\ n.eng.height <= MaxHeight

QueuedOK(D, S, v, n, i) ==
    n.events[i].type \in {"ready", "persisted"} /\ EventOK(D, S, v, n.eng, n.events[i])

\* The commands under way: a node that is down, halted or synchronizing does
\* nothing.
QueuesOK(D, S, v, n) ==
    /\ n.mode \in {"down", "halted"} \/ n.target # 0 => Quiet(n)
    /\ n.effects # <<>> => n.eng.started
    /\ \A i \in 1 .. Len(n.jobs) : JobOK(D, S, v, n, i)
    /\ \A i \in 1 .. Len(n.events) : QueuedOK(D, S, v, n, i)

\* A process that is up works on the height after its ledger's.
EngineAt(D, d, v, e) ==
    /\ e.height = Height(d) /\ (e.started => e.height <= MaxHeight)
    /\ EngineOK(D, d.stored, v, e)

ProcessOK(D, d, v, n) ==
    EngineAt(D, d, v, n.eng) /\ EffectsOK(D, d.stored, v, n.eng, n.effects)

NodeOK(D, d, v, n) ==
    /\ n \in Nodes /\ n.eng.id = v
    /\ QueuesOK(D, d.stored, v, n)
    /\ n.mode # "down" => ProcessOK(D, d, v, n)

NetOK(D, M) ==
    /\ M \subseteq Msgs \cup Certs
    /\ \A m \in M : m.kind # "certificate" => m.validator \in Honest /\ m \in D[m.validator]
    /\ \A m \in M : m.kind = "certificate" => m.height \in Heights /\ CertOK(D, m)

IInv ==
    /\ node \in [Honest -> Nodes] /\ disk \in [Honest -> Disks]
    /\ crashes \in 0 .. MaxCrashes
    /\ DurableOK(DurableBy) /\ NetOK(DurableBy, net)
    /\ \A v \in Honest :
          DiskOK(DurableBy, v, disk[v]) /\ NodeOK(DurableBy, disk[v], v, node[v])

-------------------------------------------------------------------------------
(* What stays true as more becomes durable *)

\* Others may have made more durable, and v may have stored more.
Later(D, E, S, T, v) == Grows(D, E) /\ S \subseteq T /\ E[v] = D[v]

\* A lock stays justified.
LEMMA LockLater ==
    ASSUME NEW D, NEW E, NEW S, NEW T, NEW v, Later(D, E, S, T, v),
           NEW s, LockOK(D, S, v, s)
    PROVE  LockOK(E, T, v, s)
  <1>1. PolcIn(D, s.height, s.lockedRound, s.lockedBlock) =>
           PolcIn(E, s.height, s.lockedRound, s.lockedBlock)
    BY PolcGrows DEF Later
  <1>2. Backed(D, "prevote", s.height, s.validRound, s.validBlock, s.validProof) =>
           Backed(E, "prevote", s.height, s.validRound, s.validBlock, s.validProof)
    BY BackedGrows DEF Later
  <1>3. \A b : StoredIn(S, s.height, b) => StoredIn(T, s.height, b)
    BY DEF StoredIn, Later
  <1>4. E[v] = D[v]
    BY DEF Later
  <1> QED BY <1>1, <1>2, <1>3, <1>4 DEF LockOK

\* A proof stays one, and a signed message stays signed.
LEMMA ProofGrows ==
    ASSUME NEW D, NEW E, Grows(D, E), NEW p
    PROVE  (ProofOK(D, p) => ProofOK(E, p)) /\ (Signed(D, p) => Signed(E, p))
  <1>1. Backed(D, "prevote", p.height, p.validRound, p.value, p.proof) =>
           Backed(E, "prevote", p.height, p.validRound, p.value, p.proof)
    BY BackedGrows
  <1> QED BY <1>1 DEF ProofOK, Signed, Grows

\* A certificate stays backed.
LEMMA CertGrows ==
    ASSUME NEW D, NEW E, Grows(D, E), NEW c, CertOK(D, c)
    PROVE  CertOK(E, c)
  BY BackedGrows DEF CertOK

\* So does everything an engine believes.
LEMMA EngineLater ==
    ASSUME NEW D, NEW E, NEW S, NEW T, NEW v, Later(D, E, S, T, v),
           NEW e, EngineOK(D, S, v, e)
    PROVE  EngineOK(E, T, v, e)
  <1>1. LockOK(E, T, v, e)
    BY LockLater DEF EngineOK
  <1>2. CachesOK(E, T, v, e)
    BY ProofGrows DEF EngineOK, CachesOK, Later
  <1>3. SlotsOK(E, v, e)
    BY DEF EngineOK, SlotsOK, Later
  <1> QED BY <1>1, <1>2, <1>3 DEF EngineOK

\* So does a decision not signed yet.
LEMMA DecisionLater ==
    ASSUME NEW D, NEW E, NEW S, NEW T, NEW v, Later(D, E, S, T, v),
           NEW e, NEW m, DecisionOK(D, v, e, m)
    PROVE  DecisionOK(E, v, e, m)
  <1>1. E[v] = D[v] /\ Grows(D, E)
    BY DEF Later
  <1>2. LockLets(D, v, e.height, e.round, m.value) => LockLets(E, v, e.height, e.round, m.value)
    BY <1>1, PolcGrows DEF LockLets
  <1>3. PolcIn(D, e.height, e.round, m.value) => PolcIn(E, e.height, e.round, m.value)
    BY <1>1, PolcGrows
  <1>4. ProofOK(D, m) => ProofOK(E, m)
    BY <1>1, ProofGrows
  <1> QED BY <1>1, <1>2, <1>3, <1>4 DEF DecisionOK

\* So does an effect not performed yet.
LEMMA EffectsLater ==
    ASSUME NEW D, NEW E, NEW S, NEW T, NEW v, Later(D, E, S, T, v),
           NEW e, NEW fx, EffectsOK(D, S, v, e, fx)
    PROVE  EffectsOK(E, T, v, e, fx)
  <1>1. ASSUME NEW x, EffectOK(D, S, v, e, x) PROVE EffectOK(E, T, v, e, x)
    <2>1. ASSUME x.type = "persist" PROVE DecisionOK(E, v, e, x.msg)
      BY <1>1, <2>1, DecisionLater DEF EffectOK
    <2>2. ASSUME x.type = "persist" PROVE SafetyOK(E, T, v, e, x.msg, x.safety)
      BY <1>1, <2>2, LockLater DEF EffectOK, SafetyOK
    <2>3. x.type = "finalize" => CertOK(E, x.certificate)
      BY <1>1, CertGrows DEF EffectOK, Later
    <2>4. E[v] = D[v]
      BY DEF Later
    <2> QED BY <1>1, <2>1, <2>2, <2>3, <2>4 DEF EffectOK
  <1> QED BY <1>1 DEF EffectsOK

\* So does an event in a queue, also when v itself signs more.
LEMMA EventGrows ==
    ASSUME NEW D, NEW E, NEW S, NEW T, NEW v \in Honest, Grows(D, E), S \subseteq T,
           NEW e, NEW x, EventOK(D, S, v, e, x)
    PROVE  EventOK(E, T, v, e, x)
  BY ProofGrows DEF EventOK, Grows

\* So do the queues of a process.
LEMMA QueuesGrow ==
    ASSUME NEW D, NEW E, NEW S, NEW T, NEW v \in Honest, Grows(D, E), S \subseteq T,
           NEW n, QueuesOK(D, S, v, n)
    PROVE  QueuesOK(E, T, v, n)
  <1>1. ASSUME NEW i \in 1 .. Len(n.jobs) PROVE JobOK(E, T, v, n, i)
    <2>1. JobOK(D, S, v, n, i)
      BY DEF QueuesOK
    <2> QED BY <2>1, EventGrows DEF JobOK
  <1>2. ASSUME NEW i \in 1 .. Len(n.events) PROVE QueuedOK(E, T, v, n, i)
    <2>1. QueuedOK(D, S, v, n, i)
      BY DEF QueuesOK
    <2> QED BY <2>1, EventGrows DEF QueuedOK
  <1> QED BY <1>1, <1>2 DEF QueuesOK

\* So does a whole process, while its ledger does not move.
LEMMA NodeLater ==
    ASSUME NEW D, NEW E, NEW v \in Honest, NEW d, NEW c, Later(D, E, d.stored, c.stored, v),
           Height(c) = Height(d), NEW n, NodeOK(D, d, v, n)
    PROVE  NodeOK(E, c, v, n)
  <1>1. QueuesOK(E, c.stored, v, n)
    BY QueuesGrow DEF NodeOK, Later
  <1>2. ASSUME n.mode # "down" PROVE ProcessOK(E, c, v, n)
    <2>1. ProcessOK(D, d, v, n)
      BY <1>2 DEF NodeOK
    <2>2. EngineOK(E, c.stored, v, n.eng) /\ EffectsOK(E, c.stored, v, n.eng, n.effects)
      BY <2>1, EngineLater, EffectsLater DEF ProcessOK, EngineAt
    <2> QED BY <2>1, <2>2 DEF ProcessOK, EngineAt
  <1> QED BY <1>1, <1>2 DEF NodeOK

\* So does a disk that others' decisions do not touch.
LEMMA DiskLater ==
    ASSUME NEW D, NEW E, NEW v \in Honest, NEW d, Later(D, E, d.stored, d.stored, v),
           DiskOK(D, v, d)
    PROVE  DiskOK(E, v, d)
  <1>1. E[v] = D[v] /\ Grows(D, E)
    BY DEF Later
  <1>2. StoreOK(E, d.stored, v)
    BY <1>1 DEF DiskOK, StoreOK
  <1>3. ChainOK(E, d)
    BY <1>1, CertGrows DEF DiskOK, ChainOK
  <1>4. RowsOK(E, v, d)
    BY <1>1, LockLater DEF DiskOK, RowsOK
  <1> QED BY <1>2, <1>3, <1>4 DEF DiskOK

\* So does the network.
LEMMA NetGrows ==
    ASSUME NEW D, NEW E, Grows(D, E), NEW M, NetOK(D, M)
    PROVE  NetOK(E, M)
  BY CertGrows DEF NetOK, Grows

\* The same durable messages.
LEMMA SameDurable ==
    ASSUME NEW D, NEW S, NEW T, NEW v, S \subseteq T
    PROVE  Later(D, D, S, T, v) /\ Grows(D, D)
  BY DEF Later, Grows

-------------------------------------------------------------------------------
(* A step of one validator *)

\* Durable(v) is what the rows of v's disk say.
LEMMA DurableRows ==
    ASSUME NEW d
    PROVE  {row.msg : row \in {d.decisions[i] : i \in DOMAIN d.decisions}} = RowMsgs(d)
  BY DEF RowMsgs

\* A step of v that makes no new decision durable.
LEMMA StepOne ==
    ASSUME IInv, NEW v \in Honest, NEW n, NEW d,
           node' = [node EXCEPT ![v] = n], disk' = [disk EXCEPT ![v] = d],
           RowMsgs(d) = RowMsgs(disk[v]),
           DiskOK(DurableBy, v, d), NodeOK(DurableBy, d, v, n),
           NetOK(DurableBy, net'), crashes' \in 0 .. MaxCrashes
    PROVE  IInv'
  <1>1. \A w \in Honest : Durable(w)' = Durable(w)
    <2> TAKE w \in Honest
    <2>1. Durable(w) = RowMsgs(disk[w]) /\ Durable(w)' = RowMsgs(disk'[w])
      BY DurableRows DEF Durable, Rows
    <2>2. RowMsgs(disk'[w]) = RowMsgs(disk[w])
      BY DEF IInv
    <2> QED BY <2>1, <2>2
  <1>2. DurableBy' = DurableBy
    BY <1>1 DEF DurableBy
  <1>3. node' \in [Honest -> Nodes] /\ disk' \in [Honest -> Disks]
    BY DEF IInv, DiskOK, NodeOK
  <1>4. ASSUME NEW w \in Honest
        PROVE  DiskOK(DurableBy, w, disk'[w]) /\ NodeOK(DurableBy, disk'[w], w, node'[w])
    <2>1. CASE w = v
      <3>1. disk'[w] = d /\ node'[w] = n
        BY <2>1 DEF IInv
      <3> QED BY <2>1, <3>1
    <2>2. CASE w # v
      <3>1. disk'[w] = disk[w] /\ node'[w] = node[w]
        BY <2>2 DEF IInv
      <3> QED BY <3>1 DEF IInv
    <2> QED BY <2>1, <2>2
  <1> QED BY <1>2, <1>3, <1>4 DEF IInv

\* What the invariant says of the validator that takes a step.
LEMMA Own ==
    ASSUME IInv, NEW v \in Honest
    PROVE  /\ Context(DurableBy, disk[v].stored, v)
           /\ DiskOK(DurableBy, v, disk[v]) /\ NodeOK(DurableBy, disk[v], v, node[v])
           /\ disk[v] \in Disks /\ node[v] \in Nodes
           /\ DurableBy[v] = Durable(v) /\ NextHeight(v) = Height(disk[v])
           /\ Height(disk[v]) \in Nat \ {0}
           /\ NetOK(DurableBy, net) /\ crashes \in 0 .. MaxCrashes
           /\ node = [node EXCEPT ![v] = node[v]]
           /\ disk = [disk EXCEPT ![v] = disk[v]]
  <1>1. DurableBy[v] = Durable(v) /\ NextHeight(v) = Height(disk[v])
    BY DEF DurableBy, NextHeight, LedgerHeight, Height
  <1>2. DiskOK(DurableBy, v, disk[v]) /\ NodeOK(DurableBy, disk[v], v, node[v])
    BY DEF IInv
  <1>3. disk[v] \in Disks /\ node[v] \in Nodes
    BY DEF IInv
  <1>4. Height(disk[v]) \in Nat \ {0}
    BY <1>3 DEF Disks, Height
  <1>5. Context(DurableBy, disk[v].stored, v)
    BY <1>2 DEF IInv, Context, DiskOK
  <1>6. node = [node EXCEPT ![v] = node[v]] /\ disk = [disk EXCEPT ![v] = disk[v]]
    BY DEF IInv
  <1> QED BY <1>1, <1>2, <1>3, <1>4, <1>5, <1>6 DEF IInv

\* A step of v that leaves the disks alone.
LEMMA StepInMemory ==
    ASSUME IInv, NEW v \in Honest, NEW n,
           node' = [node EXCEPT ![v] = n], disk' = disk,
           NodeOK(DurableBy, disk[v], v, n),
           NetOK(DurableBy, net'), crashes' \in 0 .. MaxCrashes
    PROVE  IInv'
  <1> DEFINE d == disk[v]
  <1>1. disk' = [disk EXCEPT ![v] = d] /\ RowMsgs(d) = RowMsgs(disk[v])
    BY Own
  <1>2. DiskOK(DurableBy, v, d) /\ NodeOK(DurableBy, d, v, n)
    BY Own
  <1> HIDE DEF d
  <1> QED BY <1>1, <1>2, StepOne

\* A process that is running or recovering.
LEMMA UpOK ==
    ASSUME NEW D, NEW d, NEW v, NEW n, NodeOK(D, d, v, n), n.mode # "down"
    PROVE  /\ ProcessOK(D, d, v, n) /\ QueuesOK(D, d.stored, v, n) /\ n \in Nodes
           /\ n.eng \in Engines /\ n.eng.id = v /\ n.eng.height = Height(d)
           /\ EngineOK(D, d.stored, v, n.eng) /\ EffectsOK(D, d.stored, v, n.eng, n.effects)
  BY DEF NodeOK, ProcessOK, EngineAt, EngineOK

\* Empty queues.
LEMMA QuietQueues ==
    ASSUME NEW D, NEW S, NEW v, NEW n, Quiet(n)
    PROVE  QueuesOK(D, S, v, n)
  <1>1. Len(n.jobs) = 0 /\ Len(n.events) = 0
    BY DEF Quiet
  <1>2. (\A i \in 1 .. Len(n.jobs) : FALSE) /\ (\A i \in 1 .. Len(n.events) : FALSE)
    BY <1>1
  <1>3. n.effects = <<>>
    BY DEF Quiet
  <1> QED BY <1>2, <1>3 DEF QueuesOK

\* Abort ends the command, and halts a node that was resuming.
LEMMA AbortOK ==
    ASSUME NEW D, NEW d, NEW v, NEW n \in Nodes, EngineAt(D, d, v, n.eng), n.mode # "down",
           NEW f, f = Abort(n)
    PROVE  NodeOK(D, d, v, f)
  <1>1. n \in Nodes
    OBVIOUS
  <1>2. /\ f.eng = n.eng /\ f.jobs = <<>> /\ f.events = <<>> /\ f.effects = <<>>
        /\ f.target = n.target
    BY <1>1 DEF Abort, Nodes
  <1>3. f.mode = IF n.mode = "recovering" THEN "halted" ELSE n.mode
    BY <1>1 DEF Abort, Nodes
  <1>4. f \in Nodes
    <2>1. f = [n EXCEPT !.jobs = <<>>, !.events = <<>>, !.effects = <<>>, !.mode = f.mode]
      BY <1>1, <1>3 DEF Abort, Nodes
    <2>2. f.mode \in Modes
      BY <1>1, <1>3 DEF Nodes, Modes
    <2>3. <<>> \in Seq(Events) /\ <<>> \in Seq(Effects)
      OBVIOUS
    <2> QED BY <1>1, <2>1, <2>2, <2>3 DEF Nodes
  <1>5. QueuesOK(D, d.stored, v, f)
    BY <1>2, QuietQueues DEF Quiet
  <1>6. ProcessOK(D, d, v, f)
    <2>1. EffectsOK(D, d.stored, v, f.eng, f.effects)
      BY <1>2, NoEffects
    <2> QED BY <1>2, <2>1 DEF ProcessOK
  <1> QED BY <1>2, <1>4, <1>5, <1>6 DEF NodeOK, EngineAt, EngineOK

\* The head of the effects is justified, and so is what follows it.
LEMMA HeadEffect ==
    ASSUME NEW D, NEW S, NEW v, NEW e, NEW fx, EffectsOK(D, S, v, e, fx), fx # <<>>
    PROVE  /\ Head(fx) \in Effects /\ EffectOK(D, S, v, e, Head(fx))
           /\ EffectsOK(D, S, v, e, Tail(fx)) /\ Tail(fx) \in Seq(Effects)
           /\ Head(fx).type = "finalize" => Tail(fx) = <<>>
           /\ Head(fx).type = "persist" => \A i \in 1 .. Len(Tail(fx)) :
                 Tail(fx)[i].type = "persist" =>
                     Head(fx).msg.kind = "prevote" /\ Tail(fx)[i].msg.kind = "precommit"
  <1> DEFINE gx == Tail(fx)
  <1>1. /\ fx \in Seq(Effects) /\ gx \in Seq(Effects) /\ Len(fx) \in Nat \ {0}
        /\ Len(gx) = Len(fx) - 1 /\ Head(fx) = fx[1]
        /\ \A i \in 1 .. Len(gx) : gx[i] = fx[i + 1] /\ i + 1 \in 1 .. Len(fx)
        /\ 1 \in 1 .. Len(fx) /\ fx[1] \in Effects
    BY DEF EffectsOK
  <1> HIDE DEF gx
  <1>2. EffectOK(D, S, v, e, fx[1])
    BY <1>1 DEF EffectsOK
  <1>3. EffectsOK(D, S, v, e, gx)
    <2>1. ASSUME NEW i \in 1 .. Len(gx) PROVE EffectOK(D, S, v, e, gx[i])
      BY <1>1 DEF EffectsOK
    <2>2. ASSUME NEW i \in 1 .. Len(gx), NEW j \in 1 .. Len(gx), i < j
          PROVE  /\ gx[i].type # "finalize"
                 /\ gx[i].type = "persist" /\ gx[j].type = "persist" =>
                       gx[i].msg.kind = "prevote" /\ gx[j].msg.kind = "precommit"
      <3>1. i + 1 \in 1 .. Len(fx) /\ j + 1 \in 1 .. Len(fx) /\ i + 1 < j + 1
        BY <1>1, <2>2
      <3>2. gx[i] = fx[i + 1] /\ gx[j] = fx[j + 1]
        BY <1>1
      <3> DEFINE k == i + 1  l == j + 1
      <3> HIDE DEF k, l
      <3>3. k \in 1 .. Len(fx) /\ l \in 1 .. Len(fx) /\ k < l /\ gx[i] = fx[k] /\ gx[j] = fx[l]
        BY <3>1, <3>2 DEF k, l
      <3> QED BY <3>3 DEF EffectsOK
    <2> QED BY <1>1, <2>1, <2>2 DEF EffectsOK
  <1>4. ASSUME fx[1].type = "finalize" PROVE gx = <<>>
    <2> SUFFICES ASSUME Len(fx) # 1 PROVE FALSE
      BY <1>1
    <2>1. 2 \in 1 .. Len(fx)
      BY <1>1
    <2> QED BY <1>1, <1>4, <2>1 DEF EffectsOK
  <1>5. ASSUME fx[1].type = "persist", NEW i \in 1 .. Len(gx), gx[i].type = "persist"
        PROVE  fx[1].msg.kind = "prevote" /\ gx[i].msg.kind = "precommit"
    <2>1. i + 1 \in 1 .. Len(fx) /\ 1 < i + 1
      BY <1>1
    <2> QED BY <1>1, <1>5, <2>1 DEF EffectsOK
  <1> QED BY <1>1, <1>2, <1>3, <1>4, <1>5 DEF gx

\* Nothing follows a finalized block.
LEMMA FinalizeLast ==
    ASSUME NEW D, NEW S, NEW v, NEW e, NEW fx, EffectsOK(D, S, v, e, fx), fx # <<>>,
           Head(fx).type = "finalize"
    PROVE  Tail(fx) = <<>>
  <1>1. fx \in Seq(Effects)
    BY DEF EffectsOK
  <1>2. Head(fx) = fx[1] /\ Len(fx) \in Nat \ {0} /\ Len(Tail(fx)) = Len(fx) - 1
        /\ Tail(fx) \in Seq(Effects)
    BY <1>1
  <1>3. Len(fx) = 1
    <2> SUFFICES ASSUME Len(fx) # 1 PROVE FALSE
      OBVIOUS
    <2>1. 1 \in 1 .. Len(fx) /\ 2 \in 1 .. Len(fx) /\ 1 < 2
      BY <1>2
    <2> QED BY <1>2, <2>1 DEF EffectsOK
  <1> DEFINE gx == Tail(fx)
  <1>4. gx \in Seq(Effects) /\ Len(gx) = 0
    BY <1>2, <1>3
  <1> HIDE DEF gx
  <1>5. gx = <<>>
    BY <1>4
  <1> QED BY <1>5 DEF gx

\* After an effect has been performed, with what it queued.
LEMMA PerformedOK ==
    ASSUME NEW D, NEW E, NEW d, NEW c, NEW v \in Honest, Grows(D, E), d.stored \subseteq c.stored,
           Height(c) = Height(d),
           NEW n, NodeOK(D, d, v, n), n.mode \in {"running", "recovering"}, n.effects # <<>>,
           NEW f \in Nodes, f.mode = n.mode, f.eng = n.eng, f.target = n.target,
           f.jobs = n.jobs, f.effects = Tail(n.effects),
           \A i \in 1 .. Len(f.events) : QueuedOK(E, c.stored, v, f, i),
           EngineOK(E, c.stored, v, n.eng),
           EffectsOK(E, c.stored, v, n.eng, Tail(n.effects))
    PROVE  NodeOK(E, c, v, f)
  <1>1. ProcessOK(D, d, v, n) /\ QueuesOK(D, d.stored, v, n)
    BY UpOK
  <1>2. n.eng.started /\ n.target = 0
    BY <1>1 DEF QueuesOK, Quiet
  <1>3. ASSUME NEW i \in 1 .. Len(f.jobs) PROVE JobOK(E, c.stored, v, f, i)
    <2>1. JobOK(D, d.stored, v, n, i)
      BY <1>1 DEF QueuesOK
    <2>2. EventOK(E, c.stored, v, n.eng, n.jobs[i])
      BY <2>1, EventGrows DEF JobOK
    <2> QED BY <2>1, <2>2 DEF JobOK
  <1>4. QueuesOK(E, c.stored, v, f)
    BY <1>2, <1>3 DEF QueuesOK
  <1>5. ProcessOK(E, c, v, f)
    BY <1>1 DEF ProcessOK, EngineAt
  <1> QED BY <1>4, <1>5 DEF NodeOK, ProcessOK, EngineAt, EngineOK

\* An event added at the end of the queue.
LEMMA AppendEvent ==
    ASSUME NEW D, NEW S, NEW v, NEW n \in Nodes, NEW f,
           \A i \in 1 .. Len(n.events) : QueuedOK(D, S, v, n, i),
           NEW x \in Events, x.type \in {"ready", "persisted"}, EventOK(D, S, v, n.eng, x),
           f.eng = n.eng, f.events = Append(n.events, x)
    PROVE  f.events \in Seq(Events) /\ \A i \in 1 .. Len(f.events) : QueuedOK(D, S, v, f, i)
  <1>1. n.events \in Seq(Events)
    BY DEF Nodes
  <1>2. /\ f.events \in Seq(Events) /\ Len(f.events) = Len(n.events) + 1
        /\ Len(n.events) \in Nat
        /\ \A i \in 1 .. Len(n.events) : f.events[i] = n.events[i]
        /\ f.events[Len(n.events) + 1] = x
    BY <1>1, AddOne
  <1>3. ASSUME NEW i \in 1 .. Len(f.events) PROVE QueuedOK(D, S, v, f, i)
    <2>1. CASE i \in 1 .. Len(n.events)
      BY <1>2, <2>1 DEF QueuedOK
    <2>2. CASE i = Len(n.events) + 1
      BY <1>2, <2>2 DEF QueuedOK
    <2> QED BY <1>2, <2>1, <2>2
  <1> QED BY <1>2, <1>3

-------------------------------------------------------------------------------
(* The event loop *)

\* The first element of a queue, and what is left of it.
LEMMA HeadTail ==
    ASSUME NEW T, NEW q \in Seq(T), q # <<>>
    PROVE  /\ Head(q) \in T /\ Head(q) = q[1] /\ Tail(q) \in Seq(T)
           /\ Len(q) \in Nat \ {0} /\ Len(Tail(q)) = Len(q) - 1
           /\ \A i \in 1 .. Len(Tail(q)) : Tail(q)[i] = q[i + 1] /\ i + 1 \in 1 .. Len(q)
           /\ 1 \in 1 .. Len(q)
  OBVIOUS

\* A queued event stays good for the engine it will meet.
LEMMA EventStands ==
    ASSUME NEW D, NEW S, NEW v, NEW e, NEW f, NEW x, EventOK(D, S, v, e, x),
           f.height = e.height, x.type = "ready" => f.round = e.round
    PROVE  EventOK(D, S, v, f, x)
  BY DEF EventOK

\* The event that is handed to the engine, and the process without it.
Takes(n, event, rest) ==
    \/ n.events # <<>> /\ event = Head(n.events) /\ rest = [n EXCEPT !.events = Tail(@)]
    \/ /\ n.events = <<>> /\ n.jobs # <<>>
       /\ event = Head(n.jobs) /\ rest = [n EXCEPT !.jobs = Tail(@)]

\* The queues left after an event has been taken.
LEMMA TakenOK ==
    ASSUME NEW D, NEW S, NEW v, NEW n \in Nodes, QueuesOK(D, S, v, n), n.effects = <<>>,
           NEW event, NEW rest, Takes(n, event, rest)
    PROVE  /\ EventOK(D, S, v, n.eng, event)
           /\ event.type = "start" => n.eng.height <= MaxHeight
           /\ rest \in Nodes /\ rest.mode = n.mode /\ rest.target = n.target
           /\ \A i \in 1 .. Len(rest.jobs) :
                 /\ rest.jobs[i].type \in {"message", "timeout"}
                 /\ EventOK(D, S, v, n.eng, rest.jobs[i])
           /\ \A i \in 1 .. Len(rest.events) :
                 /\ rest.events[i].type \in {"ready", "persisted"}
                 /\ event.type \notin {"start", "timeout"}
                 /\ EventOK(D, S, v, n.eng, rest.events[i])
  <1>1. n.jobs \in Seq(Events) /\ n.events \in Seq(Events)
    BY DEF Nodes
  <1>2. CASE n.events # <<>> /\ event = Head(n.events) /\ rest = [n EXCEPT !.events = Tail(@)]
    <2>1. /\ rest \in Nodes /\ rest.mode = n.mode /\ rest.target = n.target
          /\ rest.jobs = n.jobs /\ rest.events = Tail(n.events)
      BY <1>1, <1>2, HeadTail DEF Nodes
    <2>2. /\ event = n.events[1] /\ 1 \in 1 .. Len(n.events)
          /\ \A i \in 1 .. Len(rest.events) :
                rest.events[i] = n.events[i + 1] /\ i + 1 \in 1 .. Len(n.events)
      BY <1>1, <1>2, <2>1, HeadTail
    <2>3. event.type \in {"ready", "persisted"} /\ EventOK(D, S, v, n.eng, event)
      BY <2>2 DEF QueuesOK, QueuedOK
    <2>4. ASSUME NEW i \in 1 .. Len(rest.jobs)
          PROVE  /\ rest.jobs[i].type \in {"message", "timeout"}
                 /\ EventOK(D, S, v, n.eng, rest.jobs[i])
      BY <1>2, <2>1 DEF QueuesOK, JobOK
    <2>5. ASSUME NEW i \in 1 .. Len(rest.events)
          PROVE  /\ rest.events[i].type \in {"ready", "persisted"}
                 /\ EventOK(D, S, v, n.eng, rest.events[i])
      <3> DEFINE k == i + 1
      <3>1. rest.events[i] = n.events[k] /\ k \in 1 .. Len(n.events)
        BY <2>2
      <3> HIDE DEF k
      <3> QED BY <3>1 DEF QueuesOK, QueuedOK
    <2> QED BY <2>1, <2>3, <2>4, <2>5
  <1>3. CASE /\ n.events = <<>> /\ n.jobs # <<>>
             /\ event = Head(n.jobs) /\ rest = [n EXCEPT !.jobs = Tail(@)]
    <2>1. /\ rest \in Nodes /\ rest.mode = n.mode /\ rest.target = n.target
          /\ rest.jobs = Tail(n.jobs) /\ rest.events = <<>>
      BY <1>1, <1>3, HeadTail DEF Nodes
    <2>2. /\ event = n.jobs[1] /\ 1 \in 1 .. Len(n.jobs)
          /\ \A i \in 1 .. Len(rest.jobs) :
                rest.jobs[i] = n.jobs[i + 1] /\ i + 1 \in 1 .. Len(n.jobs)
      BY <1>1, <1>3, <2>1, HeadTail
    <2>3. EventOK(D, S, v, n.eng, event) /\ (event.type = "start" => n.eng.height <= MaxHeight)
      BY <2>2 DEF QueuesOK, JobOK
    <2>4. ASSUME NEW i \in 1 .. Len(rest.jobs)
          PROVE  /\ rest.jobs[i].type \in {"message", "timeout"}
                 /\ EventOK(D, S, v, n.eng, rest.jobs[i])
      <3> DEFINE k == i + 1
      <3>1. rest.jobs[i] = n.jobs[k] /\ k \in 1 .. Len(n.jobs) /\ k # 1
        BY <2>2
      <3> HIDE DEF k
      <3> QED BY <3>1 DEF QueuesOK, JobOK
    <2>5. \A i \in 1 .. Len(rest.events) : FALSE
      <3>1. Len(rest.events) = 0
        BY <2>1
      <3> QED BY <3>1
    <2> QED BY <2>1, <2>3, <2>4, <2>5
  <1> QED BY <1>2, <1>3 DEF Takes

\* An engine step, and the effects it leaves; a failed step ends the command.
LEMMA SteppedOK ==
    ASSUME NEW D, NEW d, NEW v, Context(D, d.stored, v), NEW n, NodeOK(D, d, v, n),
           n.mode \in {"running", "recovering"}, n.effects = <<>>,
           NEW event, NEW rest, Takes(n, event, rest),
           NEW s, s = StepEngine(n.eng, event, n.blocks),
           NEW g, g = [rest EXCEPT !.eng = s.e, !.effects = s.fx],
           NEW f, f = IF s.ok THEN g ELSE Abort(g)
    PROVE  NodeOK(D, d, v, f)
  <1>1. ProcessOK(D, d, v, n) /\ QueuesOK(D, d.stored, v, n) /\ n \in Nodes
        /\ EngineAt(D, d, v, n.eng) /\ EngineOK(D, d.stored, v, n.eng)
    BY UpOK DEF ProcessOK
  <1>2. /\ EventOK(D, d.stored, v, n.eng, event)
        /\ event.type = "start" => n.eng.height <= MaxHeight
        /\ rest \in Nodes /\ rest.mode = n.mode /\ rest.target = n.target
        /\ \A i \in 1 .. Len(rest.jobs) :
              /\ rest.jobs[i].type \in {"message", "timeout"}
              /\ EventOK(D, d.stored, v, n.eng, rest.jobs[i])
        /\ \A i \in 1 .. Len(rest.events) :
              /\ rest.events[i].type \in {"ready", "persisted"}
              /\ event.type \notin {"start", "timeout"}
              /\ EventOK(D, d.stored, v, n.eng, rest.events[i])
    BY <1>1, TakenOK
  <1>3. StepEnds(D, d.stored, v, n.eng, event, s)
    BY <1>1, <1>2, StepEngineOK
  <1>4. /\ EngineOK(D, d.stored, v, s.e) /\ EffectsOK(D, d.stored, v, s.e, s.fx)
        /\ s.e \in Engines /\ s.fx \in Seq(Effects) /\ s.e.height = n.eng.height
        /\ s.e.id = v
    BY <1>3 DEF StepEnds, RunOK, EngineOK, EffectsOK
  <1>5. /\ g \in Nodes /\ g.mode = n.mode /\ g.target = n.target /\ g.eng = s.e
        /\ g.effects = s.fx /\ g.jobs = rest.jobs /\ g.events = rest.events
    BY <1>2, <1>4 DEF Nodes
  <1>6. EngineAt(D, d, v, s.e)
    BY <1>1, <1>2, <1>3, <1>4 DEF EngineAt, StepEnds
  <1>7. CASE s.ok = TRUE
    <2>1. f = g
      BY <1>7
    <2>2. n.target = 0
      BY <1>1 DEF QueuesOK, Quiet, Takes
    <2>3. ASSUME NEW i \in 1 .. Len(g.jobs) PROVE JobOK(D, d.stored, v, g, i)
      BY <1>2, <1>4, <1>5, <2>3, EventStands DEF JobOK
    <2>4. ASSUME NEW i \in 1 .. Len(g.events) PROVE QueuedOK(D, d.stored, v, g, i)
      <3>1. s.e.round = n.eng.round
        BY <1>2, <1>3, <1>5 DEF StepEnds
      <3> QED BY <1>2, <1>4, <1>5, <3>1, EventStands DEF QueuedOK
    <2>5. s.e.started
      BY <1>3, <1>7 DEF StepEnds
    <2>6. QueuesOK(D, d.stored, v, g)
      BY <1>5, <2>2, <2>3, <2>4, <2>5 DEF QueuesOK
    <2> QED BY <1>4, <1>5, <1>6, <2>1, <2>6 DEF NodeOK, ProcessOK
  <1>8. CASE s.ok # TRUE
    <2>1. s.ok \in BOOLEAN
      BY <1>3 DEF StepEnds, RunOK
    <2>2. f = Abort(g)
      BY <1>8, <2>1
    <2> QED BY <1>5, <1>6, <2>2, AbortOK
  <1> QED BY <1>7, <1>8

\* RunEvent keeps the invariant.
LEMMA RunEventStep ==
    ASSUME IInv, NEW v \in Honest, RunEvent(v)
    PROVE  IInv'
  <1> DEFINE n == node[v]
             event == IF n.events # <<>> THEN Head(n.events) ELSE Head(n.jobs)
             rest == IF n.events # <<>> THEN [n EXCEPT !.events = Tail(@)]
                                        ELSE [n EXCEPT !.jobs = Tail(@)]
             s == StepEngine(n.eng, event, n.blocks)
             g == [rest EXCEPT !.eng = s.e, !.effects = s.fx]
             f == IF s.ok THEN g ELSE Abort(g)
  <1>1. /\ n.mode \in {"running", "recovering"} /\ n.effects = <<>>
        /\ n.events # <<>> \/ n.jobs # <<>>
        /\ node' = [node EXCEPT ![v] = f]
        /\ disk' = disk /\ net' = net /\ crashes' = crashes
    BY DEF RunEvent
  <1>2. Takes(n, event, rest)
    BY <1>1 DEF Takes
  <1>3. NodeOK(DurableBy, disk[v], v, n) /\ Context(DurableBy, disk[v].stored, v)
    BY Own
  <1> HIDE DEF n, event, rest, s, g, f
  <1>4. s = StepEngine(n.eng, event, n.blocks) /\ g = [rest EXCEPT !.eng = s.e, !.effects = s.fx]
        /\ f = IF s.ok THEN g ELSE Abort(g)
    BY DEF s, g, f
  <1>5. NodeOK(DurableBy, disk[v], v, f)
    BY <1>1, <1>2, <1>3, <1>4, SteppedOK
  <1> QED BY <1>1, <1>5, Own, StepInMemory

\* Resumed keeps the invariant.
LEMMA ResumedStep ==
    ASSUME IInv, NEW v \in Honest, Resumed(v)
    PROVE  IInv'
  <1> DEFINE n == node[v]
             f == [n EXCEPT !.mode = "running"]
  <1>1. /\ n.mode = "recovering" /\ Quiet(n) /\ node' = [node EXCEPT ![v] = f]
        /\ disk' = disk /\ net' = net /\ crashes' = crashes
    BY DEF Resumed, Idle, Quiet
  <1>2. NodeOK(DurableBy, disk[v], v, n) /\ n \in Nodes
    BY Own
  <1> HIDE DEF n
  <1>3. /\ f \in Nodes /\ f.eng = n.eng /\ f.effects = n.effects /\ f.mode = "running"
        /\ f.jobs = n.jobs /\ f.events = n.events
    BY <1>2 DEF Nodes, Modes
  <1> HIDE DEF f
  <1>4. QueuesOK(DurableBy, disk[v].stored, v, f)
    BY <1>1, <1>3, QuietQueues DEF Quiet
  <1>5. NodeOK(DurableBy, disk[v], v, f)
    BY <1>1, <1>2, <1>3, <1>4 DEF NodeOK, ProcessOK
  <1> QED BY <1>1, <1>5, Own, StepInMemory

-------------------------------------------------------------------------------
(* Effects *)

\* What is known when the head of the effects is performed.
LEMMA Performing ==
    ASSUME IInv, NEW v \in Honest, NEW type, Performs(v, type)
    PROVE  /\ node[v].mode \in {"running", "recovering"} /\ node[v].effects # <<>>
           /\ Effect(v) \in Effects /\ Effect(v).type = type
           /\ EffectOK(DurableBy, disk[v].stored, v, node[v].eng, Effect(v))
           /\ EffectsOK(DurableBy, disk[v].stored, v, node[v].eng, Tail(node[v].effects))
           /\ Tail(node[v].effects) \in Seq(Effects)
           /\ EngineAt(DurableBy, disk[v], v, node[v].eng)
           /\ EngineOK(DurableBy, disk[v].stored, v, node[v].eng)
           /\ node[v].eng \in Engines /\ node[v].eng.height <= MaxHeight
           /\ node[v].target = 0
           /\ \A i \in 1 .. Len(node[v].events) :
                 QueuedOK(DurableBy, disk[v].stored, v, node[v], i)
  <1>1. node[v].mode \in {"running", "recovering"} /\ node[v].effects # <<>>
        /\ Effect(v).type = type
    BY DEF Performs
  <1>2. NodeOK(DurableBy, disk[v], v, node[v])
    BY Own
  <1>3. /\ ProcessOK(DurableBy, disk[v], v, node[v])
        /\ QueuesOK(DurableBy, disk[v].stored, v, node[v])
        /\ EngineOK(DurableBy, disk[v].stored, v, node[v].eng)
        /\ EffectsOK(DurableBy, disk[v].stored, v, node[v].eng, node[v].effects)
        /\ node[v].eng \in Engines
    BY <1>1, <1>2, UpOK
  <1>4. node[v].eng.started
    BY <1>1, <1>3 DEF QueuesOK
  <1>5. /\ Effect(v) \in Effects
        /\ EffectOK(DurableBy, disk[v].stored, v, node[v].eng, Effect(v))
        /\ EffectsOK(DurableBy, disk[v].stored, v, node[v].eng, Tail(node[v].effects))
        /\ Tail(node[v].effects) \in Seq(Effects)
    BY <1>1, <1>3, HeadEffect DEF Effect
  <1>6. node[v].target = 0
    BY <1>1, <1>3 DEF QueuesOK, Quiet
  <1> QED BY <1>1, <1>3, <1>4, <1>5, <1>6 DEF ProcessOK, EngineAt, QueuesOK

\* The node drops the command.
LEMMA AbortStep ==
    ASSUME IInv, NEW v \in Honest, NEW type, Performs(v, type),
           node' = [node EXCEPT ![v] = Abort(node[v])], disk' = disk, net' = net,
           crashes' = crashes
    PROVE  IInv'
  <1> DEFINE f == Abort(node[v])
  <1>1. node[v] \in Nodes /\ EngineAt(DurableBy, disk[v], v, node[v].eng) /\ node[v].mode # "down"
    BY Own, Performing
  <1>2. NodeOK(DurableBy, disk[v], v, f)
    BY <1>1, AbortOK
  <1> HIDE DEF f
  <1>3. node' = [node EXCEPT ![v] = f]
    BY DEF f
  <1> QED BY <1>2, <1>3, Own, StepInMemory

\* Performing the head effect without touching the disk.
LEMMA DoneStep ==
    ASSUME IInv, NEW v \in Honest, NEW type, Performs(v, type), disk' = disk,
           crashes' = crashes, NetOK(DurableBy, net'),
           NEW f \in Nodes, node' = [node EXCEPT ![v] = f],
           f.mode = node[v].mode, f.eng = node[v].eng, f.target = node[v].target,
           f.jobs = node[v].jobs, f.effects = Tail(node[v].effects),
           \A i \in 1 .. Len(f.events) : QueuedOK(DurableBy, disk[v].stored, v, f, i)
    PROVE  IInv'
  <1> DEFINE n == node[v]
  <1>1. /\ n.mode \in {"running", "recovering"} /\ n.effects # <<>>
        /\ EngineOK(DurableBy, disk[v].stored, v, n.eng)
        /\ EffectsOK(DurableBy, disk[v].stored, v, n.eng, Tail(n.effects))
    BY Performing
  <1>2. NodeOK(DurableBy, disk[v], v, n)
    BY Own
  <1>3. Grows(DurableBy, DurableBy)
    BY DEF Grows
  <1> HIDE DEF n
  <1>4. NodeOK(DurableBy, disk[v], v, f)
    BY <1>1, <1>2, <1>3, PerformedOK DEF n
  <1> QED BY <1>4, Own, StepInMemory

\* BuildProposal keeps the invariant: what is proposed again fits the round.
LEMMA BuildProposalStep ==
    ASSUME IInv, NEW v \in Honest, NEW stamp \in Stamps \ BadStamps, BuildProposal(v, stamp)
    PROVE  IInv'
  <1> DEFINE n == node[v]
             e == n.eng
             fx == Effect(v)
             reuse == IF fx.validBlock # None THEN fx.validBlock ELSE e.lockedBlock
             b == IF reuse # None /\ reuse \in n.blocks THEN reuse
                  ELSE [round |-> fx.round, stamp |-> stamp]
             ready == [type |-> "ready", height |-> fx.height, round |-> fx.round, block |-> b]
             f == [Done(v) EXCEPT !.blocks = @ \cup {b}, !.events = Append(@, ready)]
  <1>1. /\ Performs(v, "request") /\ node' = [node EXCEPT ![v] = f]
        /\ disk' = disk /\ net' = net /\ crashes' = crashes
    BY DEF BuildProposal
  <1>2. /\ fx \in Effects /\ fx.type = "request"
        /\ EffectOK(DurableBy, disk[v].stored, v, e, fx) /\ e \in Engines
        /\ EngineOK(DurableBy, disk[v].stored, v, e)
        /\ \A i \in 1 .. Len(n.events) : QueuedOK(DurableBy, disk[v].stored, v, n, i)
        /\ Tail(n.effects) \in Seq(Effects)
    BY <1>1, Performing
  <1>3. /\ fx.height = e.height /\ fx.round = e.round /\ fx.height \in Nat /\ fx.round \in Rounds
        /\ fx.validBlock \in Blocks \cup {None}
        /\ fx.validBlock # None => Fits(fx.validBlock, fx.round)
    BY <1>2, EffectFields DEF EffectOK
  <1>4. e.lockedBlock # None => e.lockedBlock \in Blocks /\ Fits(e.lockedBlock, fx.round)
    <2> SUFFICES ASSUME e.lockedBlock # None
                 PROVE  e.lockedBlock \in Blocks /\ Fits(e.lockedBlock, fx.round)
      OBVIOUS
    <2>1. Fits(e.lockedBlock, e.lockedRound) /\ e.lockedRound <= e.round
      BY <1>2 DEF EngineOK, LockOK
    <2>2. e.lockedBlock \in Blocks /\ e.lockedRound \in Int /\ e.round \in Int
      BY <1>2, Basics DEF Engines
    <2>3. e.lockedBlock.round \in Int
      BY <2>2, Basics DEF Blocks
    <2> QED BY <1>3, <2>1, <2>2, <2>3 DEF Fits
  <1>5. b \in Blocks /\ Fits(b, fx.round)
    <2>1. CASE reuse # None /\ reuse \in n.blocks
      BY <1>3, <1>4, <2>1
    <2>2. CASE ~(reuse # None /\ reuse \in n.blocks)
      <3>1. b = [round |-> fx.round, stamp |-> stamp]
        BY <2>2
      <3>2. b \in Blocks /\ b.round = fx.round /\ b.stamp \notin BadStamps
        BY <1>3, <3>1 DEF Blocks
      <3> HIDE DEF b
      <3> QED BY <1>3, <3>2, Basics DEF Fits, Executable
    <2> QED BY <2>1, <2>2
  <1> HIDE DEF b, reuse
  <1>6. /\ ready \in Events /\ ready.type = "ready"
        /\ EventOK(DurableBy, disk[v].stored, v, e, ready)
    <2>1. /\ ready \in Events /\ ready.type = "ready" /\ ready.height = e.height
          /\ ready.round = e.round /\ ready.block = b
      BY <1>3, <1>5 DEF Events
    <2>2. ready.height <= e.height
      BY <1>3, <2>1
    <2> HIDE DEF ready
    <2> QED BY <1>3, <1>5, <2>1, <2>2 DEF EventOK
  <1> HIDE DEF ready
  <1>7. n \in Nodes
    BY Own
  <1>8. /\ f.mode = n.mode /\ f.eng = n.eng /\ f.target = n.target /\ f.jobs = n.jobs
        /\ f.effects = Tail(n.effects) /\ f.events = Append(n.events, ready)
    BY <1>7 DEF Done, Nodes
  <1>9. /\ f.events \in Seq(Events)
        /\ \A i \in 1 .. Len(f.events) : QueuedOK(DurableBy, disk[v].stored, v, f, i)
    <2> HIDE DEF f, n
    <2> QED BY <1>2, <1>6, <1>7, <1>8, AppendEvent
  <1>10. f \in Nodes
    BY <1>2, <1>5, <1>7, <1>8, <1>9 DEF Done, Nodes
  <1> HIDE DEF f
  <1> QED BY <1>1, <1>8, <1>9, <1>10, Own, DoneStep

\* A disk with one more stored proposal.
Storing(d, m) == [d EXCEPT !.stored = @ \cup {m}]

\* Storing one more acceptable proposal.
LEMMA StoreMoreOK ==
    ASSUME NEW D, NEW v \in Honest, NEW d, DiskOK(D, v, d),
           NEW m \in ProposalMsgs, Fits(m.value, m.round),
           NEW c, c = Storing(d, m)
    PROVE  /\ DiskOK(D, v, c) /\ RowMsgs(c) = RowMsgs(d) /\ c.stored = d.stored \cup {m}
           /\ Height(c) = Height(d) /\ Later(D, D, d.stored, c.stored, v)
  <1>1. d \in Disks
    BY DEF DiskOK
  <1>2. /\ c \in Disks /\ c.stored = d.stored \cup {m} /\ c.chain = d.chain
        /\ c.decisions = d.decisions /\ c.safety = d.safety
    BY <1>1 DEF Disks, Storing
  <1>3. Height(c) = Height(d) /\ RowMsgs(c) = RowMsgs(d)
    BY <1>2 DEF Height, RowMsgs
  <1>4. Later(D, D, d.stored, c.stored, v)
    BY <1>2, SameDurable
  <1>5. StoreOK(D, c.stored, v)
    BY <1>2 DEF DiskOK, StoreOK
  <1>6. ChainOK(D, c)
    BY <1>2 DEF DiskOK, ChainOK
  <1>7. RowsOK(D, v, c)
    BY <1>2, <1>3, <1>4, LockLater DEF DiskOK, RowsOK
  <1> QED BY <1>2, <1>3, <1>4, <1>5, <1>6, <1>7 DEF DiskOK

\* PersistProposal keeps the invariant.
LEMMA PersistProposalStep ==
    ASSUME IInv, NEW v \in Honest, PersistProposal(v)
    PROVE  IInv'
  <1> DEFINE m == Effect(v).msg
             d == disk[v]
             c == Storing(d, m)
             n == node[v]
  <1>1. /\ Performs(v, "persist") /\ m.kind = "proposal"
        /\ \/ node' = [node EXCEPT ![v] = Abort(node[v])] /\ disk' = disk
           \/ disk' = [disk EXCEPT ![v] = c] /\ node' = node
        /\ net' = net /\ crashes' = crashes
    BY Own DEF PersistProposal, Storing
  <1>2. CASE node' = [node EXCEPT ![v] = Abort(node[v])] /\ disk' = disk
    BY <1>1, <1>2, AbortStep
  <1>3. CASE disk' = [disk EXCEPT ![v] = c] /\ node' = node
    <2>1. m \in ProposalMsgs /\ Fits(m.value, m.round)
      <3>1. m \in Msgs /\ DecisionOK(DurableBy, v, n.eng, m)
        BY <1>1, Performing, EffectFields DEF EffectOK
      <3>2. m \in ProposalMsgs
        BY <1>1, <3>1, MsgFields
      <3>3. m.value # Nil
        BY <3>2, Basics DEF ProposalMsgs
      <3> QED BY <3>1, <3>2, <3>3 DEF DecisionOK
    <2>2. DiskOK(DurableBy, v, d) /\ NodeOK(DurableBy, d, v, n) /\ node' = [node EXCEPT ![v] = n]
      BY <1>3, Own
    <2> HIDE DEF m, d, n
    <2>3. /\ DiskOK(DurableBy, v, c) /\ RowMsgs(c) = RowMsgs(d)
          /\ Height(c) = Height(d) /\ Later(DurableBy, DurableBy, d.stored, c.stored, v)
      BY <2>1, <2>2, StoreMoreOK
    <2> HIDE DEF c
    <2>4. NodeOK(DurableBy, c, v, n)
      BY <2>2, <2>3, NodeLater
    <2>5. RowMsgs(c) = RowMsgs(disk[v])
      BY <2>3 DEF d
    <2> QED BY <1>1, <1>3, <2>2, <2>3, <2>4, <2>5, Own, StepOne
  <1> QED BY <1>1, <1>2, <1>3

\* BroadcastMessage keeps the invariant.
LEMMA BroadcastStep ==
    ASSUME IInv, NEW v \in Honest, BroadcastMessage(v)
    PROVE  IInv'
  <1> DEFINE m == Effect(v).msg
             n == node[v]
             f == Done(v)
  <1>1. /\ Performs(v, "broadcast")
        /\ \/ node' = [node EXCEPT ![v] = Abort(node[v])] /\ net' = net
           \/ node' = [node EXCEPT ![v] = f] /\ net' = net \cup {m}
        /\ disk' = disk /\ crashes' = crashes
    BY DEF BroadcastMessage
  <1>2. CASE node' = [node EXCEPT ![v] = Abort(node[v])] /\ net' = net
    BY <1>1, <1>2, AbortStep
  <1>3. CASE node' = [node EXCEPT ![v] = f] /\ net' = net \cup {m}
    <2>1. /\ m \in DurableBy[v] /\ m \in Msgs /\ Tail(n.effects) \in Seq(Effects)
          /\ \A i \in 1 .. Len(n.events) : QueuedOK(DurableBy, disk[v].stored, v, n, i)
      BY <1>1, Performing, EffectFields DEF EffectOK
    <2>2. n \in Nodes /\ NetOK(DurableBy, net) /\ Context(DurableBy, disk[v].stored, v)
      BY Own
    <2>3. m.validator = v /\ m.kind # "certificate"
      BY <2>1, <2>2, MsgFields DEF Context, DurableOK
    <2>4. NetOK(DurableBy, net')
      BY <1>3, <2>1, <2>2, <2>3 DEF NetOK
    <2>5. /\ f \in Nodes /\ f.mode = n.mode /\ f.eng = n.eng /\ f.target = n.target
          /\ f.jobs = n.jobs /\ f.effects = Tail(n.effects) /\ f.events = n.events
      BY <2>1, <2>2 DEF Done, Nodes
    <2> HIDE DEF f
    <2>6. \A i \in 1 .. Len(f.events) : QueuedOK(DurableBy, disk[v].stored, v, f, i)
      BY <2>1, <2>5 DEF QueuedOK
    <2> QED BY <1>1, <1>3, <2>4, <2>5, <2>6, DoneStep
  <1> QED BY <1>1, <1>2, <1>3

\* The newest timers are timers.
LEMMA NewestOK ==
    ASSUME NEW T, NEW q \in Seq(T)
    PROVE  Newest(q) \in Seq(T)
  <1>1. CASE Len(q) <= MaxTimers
    BY <1>1 DEF Newest
  <1>2. CASE ~(Len(q) <= MaxTimers)
    <2> DEFINE a == Len(q) - MaxTimers + 1
    <2>1. MaxTimers \in Nat \ {0} /\ Len(q) \in Nat
      BY ConsensusAssumption
    <2>2. a \in 1 .. Len(q) + 1 /\ Len(q) \in 0 .. Len(q)
      BY <1>2, <2>1
    <2>3. Newest(q) = SubSeq(q, a, Len(q))
      BY <1>2 DEF Newest
    <2> HIDE DEF a
    <2> QED BY <2>1, <2>2, <2>3, SubSeqProperties
  <1> QED BY <1>1, <1>2

\* ScheduleTimeout keeps the invariant.
LEMMA ScheduleStep ==
    ASSUME IInv, NEW v \in Honest, ScheduleTimeout(v)
    PROVE  IInv'
  <1> DEFINE n == node[v]
             o == Effect(v).timeout
             f == [Done(v) EXCEPT !.timers = Newest(Append(@, o))]
  <1>1. /\ Performs(v, "schedule") /\ node' = [node EXCEPT ![v] = f]
        /\ disk' = disk /\ net' = net /\ crashes' = crashes
    BY DEF ScheduleTimeout
  <1>2. /\ o \in Timeouts /\ Tail(n.effects) \in Seq(Effects)
        /\ \A i \in 1 .. Len(n.events) : QueuedOK(DurableBy, disk[v].stored, v, n, i)
    BY <1>1, Performing, EffectFields
  <1>3. n \in Nodes
    BY Own
  <1>4. Newest(Append(n.timers, o)) \in Seq(Timeouts)
    <2>1. Append(n.timers, o) \in Seq(Timeouts)
      BY <1>2, <1>3, AddOne DEF Nodes
    <2> QED BY <2>1, NewestOK
  <1>5. /\ f \in Nodes /\ f.mode = n.mode /\ f.eng = n.eng /\ f.target = n.target
        /\ f.jobs = n.jobs /\ f.effects = Tail(n.effects) /\ f.events = n.events
    <2> HIDE DEF o
    <2> QED BY <1>2, <1>3, <1>4 DEF Done, Nodes
  <1> HIDE DEF f
  <1>6. \A i \in 1 .. Len(f.events) : QueuedOK(DurableBy, disk[v].stored, v, f, i)
    BY <1>2, <1>5 DEF QueuedOK
  <1> QED BY <1>1, <1>5, <1>6, Own, DoneStep

\* RecordEvidence keeps the invariant: the accused are faulty.
LEMMA EvidenceStep ==
    ASSUME IInv, NEW v \in Honest, RecordEvidence(v)
    PROVE  IInv'
  <1> DEFINE n == node[v]
             d == disk[v]
             c == [d EXCEPT !.accused = @ \cup {Effect(v).validator}]
             f == Done(v)
  <1>1. /\ Performs(v, "evidence") /\ node' = [node EXCEPT ![v] = f]
        /\ disk' = [disk EXCEPT ![v] = c] /\ net' = net /\ crashes' = crashes
    BY Own DEF RecordEvidence
  <1>2. /\ Effect(v).validator \in Faulty /\ Tail(n.effects) \in Seq(Effects)
        /\ EngineOK(DurableBy, d.stored, v, n.eng)
        /\ EffectsOK(DurableBy, d.stored, v, n.eng, Tail(n.effects))
        /\ n.mode \in {"running", "recovering"} /\ n.effects # <<>>
        /\ \A i \in 1 .. Len(n.events) : QueuedOK(DurableBy, d.stored, v, n, i)
    BY <1>1, Performing DEF EffectOK
  <1>3. /\ n \in Nodes /\ d \in Disks /\ DiskOK(DurableBy, v, d) /\ NodeOK(DurableBy, d, v, n)
        /\ NetOK(DurableBy, net) /\ crashes \in 0 .. MaxCrashes
    BY Own
  <1> HIDE DEF n
  <1>4. /\ f \in Nodes /\ f.mode = n.mode /\ f.eng = n.eng /\ f.target = n.target
        /\ f.jobs = n.jobs /\ f.effects = Tail(n.effects) /\ f.events = n.events
    BY <1>2, <1>3 DEF Done, Nodes, n
  <1>5. /\ c \in Disks /\ c.stored = d.stored /\ c.chain = d.chain
        /\ c.decisions = d.decisions /\ c.safety = d.safety
    BY <1>2, <1>3 DEF Disks
  <1> HIDE DEF f, c, d
  <1>6. DiskOK(DurableBy, v, c)
    BY <1>3, <1>5 DEF DiskOK, StoreOK, ChainOK, RowsOK, Height
  <1>7. Height(c) = Height(d) /\ RowMsgs(c) = RowMsgs(d)
    BY <1>5 DEF Height, RowMsgs
  <1>8. NodeOK(DurableBy, c, v, f)
    <2>1. \A i \in 1 .. Len(f.events) : QueuedOK(DurableBy, c.stored, v, f, i)
      BY <1>2, <1>4, <1>5 DEF QueuedOK
    <2>2. Grows(DurableBy, DurableBy) /\ d.stored \subseteq c.stored
      BY <1>5 DEF Grows
    <2> QED BY <1>2, <1>3, <1>4, <1>5, <1>7, <2>1, <2>2, PerformedOK
  <1>9. RowMsgs(c) = RowMsgs(disk[v])
    BY <1>7 DEF d
  <1> QED BY <1>1, <1>3, <1>6, <1>8, <1>9, StepOne

-------------------------------------------------------------------------------
(* A decision becomes durable *)

\* E is D after v has signed m.
Signs(D, E, v, m) ==
    /\ v \in Honest /\ D \in [Honest -> SUBSET Msgs] /\ E \in [Honest -> SUBSET Msgs]
    /\ E[v] = D[v] \cup {m} /\ \A w \in Honest \ {v} : E[w] = D[w]

\* Everyone's durable messages grow.
LEMMA SignsGrows ==
    ASSUME NEW D, NEW E, NEW v, NEW m, Signs(D, E, v, m)
    PROVE  Grows(D, E) /\ \A w \in Honest \ {v} : \A S : Later(D, E, S, S, w)
  BY DEF Signs, Grows, Later

\* A decision the engine may sign keeps the slots unique.
LEMMA SignDurable ==
    ASSUME NEW D, NEW E, NEW v, NEW m \in Msgs, Signs(D, E, v, m), DurableOK(D),
           NEW e \in Engines, DecisionOK(D, v, e, m)
    PROVE  DurableOK(E)
  <1>1. Grows(D, E) /\ E \in [Honest -> SUBSET Msgs] /\ v \in Honest
    BY SignsGrows DEF Signs
  <1>2. ASSUME NEW w \in Honest, NEW x \in E[w]
        PROVE  /\ x.validator = w /\ x.round \in Rounds
               /\ x.value # Nil => Fits(x.value, x.round)
               /\ x.kind = "proposal" => ProofOK(E, x) /\ Proposer(x.height, x.round) = w
    <2>1. CASE x \in D[w]
      BY <1>1, <2>1, ProofGrows DEF DurableOK
    <2>2. CASE w = v /\ x = m
      BY <1>1, <2>2, ProofGrows DEF DecisionOK, Engines
    <2> QED BY <2>1, <2>2 DEF Signs
  <1>3. ASSUME NEW w \in Honest, NEW x \in E[w], NEW y \in E[w], SameSlot(x, y)
        PROVE  x = y
    <2>1. SameSlot(y, x)
      BY <1>3 DEF SameSlot
    <2>2. \A d \in D[v] : ~SameSlot(d, m)
      BY DEF DecisionOK
    <2> QED BY <1>3, <2>1, <2>2 DEF Signs, DurableOK
  <1> QED BY <1>1, <1>2, <1>3 DEF DurableOK

\* A lock that covers the new decision.
LEMMA SignLock ==
    ASSUME NEW D, NEW E, NEW v, NEW m, Signs(D, E, v, m), NEW S,
           NEW s, LockOK(D, S, v, s),
           m.kind = "precommit" /\ m.height = s.height /\ m.value # Nil =>
               m.round = s.lockedRound /\ m.value = s.lockedBlock
    PROVE  LockOK(E, S, v, s)
  <1>1. PolcIn(D, s.height, s.lockedRound, s.lockedBlock) =>
           PolcIn(E, s.height, s.lockedRound, s.lockedBlock)
    BY SignsGrows, PolcGrows
  <1>2. Backed(D, "prevote", s.height, s.validRound, s.validBlock, s.validProof) =>
           Backed(E, "prevote", s.height, s.validRound, s.validBlock, s.validProof)
    BY SignsGrows, BackedGrows
  <1>3. E[v] = D[v] \cup {m}
    BY DEF Signs
  <1> QED BY <1>1, <1>2, <1>3 DEF LockOK

\* The engine had the new decision in its books.
LEMMA SignEngine ==
    ASSUME NEW D, NEW E, NEW v, NEW m, Signs(D, E, v, m), NEW S,
           NEW e, EngineOK(D, S, v, e), DecisionOK(D, v, e, m)
    PROVE  EngineOK(E, S, v, e)
  <1>1. LockOK(E, S, v, e)
    BY SignLock DEF EngineOK, DecisionOK
  <1>2. CachesOK(E, S, v, e)
    BY SignsGrows, ProofGrows DEF EngineOK, CachesOK
  <1>3. SlotsOK(E, v, e)
    BY DEF EngineOK, SlotsOK, Signs, DecisionOK
  <1> QED BY <1>1, <1>2, <1>3 DEF EngineOK

\* The effects that follow a prevote: its precommit is still free to sign.
LEMMA SignEffects ==
    ASSUME NEW D, NEW E, NEW v, NEW m, Signs(D, E, v, m), NEW S,
           NEW e, NEW fx, EffectsOK(D, S, v, e, fx),
           \A i \in 1 .. Len(fx) : fx[i].type = "persist" =>
               m.kind = "prevote" /\ fx[i].msg.kind = "precommit"
    PROVE  EffectsOK(E, S, v, e, fx)
  <1>1. Grows(D, E) /\ E[v] = D[v] \cup {m}
    BY SignsGrows DEF Signs
  <1>2. ASSUME NEW x, EffectOK(D, S, v, e, x),
               x.type = "persist" => m.kind = "prevote" /\ x.msg.kind = "precommit"
        PROVE  EffectOK(E, S, v, e, x)
    <2>1. ASSUME x.type = "persist" PROVE DecisionOK(E, v, e, x.msg)
      <3>1. DecisionOK(D, v, e, x.msg) /\ m.kind = "prevote" /\ x.msg.kind = "precommit"
        BY <1>2, <2>1 DEF EffectOK
      <3>2. PolcIn(D, e.height, e.round, x.msg.value) => PolcIn(E, e.height, e.round, x.msg.value)
        BY <1>1, PolcGrows
      <3>3. ~SameSlot(m, x.msg)
        BY <3>1 DEF SameSlot
      <3> QED BY <1>1, <3>1, <3>2, <3>3 DEF DecisionOK
    <2>2. ASSUME x.type = "persist" PROVE SafetyOK(E, S, v, e, x.msg, x.safety)
      <3>1. SafetyOK(D, S, v, e, x.msg, x.safety) /\ m.kind # "precommit"
        BY <1>2, <2>2 DEF EffectOK
      <3>2. LockOK(E, S, v, x.safety)
        BY <3>1, SignLock DEF SafetyOK
      <3> QED BY <3>1, <3>2 DEF SafetyOK
    <2>3. x.type = "finalize" => CertOK(E, x.certificate)
      BY <1>1, <1>2, CertGrows DEF EffectOK
    <2> QED BY <1>1, <1>2, <2>1, <2>2, <2>3 DEF EffectOK
  <1> QED BY <1>2 DEF EffectsOK

\* A disk with one more row, stored with the safety state s.
WithRow(d, row, s) == [d EXCEPT !.decisions = Append(@, row), !.safety = s]

\* The rows with one more at their end.
LEMMA AppendRow ==
    ASSUME NEW d \in Disks, NEW row \in DecisionRows, NEW s \in SafetyStates, NEW c,
           c = WithRow(d, row, s)
    PROVE  /\ c \in Disks /\ RowMsgs(c) = RowMsgs(d) \cup {row.msg}
           /\ c.stored = d.stored /\ c.chain = d.chain /\ c.safety = s
           /\ c.decisions # <<>> /\ c.decisions[Len(c.decisions)] = row
  <1>1. d.decisions \in Seq(DecisionRows)
    BY DEF Disks
  <1>2. /\ Append(d.decisions, row) \in Seq(DecisionRows)
        /\ Len(Append(d.decisions, row)) = Len(d.decisions) + 1 /\ Len(d.decisions) \in Nat
        /\ \A i \in 1 .. Len(d.decisions) : Append(d.decisions, row)[i] = d.decisions[i]
        /\ Append(d.decisions, row)[Len(d.decisions) + 1] = row
    BY <1>1, AddOne
  <1>3. /\ c.decisions = Append(d.decisions, row)
        /\ c.stored = d.stored /\ c.chain = d.chain /\ c.safety = s
    BY DEF Disks, WithRow
  <1>4. c \in Disks
    BY <1>2 DEF Disks, WithRow
  <1>5. DOMAIN d.decisions = 1 .. Len(d.decisions) /\ DOMAIN c.decisions = 1 .. Len(c.decisions)
    BY <1>1, <1>2, <1>3
  <1>6. RowMsgs(c) = RowMsgs(d) \cup {row.msg}
    <2>1. ASSUME NEW x \in RowMsgs(c) PROVE x \in RowMsgs(d) \cup {row.msg}
      <3>1. PICK i \in 1 .. Len(c.decisions) : x = c.decisions[i].msg
        BY <1>5 DEF RowMsgs
      <3>2. CASE i \in 1 .. Len(d.decisions)
        BY <1>2, <1>3, <1>5, <3>1, <3>2 DEF RowMsgs
      <3>3. CASE i = Len(d.decisions) + 1
        BY <1>2, <1>3, <3>1, <3>3
      <3> QED BY <1>2, <1>3, <3>2, <3>3
    <2>2. ASSUME NEW x \in RowMsgs(d) PROVE x \in RowMsgs(c)
      <3>1. PICK i \in 1 .. Len(d.decisions) : x = d.decisions[i].msg
        BY <1>5 DEF RowMsgs
      <3>2. i \in 1 .. Len(c.decisions) /\ x = c.decisions[i].msg
        BY <1>2, <1>3, <3>1
      <3> QED BY <1>5, <3>2 DEF RowMsgs
    <2>3. row.msg \in RowMsgs(c)
      <3>1. Len(d.decisions) + 1 \in DOMAIN c.decisions
        BY <1>2, <1>3, <1>5
      <3> QED BY <1>2, <1>3, <3>1 DEF RowMsgs
    <2> QED BY <2>1, <2>2, <2>3
  <1>7. Len(c.decisions) = Len(d.decisions) + 1
    BY <1>2, <1>3
  <1>8. c.decisions # <<>>
    <2>1. Len(c.decisions) # 0
      BY <1>2, <1>7
    <2> QED BY <2>1
  <1>9. c.decisions[Len(c.decisions)] = row
    BY <1>2, <1>3, <1>7
  <1> QED BY <1>3, <1>4, <1>6, <1>8, <1>9

\* The disk after v has signed m.
LEMMA SignDisk ==
    ASSUME NEW D, NEW E, NEW v, NEW m \in Msgs, Signs(D, E, v, m),
           NEW d, DiskOK(D, v, d), m.kind = "proposal" => m \in d.stored,
           NEW e \in Engines, EngineAt(D, d, v, e), e.height <= MaxHeight,
           DecisionOK(D, v, e, m),
           NEW s \in SafetyStates, SafetyOK(D, d.stored, v, e, m, s),
           NEW row \in DecisionRows, row.msg = m, row.safety = s,
           NEW c, c = WithRow(d, row, s)
    PROVE  /\ DiskOK(E, v, c) /\ c.stored = d.stored /\ Height(c) = Height(d)
           /\ RowMsgs(c) = RowMsgs(d) \cup {m}
  <1>1. d \in Disks /\ StoreOK(D, d.stored, v) /\ ChainOK(D, d) /\ RowsOK(D, v, d)
    BY DEF DiskOK
  <1>2. /\ c \in Disks /\ RowMsgs(c) = RowMsgs(d) \cup {m}
        /\ c.stored = d.stored /\ c.chain = d.chain /\ c.safety = s
        /\ c.decisions # <<>> /\ c.decisions[Len(c.decisions)] = row
    BY <1>1, AppendRow
  <1>3. Height(c) = Height(d) /\ Height(d) \in Nat \ {0}
    BY <1>1, <1>2 DEF Height, Disks
  <1>4. E[v] = D[v] \cup {m} /\ Grows(D, E)
    BY SignsGrows DEF Signs
  <1>5. StoreOK(E, c.stored, v)
    BY <1>1, <1>2, <1>4 DEF StoreOK
  <1>6. ChainOK(E, c)
    BY <1>1, <1>2, <1>4, CertGrows DEF ChainOK
  <1>7. /\ m.height = e.height /\ m.round = e.round /\ e.height = Height(d)
        /\ s.height = e.height /\ s.round = e.round /\ e.round \in Nat
    BY Basics DEF DecisionOK, EngineAt, SafetyOK, Engines
  <1>8. LockOK(E, c.stored, v, s)
    <2>1. LockOK(D, d.stored, v, s) /\ (m.kind = "precommit" /\ m.value # Nil =>
             m.round = s.lockedRound /\ m.value = s.lockedBlock)
      BY <1>7 DEF SafetyOK
    <2> QED BY <1>2, <2>1, SignLock
  <1>9. ASSUME NEW x \in E[v]
        PROVE  /\ x.height \in Heights /\ x.height <= Height(d)
               /\ x.height = Height(d) => x.round <= s.round
    <2>1. CASE x \in D[v]
      <3>1. x.height \in Heights /\ x.height <= Height(d)
        BY <1>1, <2>1 DEF RowsOK
      <3>2. x.height = e.height => x.round < e.round \/ x.round = e.round
        BY <2>1 DEF EngineAt, EngineOK, SlotsOK
      <3>3. x \in Msgs
        BY <2>1 DEF Signs
      <3> QED BY <1>7, <3>1, <3>2, <3>3, MsgFields
    <2>2. CASE x = m
      BY <1>3, <1>7, <2>2 DEF Heights
    <2> QED BY <1>4, <2>1, <2>2
  <1>10. RowsOK(E, v, c)
    BY <1>2, <1>3, <1>7, <1>8, <1>9, Basics DEF RowsOK
  <1> QED BY <1>2, <1>3, <1>5, <1>6, <1>10 DEF DiskOK

\* A step of v that makes the decision m durable.
LEMMA StepPersist ==
    ASSUME IInv, NEW v \in Honest, NEW n, NEW d, NEW m \in Msgs,
           node' = [node EXCEPT ![v] = n], disk' = [disk EXCEPT ![v] = d],
           RowMsgs(d) = RowMsgs(disk[v]) \cup {m},
           net' = net, crashes' = crashes,
           NEW e \in Engines, DecisionOK(DurableBy, v, e, m),
           \A E : Signs(DurableBy, E, v, m) => DiskOK(E, v, d) /\ NodeOK(E, d, v, n)
    PROVE  IInv'
  <1> DEFINE D == DurableBy
             E == DurableBy'
  <1>1. ASSUME NEW w \in Honest
        PROVE  /\ D[w] = RowMsgs(disk[w]) /\ E[w] = RowMsgs(disk'[w])
               /\ w # v => disk'[w] = disk[w] /\ node'[w] = node[w]
    <2>1. D[w] = Durable(w) /\ E[w] = Durable(w)'
      BY DEF DurableBy
    <2>2. Durable(w) = RowMsgs(disk[w]) /\ Durable(w)' = RowMsgs(disk'[w])
      BY DurableRows DEF Durable, Rows
    <2> QED BY <2>1, <2>2 DEF IInv
  <1>2. disk'[v] = d /\ node'[v] = n
    BY DEF IInv
  <1>3. DurableOK(D) /\ D \in [Honest -> SUBSET Msgs]
    BY DEF IInv, DurableOK
  <1>4. E[v] = D[v] \cup {m} /\ \A w \in Honest \ {v} : E[w] = D[w]
    BY <1>1, <1>2
  <1>5. E \in [Honest -> SUBSET Msgs]
    <2>1. E = [w \in Honest |-> E[w]]
      BY DEF DurableBy
    <2>2. \A w \in Honest : E[w] \in SUBSET Msgs
      BY <1>3, <1>4
    <2> HIDE DEF E
    <2> QED BY <2>1, <2>2
  <1> HIDE DEF D, E
  <1>6. Signs(D, E, v, m)
    BY <1>3, <1>4, <1>5 DEF Signs
  <1>7. DurableOK(E)
    BY <1>3, <1>6, SignDurable DEF D
  <1>8. NetOK(E, net)
    BY <1>6, SignsGrows, NetGrows DEF IInv, D
  <1>9. DiskOK(E, v, d) /\ NodeOK(E, d, v, n)
    BY <1>6 DEF D
  <1>10. ASSUME NEW w \in Honest
         PROVE  DiskOK(E, w, disk'[w]) /\ NodeOK(E, disk'[w], w, node'[w])
    <2>1. CASE w = v
      BY <1>2, <1>9, <2>1
    <2>2. CASE w # v
      <3>1. Later(D, E, disk[w].stored, disk[w].stored, w)
        BY <1>6, <2>2, SignsGrows
      <3>2. DiskOK(D, w, disk[w]) /\ NodeOK(D, disk[w], w, node[w])
        BY DEF IInv, D
      <3>3. DiskOK(E, w, disk[w]) /\ NodeOK(E, disk[w], w, node[w])
        BY <3>1, <3>2, DiskLater, NodeLater
      <3> QED BY <1>1, <2>2, <3>3
    <2> QED BY <2>1, <2>2
  <1>11. node' \in [Honest -> Nodes] /\ disk' \in [Honest -> Disks] /\ crashes' \in 0 .. MaxCrashes
    BY <1>9 DEF IInv, DiskOK, NodeOK
  <1> QED BY <1>7, <1>8, <1>10, <1>11 DEF IInv, E

\* The slot of the next decision is free, so its row is new.
LEMMA SlotFree ==
    ASSUME IInv, NEW v \in Honest, Performs(v, "persist")
    PROVE  \A row \in Rows(v) : ~SameSlot(row.msg, Effect(v).msg)
  <1>1. DecisionOK(DurableBy, v, node[v].eng, Effect(v).msg)
    BY Performing DEF EffectOK
  <1>2. \A row \in Rows(v) : row.msg \in DurableBy[v]
    BY Own DEF Durable
  <1> QED BY <1>1, <1>2 DEF DecisionOK

\* The process after v has signed m.
LEMMA SignNode ==
    ASSUME NEW D, NEW E, NEW v, NEW m \in Msgs, Signs(D, E, v, m),
           NEW d, NEW c, c.stored = d.stored, Height(c) = Height(d),
           NEW n, NodeOK(D, d, v, n), n.mode \in {"running", "recovering"},
           n.effects # <<>>, Head(n.effects).type = "persist", Head(n.effects).msg = m,
           NEW x, x = [type |-> "persisted", msg |-> m],
           NEW f \in Nodes, f.mode = n.mode, f.eng = n.eng, f.target = n.target,
           f.jobs = n.jobs, f.effects = Tail(n.effects), f.events = Append(n.events, x)
    PROVE  NodeOK(E, c, v, f)
  <1>1. Grows(D, E) /\ m \in E[v] /\ v \in Honest
    BY SignsGrows DEF Signs
  <1>2. /\ n \in Nodes /\ QueuesOK(D, d.stored, v, n)
        /\ EngineOK(D, d.stored, v, n.eng) /\ EffectsOK(D, d.stored, v, n.eng, n.effects)
    BY UpOK
  <1>3. /\ EffectOK(D, d.stored, v, n.eng, Head(n.effects))
        /\ EffectsOK(D, d.stored, v, n.eng, Tail(n.effects))
        /\ \A i \in 1 .. Len(Tail(n.effects)) : Tail(n.effects)[i].type = "persist" =>
              m.kind = "prevote" /\ Tail(n.effects)[i].msg.kind = "precommit"
    <2> DEFINE fx == n.effects
    <2>1. EffectsOK(D, d.stored, v, n.eng, fx) /\ fx # <<>> /\ Head(fx).type = "persist"
      BY <1>2
    <2>2. Head(fx).msg = m
      OBVIOUS
    <2> HIDE DEF fx
    <2>3. /\ EffectOK(D, d.stored, v, n.eng, Head(fx))
          /\ EffectsOK(D, d.stored, v, n.eng, Tail(fx))
          /\ \A i \in 1 .. Len(Tail(fx)) : Tail(fx)[i].type = "persist" =>
                Head(fx).msg.kind = "prevote" /\ Tail(fx)[i].msg.kind = "precommit"
      BY <2>1, HeadEffect
    <2> QED BY <2>2, <2>3 DEF fx
  <1>4. DecisionOK(D, v, n.eng, m)
    BY <1>3 DEF EffectOK
  <1>5. EngineOK(E, d.stored, v, n.eng)
    BY <1>2, <1>4, SignEngine
  <1>6. EffectsOK(E, d.stored, v, n.eng, Tail(n.effects))
    <2> DEFINE gx == Tail(n.effects)
    <2>1. /\ EffectsOK(D, d.stored, v, n.eng, gx)
          /\ \A i \in 1 .. Len(gx) : gx[i].type = "persist" =>
                m.kind = "prevote" /\ gx[i].msg.kind = "precommit"
      BY <1>3
    <2> HIDE DEF gx
    <2>2. EffectsOK(E, d.stored, v, n.eng, gx)
      BY <2>1, SignEffects
    <2> QED BY <2>2 DEF gx
  <1>7. \A i \in 1 .. Len(n.events) : QueuedOK(E, c.stored, v, n, i)
    <2>1. QueuesOK(E, d.stored, v, n)
      BY <1>1, <1>2, QueuesGrow
    <2> QED BY <2>1 DEF QueuesOK
  <1>8. x \in Events /\ x.type \in {"ready", "persisted"} /\ EventOK(E, c.stored, v, n.eng, x)
    BY <1>1 DEF Events, EventOK
  <1>9. \A i \in 1 .. Len(f.events) : QueuedOK(E, c.stored, v, f, i)
    BY <1>2, <1>7, <1>8, AppendEvent
  <1> QED BY <1>1, <1>5, <1>6, <1>9, PerformedOK

\* PersistDecision keeps the invariant.
LEMMA PersistDecisionStep ==
    ASSUME IInv, NEW v \in Honest, PersistDecision(v)
    PROVE  IInv'
  <1> DEFINE fx == Effect(v)
             m == fx.msg
             s == fx.safety
             row == [msg |-> m, safety |-> s]
             n == node[v]
             d == disk[v]
             c == WithRow(d, row, s)
             x == [type |-> "persisted", msg |-> m]
             f == [Done(v) EXCEPT !.events = Append(@, x)]
  <1>1. Performs(v, "persist") /\ (m.kind = "proposal" => m \in d.stored)
    BY DEF PersistDecision
  <1>2. {r \in Rows(v) : SameSlot(r.msg, m)} = {}
    BY <1>1, SlotFree
  <1>3. /\ disk' = [disk EXCEPT ![v] = c] /\ node' = [node EXCEPT ![v] = f]
        /\ net' = net /\ crashes' = crashes
    BY <1>2, Own DEF PersistDecision, WithRow
  <1>4. /\ fx \in Effects /\ fx.type = "persist" /\ EffectOK(DurableBy, d.stored, v, n.eng, fx)
        /\ n.mode \in {"running", "recovering"} /\ n.effects # <<>>
        /\ EngineAt(DurableBy, d, v, n.eng) /\ n.eng \in Engines /\ n.eng.height <= MaxHeight
        /\ Tail(n.effects) \in Seq(Effects)
    BY <1>1, Performing
  <1>5. /\ m \in Msgs /\ s \in SafetyStates /\ DecisionOK(DurableBy, v, n.eng, m)
        /\ SafetyOK(DurableBy, d.stored, v, n.eng, m, s)
    BY <1>4, EffectFields DEF EffectOK
  <1>6. row \in DecisionRows /\ row.msg = m /\ row.safety = s
    BY <1>5 DEF DecisionRows
  <1>7. n \in Nodes /\ DiskOK(DurableBy, v, d) /\ NodeOK(DurableBy, d, v, n)
    BY Own
  <1>8. Head(n.effects).type = "persist" /\ Head(n.effects).msg = m
    BY <1>4 DEF Effect
  <1>9. x \in Events
    BY <1>5 DEF Events
  <1> HIDE DEF m, s, x
  <1>10. Append(n.events, x) \in Seq(Events)
    BY <1>7, <1>9, AddOne DEF Nodes
  <1>11. /\ f \in Nodes /\ f.mode = n.mode /\ f.eng = n.eng /\ f.target = n.target
         /\ f.jobs = n.jobs /\ f.effects = Tail(n.effects) /\ f.events = Append(n.events, x)
    BY <1>4, <1>7, <1>10 DEF Done, Nodes
  <1> HIDE DEF row, c, f, n, d
  <1>12. x = [type |-> "persisted", msg |-> m] /\ c = WithRow(d, row, s)
    BY DEF x, c
  <1>13. ASSUME NEW E, Signs(DurableBy, E, v, m)
         PROVE  /\ DiskOK(E, v, c) /\ NodeOK(E, c, v, f)
                /\ RowMsgs(c) = RowMsgs(d) \cup {m}
    <2>1. /\ DiskOK(E, v, c) /\ c.stored = d.stored /\ Height(c) = Height(d)
          /\ RowMsgs(c) = RowMsgs(d) \cup {m}
      BY <1>1, <1>4, <1>5, <1>6, <1>7, <1>12, <1>13, SignDisk
    <2>2. NodeOK(E, c, v, f)
      BY <1>4, <1>5, <1>7, <1>8, <1>11, <1>12, <1>13, <2>1, SignNode
    <2> QED BY <2>1, <2>2
  <1>14. RowMsgs(c) = RowMsgs(disk[v]) \cup {m}
    BY <1>5, <1>6, <1>7, <1>12, AppendRow DEF d, DiskOK
  <1> QED BY <1>3, <1>4, <1>5, <1>13, <1>14, StepPersist

-------------------------------------------------------------------------------
(* The ledger moves to the next height *)

\* An engine that has not started height h.
Unstarted(D, S, v, h, e) ==
    EngineOK(D, S, v, e) /\ e \in Engines /\ e.id = v /\ e.height = h /\ ~e.started

\* A fresh engine, at a height v has signed nothing for.
LEMMA NewEngineOK ==
    ASSUME NEW D, NEW S, NEW v \in Honest, NEW h \in Nat, D[v] \subseteq Msgs,
           \A m \in D[v] : m.height < h, NEW e, e = NewEngine(v, h)
    PROVE  Unstarted(D, S, v, h, e)
  <1>1. NoRound < 0 /\ 0 \in Rounds /\ NoRound # 0
    BY EngineAssumption DEF NoRound, Rounds
  <1>2. \A m \in D[v] : m.height # h
    BY MsgFields
  <1>3. /\ e.id = v /\ e.height = h /\ e.started = FALSE /\ e.round = 0 /\ e.phase = "propose"
        /\ e.lockedRound = NoRound /\ e.lockedBlock = None
        /\ e.validRound = NoRound /\ e.validBlock = None /\ e.validProof = {}
        /\ e.proposals = {} /\ e.votes = {} /\ e.requested = {} /\ e.decisions = {}
    BY DEF NewEngine
  <1>4. e \in Engines
    BY <1>1 DEF NewEngine, Engines, Phases
  <1>5. LockOK(D, S, v, e)
    BY <1>2, <1>3 DEF LockOK
  <1>6. CachesOK(D, S, v, e)
    BY <1>1, <1>3 DEF CachesOK
  <1>7. SlotsOK(D, v, e)
    BY <1>1, <1>2, <1>3 DEF SlotsOK
  <1> QED BY <1>3, <1>4, <1>5, <1>6, <1>7 DEF EngineOK, Unstarted

\* persist_finalized: the ledger grows by the certified block, and the safety
\* row of its height is gone.
LEMMA CommitOK ==
    ASSUME NEW D, NEW v \in Honest, D[v] \subseteq Msgs, NEW d, DiskOK(D, v, d),
           NEW k \in Certs, CertOK(D, k), k.height = Height(d), k.height \in Heights,
           NEW c, c = Commit(d, k)
    PROVE  /\ DiskOK(D, v, c) /\ RowMsgs(c) = RowMsgs(d) /\ c.stored = d.stored
           /\ Height(c) = Height(d) + 1 /\ Height(d) \in Nat
           /\ \A m \in D[v] : m.height < Height(c)
  <1>1. d \in Disks /\ StoreOK(D, d.stored, v) /\ ChainOK(D, d) /\ RowsOK(D, v, d)
    BY DEF DiskOK
  <1>2. d.chain \in Seq(Certs) /\ d.safety \in SafetyStates \cup {None}
    BY <1>1 DEF Disks
  <1>3. /\ Append(d.chain, k) \in Seq(Certs) /\ Len(Append(d.chain, k)) = Len(d.chain) + 1
        /\ Len(d.chain) \in Nat
        /\ \A i \in 1 .. Len(d.chain) : Append(d.chain, k)[i] = d.chain[i]
        /\ Append(d.chain, k)[Len(d.chain) + 1] = k
    BY <1>2, AddOne
  <1>4. d.safety = None \/ d.safety.height = k.height
    BY <1>1 DEF RowsOK
  <1>5. /\ c.chain = Append(d.chain, k) /\ c.safety = None
        /\ c.decisions = d.decisions /\ c.stored = d.stored /\ c.accused = d.accused
    BY <1>1, <1>4 DEF Commit, Disks
  <1>6. c \in Disks
    BY <1>1, <1>3, <1>4 DEF Commit, Disks
  <1>7. Height(c) = Height(d) + 1 /\ Height(d) = Len(d.chain) + 1 /\ RowMsgs(c) = RowMsgs(d)
    BY <1>3, <1>5 DEF Height, RowMsgs
  <1>8. StoreOK(D, c.stored, v)
    BY <1>1, <1>5
  <1>9. ChainOK(D, c)
    <2>1. Len(c.chain) <= MaxHeight
      BY <1>3, <1>5, <1>7 DEF Heights
    <2>2. ASSUME NEW h \in 1 .. Len(c.chain)
          PROVE  c.chain[h].height = h /\ CertOK(D, c.chain[h])
      <3>1. CASE h \in 1 .. Len(d.chain)
        BY <1>1, <1>3, <1>5, <3>1 DEF ChainOK
      <3>2. CASE h = Len(d.chain) + 1
        BY <1>3, <1>5, <1>7, <3>2
      <3> QED BY <1>3, <1>5, <3>1, <3>2
    <2> QED BY <2>1, <2>2 DEF ChainOK
  <1>10. \A m \in D[v] : m.height \in Heights /\ m.height < Height(c) /\ m.height <= Height(c)
    BY <1>1, <1>3, <1>7, MsgFields DEF RowsOK
  <1>11. RowsOK(D, v, c)
    BY <1>5, <1>10 DEF RowsOK
  <1> QED BY <1>3, <1>5, <1>6, <1>7, <1>8, <1>9, <1>10, <1>11 DEF DiskOK

\* The process after reset_consensus.
LEMMA ResetOK ==
    ASSUME NEW n \in Nodes, NEW v \in Honest, n.eng.id = v, NEW h \in Nat,
           NEW f, f = Reset(n, h)
    PROVE  /\ f \in Nodes /\ f.eng = NewEngine(v, h) /\ f.mode = n.mode /\ f.target = n.target
           /\ f.jobs = n.jobs /\ f.events = n.events /\ f.effects = n.effects
  <1>1. NewEngine(v, h) \in Engines
    BY EngineAssumption DEF NewEngine, Engines, Phases, Rounds
  <1> DEFINE e == NewEngine(v, h)
  <1>2. f = [n EXCEPT !.eng = e, !.blocks = {}]
    BY DEF Reset, Nodes
  <1> HIDE DEF e
  <1> QED BY <1>1, <1>2 DEF Nodes, e

\* An event queued at one height is harmless at the next.
LEMMA EventMoves ==
    ASSUME NEW D, NEW S, NEW v, NEW e \in Engines, NEW f, NEW x, EventOK(D, S, v, e, x),
           f.height = e.height + 1
    PROVE  EventOK(D, S, v, f, x)
  <1>1. e.height \in Nat
    BY DEF Engines
  <1>2. x.type = "ready" => x.height \in Nat
    BY EventFields DEF EventOK
  <1>3. x.type = "ready" => x.height <= f.height /\ x.height # f.height
    BY <1>1, <1>2 DEF EventOK
  <1> QED BY <1>3 DEF EventOK

\* Process f is n with nothing more to do at its height.
HeightDone(n, f) ==
    /\ f.mode = n.mode /\ f.jobs = n.jobs /\ f.events = n.events /\ f.effects = <<>>
    /\ \/ Quiet(n)
       \/ n.effects # <<>> /\ f.target = n.target

\* The process at the next height: what is left of the command stays good.
LEMMA NextHeightOK ==
    ASSUME NEW D, NEW v \in Honest, D[v] \subseteq Msgs, NEW d, NEW c, c.stored = d.stored,
           Height(c) = Height(d) + 1, Height(d) \in Nat,
           \A m \in D[v] : m.height < Height(c),
           NEW n, NodeOK(D, d, v, n), n.mode # "down",
           NEW f \in Nodes, f.eng = NewEngine(v, Height(c)), HeightDone(n, f)
    PROVE  NodeOK(D, c, v, f)
  <1> USE DEF HeightDone
  <1>1. /\ n \in Nodes /\ QueuesOK(D, d.stored, v, n) /\ n.eng \in Engines
        /\ n.eng.height = Height(d)
    BY UpOK
  <1>2. /\ EngineOK(D, c.stored, v, f.eng) /\ f.eng \in Engines /\ f.eng.id = v
        /\ f.eng.height = Height(c) /\ ~f.eng.started
    <2> DEFINE h == Height(c)
               e == f.eng
    <2>1. h \in Nat /\ (\A m \in D[v] : m.height < h) /\ e = NewEngine(v, h)
      OBVIOUS
    <2> HIDE DEF h, e
    <2>2. Unstarted(D, c.stored, v, h, e)
      BY <2>1, NewEngineOK
    <2> QED BY <2>2 DEF h, e, Unstarted
  <1>3. EngineAt(D, c, v, f.eng)
    BY <1>2 DEF EngineAt
  <1>4. EffectsOK(D, c.stored, v, f.eng, f.effects)
    BY NoEffects
  <1>5. QueuesOK(D, c.stored, v, f)
    <2>1. CASE Quiet(n)
      BY <2>1, QuietQueues DEF Quiet
    <2>2. CASE n.effects # <<>> /\ f.target = n.target
      <3>1. ASSUME NEW i \in 1 .. Len(f.jobs) PROVE JobOK(D, c.stored, v, f, i)
        <4>1. JobOK(D, d.stored, v, n, i)
          BY <1>1 DEF QueuesOK
        <4>2. EventOK(D, c.stored, v, f.eng, n.jobs[i])
          BY <1>1, <1>2, <4>1, EventMoves DEF JobOK
        <4> QED BY <2>2, <4>1, <4>2 DEF JobOK
      <3>2. ASSUME NEW i \in 1 .. Len(f.events) PROVE QueuedOK(D, c.stored, v, f, i)
        <4>1. QueuedOK(D, d.stored, v, n, i)
          BY <1>1 DEF QueuesOK
        <4>2. EventOK(D, c.stored, v, f.eng, n.events[i])
          BY <1>1, <1>2, <4>1, EventMoves DEF QueuedOK
        <4> QED BY <4>1, <4>2 DEF QueuedOK
      <3>3. ~(f.mode \in {"down", "halted"} \/ f.target # 0)
        BY <1>1, <2>2 DEF QueuesOK, Quiet
      <3> QED BY <3>1, <3>2, <3>3 DEF QueuesOK
    <2> QED BY <2>1, <2>2
  <1> QED BY <1>2, <1>3, <1>4, <1>5 DEF NodeOK, ProcessOK

\* A backed certificate may be published.
LEMMA PublishCertificate ==
    ASSUME NEW D, NEW M, NetOK(D, M), NEW k \in Certs, CertOK(D, k), k.height \in Heights
    PROVE  NetOK(D, M \cup {k})
  <1>1. k.kind = "certificate"
    BY DEF Certs
  <1> QED BY <1>1 DEF NetOK

\* CommitFinalized keeps the invariant.
LEMMA CommitFinalizedStep ==
    ASSUME IInv, NEW v \in Honest, CommitFinalized(v)
    PROVE  IInv'
  <1> DEFINE k == Effect(v).certificate
             n == node[v]
             d == disk[v]
             c == Commit(d, k)
             g == Done(v)
             f == Reset(g, k.height + 1)
  <1>1. /\ Performs(v, "finalize") /\ crashes' = crashes
        /\ \/ node' = [node EXCEPT ![v] = Abort(node[v])] /\ disk' = disk /\ net' = net
           \/ /\ disk' = [disk EXCEPT ![v] = c] /\ node' = [node EXCEPT ![v] = f]
              /\ net' = net \cup {k}
    BY Own DEF CommitFinalized
  <1>2. CASE node' = [node EXCEPT ![v] = Abort(node[v])] /\ disk' = disk /\ net' = net
    BY <1>1, <1>2, AbortStep
  <1>3. CASE /\ disk' = [disk EXCEPT ![v] = c] /\ node' = [node EXCEPT ![v] = f]
             /\ net' = net \cup {k}
    <2>1. /\ Effect(v) \in Effects /\ Effect(v).type = "finalize"
          /\ EffectOK(DurableBy, d.stored, v, n.eng, Effect(v))
          /\ n.mode \in {"running", "recovering"} /\ n.effects # <<>>
          /\ EngineAt(DurableBy, d, v, n.eng) /\ n.eng.height <= MaxHeight
          /\ EffectsOK(DurableBy, d.stored, v, n.eng, n.effects)
      BY <1>1, Performing, Own, UpOK
    <2>2. /\ n \in Nodes /\ NodeOK(DurableBy, d, v, n) /\ DiskOK(DurableBy, v, d)
          /\ Height(d) \in Nat \ {0} /\ NetOK(DurableBy, net) /\ crashes \in 0 .. MaxCrashes
          /\ Context(DurableBy, d.stored, v)
      BY Own
    <2>3. DurableBy[v] \subseteq Msgs
      BY <2>2 DEF Context, DurableOK
    <2>4. k \in Certs /\ CertOK(DurableBy, k) /\ k.height = n.eng.height
      BY <2>1, EffectFields DEF EffectOK
    <2>5. k.height = Height(d) /\ k.height \in Heights
      BY <2>1, <2>2, <2>4 DEF EngineAt, Heights
    <2>6. Tail(n.effects) = <<>>
      <3> DEFINE fx == n.effects
      <3>1. EffectsOK(DurableBy, d.stored, v, n.eng, fx) /\ fx # <<>> /\ Head(fx).type = "finalize"
        BY <2>1 DEF Effect
      <3> HIDE DEF fx, n, d
      <3>2. Tail(fx) = <<>>
        BY <3>1, FinalizeLast
      <3> QED BY <3>2 DEF fx
    <2>7. /\ g \in Nodes /\ g.mode = n.mode /\ g.eng = n.eng /\ g.target = n.target
          /\ g.jobs = n.jobs /\ g.events = n.events /\ g.effects = <<>>
      <3>1. <<>> \in Seq(Effects)
        OBVIOUS
      <3> QED BY <2>2, <2>6, <3>1 DEF Done, Nodes
    <2> HIDE DEF k, g, d
    <2>8. /\ DiskOK(DurableBy, v, c) /\ RowMsgs(c) = RowMsgs(d) /\ c.stored = d.stored
          /\ Height(c) = Height(d) + 1 /\ Height(d) \in Nat
          /\ \A m \in DurableBy[v] : m.height < Height(c)
      BY <2>2, <2>3, <2>4, <2>5, CommitOK
    <2> HIDE DEF c
    <2>9. g.eng.id = v /\ k.height + 1 = Height(c) /\ Height(c) \in Nat
      BY <2>2, <2>5, <2>7, <2>8 DEF NodeOK
    <2>10. /\ f \in Nodes /\ f.eng = NewEngine(v, Height(c)) /\ f.mode = n.mode
           /\ f.target = n.target /\ f.jobs = n.jobs /\ f.events = n.events /\ f.effects = <<>>
      BY <2>7, <2>9, ResetOK
    <2> HIDE DEF f, n
    <2>11. NodeOK(DurableBy, c, v, f)
      <3>1. HeightDone(n, f) /\ n.mode # "down"
        BY <2>1, <2>10 DEF HeightDone
      <3> QED BY <2>2, <2>3, <2>8, <2>10, <3>1, NextHeightOK
    <2>12. NetOK(DurableBy, net')
      BY <1>3, <2>2, <2>4, <2>5, PublishCertificate
    <2>13. RowMsgs(c) = RowMsgs(disk[v])
      BY <2>8 DEF d
    <2> QED BY <1>1, <1>3, <2>2, <2>8, <2>11, <2>12, <2>13, StepOne
  <1> QED BY <1>1, <1>2, <1>3

-------------------------------------------------------------------------------
(* Commands *)

\* The votes published for a value are durable, where honest.
LEMMA PublishedBacked ==
    ASSUME IInv, NEW kind \in VoteKinds, NEW h, NEW r, NEW b
    PROVE  Backed(DurableBy, kind, h, r, b, Published(kind, h, r, b))
  <1>1. Published(kind, h, r, b) \subseteq Validators
    BY Basics DEF Published
  <1>2. ASSUME NEW w \in Published(kind, h, r, b) \ Faulty
        PROVE  Vote(kind, h, r, w, b) \in DurableBy[w]
    <2> DEFINE m == Vote(kind, h, r, w, b)
    <2>1. m \in net /\ m.kind = kind /\ m.validator = w
      BY DEF Published, Vote
    <2> HIDE DEF m
    <2>2. m.kind # "certificate"
      BY <2>1 DEF VoteKinds
    <2>3. m \in DurableBy[w]
      BY <2>1, <2>2 DEF IInv, NetOK
    <2> QED BY <2>3 DEF m
  <1> QED BY <1>1, <1>2 DEF Backed

\* A certificate the network may hand over is backed.
LEMMA ImportableOK ==
    ASSUME IInv, NEW k \in Importable
    PROVE  k \in Certs /\ CertOK(DurableBy, k) /\ k.height \in Heights
  <1>1. CASE k \in net /\ k.kind = "certificate"
    <2>1. k \in Certs
      BY <1>1, MsgFields DEF IInv, NetOK
    <2> QED BY <1>1, <2>1 DEF IInv, NetOK
  <1>2. CASE k \in ForgedCertificates
    <2>1. PICK h \in Heights, r \in Rounds, b \in FaultyBlocks :
             k = Certificate(h, r, b, Published("precommit", h, r, b)) /\ IsQuorum(k.signers)
      BY <1>2 DEF ForgedCertificates
    <2> DEFINE Q == Published("precommit", h, r, b)
    <2>2. Backed(DurableBy, "precommit", h, r, b, Q) /\ Q \subseteq Validators
      BY PublishedBacked DEF VoteKinds, Backed
    <2> HIDE DEF Q
    <2>3. /\ k.kind = "certificate" /\ k.height = h /\ k.round = r /\ k.value = b
          /\ k.signers = Q
      BY <2>1 DEF Certificate, Q
    <2>4. k \in Certs
      <3>1. h \in Nat /\ b \in Blocks
        BY ConsensusAssumption DEF Heights
      <3>2. k = [kind |-> "certificate", height |-> h, round |-> r, value |-> b, signers |-> Q]
        BY <2>1 DEF Certificate, Q
      <3> QED BY <2>2, <3>1, <3>2 DEF Certs
    <2> QED BY <2>1, <2>2, <2>3, <2>4 DEF CertOK
  <1> QED BY <1>1, <1>2 DEF Importable

\* ImportNext keeps the invariant.
LEMMA ImportNextStep ==
    ASSUME IInv, NEW v \in Honest, NEW k \in Importable, ImportNext(v, k)
    PROVE  IInv'
  <1> DEFINE n == node[v]
             d == disk[v]
             c == Commit(d, k)
             g == Reset(n, k.height + 1)
             f == [g EXCEPT !.target = IF n.target <= k.height THEN 0 ELSE n.target]
  <1>1. /\ n.mode = "running" /\ Quiet(n) /\ k.height = NextHeight(v)
        /\ disk' = [disk EXCEPT ![v] = c] /\ node' = [node EXCEPT ![v] = f]
        /\ net' = net /\ crashes' = crashes
    <2>1. Ready(v) /\ k.height = NextHeight(v) /\ UNCHANGED <<net, crashes>>
      BY DEF ImportNext
    <2>2. disk' = [disk EXCEPT ![v] = c]
      BY DEF ImportNext
    <2>3. node' = [node EXCEPT ![v] = f]
      BY DEF ImportNext
    <2> QED BY <2>1, <2>2, <2>3 DEF Ready, Idle, Quiet
  <1>2. /\ n \in Nodes /\ NodeOK(DurableBy, d, v, n) /\ DiskOK(DurableBy, v, d)
        /\ NextHeight(v) = Height(d)
        /\ Height(d) \in Nat \ {0} /\ NetOK(DurableBy, net) /\ crashes \in 0 .. MaxCrashes
        /\ Context(DurableBy, d.stored, v)
    BY Own
  <1>3. DurableBy[v] \subseteq Msgs
    BY <1>2 DEF Context, DurableOK
  <1>4. k \in Certs /\ CertOK(DurableBy, k) /\ k.height \in Heights /\ k.height = Height(d)
    BY <1>1, <1>2, ImportableOK
  <1> HIDE DEF d, n
  <1>5. /\ DiskOK(DurableBy, v, c) /\ RowMsgs(c) = RowMsgs(d) /\ c.stored = d.stored
        /\ Height(c) = Height(d) + 1 /\ Height(d) \in Nat
        /\ \A m \in DurableBy[v] : m.height < Height(c)
    BY <1>2, <1>3, <1>4, CommitOK
  <1> HIDE DEF c
  <1>6. n.eng.id = v /\ k.height + 1 = Height(c) /\ Height(c) \in Nat
    BY <1>2, <1>4, <1>5 DEF NodeOK
  <1>7. /\ g \in Nodes /\ g.eng = NewEngine(v, Height(c)) /\ g.mode = n.mode
        /\ g.target = n.target /\ g.jobs = n.jobs /\ g.events = n.events /\ g.effects = <<>>
    BY <1>1, <1>2, <1>6, ResetOK DEF Quiet
  <1> HIDE DEF g
  <1>8. /\ f \in Nodes /\ f.eng = NewEngine(v, Height(c)) /\ f.mode = n.mode
        /\ f.jobs = n.jobs /\ f.events = n.events /\ f.effects = <<>>
    <2> DEFINE t == IF n.target <= k.height THEN 0 ELSE n.target
    <2>1. t \in 0 .. MaxHeight /\ f = [g EXCEPT !.target = t]
      BY <1>2, ConsensusAssumption DEF Nodes
    <2> HIDE DEF t
    <2> QED BY <1>7, <2>1 DEF Nodes
  <1> HIDE DEF f
  <1>9. NodeOK(DurableBy, c, v, f)
    <2>1. HeightDone(n, f) /\ n.mode # "down"
      BY <1>1, <1>8 DEF HeightDone
    <2> QED BY <1>2, <1>3, <1>5, <1>8, <2>1, NextHeightOK
  <1>10. RowMsgs(c) = RowMsgs(disk[v])
    BY <1>5 DEF d
  <1> QED BY <1>1, <1>2, <1>5, <1>9, <1>10, StepOne

\* A process that waits, with another mode or sync target.
LEMMA IdleOK ==
    ASSUME NEW D, NEW d, NEW v, NEW n, NodeOK(D, d, v, n), n.mode # "down", Quiet(n),
           NEW f \in Nodes, f.eng = n.eng, Quiet(f)
    PROVE  NodeOK(D, d, v, f)
  <1>1. EngineAt(D, d, v, n.eng) /\ n.eng.id = v
    BY UpOK DEF ProcessOK
  <1>2. EffectsOK(D, d.stored, v, f.eng, f.effects)
    BY NoEffects DEF Quiet
  <1>3. QueuesOK(D, d.stored, v, f)
    BY QuietQueues
  <1> QED BY <1>1, <1>2, <1>3 DEF NodeOK, ProcessOK

\* BeginSync and HaltOnConflict keep the invariant.
LEMMA SyncOrHaltStep ==
    ASSUME IInv, NEW v \in Honest, NEW k \in Importable, BeginSync(v, k) \/ HaltOnConflict(v, k)
    PROVE  IInv'
  <1> DEFINE n == node[v]
             synced == [n EXCEPT !.target = k.height]
             halted == [n EXCEPT !.mode = "halted", !.target = 0]
  <1>1. n \in Nodes /\ NodeOK(DurableBy, disk[v], v, n)
    BY Own
  <1>2. k.height \in 0 .. MaxHeight /\ 0 \in 0 .. MaxHeight
    BY ImportableOK, ConsensusAssumption DEF Heights
  <1>3. /\ n.mode = "running" /\ Quiet(n) /\ disk' = disk /\ net' = net /\ crashes' = crashes
        /\ \/ node' = [node EXCEPT ![v] = synced] \/ node' = [node EXCEPT ![v] = halted]
    BY Own DEF BeginSync, HaltOnConflict, Ready, Idle, Quiet
  <1> HIDE DEF n
  <1>4. synced \in Nodes /\ synced.eng = n.eng /\ Quiet(synced)
    BY <1>1, <1>2, <1>3 DEF Nodes, Quiet
  <1>5. halted \in Nodes /\ halted.eng = n.eng /\ Quiet(halted)
    BY <1>1, <1>2, <1>3 DEF Nodes, Quiet, Modes
  <1> HIDE DEF synced, halted
  <1>6. NodeOK(DurableBy, disk[v], v, synced) /\ NodeOK(DurableBy, disk[v], v, halted)
    BY <1>1, <1>3, <1>4, <1>5, IdleOK
  <1> QED BY <1>3, <1>6, Own, StepInMemory

\* The proposals faulty validators can assemble prove their valid round.
LEMMA ForgedOK ==
    ASSUME IInv, NEW p \in ForgedProposals
    PROVE  /\ p \in ProposalMsgs /\ p.height \in Heights /\ p.validator \in Faulty
           /\ ProofOK(DurableBy, p)
  <1> DEFINE Made(h, r, b, vr, Q) ==
               /\ p = Proposal(h, r, b, vr, Q)
               /\ \/ vr = NoRound /\ Q = {}
                  \/ vr \in Rounds /\ Q = Published("prevote", h, vr, b)
  <1>1. /\ p.validator \in Faulty /\ (p.proof = {} \/ IsQuorum(p.proof))
        /\ \E h \in Heights, r \in Rounds, b \in FaultyBlocks : \E vr, Q : Made(h, r, b, vr, Q)
    BY DEF ForgedProposals
  <1>2. PICK h \in Heights, r \in Rounds, b \in FaultyBlocks : \E vr, Q : Made(h, r, b, vr, Q)
    BY <1>1
  <1>3. PICK vr, Q : Made(h, r, b, vr, Q)
    BY <1>2
  <1>4. p = [kind |-> "proposal", height |-> h, round |-> r, validator |-> Proposer(h, r),
             value |-> b, validRound |-> vr, proof |-> Q]
    BY <1>3 DEF Proposal
  <1>5. Backed(DurableBy, "prevote", h, vr, b, Q) /\ Q \subseteq Validators
    <2>1. CASE Q = {}
      BY <2>1 DEF Backed
    <2>2. CASE Q = Published("prevote", h, vr, b)
      BY <2>2, PublishedBacked DEF VoteKinds, Backed
    <2> QED BY <1>3, <2>1, <2>2
  <1>6. vr # NoRound => Q # {}
    BY <1>1, <1>3 DEF Published
  <1> HIDE DEF Made
  <1>7. /\ p.kind = "proposal" /\ p.height = h /\ p.round = r /\ p.validator = Proposer(h, r)
        /\ p.value = b /\ p.validRound = vr /\ p.proof = Q
    BY <1>4
  <1>8. ProofOK(DurableBy, p)
    BY <1>1, <1>5, <1>6, <1>7 DEF ProofOK
  <1>9. p \in ProposalMsgs
    <2>1. h \in Nat /\ b \in Blocks /\ Proposer(h, r) \in Validators
      BY <1>1, <1>7, ConsensusAssumption, Basics DEF Heights
    <2>2. vr \in Rounds \cup {NoRound}
      BY <1>3 DEF Made
    <2> QED BY <1>4, <1>5, <2>1, <2>2 DEF ProposalMsgs
  <1> QED BY <1>1, <1>7, <1>8, <1>9

\* What the network may hand over.
LEMMA DeliverableOK ==
    ASSUME IInv, NEW m \in Deliverable
    PROVE  /\ m \in Msgs /\ m.height \in Heights /\ Signed(DurableBy, m)
           /\ m.kind = "proposal" => ProofOK(DurableBy, m)
  <1>1. CASE m \in net /\ m.kind # "certificate"
    <2>1. m.validator \in Honest /\ m \in DurableBy[m.validator]
      BY <1>1 DEF IInv, NetOK
    <2>2. DurableOK(DurableBy) /\ RowsOK(DurableBy, m.validator, disk[m.validator])
      BY <2>1 DEF IInv, DiskOK
    <2>3. m.height \in Heights
      BY <2>1, <2>2 DEF RowsOK
    <2>4. m \in Msgs /\ (m.kind = "proposal" => ProofOK(DurableBy, m))
      BY <2>1, <2>2 DEF DurableOK
    <2> QED BY <2>1, <2>3, <2>4 DEF Signed
  <1>2. CASE m \in FaultyVotes
    <2>1. m \in [kind : {"prevote", "precommit"}, height : Heights, round : Nat,
                 validator : Faulty, value : Blocks \cup {Nil}]
      BY <1>2, ConsensusAssumption
    <2>2. m.height \in Heights /\ m.validator \notin Honest /\ m.kind # "proposal"
      BY <2>1 DEF Honest
    <2>3. m \in VoteMsgs
      <3>1. Heights \subseteq Nat /\ Faulty \subseteq Validators
        BY ConsensusAssumption, Basics DEF Heights
      <3> QED BY <2>1, <3>1 DEF VoteMsgs, VoteKinds
    <2> QED BY <2>2, <2>3 DEF Signed, Msgs
  <1>3. CASE m \in ForgedProposals
    BY <1>3, ForgedOK DEF Signed, Honest, Msgs
  <1> QED BY <1>1, <1>2, <1>3 DEF Deliverable

\* The jobs q may be given to e.
JobsOK(D, S, v, e, q) ==
    /\ q \in Seq(Events)
    /\ \A i \in 1 .. Len(q) :
          /\ q[i].type \in {"start", "message", "timeout"} /\ EventOK(D, S, v, e, q[i])
          /\ q[i].type = "start" => i = 1 /\ e.height <= MaxHeight

\* A waiting process that is given jobs.
LEMMA GivenOK ==
    ASSUME NEW D, NEW d, NEW v, NEW n, NodeOK(D, d, v, n), n.mode = "running", Quiet(n),
           NEW f \in Nodes, f.eng = n.eng, f.mode = n.mode, f.target = n.target,
           f.events = <<>>, f.effects = <<>>,
           n.target # 0 => f.jobs = <<>>, JobsOK(D, d.stored, v, n.eng, f.jobs)
    PROVE  NodeOK(D, d, v, f)
  <1>1. EngineAt(D, d, v, n.eng) /\ n.eng.id = v
    BY UpOK DEF ProcessOK
  <1>2. EffectsOK(D, d.stored, v, f.eng, f.effects)
    BY NoEffects
  <1>3. \A i \in 1 .. Len(f.jobs) : JobOK(D, d.stored, v, f, i)
    BY DEF JobsOK, JobOK
  <1>4. \A i \in 1 .. Len(f.events) : FALSE
    <2>1. Len(f.events) = 0
      OBVIOUS
    <2> QED BY <2>1
  <1>5. QueuesOK(D, d.stored, v, f)
    BY <1>3, <1>4 DEF QueuesOK, Quiet
  <1> QED BY <1>1, <1>2, <1>5 DEF NodeOK, ProcessOK

\* No job, one job, or a start and a job.
LEMMA FewJobs ==
    ASSUME NEW D, NEW S, NEW v, NEW e,
           NEW x, x \in Events, EventOK(D, S, v, e, x), x.type \in {"message", "timeout"},
           e.height <= MaxHeight
    PROVE  /\ JobsOK(D, S, v, e, <<>>) /\ JobsOK(D, S, v, e, <<x>>)
           /\ JobsOK(D, S, v, e, <<Start, x>>)
  <1>1. Start \in Events /\ EventOK(D, S, v, e, Start) /\ Start.type = "start"
    BY DEF Start, Events, EventOK
  <1>2. JobsOK(D, S, v, e, <<>>)
    BY DEF JobsOK
  <1>3. JobsOK(D, S, v, e, <<x>>)
    BY DEF JobsOK
  <1>4. JobsOK(D, S, v, e, <<Start, x>>)
    <2> DEFINE q == <<Start, x>>
    <2>1. q \in Seq(Events) /\ Len(q) = 2 /\ q[1] = Start /\ q[2] = x
      BY <1>1
    <2> HIDE DEF q
    <2> QED BY <1>1, <2>1 DEF JobsOK, q
  <1> QED BY <1>2, <1>3, <1>4

\* Only a start.
LEMMA StartJob ==
    ASSUME NEW D, NEW S, NEW v, NEW e, e.height <= MaxHeight
    PROVE  JobsOK(D, S, v, e, <<Start>>)
  BY DEF JobsOK, Start, Events, EventOK

\* Tick keeps the invariant.
LEMMA TickStep ==
    ASSUME IInv, NEW v \in Honest, Tick(v)
    PROVE  IInv'
  <1> DEFINE n == node[v]
             q == <<Start>>
             f == [n EXCEPT !.jobs = q]
  <1>1. /\ n.mode = "running" /\ Quiet(n) /\ LedgerHeight(v) < MaxHeight
        /\ node' = [node EXCEPT ![v] = f] /\ disk' = disk /\ net' = net /\ crashes' = crashes
    BY Own DEF Tick, Participates, Ready, Idle, Quiet
  <1>2. n \in Nodes /\ NodeOK(DurableBy, disk[v], v, n) /\ disk[v] \in Disks /\ n.target = 0
    BY Own DEF Tick, Participates
  <1>3. n.eng.height <= MaxHeight
    <2>1. n.eng.height = Height(disk[v]) /\ Height(disk[v]) = LedgerHeight(v) + 1
      BY <1>1, <1>2, UpOK DEF Height, LedgerHeight
    <2>2. LedgerHeight(v) \in Nat /\ MaxHeight \in Nat
      BY <1>2, ConsensusAssumption DEF LedgerHeight, Disks
    <2> QED BY <1>1, <2>1, <2>2
  <1> HIDE DEF n
  <1>4. JobsOK(DurableBy, disk[v].stored, v, n.eng, q)
    BY <1>3, StartJob
  <1> HIDE DEF q
  <1>5. /\ f \in Nodes /\ f.eng = n.eng /\ f.mode = n.mode /\ f.target = n.target
        /\ f.events = <<>> /\ f.effects = <<>> /\ f.jobs = q
    BY <1>1, <1>2, <1>4 DEF Nodes, Quiet, JobsOK
  <1> HIDE DEF f
  <1>6. NodeOK(DurableBy, disk[v], v, f)
    BY <1>1, <1>2, <1>4, <1>5, GivenOK
  <1> QED BY <1>1, <1>6, Own, StepInMemory

\* DeliverVote keeps the invariant.
LEMMA DeliverVoteStep ==
    ASSUME IInv, NEW v \in Honest, NEW m \in Deliverable, DeliverVote(v, m)
    PROVE  IInv'
  <1> DEFINE n == node[v]
             x == [type |-> "message", msg |-> m]
             q == StartThen(v, x)
             f == [n EXCEPT !.jobs = q]
  <1>1. /\ n.mode = "running" /\ Quiet(n) /\ n.target = 0
        /\ m.kind # "proposal" /\ m.height = NextHeight(v)
        /\ node' = [node EXCEPT ![v] = f] /\ disk' = disk /\ net' = net /\ crashes' = crashes
    BY Own DEF DeliverVote, Participates, Ready, Idle, Quiet
  <1>2. /\ n \in Nodes /\ NodeOK(DurableBy, disk[v], v, n)
        /\ NextHeight(v) = Height(disk[v])
    BY Own
  <1>3. m \in Msgs /\ m.height \in Heights /\ Signed(DurableBy, m)
    BY DeliverableOK
  <1>4. n.eng.height <= MaxHeight
    BY <1>1, <1>2, <1>3, UpOK DEF Heights
  <1>5. x \in Events /\ x.type = "message" /\ EventOK(DurableBy, disk[v].stored, v, n.eng, x)
    BY <1>1, <1>3 DEF Events, EventOK
  <1>6. q = <<x>> \/ q = <<Start, x>>
    BY DEF StartThen
  <1> HIDE DEF n, x, q
  <1>7. JobsOK(DurableBy, disk[v].stored, v, n.eng, q)
    BY <1>4, <1>5, <1>6, FewJobs
  <1>8. /\ f \in Nodes /\ f.eng = n.eng /\ f.mode = n.mode /\ f.target = n.target
        /\ f.events = <<>> /\ f.effects = <<>> /\ f.jobs = q
    BY <1>1, <1>2, <1>7 DEF Nodes, Quiet, JobsOK
  <1> HIDE DEF f
  <1>9. NodeOK(DurableBy, disk[v], v, f)
    BY <1>1, <1>2, <1>7, <1>8, GivenOK
  <1> QED BY <1>1, <1>9, Own, StepInMemory

\* DeliverProposal keeps the invariant: the proposal is stored first.
LEMMA DeliverProposalStep ==
    ASSUME IInv, NEW v \in Honest, NEW m \in Deliverable, DeliverProposal(v, m)
    PROVE  IInv'
  <1> DEFINE n == node[v]
             d == disk[v]
             c == Storing(d, m)
             x == [type |-> "message", msg |-> m]
             q == StartThen(v, x)
             f == [n EXCEPT !.blocks = n.blocks \cup {m.value}, !.jobs = q]
  <1>1. /\ n.mode = "running" /\ Quiet(n) /\ n.target = 0
        /\ m.kind = "proposal" /\ m.height = NextHeight(v)
        /\ ProposalIsValid(n.eng, m, n.blocks \cup {m.value})
        /\ disk' = [disk EXCEPT ![v] = c] /\ net' = net /\ crashes' = crashes
    BY Own DEF DeliverProposal, Participates, Ready, Idle, Quiet, Storing
  <1>2. node' = [node EXCEPT ![v] = f]
    BY Own DEF DeliverProposal
  <1>3. /\ n \in Nodes /\ NodeOK(DurableBy, d, v, n) /\ DiskOK(DurableBy, v, d)
        /\ NextHeight(v) = Height(d) /\ NetOK(DurableBy, net) /\ crashes \in 0 .. MaxCrashes
    BY Own
  <1>4. /\ m \in ProposalMsgs /\ m.height \in Heights /\ Signed(DurableBy, m)
        /\ ProofOK(DurableBy, m) /\ m.value \in Blocks
    BY <1>1, DeliverableOK, MsgFields DEF ProposalMsgs
  <1>5. Fits(m.value, m.round)
    BY <1>1 DEF ProposalIsValid, BlockIsValid, Fits
  <1> HIDE DEF d
  <1>6. /\ DiskOK(DurableBy, v, c) /\ RowMsgs(c) = RowMsgs(d) /\ c.stored = d.stored \cup {m}
        /\ Height(c) = Height(d) /\ Later(DurableBy, DurableBy, d.stored, c.stored, v)
    BY <1>3, <1>4, <1>5, StoreMoreOK
  <1> HIDE DEF c
  <1>7. n.eng.height <= MaxHeight
    BY <1>1, <1>3, <1>4, UpOK DEF Heights
  <1>8. x \in Events /\ x.type = "message" /\ EventOK(DurableBy, c.stored, v, n.eng, x)
    BY <1>4, <1>6 DEF Events, EventOK, Msgs
  <1>9. q = <<x>> \/ q = <<Start, x>>
    BY DEF StartThen
  <1>10. NodeOK(DurableBy, c, v, n)
    BY <1>3, <1>6, NodeLater
  <1> HIDE DEF n, x, q
  <1>11. JobsOK(DurableBy, c.stored, v, n.eng, q)
    BY <1>7, <1>8, <1>9, FewJobs
  <1>12. /\ f \in Nodes /\ f.eng = n.eng /\ f.mode = n.mode /\ f.target = n.target
         /\ f.events = <<>> /\ f.effects = <<>> /\ f.jobs = q
    BY <1>1, <1>3, <1>4, <1>11 DEF Nodes, Quiet, JobsOK
  <1> HIDE DEF f
  <1>13. NodeOK(DurableBy, c, v, f)
    BY <1>1, <1>10, <1>11, <1>12, GivenOK
  <1>14. RowMsgs(c) = RowMsgs(disk[v])
    BY <1>6 DEF d
  <1> QED BY <1>1, <1>2, <1>3, <1>6, <1>13, <1>14, StepOne

\* The timers without one of them.
LEMMA RemoveTimer ==
    ASSUME NEW T, NEW s \in Seq(T), NEW i \in 1 .. Len(s)
    PROVE  RemoveAt(s, i) \in Seq(T)
  <1>1. Len(s) \in Nat
    OBVIOUS
  <1>2. SubSeq(s, 1, i - 1) \in Seq(T) /\ SubSeq(s, i + 1, Len(s)) \in Seq(T)
    BY <1>1
  <1> QED BY <1>2 DEF RemoveAt

\* TimerFires keeps the invariant.
LEMMA TimerFiresStep ==
    ASSUME IInv, NEW v \in Honest, NEW i \in DOMAIN node[v].timers, TimerFires(v, i)
    PROVE  IInv'
  <1> DEFINE n == node[v]
             x == [type |-> "timeout", timeout |-> n.timers[i]]
             q == IF n.eng.started /\ n.target = 0 THEN <<x>> ELSE <<>>
             left == RemoveAt(n.timers, i)
             f == [n EXCEPT !.timers = left, !.jobs = q]
  <1>1. /\ n.mode = "running" /\ Quiet(n)
        /\ disk' = disk /\ net' = net /\ crashes' = crashes
    BY DEF TimerFires, Ready, Idle, Quiet
  <1>2. node' = [node EXCEPT ![v] = f]
    BY Own DEF TimerFires
  <1>3. n \in Nodes /\ NodeOK(DurableBy, disk[v], v, n)
    BY Own
  <1>4. n.timers \in Seq(Timeouts) /\ i \in 1 .. Len(n.timers) /\ n.timers[i] \in Timeouts
    BY <1>3 DEF Nodes
  <1>5. x \in Events /\ x.type = "timeout" /\ EventOK(DurableBy, disk[v].stored, v, n.eng, x)
    BY <1>4 DEF Events, EventOK
  <1>6. left \in Seq(Timeouts)
    BY <1>4, RemoveTimer
  <1>7. \/ q = <<x>> /\ n.target = 0 /\ n.eng.height <= MaxHeight
        \/ q = <<>>
    BY <1>1, <1>3, UpOK DEF ProcessOK, EngineAt
  <1> HIDE DEF n, x, q, left
  <1>8. JobsOK(DurableBy, disk[v].stored, v, n.eng, q)
    <2>1. CASE q = <<>>
      BY <2>1 DEF JobsOK
    <2>2. CASE q = <<x>> /\ n.eng.height <= MaxHeight
      BY <1>5, <2>2, FewJobs
    <2> QED BY <1>7, <2>1, <2>2
  <1>9. /\ f \in Nodes /\ f.eng = n.eng /\ f.mode = n.mode /\ f.target = n.target
        /\ f.events = <<>> /\ f.effects = <<>> /\ f.jobs = q
    BY <1>1, <1>3, <1>6, <1>8 DEF Nodes, Quiet, JobsOK
  <1> HIDE DEF f
  <1>10. NodeOK(DurableBy, disk[v], v, f)
    BY <1>1, <1>3, <1>7, <1>8, <1>9, GivenOK
  <1> QED BY <1>1, <1>2, <1>10, Own, StepInMemory

-------------------------------------------------------------------------------
(* Crash and restart *)

\* The fields of a process that has just been started, or is down.
Fresh(f, mode, e, jobs) ==
    /\ f \in Nodes /\ f.mode = mode /\ f.eng = e /\ f.target = 0 /\ f.jobs = jobs
    /\ f.events = <<>> /\ f.effects = <<>>

\* A process begins with nothing under way but its first jobs.
LEMMA ProcessFields ==
    ASSUME NEW mode \in Modes, NEW e \in Engines, NEW blocks \in SUBSET Blocks,
           NEW jobs \in Seq(Events), NEW f, f = Process(mode, e, blocks, jobs)
    PROVE  Fresh(f, mode, e, jobs)
  <1>1. 0 \in 0 .. MaxHeight
    BY ConsensusAssumption
  <1>2. <<>> \in Seq(Timeouts) /\ <<>> \in Seq(Events) /\ <<>> \in Seq(Effects)
    OBVIOUS
  <1> QED BY <1>1, <1>2 DEF Process, Nodes, Fresh

\* A fresh engine is one.
LEMMA NewEngineType ==
    ASSUME NEW v \in Honest, NEW h \in Nat
    PROVE  NewEngine(v, h) \in Engines /\ NewEngine(v, h).id = v
  BY EngineAssumption DEF NewEngine, Engines, Phases, Rounds

\* A process that is down.
LEMMA DownOK ==
    ASSUME NEW D, NEW d, NEW v \in Honest, NEW f, f = DownProcess(v)
    PROVE  NodeOK(D, d, v, f)
  <1> DEFINE e == NewEngine(v, 1)
  <1>1. e \in Engines /\ e.id = v
    BY NewEngineType
  <1>2. f = Process("down", e, {}, <<>>)
    BY DEF DownProcess
  <1> HIDE DEF e
  <1>3. <<>> \in Seq(Events) /\ "down" \in Modes /\ {} \in SUBSET Blocks
    BY DEF Modes
  <1>4. /\ f \in Nodes /\ f.mode = "down" /\ f.eng = e /\ f.jobs = <<>>
        /\ f.events = <<>> /\ f.effects = <<>>
    <2>1. Fresh(f, "down", e, <<>>)
      BY <1>1, <1>2, <1>3, ProcessFields
    <2> QED BY <2>1 DEF Fresh
  <1>5. QueuesOK(D, d.stored, v, f)
    BY <1>4, QuietQueues DEF Quiet
  <1> QED BY <1>1, <1>4, <1>5 DEF NodeOK

\* Crash keeps the invariant.
LEMMA CrashStep ==
    ASSUME IInv, NEW v \in Honest, Crash(v)
    PROVE  IInv'
  <1> DEFINE f == DownProcess(v)
  <1>1. NodeOK(DurableBy, disk[v], v, f)
    BY DownOK
  <1> HIDE DEF f
  <1>2. node' = [node EXCEPT ![v] = f] /\ disk' = disk /\ net' = net
    BY DEF Crash, f
  <1>3. crashes' \in 0 .. MaxCrashes
    BY ConsensusAssumption DEF Crash, IInv
  <1> QED BY <1>1, <1>2, <1>3, Own, StepInMemory

\* RestartFresh keeps the invariant.
LEMMA RestartFreshStep ==
    ASSUME IInv, NEW v \in Honest, RestartFresh(v)
    PROVE  IInv'
  <1> DEFINE d == disk[v]
             h == Height(d)
             e == NewEngine(v, h)
             f == Process("running", e, {}, <<>>)
  <1>1. h = NextHeight(v) /\ h \in Nat /\ DiskOK(DurableBy, v, d) /\ DurableBy[v] \subseteq Msgs
    BY Own DEF Context, DurableOK
  <1>2. \A m \in DurableBy[v] : m.height < h
    BY <1>1 DEF RestartFresh, DiskOK, RowsOK
  <1>3. node' = [node EXCEPT ![v] = f] /\ disk' = disk /\ net' = net /\ crashes' = crashes
    BY <1>1 DEF RestartFresh
  <1> HIDE DEF h
  <1>4. Unstarted(DurableBy, d.stored, v, h, e)
    BY <1>1, <1>2, NewEngineOK
  <1> HIDE DEF e
  <1>5. e \in Engines /\ <<>> \in Seq(Events) /\ "running" \in Modes /\ {} \in SUBSET Blocks
    BY <1>4 DEF Unstarted, Modes
  <1>6. /\ f \in Nodes /\ f.mode = "running" /\ f.eng = e /\ f.target = 0 /\ f.jobs = <<>>
        /\ f.events = <<>> /\ f.effects = <<>>
    <2>1. Fresh(f, "running", e, <<>>)
      BY <1>5, ProcessFields
    <2> QED BY <2>1 DEF Fresh
  <1> HIDE DEF f
  <1>7. QueuesOK(DurableBy, d.stored, v, f)
    BY <1>6, QuietQueues DEF Quiet
  <1>8. EffectsOK(DurableBy, d.stored, v, f.eng, f.effects)
    BY <1>6, NoEffects
  <1>9. NodeOK(DurableBy, d, v, f)
    BY <1>4, <1>6, <1>7, <1>8 DEF NodeOK, ProcessOK, EngineAt, Unstarted, h
  <1> QED BY <1>3, <1>9, Own, StepInMemory

\* The messages of height h among the rows.
LEMMA MessagesAtHeight ==
    ASSUME NEW v, NEW h
    PROVE  MessagesAt(v, h) = {m \in Durable(v) : m.height = h}
  BY DEF MessagesAt, DecisionsAt, Durable, Rows

\* restore: the engine resumes after everything v has signed.
LEMMA RestoredOK ==
    ASSUME NEW D, NEW S, NEW v \in Honest, NEW s \in SafetyStates, LockOK(D, S, v, s),
           D[v] \subseteq Msgs, s.round + 1 < MaxRounds,
           \A m \in D[v] : m.height = s.height => m.round <= s.round,
           NEW M, M = {m \in D[v] : m.height = s.height},
           NEW e, e = RestoredEngine(v, s, M)
    PROVE  Unstarted(D, S, v, s.height, e)
  <1>1. /\ s.height \in Nat /\ s.round \in Rounds /\ s.lockedRound \in Rounds \cup {NoRound}
        /\ s.validRound \in Rounds \cup {NoRound} /\ s.validProof \subseteq Validators
        /\ s.lockedBlock \in Blocks \cup {None} /\ s.validBlock \in Blocks \cup {None}
    BY DEF SafetyStates
  <1>2. s.round + 1 \in Rounds /\ s.round \in Nat /\ s.lockedRound \in Int /\ s.validRound \in Int
    BY <1>1, Basics DEF Rounds, NoRound
  <1>3. NoRound < s.round + 1
    BY <1>2 DEF NoRound
  <1>4. M \subseteq Msgs /\ \A m \in M : m.round \in Nat /\ m.round < s.round + 1
    BY <1>2, MsgFields
  <1>5. /\ e.id = v /\ e.height = s.height /\ e.started = FALSE /\ e.round = s.round + 1
        /\ e.phase = "propose" /\ e.finalized = None
        /\ e.lockedRound = s.lockedRound /\ e.lockedBlock = s.lockedBlock
        /\ e.validRound = s.validRound /\ e.validBlock = s.validBlock
        /\ e.validProof = s.validProof
        /\ e.proposals = {} /\ e.votes = {} /\ e.requested = {} /\ e.decisions = M
        /\ e.pending = {}
    BY DEF RestoredEngine, NewEngine
  <1>6. e \in Engines
    <2> DEFINE g == NewEngine(v, s.height)
    <2>1. g \in Engines
      BY <1>1, NewEngineType
    <2>2. e = [g EXCEPT !.round = e.round,
                 !.lockedRound = s.lockedRound, !.lockedBlock = s.lockedBlock,
                 !.validRound = s.validRound, !.validBlock = s.validBlock,
                 !.validProof = s.validProof, !.decisions = M]
      BY <1>5 DEF RestoredEngine
    <2> HIDE DEF g
    <2>3. e.round \in Rounds /\ M \in SUBSET Msgs /\ s.validProof \in SUBSET Validators
      BY <1>1, <1>2, <1>4, <1>5
    <2> QED BY <1>1, <2>1, <2>2, <2>3 DEF Engines
  <1>7. s.lockedRound < e.round /\ s.validRound < e.round
    BY <1>2, <1>3, <1>5 DEF LockOK
  <1>8. LockOK(D, S, v, e)
    <2>1. s.lockedBlock # None => s.lockedRound <= e.round
      BY <1>2, <1>5, <1>7
    <2>2. s.validBlock # None => s.validRound <= e.round
      BY <1>2, <1>5, <1>7
    <2> QED BY <1>5, <2>1, <2>2 DEF LockOK
  <1>9. CachesOK(D, S, v, e)
    BY <1>2, <1>5, <1>7 DEF CachesOK
  <1>10. SlotsOK(D, v, e)
    <2>1. \A m \in D[v] : m.height = e.height => m.round < e.round
      BY <1>4, <1>5
    <2>2. \A m \in M : m.round <= e.round /\ m.round # e.round
      BY <1>2, <1>4, <1>5
    <2> QED BY <1>5, <1>7, <2>1, <2>2 DEF SlotsOK
  <1> QED BY <1>5, <1>6, <1>8, <1>9, <1>10 DEF Unstarted, EngineOK

\* RestartInterrupted keeps the invariant.
LEMMA RestartInterruptedStep ==
    ASSUME IInv, NEW v \in Honest, RestartInterrupted(v)
    PROVE  IInv'
  <1> DEFINE d == disk[v]
             s == d.safety
             h == NextHeight(v)
             M == MessagesAt(v, h)
             e == RestoredEngine(v, s, M)
             held == StoredBlocks(v, h)
             q == <<Start>>
             f == Process("recovering", e, held, q)
  <1>1. /\ s # None /\ s.round + 1 < MaxRounds
        /\ node' = [node EXCEPT ![v] = f] /\ net' = net \cup M
        /\ disk' = disk /\ crashes' = crashes
    BY DEF RestartInterrupted, Recoverable, Restorable
  <1>2. /\ h = Height(d) /\ DiskOK(DurableBy, v, d) /\ d \in Disks
        /\ DurableBy[v] \subseteq Msgs /\ DurableBy[v] = Durable(v)
        /\ NetOK(DurableBy, net) /\ DurableOK(DurableBy)
    BY Own DEF Context, DurableOK
  <1>3. /\ s \in SafetyStates /\ s.height = h /\ h <= MaxHeight
        /\ LockOK(DurableBy, d.stored, v, s)
        /\ \A m \in DurableBy[v] : m.height = s.height => m.round <= s.round
    BY <1>1, <1>2 DEF DiskOK, RowsOK, Disks
  <1>4. M = {m \in DurableBy[v] : m.height = s.height}
    BY <1>2, <1>3, MessagesAtHeight
  <1>5. held \in SUBSET Blocks
    <2>1. d.stored \subseteq ProposalMsgs
      BY <1>2 DEF Disks
    <2> QED BY <2>1 DEF StoredBlocks, StoredAt, ProposalMsgs
  <1>6. NetOK(DurableBy, net')
    <2>1. M \subseteq Msgs /\ \A m \in M : m.kind # "certificate" /\ m.validator = v
      BY <1>2, <1>4, MsgFields DEF DurableOK
    <2> HIDE DEF M
    <2> QED BY <1>1, <1>2, <1>4, <2>1 DEF NetOK
  <1> HIDE DEF s, M, held
  <1>7. Unstarted(DurableBy, d.stored, v, s.height, e)
    BY <1>1, <1>2, <1>3, <1>4, RestoredOK
  <1> HIDE DEF e, h
  <1>8. e \in Engines /\ "recovering" \in Modes /\ e.height = h
    BY <1>3, <1>7 DEF Unstarted, Modes
  <1>9. JobsOK(DurableBy, d.stored, v, e, q)
    BY <1>3, <1>8, StartJob
  <1> HIDE DEF q
  <1>10. Fresh(f, "recovering", e, q)
    BY <1>5, <1>8, <1>9, ProcessFields DEF JobsOK
  <1> HIDE DEF f
  <1>11. QueuesOK(DurableBy, d.stored, v, f)
    <2>1. ASSUME NEW i \in 1 .. Len(f.jobs) PROVE JobOK(DurableBy, d.stored, v, f, i)
      BY <1>9, <1>10 DEF Fresh, JobsOK, JobOK
    <2>2. \A i \in 1 .. Len(f.events) : FALSE
      <3>1. Len(f.events) = 0
        BY <1>10 DEF Fresh
      <3> QED BY <3>1
    <2> QED BY <1>10, <2>1, <2>2 DEF QueuesOK, Fresh
  <1>12. EffectsOK(DurableBy, d.stored, v, f.eng, f.effects)
    BY <1>10, NoEffects DEF Fresh
  <1>13. NodeOK(DurableBy, d, v, f)
    BY <1>2, <1>3, <1>7, <1>10, <1>11, <1>12
       DEF NodeOK, ProcessOK, EngineAt, Unstarted, Fresh
  <1> QED BY <1>1, <1>6, <1>13, Own, StepInMemory

-------------------------------------------------------------------------------
(* The invariant is inductive *)

\* A first start: nothing is durable.
LEMMA InitIInv == Init => IInv
  <1> SUFFICES ASSUME Init PROVE IInv
    OBVIOUS
  <1>1. \A v \in Honest : node[v] = DownProcess(v) /\ disk[v] = EmptyDisk
    BY DEF Init
  <1>2. \A v \in Honest : RowMsgs(disk[v]) = {}
    BY <1>1 DEF RowMsgs, EmptyDisk
  <1>3. \A v \in Honest : DurableBy[v] = {}
    BY <1>2, DurableRows DEF DurableBy, Durable, Rows
  <1>4. DurableBy \in [Honest -> SUBSET Msgs]
    <2>1. DurableBy = [v \in Honest |-> DurableBy[v]]
      BY DEF DurableBy
    <2> QED BY <1>3, <2>1
  <1>5. DurableOK(DurableBy)
    BY <1>3, <1>4 DEF DurableOK
  <1>6. NetOK(DurableBy, net)
    BY DEF Init, NetOK
  <1>7. ASSUME NEW v \in Honest PROVE DiskOK(DurableBy, v, disk[v])
    <2> DEFINE d == EmptyDisk
    <2>1. d \in Disks
      <3>1. <<>> \in Seq(Certs) /\ <<>> \in Seq(DecisionRows)
        OBVIOUS
      <3> QED BY <3>1 DEF EmptyDisk, Disks
    <2>2. d.chain = <<>> /\ d.safety = None /\ d.stored = {}
      BY DEF EmptyDisk
    <2> HIDE DEF d
    <2>3. ChainOK(DurableBy, d)
      <3>1. Len(d.chain) = 0
        BY <2>2
      <3> QED BY <3>1, ConsensusAssumption DEF ChainOK
    <2>4. RowsOK(DurableBy, v, d)
      BY <1>3, <2>2 DEF RowsOK
    <2>5. StoreOK(DurableBy, d.stored, v)
      BY <1>3, <2>2 DEF StoreOK
    <2> QED BY <1>1, <2>1, <2>3, <2>4, <2>5 DEF DiskOK, d
  <1>8. ASSUME NEW v \in Honest PROVE NodeOK(DurableBy, disk[v], v, node[v])
    BY <1>1, DownOK
  <1>9. crashes \in 0 .. MaxCrashes
    BY ConsensusAssumption DEF Init
  <1>10. node \in [Honest -> Nodes] /\ disk \in [Honest -> Disks]
    <2>1. node = [v \in Honest |-> node[v]] /\ disk = [v \in Honest |-> disk[v]]
      BY DEF Init
    <2>2. \A v \in Honest : node[v] \in Nodes /\ disk[v] \in Disks
      BY <1>7, <1>8 DEF NodeOK, DiskOK
    <2> QED BY <2>1, <2>2
  <1> QED BY <1>5, <1>6, <1>7, <1>8, <1>9, <1>10 DEF IInv

\* Every step keeps it.
LEMMA NextIInv == IInv /\ [Next]_vars => IInv'
  <1> SUFFICES ASSUME IInv, [Next]_vars PROVE IInv'
    OBVIOUS
  <1>1. CASE UNCHANGED vars
    <2>1. Honest' = Honest /\ DurableBy' = DurableBy
      BY <1>1 DEF vars, DurableBy, Durable, Rows
    <2> QED BY <1>1, <2>1 DEF vars, IInv
  <1>2. ASSUME NEW v \in Honest, NodeStep(v) PROVE IInv'
    <2>1. CASE RunEvent(v) \/ Resumed(v)
      BY <2>1, RunEventStep, ResumedStep
    <2>2. CASE \E stamp \in Stamps \ BadStamps : BuildProposal(v, stamp)
      BY <2>2, BuildProposalStep
    <2>3. CASE PersistProposal(v) \/ PersistDecision(v)
      BY <2>3, PersistProposalStep, PersistDecisionStep
    <2>4. CASE BroadcastMessage(v) \/ ScheduleTimeout(v) \/ RecordEvidence(v)
      BY <2>4, BroadcastStep, ScheduleStep, EvidenceStep
    <2>5. CASE CommitFinalized(v)
      BY <2>5, CommitFinalizedStep
    <2> QED BY <1>2, <2>1, <2>2, <2>3, <2>4, <2>5 DEF NodeStep
  <1>3. ASSUME NEW v \in Honest, Command(v) PROVE IInv'
    <2>1. CASE Tick(v)
      BY <2>1, TickStep
    <2>2. CASE \E m \in Deliverable : DeliverVote(v, m) \/ DeliverProposal(v, m)
      BY <2>2, DeliverVoteStep, DeliverProposalStep
    <2>3. CASE \E i \in DOMAIN node[v].timers : TimerFires(v, i)
      BY <2>3, TimerFiresStep
    <2>4. CASE \E c \in Importable : ImportNext(v, c) \/ BeginSync(v, c) \/ HaltOnConflict(v, c)
      BY <2>4, ImportNextStep, SyncOrHaltStep
    <2> QED BY <1>3, <2>1, <2>2, <2>3, <2>4 DEF Command
  <1>4. ASSUME NEW v \in Honest, Crash(v) \/ RestartFresh(v) \/ RestartInterrupted(v) PROVE IInv'
    BY <1>4, CrashStep, RestartFreshStep, RestartInterruptedStep
  <1> QED BY <1>1, <1>2, <1>3, <1>4 DEF Next

\* The inductive invariant holds in every reachable state, for any validator
\* set, any blocks, and any number of heights, rounds and crashes.
THEOREM Invariance == Spec => []IInv
  BY InitIInv, NextIInv, PTL DEF Spec

-------------------------------------------------------------------------------
(* The safety properties of module Consensus *)

\* TypeOK: in particular a running node's engine always works on the height
\* after its ledger's.
THEOREM TypeCorrect == Spec => []TypeOK
  <1>1. IInv => TypeOK
    <2> SUFFICES ASSUME IInv PROVE TypeOK
      OBVIOUS
    <2>1. ASSUME NEW v \in Honest
          PROVE  /\ node[v].mode \in {"down", "recovering", "running", "halted"}
                 /\ node[v].eng.id = v /\ node[v].eng.round \in Rounds
                 /\ node[v].eng.phase \in {"propose", "prevote", "precommit", "finalized"}
                 /\ node[v].blocks \subseteq Blocks /\ node[v].target \in 0 .. MaxHeight
                 /\ LedgerHeight(v) <= MaxHeight /\ disk[v].accused \subseteq Validators
                 /\ node[v].mode # "down" => node[v].eng.height = NextHeight(v)
      <3>1. node[v] \in Nodes /\ disk[v] \in Disks
        BY Own
      <3>2. node[v].eng \in Engines
        BY <3>1 DEF Nodes
      <3>3. node[v].eng.round \in Rounds /\ node[v].eng.phase \in Phases
        BY <3>2 DEF Engines
      <3>4. NodeOK(DurableBy, disk[v], v, node[v]) /\ ChainOK(DurableBy, disk[v])
            /\ NextHeight(v) = Height(disk[v])
        BY Own DEF DiskOK
      <3>5. disk[v].accused \subseteq Validators
        BY <3>1, Basics DEF Disks
      <3>6. node[v].mode \in Modes /\ node[v].blocks \subseteq Blocks
            /\ node[v].target \in 0 .. MaxHeight
        BY <3>1 DEF Nodes
      <3>7. node[v].eng.id = v /\ LedgerHeight(v) <= MaxHeight
        BY <3>4 DEF NodeOK, ChainOK, LedgerHeight
      <3>8. node[v].mode # "down" => node[v].eng.height = NextHeight(v)
        BY <3>4, UpOK
      <3> QED BY <3>3, <3>5, <3>6, <3>7, <3>8 DEF Modes, Phases
    <2>2. ASSUME NEW v \in Honest, NEW m \in Durable(v), m.kind # "proposal"
          PROVE  m \in Signable
      <3>1. m \in DurableBy[v] /\ DurableOK(DurableBy) /\ RowsOK(DurableBy, v, disk[v])
        BY Own DEF Context, DiskOK
      <3>2. m \in VoteMsgs /\ m.validator = v /\ m.round \in Rounds /\ m.height \in Heights
        BY <2>2, <3>1, MsgFields DEF DurableOK, RowsOK
      <3>3. m \in [kind : {"prevote", "precommit"}, height : Heights, round : Rounds,
                   validator : {v}, value : Blocks \cup {Nil}]
        BY <3>2 DEF VoteMsgs, VoteKinds
      <3> QED BY <3>3 DEF Signable
    <2>3. crashes \in 0 .. MaxCrashes
      BY DEF IInv
    <2> QED BY <2>1, <2>2, <2>3 DEF TypeOK
  <1> QED BY <1>1, Invariance, PTL

\* Nothing an honest validator signed reaches the network before it is durable.
THEOREM BroadcastsAreDurable == Spec => []DurableBeforeBroadcast
  <1>1. IInv => DurableBeforeBroadcast
    BY DEF IInv, NetOK, DurableBeforeBroadcast, DurableBy
  <1> QED BY <1>1, Invariance, PTL

\* The engine never asks for a second decision in a durable signer slot.
THEOREM SlotsAreFree == Spec => []NoSlotConflict
  <1>1. IInv => NoSlotConflict
    BY SlotFree DEF NoSlotConflict
  <1> QED BY <1>1, Invariance, PTL

\* Double-signing evidence is only ever recorded against faulty validators.
THEOREM EvidenceIsSound == Spec => []EvidenceOnlyAgainstFaulty
  <1>1. IInv => EvidenceOnlyAgainstFaulty
    BY DEF IInv, Disks, EvidenceOnlyAgainstFaulty
  <1> QED BY <1>1, Invariance, PTL

\* The lock in memory covers every durable block precommit, also after a
\* restart.
THEOREM LocksHold == Spec => []LockCoversPrecommits
  <1>1. IInv => LockCoversPrecommits
    <2> SUFFICES ASSUME IInv, NEW v \in Honest, node[v].mode # "down",
                        NEW m \in Durable(v), m.kind = "precommit",
                        m.height = node[v].eng.height, m.value # Nil
                 PROVE  \/ node[v].eng.lockedRound > m.round
                        \/ node[v].eng.lockedRound = m.round /\ node[v].eng.lockedBlock = m.value
      BY DEF LockCoversPrecommits
    <2>1. NodeOK(DurableBy, disk[v], v, node[v]) /\ m \in DurableBy[v]
          /\ DurableOK(DurableBy)
      BY Own DEF Context
    <2>2. EngineOK(DurableBy, disk[v].stored, v, node[v].eng) /\ node[v].eng \in Engines
      BY <2>1, UpOK
    <2>3. \/ m.round < node[v].eng.lockedRound
          \/ m.round = node[v].eng.lockedRound /\ m.value = node[v].eng.lockedBlock
      BY <2>1, <2>2 DEF EngineOK, LockOK
    <2>4. m.round \in Int /\ node[v].eng.lockedRound \in Int
      BY <2>1, <2>2, Basics DEF DurableOK, Engines
    <2> QED BY <2>3, <2>4
  <1> QED BY <1>1, Invariance, PTL

\* Honest validators only sign blocks that execute, in a round not before the
\* one the block declares.
THEOREM SignedBlocksExecute == Spec => []VotesAreExecutable
  <1>1. IInv => VotesAreExecutable
    <2> SUFFICES ASSUME IInv, NEW v \in Honest, NEW m \in Durable(v), m.value # Nil
                 PROVE  Executable(m.value) /\ m.value.round <= m.round
      BY DEF VotesAreExecutable
    <2>1. m \in DurableBy[v] /\ DurableOK(DurableBy)
      BY Own DEF Context
    <2> QED BY <2>1 DEF DurableOK, Fits
  <1> QED BY <1>1, Invariance, PTL

\* Every finalized block is backed by durable precommits of the honest
\* validators its certificate names.
THEOREM FinalityIsBacked == Spec => []CertificatesAreBacked
  <1>1. IInv => CertificatesAreBacked
    <2> SUFFICES ASSUME IInv, NEW v \in Honest, NEW h \in 1 .. LedgerHeight(v)
                 PROVE  /\ disk[v].chain[h].height = h /\ IsQuorum(disk[v].chain[h].signers)
                        /\ \A w \in disk[v].chain[h].signers \ Faulty :
                              Vote("precommit", h, disk[v].chain[h].round, w,
                                   disk[v].chain[h].value) \in Durable(w)
      BY DEF CertificatesAreBacked
    <2>1. disk[v].chain[h].height = h /\ CertOK(DurableBy, disk[v].chain[h])
      BY DEF IInv, DiskOK, ChainOK, LedgerHeight
    <2>2. \A w \in disk[v].chain[h].signers \ Faulty : w \in Honest /\ DurableBy[w] = Durable(w)
      BY <2>1 DEF CertOK, Backed, Honest, DurableBy
    <2> QED BY <2>1, <2>2 DEF CertOK, Backed
  <1> QED BY <1>1, Invariance, PTL

\* The safety row left by a crash at any point passes the validation of
\* initialize_consensus_recovery, unless the round limit is exhausted.
THEOREM CrashesAreRecoverable == Spec => []AlwaysRecoverable
  <1>1. IInv => AlwaysRecoverable
    <2> SUFFICES ASSUME IInv, NEW v \in Honest, disk[v].safety # None,
                        disk[v].safety.round + 1 < MaxRounds
                 PROVE  Recoverable(v)
      BY DEF AlwaysRecoverable
    <2> DEFINE d == disk[v]
               s == d.safety
               h == NextHeight(v)
               M == MessagesAt(v, h)
               top == Len(d.decisions)
    <2>1. /\ h = Height(d) /\ d \in Disks /\ DurableOK(DurableBy) /\ DurableBy[v] = Durable(v)
          /\ StoreOK(DurableBy, d.stored, v) /\ RowsOK(DurableBy, v, d)
      BY Own DEF Context, DiskOK
    <2>2. /\ s \in SafetyStates /\ s.height = h /\ LockOK(DurableBy, d.stored, v, s)
          /\ \A m \in DurableBy[v] : m.height = h => m.round <= s.round
          /\ d.decisions # <<>> /\ d.decisions[top].msg.height = h
          /\ d.decisions[top].safety = s
      BY <2>1 DEF RowsOK, Disks
    <2>3. \A m \in M : m \in DurableBy[v] /\ m.height = h
      BY <2>1, MessagesAtHeight
    <2>4. \A b : StoredIn(d.stored, h, b) => b \in StoredBlocks(v, h)
      BY DEF StoredIn, StoredBlocks, StoredAt
    <2>5. s.lockedBlock \in StoredBlocks(v, h) \cup {None}
      BY <2>2, <2>4 DEF LockOK
    <2>6. s.validBlock \in StoredBlocks(v, h) \cup {None}
      BY <2>2, <2>4 DEF LockOK
    <2>7. \A p \in StoredAt(v, h) : BlockIsValid(p, StoredBlocks(v, h))
      BY <2>1 DEF StoreOK, StoredAt, StoredBlocks, BlockIsValid, Fits
    <2>8. \E i \in DecisionsAt(v, h) :
             (\A j \in DecisionsAt(v, h) : j <= i) /\ d.decisions[i].safety = s
      <3>1. d.decisions \in Seq(DecisionRows)
        BY <2>1 DEF Disks
      <3>2. DOMAIN d.decisions = 1 .. top /\ top \in Nat \ {0}
        BY <2>2, <3>1
      <3>3. top \in DecisionsAt(v, h) /\ \A j \in DecisionsAt(v, h) : j <= top
        BY <2>2, <3>2 DEF DecisionsAt
      <3> QED BY <2>2, <3>3
    <2>9. \A m \in M : m.kind = "proposal" =>
             \E p \in StoredAt(v, h) : p.round = m.round /\ p.value = m.value
      BY <2>1, <2>3 DEF StoreOK, StoredAt
    <2>10. Restorable(v, h, s, M)
      <3>1. /\ s.lockedRound \in Rounds \cup {NoRound} /\ s.validRound \in Rounds \cup {NoRound}
            /\ s.round \in Rounds
        BY <2>2 DEF SafetyStates
      <3>2. s.lockedRound \in Int /\ s.validRound \in Int /\ s.round \in Nat /\ NoRound < s.round
        BY <3>1, Basics
      <3>3. s.lockedRound <= s.round
        BY <2>2, <3>2, Basics DEF LockOK
      <3>4. IF s.validRound = NoRound THEN s.validProof = {}
            ELSE s.validRound <= s.round /\ IsQuorum(s.validProof)
        BY <2>2 DEF LockOK
      <3>5. s.lockedRound # NoRound =>
               \/ s.validRound > s.lockedRound
               \/ s.validRound = s.lockedRound /\ s.validBlock = s.lockedBlock
        BY <2>2, <3>2 DEF LockOK
      <3>6. ((s.lockedRound = NoRound) <=> (s.lockedBlock = None))
            /\ ((s.validRound = NoRound) <=> (s.validBlock = None))
        BY <2>2 DEF LockOK
      <3>7. \A m \in M : /\ m.validator = v /\ m.height = h /\ m.round <= s.round
                         /\ m.kind = "proposal" => Proposer(h, m.round) = v
        BY <2>1, <2>2, <2>3 DEF DurableOK
      <3>8. \A m1, m2 \in M : SameSlot(m1, m2) => m1 = m2
        BY <2>1, <2>3 DEF DurableOK
      <3> QED BY <2>2, <3>3, <3>4, <3>5, <3>6, <3>7, <3>8 DEF Restorable
    <2> QED BY <2>5, <2>6, <2>7, <2>8, <2>9, <2>10 DEF Recoverable
  <1> QED BY <1>1, Invariance, PTL

\* Only PersistDecision adds rows.
LEMMA OnlyPersistSigns ==
    ASSUME IInv, [Next]_vars, NEW v \in Honest, Durable(v)' # Durable(v)
    PROVE  PersistDecision(v)
  <1>1. SUFFICES ASSUME ~PersistDecision(v) PROVE disk'[v].decisions = disk[v].decisions
    BY DEF Durable, Rows
  <1>2. CASE UNCHANGED vars
    BY <1>2 DEF vars
  <1>3. CASE UNCHANGED disk
    BY <1>3
  <1>4. ASSUME NEW w \in Honest, NodeStep(w) PROVE disk'[v].decisions = disk[v].decisions
    <2>1. disk \in [Honest -> Disks]
      BY DEF IInv
    <2>2. disk[v] \in Disks /\ disk[w] \in Disks
      BY <2>1
    <2>3. CASE PersistProposal(w)
      <3> DEFINE d == Storing(disk[w], Effect(w).msg)
      <3>1. d.decisions = disk[w].decisions
        BY <2>2 DEF Storing, Disks
      <3>2. disk' = disk \/ disk' = [disk EXCEPT ![w] = d]
        BY <2>3 DEF PersistProposal, Storing
      <3> HIDE DEF d
      <3> QED BY <2>1, <3>1, <3>2
    <2>4. CASE PersistDecision(w)
      BY <1>1, <2>1, <2>4 DEF PersistDecision
    <2>5. CASE RecordEvidence(w)
      BY <2>1, <2>2, <2>5 DEF RecordEvidence, Disks
    <2>6. CASE CommitFinalized(w)
      <3> DEFINE d == Commit(disk[w], Effect(w).certificate)
      <3>1. d.decisions = disk[w].decisions
        BY <2>2 DEF Commit, Disks
      <3>2. disk' = disk \/ disk' = [disk EXCEPT ![w] = d]
        BY <2>6 DEF CommitFinalized
      <3> HIDE DEF d
      <3> QED BY <2>1, <3>1, <3>2
    <2>7. CASE \/ RunEvent(w) \/ Resumed(w)
               \/ \E stamp \in Stamps \ BadStamps : BuildProposal(w, stamp)
               \/ BroadcastMessage(w) \/ ScheduleTimeout(w)
      BY <1>3, <2>7 DEF RunEvent, Resumed, BuildProposal, BroadcastMessage, ScheduleTimeout
    <2> QED BY <1>4, <2>3, <2>4, <2>5, <2>6, <2>7 DEF NodeStep
  <1>5. ASSUME NEW w \in Honest, Command(w) PROVE disk'[v].decisions = disk[v].decisions
    <2>1. disk \in [Honest -> Disks]
      BY DEF IInv
    <2>2. disk[v] \in Disks /\ disk[w] \in Disks
      BY <2>1
    <2>3. ASSUME NEW m, DeliverProposal(w, m) PROVE disk'[v].decisions = disk[v].decisions
      BY <2>1, <2>2, <2>3 DEF DeliverProposal, Disks
    <2>4. ASSUME NEW c, ImportNext(w, c) PROVE disk'[v].decisions = disk[v].decisions
      BY <2>1, <2>2, <2>4 DEF ImportNext, Commit, Disks
    <2>5. CASE \/ Tick(w) \/ \E m : DeliverVote(w, m)
               \/ \E i : TimerFires(w, i)
               \/ \E c : BeginSync(w, c) \/ HaltOnConflict(w, c)
      BY <1>3, <2>5 DEF Tick, DeliverVote, TimerFires, BeginSync, HaltOnConflict
    <2> QED BY <1>5, <2>3, <2>4, <2>5 DEF Command
  <1>6. ASSUME NEW w \in Honest, Crash(w) \/ RestartFresh(w) \/ RestartInterrupted(w)
        PROVE  disk'[v].decisions = disk[v].decisions
    BY <1>3, <1>6 DEF Crash, RestartFresh, RestartInterrupted
  <1> QED BY <1>2, <1>4, <1>5, <1>6 DEF Next

\* A node signs nothing for a finalized height, while it synchronizes or once
\* it has halted.
THEOREM SigningDiscipline == Spec => SignsOnlyNextHeight
  <1> DEFINE Signs1 == \A v \in Honest : \A m \in Durable(v)' \ Durable(v) :
                 /\ m.height = NextHeight(v)
                 /\ node[v].target = 0 /\ node[v].mode # "halted"
  <1>1. IInv /\ [Next]_vars => Signs1
    <2> SUFFICES ASSUME IInv, [Next]_vars, NEW v \in Honest, NEW m \in Durable(v)' \ Durable(v)
                 PROVE  /\ m.height = NextHeight(v)
                        /\ node[v].target = 0 /\ node[v].mode # "halted"
      OBVIOUS
    <2>1. PersistDecision(v)
      BY OnlyPersistSigns
    <2> DEFINE x == Effect(v)
               row == [msg |-> x.msg, safety |-> x.safety]
    <2>2. Performs(v, "persist")
      BY <2>1 DEF PersistDecision
    <2>3. /\ node[v].target = 0 /\ node[v].mode \in {"running", "recovering"}
          /\ EngineAt(DurableBy, disk[v], v, node[v].eng)
          /\ DecisionOK(DurableBy, v, node[v].eng, x.msg)
          /\ x \in Effects /\ x.type = "persist"
      BY <2>2, Performing DEF EffectOK
    <2>4. x.msg.height = NextHeight(v)
      BY <2>3, Own DEF EngineAt, DecisionOK
    <2>5. m = x.msg
      <3>1. \/ disk' = disk
            \/ disk' = [disk EXCEPT ![v] = WithRow(disk[v], row, x.safety)]
        BY <2>1 DEF PersistDecision, WithRow
      <3>2. row \in DecisionRows /\ x.safety \in SafetyStates /\ row.msg = x.msg
        BY <2>3, EffectFields DEF DecisionRows
      <3>3. disk[v] \in Disks
        BY Own
      <3> HIDE DEF row, x
      <3>4. RowMsgs(WithRow(disk[v], row, x.safety)) = RowMsgs(disk[v]) \cup {x.msg}
        BY <3>2, <3>3, AppendRow
      <3>5. disk' # disk
        BY DEF Durable, Rows
      <3>6. disk'[v] = WithRow(disk[v], row, x.safety)
        BY <3>1, <3>5 DEF IInv
      <3>7. Durable(v)' = RowMsgs(disk'[v]) /\ Durable(v) = RowMsgs(disk[v])
        BY DurableRows DEF Durable, Rows
      <3> QED BY <3>4, <3>6, <3>7
    <2> QED BY <2>3, <2>4, <2>5
  <1>2. IInv /\ [Next]_vars => [Signs1]_vars
    BY <1>1
  <1> HIDE DEF Signs1
  <1>3. Spec => [][Signs1]_vars
    BY <1>2, Invariance, PTL DEF Spec
  <1> QED BY <1>3 DEF SignsOnlyNextHeight, Signs1

-------------------------------------------------------------------------------
(* The nodes implement the voting rules, and so their chains agree, for any    *)
(* number of validators of which fewer than a third are faulty, and for any    *)
(* number of heights, rounds and crashes.  Module Voting is instantiated with  *)
(* the votes on the honest validators' disks: by the inductive invariant a new *)
(* row is a proposal, which the voting rules do not see, or a vote they allow. *)

VP == INSTANCE VotingProofs WITH votes <- DurableVotes

-------------------------------------------------------------------------------
(* Durable votes *)

\* The durable votes of w are those of the table that name w.
LEMMA DurableVoteOf ==
    ASSUME IInv, NEW w \in Honest, NEW m, m.kind # "proposal", m.validator = w
    PROVE  m \in DurableVotes <=> m \in DurableBy[w]
  <1>1. \A v \in Honest : DurableBy[v] = Durable(v) /\ \A x \in Durable(v) : x.validator = v
    BY DEF IInv, DurableOK, DurableBy
  <1> QED BY <1>1 DEF DurableVotes

\* Their fields.
LEMMA DurableVoteFields ==
    ASSUME IInv, NEW m \in DurableVotes
    PROVE  /\ m.kind \in VoteKinds /\ m.validator \in Honest /\ m.height \in Heights
           /\ m.round \in Rounds /\ m.value \in Blocks \cup {Nil}
           /\ m \in DurableBy[m.validator] /\ m \in VoteMsgs
  <1>1. PICK v \in Honest : m \in Durable(v) /\ m.kind # "proposal"
    BY DEF DurableVotes
  <1>2. m \in DurableBy[v] /\ DurableOK(DurableBy) /\ RowsOK(DurableBy, v, disk[v])
    BY <1>1, Own DEF Context, DiskOK
  <1>3. m \in VoteMsgs /\ m.validator = v /\ m.round \in Rounds /\ m.height \in Heights
    BY <1>1, <1>2, MsgFields DEF DurableOK, RowsOK
  <1> QED BY <1>2, <1>3 DEF VoteMsgs

\* v adds a vote of its own to an open slot, as the voting rules demand.
CastsVote(v, k, h, r, x) ==
    /\ DurableVotes' = DurableVotes \cup {Vote(k, h, r, v, x)}
    /\ \A y \in DurableVotes : y.validator = v /\ y.height = h =>
          \/ y.round < r
          \/ y.round = r /\ y.kind = "prevote" /\ k = "precommit"
    /\ x # Nil => /\ k = "prevote" => LockLets(DurableBy, v, h, r, x)
                  /\ k = "precommit" => PolcIn(DurableBy, h, r, x)

\* The rows after v has persisted m.
LEMMA PersistAdds ==
    ASSUME IInv, NEW v \in Honest, PersistDecision(v)
    PROVE  /\ Durable(v)' = Durable(v) \cup {Effect(v).msg}
           /\ \A w \in Honest \ {v} : Durable(w)' = Durable(w)
  <1> DEFINE x == Effect(v)
             row == [msg |-> x.msg, safety |-> x.safety]
             c == WithRow(disk[v], row, x.safety)
  <1>1. Performs(v, "persist")
    BY DEF PersistDecision
  <1>2. {r \in Rows(v) : SameSlot(r.msg, x.msg)} = {}
    BY <1>1, SlotFree
  <1>3. disk' = [disk EXCEPT ![v] = c]
    BY <1>2, Own DEF PersistDecision, WithRow
  <1>4. x \in Effects /\ x.type = "persist" /\ disk[v] \in Disks
    BY <1>1, Performing, Own
  <1>5. row \in DecisionRows /\ x.safety \in SafetyStates /\ row.msg = x.msg
    BY <1>4, EffectFields DEF DecisionRows
  <1> HIDE DEF row, x
  <1>6. RowMsgs(c) = RowMsgs(disk[v]) \cup {x.msg}
    BY <1>4, <1>5, AppendRow
  <1> HIDE DEF c
  <1>7. disk'[v] = c /\ \A w \in Honest \ {v} : disk'[w] = disk[w]
    BY <1>3 DEF IInv
  <1>8. \A w \in Honest : Durable(w)' = RowMsgs(disk'[w]) /\ Durable(w) = RowMsgs(disk[w])
    BY DurableRows DEF Durable, Rows
  <1> QED BY <1>6, <1>7, <1>8 DEF x

\* A step of the nodes leaves the durable votes alone, or casts one vote.
LEMMA StepCasts ==
    ASSUME IInv, [Next]_vars, DurableVotes' # DurableVotes
    PROVE  \E v \in Honest, k \in VoteKinds, h \in Heights, r \in Rounds, x \in Blocks \cup {Nil} :
              CastsVote(v, k, h, r, x)
  <1>1. PICK v \in Honest : Durable(v)' # Durable(v)
    BY DEF DurableVotes
  <1>2. PersistDecision(v)
    BY <1>1, OnlyPersistSigns
  <1> DEFINE m == Effect(v).msg
             e == node[v].eng
  <1>3. Performs(v, "persist")
    BY <1>2 DEF PersistDecision
  <1>4. /\ DecisionOK(DurableBy, v, e, m) /\ EngineOK(DurableBy, disk[v].stored, v, e)
        /\ m \in Msgs /\ e \in Engines /\ e.height = Height(disk[v]) /\ e.height <= MaxHeight
        /\ Height(disk[v]) \in Nat \ {0}
    BY <1>3, Performing, EffectFields, Own DEF EffectOK, EngineAt
  <1>5. /\ Durable(v)' = Durable(v) \cup {m}
        /\ \A w \in Honest \ {v} : Durable(w)' = Durable(w)
    BY <1>2, PersistAdds
  <1> HIDE DEF m, e
  <1>6. m.kind # "proposal"
    BY <1>5 DEF DurableVotes
  <1>7. DurableVotes' = DurableVotes \cup {m}
    BY <1>5, <1>6 DEF DurableVotes
  <1>8. /\ m \in VoteMsgs /\ m.validator = v /\ m.height = e.height /\ m.round = e.round
        /\ m.kind \in VoteKinds /\ m.value \in Blocks \cup {Nil}
        /\ m.height \in Heights /\ m.round \in Rounds
    BY <1>4, <1>6, MsgFields DEF DecisionOK, VoteMsgs, Engines, Heights
  <1>9. m = Vote(m.kind, m.height, m.round, v, m.value)
    BY <1>8 DEF VoteMsgs, Vote
  <1>10. ASSUME NEW y \in DurableVotes, y.validator = v, y.height = m.height
         PROVE  \/ y.round < m.round
                \/ y.round = m.round /\ y.kind = "prevote" /\ m.kind = "precommit"
    <2>1. y \in DurableBy[v] /\ y.kind \in VoteKinds
      BY <1>10, DurableVoteFields
    <2>2. y.round < e.round \/ y.round = e.round
      BY <1>4, <1>8, <1>10, <2>1 DEF EngineOK, SlotsOK
    <2>3. ASSUME y.round = e.round PROVE y.kind = "prevote" /\ m.kind = "precommit"
      <3>1. ~SameSlot(y, m) /\ (m.kind = "prevote" => y.kind = "proposal")
        BY <1>4, <1>8, <1>10, <2>1, <2>3 DEF DecisionOK
      <3> QED BY <1>8, <1>10, <2>1, <2>3, <3>1 DEF SameSlot, VoteKinds
    <2> QED BY <1>8, <2>2, <2>3
  <1>11. m.value # Nil =>
            /\ m.kind = "prevote" => LockLets(DurableBy, v, m.height, m.round, m.value)
            /\ m.kind = "precommit" => PolcIn(DurableBy, m.height, m.round, m.value)
    BY <1>4, <1>8 DEF DecisionOK
  <1>12. CastsVote(v, m.kind, m.height, m.round, m.value)
    BY <1>7, <1>9, <1>10, <1>11 DEF CastsVote
  <1> QED BY <1>8, <1>12

-------------------------------------------------------------------------------
(* The voting rules *)

\* Quorums are the same in both instances of module Voting.
LEMMA SameQuorums ==
    ASSUME NEW Q
    PROVE  (V!IsQuorum(Q) <=> IsQuorum(Q)) /\ (VP!IsQuorum(Q) <=> IsQuorum(Q))
  <1>1. V!Cardinality(Q) = Cardinality(Q) /\ VP!Cardinality(Q) = Cardinality(Q)
    BY Zenon DEF Cardinality, V!Cardinality, VP!Cardinality
  <1> QED BY <1>1, Zenon DEF IsQuorum, QuorumSize, V!IsQuorum, V!QuorumSize,
                             VP!IsQuorum, VP!QuorumSize

\* Both instances see the quorums of durable votes.
LEMMA SameSigners ==
    ASSUME IInv, NEW k \in VoteKinds, NEW h, NEW r, NEW b
    PROVE  /\ V!Signers(k, h, r, b)
                 = Faulty \cup {w \in Honest : Vote(k, h, r, w, b) \in DurableBy[w]}
           /\ VP!Signers(k, h, r, b)
                 = Faulty \cup {w \in Honest : Vote(k, h, r, w, b) \in DurableBy[w]}
  <1>1. ASSUME NEW w \in Honest
        PROVE  Vote(k, h, r, w, b) \in DurableVotes <=> Vote(k, h, r, w, b) \in DurableBy[w]
    <2>1. Vote(k, h, r, w, b).kind # "proposal" /\ Vote(k, h, r, w, b).validator = w
      BY DEF Vote, VoteKinds
    <2> QED BY <2>1, DurableVoteOf
  <1>2. V!Honest = Honest /\ VP!Honest = Honest
    BY DEF Honest, Validators, V!Honest, V!Validators, VP!Honest, VP!Validators
  <1>3. \A w : /\ V!Vote(k, h, r, w, b) = Vote(k, h, r, w, b)
               /\ VP!Vote(k, h, r, w, b) = Vote(k, h, r, w, b)
    BY DEF Vote, V!Vote, VP!Vote
  <1> QED BY <1>1, <1>2, <1>3 DEF V!Signers, VP!Signers

\* A proof-of-lock of module Voting is one of durable prevotes.
LEMMA SamePolc ==
    ASSUME IInv, NEW h, NEW r, NEW b
    PROVE  /\ V!Polc(h, r, b) <=> PolcIn(DurableBy, h, r, b)
           /\ VP!Polc(h, r, b) <=> PolcIn(DurableBy, h, r, b)
  <1>1. "prevote" \in VoteKinds
    BY DEF VoteKinds
  <1> QED BY <1>1, SameSigners, SameQuorums DEF V!Polc, VP!Polc, PolcIn

\* Both instances have the same constants.
LEMMA SameConstants ==
    /\ V!Honest = Honest /\ VP!Honest = Honest
    /\ V!Rounds = Rounds /\ VP!Rounds = Rounds
  BY DEF Honest, Validators, V!Honest, V!Validators, VP!Honest, VP!Validators,
         Rounds, V!Rounds, VP!Rounds

\* What the lock of a node lets it prevote, the voting rules let it prevote.
LEMMA LockLetsAllows ==
    ASSUME IInv, NEW v \in Honest, NEW h \in Heights, NEW r \in Rounds, NEW b \in Blocks,
           LockLets(DurableBy, v, h, r, b)
    PROVE  V!LockAllows(v, h, r, b) /\ VP!LockAllows(v, h, r, b)
  <1>1. ASSUME NEW x \in DurableVotes, x.validator = v, x.height = h,
               x.kind = "precommit", x.value # Nil, x.value # b
        PROVE  \E vr \in Rounds : x.round < vr /\ vr < r /\ PolcIn(DurableBy, h, vr, b)
    BY <1>1, DurableVoteFields DEF LockLets
  <1>2. V!LockAllows(v, h, r, b)
    BY <1>1, SamePolc, SameConstants DEF V!LockAllows, V!Locks
  <1>3. VP!LockAllows(v, h, r, b)
    BY <1>1, SamePolc, SameConstants DEF VP!LockAllows, VP!Locks
  <1> QED BY <1>2, <1>3

\* Casting a vote is a step of the voting rules.
LEMMA CastsNext ==
    ASSUME IInv, NEW v \in Honest, NEW k \in VoteKinds, NEW h \in Heights, NEW r \in Rounds,
           NEW x \in Blocks \cup {Nil}, CastsVote(v, k, h, r, x)
    PROVE  V!Next /\ VP!Next
  <1>1. DurableVotes' = DurableVotes \cup {Vote(k, h, r, v, x)}
    BY DEF CastsVote
  <1>2. V!Cast(k, h, r, v, x) /\ VP!Cast(k, h, r, v, x)
    BY <1>1 DEF V!Cast, V!Vote, VP!Cast, VP!Vote, Vote
  <1>3. V!SlotOpen(v, k, h, r) /\ VP!SlotOpen(v, k, h, r)
    BY DEF CastsVote, V!SlotOpen, VP!SlotOpen
  <1>4. CASE x = Nil
    <2>1. k = "prevote" \/ k = "precommit"
      BY DEF VoteKinds
    <2>2. \/ V!PrevoteNil(v, h, r) /\ VP!PrevoteNil(v, h, r)
          \/ V!PrecommitNil(v, h, r) /\ VP!PrecommitNil(v, h, r)
      BY <1>2, <1>3, <1>4, <2>1
         DEF V!PrevoteNil, VP!PrevoteNil, V!PrecommitNil, VP!PrecommitNil
    <2> QED BY <2>2, SameConstants DEF V!Next, VP!Next
  <1>5. CASE x # Nil /\ k = "prevote"
    <2>1. x \in Blocks /\ LockLets(DurableBy, v, h, r, x)
      BY <1>5 DEF CastsVote
    <2>2. V!Prevote(v, h, r, x) /\ VP!Prevote(v, h, r, x)
      BY <1>2, <1>3, <1>5, <2>1, LockLetsAllows DEF V!Prevote, VP!Prevote
    <2> QED BY <2>1, <2>2, SameConstants DEF V!Next, VP!Next
  <1>6. CASE x # Nil /\ k = "precommit"
    <2>1. x \in Blocks /\ PolcIn(DurableBy, h, r, x)
      BY <1>6 DEF CastsVote
    <2>2. V!Precommit(v, h, r, x) /\ VP!Precommit(v, h, r, x)
      BY <1>2, <1>3, <1>6, <2>1, SamePolc DEF V!Precommit, VP!Precommit
    <2> QED BY <2>1, <2>2, SameConstants DEF V!Next, VP!Next
  <1> QED BY <1>4, <1>5, <1>6 DEF VoteKinds

\* Every step of the nodes is a step of the voting rules, or none.
LEMMA StepIsVotingStep ==
    ASSUME IInv, [Next]_vars
    PROVE  [V!Next]_DurableVotes /\ [VP!Next]_DurableVotes
  BY StepCasts, CastsNext

\* No vote is durable before the nodes start.
LEMMA NoVotesAtFirst == ASSUME Init PROVE V!Init /\ VP!Init
  <1>1. \A v \in Honest : Durable(v) = {}
    BY DEF Init, Durable, Rows, EmptyDisk
  <1> QED BY <1>1 DEF V!Init, VP!Init, DurableVotes

\* ImplementsVoting: the votes on the honest validators' disks follow the
\* voting rules of module Voting, through crashes, restarts, lost and reordered
\* messages, whatever the faulty validators sign.
THEOREM NodesImplementVoting == Spec => ImplementsVoting
  <1>1. Init => V!Init
    BY NoVotesAtFirst
  <1>2. IInv /\ [Next]_vars => [V!Next]_DurableVotes
    BY StepIsVotingStep
  <1> QED BY <1>1, <1>2, Invariance, PTL DEF Spec, V!Spec, ImplementsVoting

-------------------------------------------------------------------------------
(* The chains *)

\* The threat model's bound is the same in both modules.
LEMMA SameFaulty == FewFaulty => VP!FewFaulty
  <1>1. VP!Cardinality(Faulty) = Cardinality(Faulty)
    BY Zenon DEF Cardinality, VP!Cardinality
  <1> QED BY <1>1, Zenon DEF FewFaulty, VP!FewFaulty

\* The voting rules' invariant holds of the durable votes.
LEMMA VotingInvariantHolds ==
    ASSUME FewFaulty PROVE Spec => []VP!IInv
  <1>1. VP!FewFaulty
    BY SameFaulty
  <1>2. Init => VP!IInv
    BY <1>1, NoVotesAtFirst, VP!InitIInv, NAssumption, FaultyAssumption,
       OptionAssumption, EngineAssumption
  <1>3. IInv /\ VP!IInv /\ [Next]_vars => VP!IInv'
    BY <1>1, StepIsVotingStep, VP!NextIInv, NAssumption, FaultyAssumption,
       OptionAssumption, EngineAssumption
  <1> QED BY <1>2, <1>3, Invariance, PTL DEF Spec

\* A backed certificate is one of module Voting.
LEMMA CertCommits ==
    ASSUME IInv, NEW c \in Certs, CertOK(DurableBy, c), c.height \in Heights
    PROVE  c.value \in VP!Decided(c.height)
  <1> DEFINE Q == Faulty \cup {w \in Honest :
                     Vote("precommit", c.height, c.round, w, c.value) \in DurableBy[w]}
  <1>1. c.round \in Rounds /\ c.value \in Blocks /\ c.signers \in SUBSET Validators
    BY DEF Certs
  <1>2. c.signers \subseteq Q /\ Q \in SUBSET Validators
    BY <1>1, FaultyAssumption DEF CertOK, Backed, Honest, Validators
  <1>3. VP!Signers("precommit", c.height, c.round, c.value) = Q
    BY SameSigners DEF VoteKinds
  <1> HIDE DEF Q
  <1>4. IsQuorum(Q)
    BY <1>1, <1>2, QuorumMonotone DEF CertOK
  <1>5. VP!Committed(c.height, c.round, c.value)
    BY <1>3, <1>4, SameQuorums DEF VP!Committed
  <1> QED BY <1>1, <1>5, SameConstants DEF VP!Decided

\* ChainsAgree: with fewer than a third of the validators faulty, two nodes
\* never hold different blocks at the same height, however often they crash.
THEOREM NodesAgree == ASSUME FewFaulty PROVE Spec => []ChainsAgree
  <1>1. IInv /\ VP!IInv => ChainsAgree
    <2> SUFFICES ASSUME IInv, VP!IInv, NEW v \in Honest, NEW w \in Honest,
                        NEW h \in 1 .. LedgerHeight(v), h <= LedgerHeight(w)
                 PROVE  disk[v].chain[h].value = disk[w].chain[h].value
      BY DEF ChainsAgree
    <2>1. VP!Agreement
      BY SameFaulty, VP!IInvAgreement, NAssumption, FaultyAssumption,
         OptionAssumption, EngineAssumption
    <2>2. ASSUME NEW u \in Honest, NEW g \in Nat, 1 <= g, g <= LedgerHeight(u)
          PROVE  g \in Heights /\ disk[u].chain[g].value \in VP!Decided(g)
      <3>1. disk[u] \in Disks /\ ChainOK(DurableBy, disk[u])
        BY Own DEF DiskOK
      <3>2. disk[u].chain \in Seq(Certs) /\ g \in 1 .. Len(disk[u].chain)
        BY <2>2, <3>1 DEF Disks, LedgerHeight
      <3> DEFINE c == disk[u].chain[g]
      <3>3. c \in Certs
        BY <3>2
      <3>4. CertOK(DurableBy, c) /\ c.height = g /\ Len(disk[u].chain) <= MaxHeight
        BY <3>1, <3>2 DEF ChainOK
      <3>5. g \in Heights
        BY <3>2, <3>4, ConsensusAssumption DEF Heights
      <3> HIDE DEF c
      <3>6. c.value \in VP!Decided(c.height)
        BY <3>3, <3>4, <3>5, CertCommits
      <3> QED BY <3>4, <3>5, <3>6 DEF c
    <2>3. h \in Nat /\ 1 <= h /\ h <= LedgerHeight(v)
      <3>1. LedgerHeight(v) \in Nat
        BY Own DEF LedgerHeight, Disks
      <3> QED BY <3>1
    <2>4. h \in Heights /\ disk[v].chain[h].value \in VP!Decided(h)
      BY <2>2, <2>3
    <2>5. disk[w].chain[h].value \in VP!Decided(h)
      BY <2>2, <2>3
    <2> QED BY <2>1, <2>4, <2>5 DEF VP!Agreement
  <1> QED BY <1>1, Invariance, VotingInvariantHolds, PTL

-------------------------------------------------------------------------------
(* A proposer backs what it proposes *)

\* The proposals for the current round of e among the messages M.
OwnAt(M, e) == {p \in M : p.kind = "proposal" /\ p.height = e.height /\ p.round = e.round}

\* The engine has entered its round as the proposer and seen no proposal in it.
Awaits(e) ==
    /\ e.started /\ e.finalized = None /\ e.phase = "propose" /\ e.validRound < e.round
    /\ \A p \in e.proposals : p.round # e.round

\* The lock lets the engine prevote b, if it is proposed.
Backs(n, b) ==
    /\ b \in n.blocks /\ Fits(b, n.eng.round)
    /\ n.eng.lockedBlock = None \/ b = n.eng.validBlock

\* The engine accepts its own proposal p, and prevotes it.
Confirms(n, p) ==
    /\ Awaits(n.eng) /\ p \in n.eng.pending /\ p.round = n.eng.round
    /\ ProposalIsValid(n.eng, p, n.blocks) /\ PrevoteFor(n.eng, p) = p.value

\* The node holds the bytes of what its engine may propose again.
HeldOK(n) ==
    /\ \A p \in n.eng.proposals : p.value \in n.blocks
    /\ n.eng.validBlock \in n.blocks \cup {None}
    /\ ~n.eng.started => n.eng.finalized = None

\* The own proposal goes from request to confirmation with nothing in between:
\* asked for, ready, decided, signed.
AskedFor(n) ==
    \A i \in 1 .. Len(n.effects) : n.effects[i].type = "request" =>
        /\ i = Len(n.effects) /\ n.events = <<>> /\ Awaits(n.eng)
        /\ n.effects[i].validBlock = n.eng.validBlock
        /\ \A j \in 1 .. i - 1 : n.effects[j].type = "schedule"

ReadyOK(n) ==
    \A i \in 1 .. Len(n.events) : n.events[i].type = "ready" =>
        /\ Len(n.events) = 1 /\ n.effects = <<>> /\ Awaits(n.eng)
        /\ n.events[i].height = n.eng.height /\ n.events[i].round = n.eng.round
        /\ Backs(n, n.events[i].block)

DecidedOK(n) ==
    \A i \in 1 .. Len(n.effects) :
        n.effects[i].type = "persist" /\ n.effects[i].msg.kind = "proposal" =>
            Len(n.effects) = 1 /\ n.events = <<>> /\ Confirms(n, n.effects[i].msg)

SignedOK(n, M) ==
    n.eng.phase = "propose" => \A p \in OwnAt(M, n.eng) :
        /\ n.effects = <<>> /\ n.events = <<[type |-> "persisted", msg |-> p]>>
        /\ Confirms(n, p)

\* A prevote under way is for the proposal signed in its round.
PrevotesOK(n, M) ==
    \A i \in 1 .. Len(n.effects) :
        n.effects[i].type = "persist" /\ n.effects[i].msg.kind = "prevote" =>
            \A p \in OwnAt(M, n.eng) : n.effects[i].msg.value = p.value

PathOK(n, M) ==
    n.mode # "down" =>
        /\ HeldOK(n) /\ AskedFor(n) /\ ReadyOK(n) /\ DecidedOK(n)
        /\ SignedOK(n, M) /\ PrevotesOK(n, M)

\* The prevotes among M are for the proposals among M.
BacksOwn(M) ==
    \A p, m \in M :
        /\ p.kind = "proposal" /\ m.kind = "prevote"
        /\ p.height = m.height /\ p.round = m.round
        => m.value = p.value

OwnInv == \A v \in Honest : BacksOwn(Durable(v)) /\ PathOK(node[v], Durable(v))

-------------------------------------------------------------------------------
(* What a step decides and asks for *)

\* No proposal is asked for or decided, and prevotes are for the values in X.
Minor(x, X) ==
    /\ x.type # "request"
    /\ x.type = "persist" =>
          /\ x.msg.kind # "proposal"
          /\ x.msg.kind = "prevote" => x.msg.value \in X

Tame(fx, X) == \A i \in 1 .. Len(fx) : Minor(fx[i], X)

EngineFields ==
    {"id", "height", "round", "phase", "started", "finalized", "lockedRound", "lockedBlock",
     "validRound", "validBlock", "validProof", "proposals", "votes", "requested",
     "decisions", "pending"}

Listed(fx) == \E T : fx \in Seq(T)

\* A step under way, whatever it has been through.
Going(s) == DOMAIN s = {"e", "fx", "ok"} /\ DOMAIN s.e = EngineFields /\ Listed(s.fx)

\* The bytes of what the engine may propose again are held.
Holds(e, held) ==
    (\A p \in e.proposals : p.value \in held) /\ e.validBlock \in held \cup {None}

\* In the same round, not back to its beginning, without proposing.
Reaches(s, t, X, held) ==
    /\ Going(t)
    /\ t.e.height = s.e.height /\ t.e.round = s.e.round /\ t.e.started = s.e.started
    /\ t.e.phase = "propose" => s.e.phase = "propose"
    /\ Holds(s.e, held) => Holds(t.e, held)
    /\ Tame(s.fx, X) => Tame(t.fx, X)

\* An effect added to a list comes last.
LEMMA ListedAdd ==
    ASSUME NEW fx, Listed(fx), NEW x
    PROVE  /\ Listed(Append(fx, x)) /\ Len(fx) \in Nat
           /\ Len(Append(fx, x)) = Len(fx) + 1
           /\ \A i \in 1 .. Len(fx) : Append(fx, x)[i] = fx[i]
           /\ Append(fx, x)[Len(fx) + 1] = x
  <1>1. PICK T : fx \in Seq(T)
    BY DEF Listed
  <1> DEFINE U == T \cup {x}
  <1>2. fx \in Seq(U) /\ x \in U
    BY <1>1
  <1> HIDE DEF U
  <1>3. Append(fx, x) \in Seq(U)
    BY <1>2
  <1> QED BY <1>2, <1>3, AddOne DEF Listed

\* A minor effect added to a list of minor effects.
LEMMA TameAdd ==
    ASSUME NEW fx, Listed(fx), NEW x, NEW X, Minor(x, X)
    PROVE  Listed(Append(fx, x)) /\ (Tame(fx, X) => Tame(Append(fx, x), X))
  <1> DEFINE gx == Append(fx, x)
  <1>1. /\ Listed(gx) /\ Len(fx) \in Nat /\ Len(gx) = Len(fx) + 1
        /\ \A i \in 1 .. Len(fx) : gx[i] = fx[i]
        /\ gx[Len(fx) + 1] = x
    BY ListedAdd
  <1> HIDE DEF gx
  <1>2. ASSUME Tame(fx, X), NEW i \in 1 .. Len(gx) PROVE Minor(gx[i], X)
    <2>1. CASE i \in 1 .. Len(fx)
      BY <1>1, <1>2, <2>1 DEF Tame
    <2>2. CASE i = Len(fx) + 1
      BY <1>1, <2>2
    <2> QED BY <1>1, <2>1, <2>2
  <1> QED BY <1>1, <1>2 DEF Tame, gx

\* Two minor effects added.
LEMMA TameAddTwo ==
    ASSUME NEW fx, Listed(fx), NEW x, NEW y, NEW X, Minor(x, X), Minor(y, X)
    PROVE  /\ Listed(fx \o <<x, y>>)
           /\ Tame(fx, X) => Tame(fx \o <<x, y>>, X)
  <1>1. PICK T : fx \in Seq(T)
    BY DEF Listed
  <1> DEFINE U == T \cup {x, y}
  <1>2. fx \in Seq(U) /\ x \in U /\ y \in U
    BY <1>1
  <1> HIDE DEF U
  <1>3. fx \o <<x, y>> = Append(Append(fx, x), y)
    BY <1>2, TwoIsOneAndOne
  <1>4. Listed(Append(fx, x)) /\ (Tame(fx, X) => Tame(Append(fx, x), X))
    BY TameAdd
  <1> DEFINE gx == Append(fx, x)
  <1> HIDE DEF gx
  <1>5. Listed(Append(gx, y)) /\ (Tame(gx, X) => Tame(Append(gx, y), X))
    BY <1>4, TameAdd DEF gx
  <1> QED BY <1>3, <1>4, <1>5 DEF gx

\* What a step reaches from where another left.
LEMMA ReachesMore ==
    ASSUME NEW s, NEW t, NEW u, NEW X, NEW held,
           Reaches(s, t, X, held), Reaches(t, u, X, held)
    PROVE  Reaches(s, u, X, held)
  BY DEF Reaches

\* A step that has done nothing yet.
LEMMA ReachesItself ==
    ASSUME NEW s, Going(s), NEW X, NEW held PROVE Reaches(s, s, X, held)
  BY DEF Reaches

\* What an engine is made of.
LEMMA Fields ==
    ASSUME NEW e \in Engines
    PROVE  DOMAIN e = EngineFields
  BY DEF Engines, EngineFields

\* push_vote.
LEMMA CastVoteReaches ==
    ASSUME NEW s, Going(s), NEW kind \in VoteKinds, NEW x, NEW X, kind = "prevote" => x \in X,
           NEW held, NEW t, t = CastVote(s, kind, x)
    PROVE  /\ Reaches(s, t, X, held)
           /\ (\A d \in s.e.decisions :
                  ~SameSlot(d, Vote(kind, s.e.height, s.e.round, s.e.id, x))) => t.e.phase = kind
  <1> DEFINE e == s.e
             m == Vote(kind, e.height, e.round, e.id, x)
             voted == [e EXCEPT !.decisions = @ \cup {m}, !.pending = @ \cup {m}]
             last == [voted EXCEPT !.phase = kind]
             fx == s.fx \o <<Persist(m, voted), Schedule(voted, kind)>>
  <1>1. CASE \E d \in e.decisions : SameSlot(d, m)
    <2>1. t = s
      BY <1>1 DEF CastVote
    <2> QED BY <1>1, <2>1, ReachesItself
  <1>2. CASE ~(\E d \in e.decisions : SameSlot(d, m))
    <2>1. t = [s EXCEPT !.e = last, !.fx = fx]
      BY <1>2 DEF CastVote
    <2>2. DOMAIN e = EngineFields /\ DOMAIN s = {"e", "fx", "ok"} /\ Listed(s.fx)
      BY DEF Going
    <2>3. /\ DOMAIN voted = EngineFields /\ voted.height = e.height /\ voted.round = e.round
          /\ voted.started = e.started /\ voted.proposals = e.proposals
          /\ voted.validBlock = e.validBlock
      BY <2>2 DEF EngineFields
    <2> DEFINE p == Persist(m, voted)
               c == Schedule(voted, kind)
    <2>4. Minor(p, X) /\ Minor(c, X)
      BY DEF Minor, Persist, Schedule, Vote, VoteKinds
    <2> HIDE DEF voted
    <2>5. /\ DOMAIN last = EngineFields /\ last.height = e.height /\ last.round = e.round
          /\ last.started = e.started /\ last.proposals = e.proposals
          /\ last.validBlock = e.validBlock /\ last.phase = kind
      BY <2>3 DEF EngineFields
    <2> HIDE DEF p, c, last
    <2>6. Listed(s.fx \o <<p, c>>) /\ (Tame(s.fx, X) => Tame(s.fx \o <<p, c>>, X))
      BY <2>2, <2>4, TameAddTwo
    <2>7. Listed(fx) /\ (Tame(s.fx, X) => Tame(fx, X))
      BY <2>6 DEF p, c
    <2> HIDE DEF fx
    <2>8. t.e = last /\ t.fx = fx /\ DOMAIN t = {"e", "fx", "ok"}
      BY <2>1, <2>2
    <2>9. t.e.phase # "propose"
      BY <2>5, <2>8 DEF VoteKinds
    <2> QED BY <2>5, <2>7, <2>8, <2>9 DEF Reaches, Going, Holds
  <1> QED BY <1>1, <1>2

\* accept_polc.
LEMMA AcceptPolcReaches ==
    ASSUME NEW s, Going(s), NEW r, NEW b, NEW X, NEW held, NEW t, t = AcceptPolc(s, r, b)
    PROVE  Reaches(s, t, X, held)
  <1> DEFINE e == s.e
             valid == IF r <= e.round /\ r > e.validRound
                      THEN [e EXCEPT !.validRound = r, !.validBlock = b,
                                     !.validProof = VotersFor(e, r, "prevote", b)]
                      ELSE e
             locked == [valid EXCEPT !.lockedRound = r, !.lockedBlock = b]
  <1>0. DOMAIN e = EngineFields /\ DOMAIN s = {"e", "fx", "ok"} /\ Listed(s.fx)
    BY DEF Going
  <1>1. /\ DOMAIN valid = EngineFields /\ valid.height = e.height /\ valid.round = e.round
        /\ valid.started = e.started /\ valid.proposals = e.proposals
        /\ valid.phase = e.phase /\ valid.validBlock \in {b, e.validBlock}
    BY <1>0 DEF EngineFields
  <1>2. /\ DOMAIN locked = EngineFields /\ locked.height = e.height /\ locked.round = e.round
        /\ locked.started = e.started /\ locked.proposals = e.proposals
        /\ locked.phase = e.phase /\ locked.validBlock \in {b, e.validBlock}
    <2> HIDE DEF valid
    <2> QED BY <1>1 DEF EngineFields
  <1>3. t = IF ~HasProposal(e, r, b) THEN s
            ELSE IF r = e.round /\ e.phase = "prevote"
            THEN CastVote([s EXCEPT !.e = locked], "precommit", b)
            ELSE [s EXCEPT !.e = valid]
    BY DEF AcceptPolc
  <1> HIDE DEF valid, locked
  <1>4. CASE ~HasProposal(e, r, b)
    BY <1>3, <1>4, ReachesItself
  <1>5. HasProposal(e, r, b) /\ Holds(e, held) => b \in held
    BY DEF HasProposal, Holds
  <1>6. CASE HasProposal(e, r, b) /\ r = e.round /\ e.phase = "prevote"
    <2> DEFINE u == [s EXCEPT !.e = locked]
    <2>1. u.e = locked /\ u.fx = s.fx /\ DOMAIN u = {"e", "fx", "ok"}
      BY <1>0
    <2>2. t = CastVote(u, "precommit", b)
      BY <1>3, <1>6
    <2> HIDE DEF u
    <2>3. Reaches(s, u, X, held)
      BY <1>0, <1>2, <1>5, <1>6, <2>1 DEF Reaches, Going, Holds
    <2>4. Reaches(u, t, X, held)
      <3> DEFINE kind == "precommit"
      <3>1. Going(u) /\ kind \in VoteKinds /\ kind # "prevote"
        BY <2>3 DEF VoteKinds, Reaches
      <3>2. t = CastVote(u, kind, b)
        BY <2>2
      <3> HIDE DEF kind
      <3> QED BY <3>1, <3>2, CastVoteReaches
    <2> QED BY <2>3, <2>4, ReachesMore
  <1>7. CASE HasProposal(e, r, b) /\ ~(r = e.round /\ e.phase = "prevote")
    <2>1. t = [s EXCEPT !.e = valid]
      BY <1>3, <1>7
    <2>2. t.e = valid /\ t.fx = s.fx /\ DOMAIN t = {"e", "fx", "ok"}
      BY <1>0, <2>1
    <2>3. Holds(e, held) => Holds(t.e, held)
      BY <1>1, <1>5, <1>7, <2>2 DEF Holds
    <2> QED BY <1>0, <1>1, <2>2, <2>3 DEF Reaches, Going
  <1> QED BY <1>4, <1>6, <1>7

\* evaluate_prevotes.
LEMMA EvaluatePrevotesReaches ==
    ASSUME NEW s, Going(s), NEW r, NEW X, NEW held, NEW t, t = EvaluatePrevotes(s, r)
    PROVE  Reaches(s, t, X, held)
  <1> DEFINE polc == QuorumBlocks(s.e, r, "prevote")
  <1>1. CASE polc # {}
    <2>1. t = AcceptPolc(s, r, CHOOSE b \in polc : TRUE)
      BY <1>1 DEF EvaluatePrevotes
    <2> QED BY <2>1, AcceptPolcReaches
  <1>2. CASE polc = {} /\ r = s.e.round /\ s.e.phase = "prevote" /\ HasQuorum(s.e, r, "prevote", Nil)
    <2>1. t = CastVote(s, "precommit", Nil)
      BY <1>2 DEF EvaluatePrevotes
    <2> QED BY <2>1, CastVoteReaches DEF VoteKinds
  <1>3. CASE polc = {} /\ ~(r = s.e.round /\ s.e.phase = "prevote" /\ HasQuorum(s.e, r, "prevote", Nil))
    <2>1. t = s
      BY <1>3 DEF EvaluatePrevotes
    <2> QED BY <2>1, ReachesItself
  <1> QED BY <1>1, <1>2, <1>3

\* evaluate_precommits, also when the certificate is refused.
LEMMA EvaluatePrecommitsReaches ==
    ASSUME NEW s, Going(s), NEW r, NEW X, NEW held, NEW t, t = EvaluatePrecommits(s, r, held)
    PROVE  Reaches(s, t, X, held)
  <1> DEFINE e == s.e
             committed == QuorumBlocks(e, r, "precommit")
             b == CHOOSE c \in committed : TRUE
             x == Finalize(Certificate(e.height, r, b, VotersFor(e, r, "precommit", b)))
             f == [e EXCEPT !.phase = "finalized", !.finalized = b]
  <1>0. DOMAIN e = EngineFields /\ DOMAIN s = {"e", "fx", "ok"} /\ Listed(s.fx)
    BY DEF Going
  <1>1. CASE committed = {}
    BY <1>1, ReachesItself DEF EvaluatePrecommits
  <1>2. CASE committed # {} /\ (b \notin held \/ b.round > r)
    <2>1. t = Failed(e)
      BY <1>2 DEF EvaluatePrecommits
    <2>2. t.e = e /\ t.fx = <<>> /\ DOMAIN t = {"e", "fx", "ok"}
      BY <2>1 DEF Failed
    <2>3. Listed(t.fx) /\ Tame(t.fx, X)
      <3>1. <<>> \in Seq(Nat) /\ Len(<<>>) = 0
        OBVIOUS
      <3> QED BY <2>2, <3>1 DEF Listed, Tame
    <2> QED BY <1>0, <2>2, <2>3 DEF Reaches, Going
  <1>3. CASE committed # {} /\ ~(b \notin held \/ b.round > r)
    <2>1. t = [s EXCEPT !.e = f, !.fx = Append(s.fx, x)]
      BY <1>3 DEF EvaluatePrecommits
    <2>2. /\ DOMAIN f = EngineFields /\ f.height = e.height /\ f.round = e.round
          /\ f.started = e.started /\ f.proposals = e.proposals
          /\ f.validBlock = e.validBlock /\ f.phase = "finalized"
      BY <1>0 DEF EngineFields
    <2>3. Minor(x, X)
      BY DEF Minor, Finalize
    <2> HIDE DEF f, x
    <2>4. Listed(Append(s.fx, x)) /\ (Tame(s.fx, X) => Tame(Append(s.fx, x), X))
      BY <1>0, <2>3, TameAdd
    <2>5. t.e = f /\ t.fx = Append(s.fx, x) /\ DOMAIN t = {"e", "fx", "ok"}
      BY <1>0, <2>1
    <2> QED BY <2>2, <2>4, <2>5 DEF Reaches, Going, Holds
  <1> QED BY <1>1, <1>2, <1>3

\* evaluate_round.
LEMMA EvaluateRoundReaches ==
    ASSUME NEW s, Going(s), NEW r, NEW X, NEW held, NEW t, t = EvaluateRound(s, r, held)
    PROVE  Reaches(s, t, X, held)
  <1> DEFINE u == EvaluatePrevotes(s, r)
  <1>1. Reaches(s, u, X, held)
    BY EvaluatePrevotesReaches
  <1>2. t = EvaluatePrecommits(u, r, held)
    BY DEF EvaluateRound
  <1> HIDE DEF u
  <1>3. Reaches(u, t, X, held)
    BY <1>1, <1>2, EvaluatePrecommitsReaches DEF Reaches
  <1> QED BY <1>1, <1>3, ReachesMore

\* The slot of this round's prevote is free.
Undecided(e) == \A d \in e.decisions : d.round = e.round => d.kind = "proposal"

Current(e) == {p \in e.proposals : p.round = e.round}

\* evaluate_current_round: a proposal that is there is voted on.
LEMMA ActivateReaches ==
    ASSUME NEW s, Going(s), NEW X, NEW held,
           s.e.phase = "propose" => \A p \in Current(s.e) : PrevoteFor(s.e, p) \in X,
           NEW t, t = ActivateCurrentRound(s, held)
    PROVE  /\ Reaches(s, t, X, held)
           /\ Current(s.e) # {} /\ Undecided(s.e) => t.e.phase # "propose"
  <1> DEFINE e == s.e
             current == Current(e)
             x == PrevoteFor(e, CHOOSE p \in current : TRUE)
             voted == IF e.phase = "propose" /\ current # {}
                      THEN CastVote(s, "prevote", x) ELSE s
             kind == "prevote"
  <1>1. t = EvaluateRound(voted, e.round, held)
    BY DEF ActivateCurrentRound, Current
  <1>2. e.phase = "propose" /\ current # {} => x \in X
    <2>1. current # {} => (CHOOSE p \in current : TRUE) \in current
      OBVIOUS
    <2> QED BY <2>1
  <1>3. kind \in VoteKinds
    BY DEF VoteKinds
  <1>4. Undecided(e) => \A d \in e.decisions :
           ~SameSlot(d, Vote(kind, e.height, e.round, e.id, x))
    BY DEF Undecided, SameSlot, Vote
  <1> DEFINE cast == CastVote(s, kind, x)
  <1>5. e.phase = "propose" /\ current # {} =>
           Reaches(s, cast, X, held) /\ (Undecided(e) => cast.e.phase = kind)
    <2> HIDE DEF kind, x
    <2> QED BY <1>2, <1>3, <1>4, CastVoteReaches
  <1>6. /\ e.phase = "propose" /\ current # {} => voted = cast
        /\ ~(e.phase = "propose" /\ current # {}) => voted = s
    OBVIOUS
  <1> HIDE DEF cast, voted, current
  <1>7. Reaches(s, voted, X, held)
    BY <1>5, <1>6, ReachesItself
  <1>8. current # {} /\ Undecided(e) => voted.e.phase # "propose"
    BY <1>5, <1>6
  <1>9. Reaches(voted, t, X, held)
    BY <1>1, <1>7, EvaluateRoundReaches DEF Reaches
  <1>10. Reaches(s, t, X, held)
    BY <1>7, <1>9, ReachesMore
  <1>11. current # {} /\ Undecided(e) => t.e.phase # "propose"
    BY <1>8, <1>9 DEF Reaches
  <1> QED BY <1>10, <1>11 DEF current

\* Evidence decides nothing.
LEMMA EvidenceReaches ==
    ASSUME NEW s, Going(s), NEW w, NEW X, NEW held,
           NEW t, t = [s EXCEPT !.fx = Append(@, Evidence(w))]
    PROVE  Reaches(s, t, X, held)
  <1> DEFINE x == Evidence(w)
  <1>0. DOMAIN s.e = EngineFields /\ DOMAIN s = {"e", "fx", "ok"} /\ Listed(s.fx)
    BY DEF Going
  <1>1. Minor(x, X)
    BY DEF Minor, Evidence
  <1>2. t.e = s.e /\ t.fx = Append(s.fx, x) /\ DOMAIN t = {"e", "fx", "ok"}
    BY <1>0
  <1> HIDE DEF x
  <1>3. Listed(Append(s.fx, x)) /\ (Tame(s.fx, X) => Tame(Append(s.fx, x), X))
    BY <1>0, <1>1, TameAdd
  <1> QED BY <1>0, <1>2, <1>3 DEF Reaches, Going

\* accept_proposal.
LEMMA AcceptProposalReaches ==
    ASSUME NEW s, Going(s), NEW p, NEW held, p.value \in held, NEW X,
           s.e.phase = "propose" /\ p.round = s.e.round => PrevoteFor(s.e, p) \in X,
           NEW t, t = AcceptProposal(s, p, held)
    PROVE  /\ Reaches(s, t, X, held)
           /\ p.round = s.e.round /\ Cacheable(s.e, p.round) /\ Current(s.e) = {} /\ Undecided(s.e)
                 => t.e.phase # "propose"
  <1> DEFINE e == s.e
             first == {q \in e.proposals : q.round = p.round}
             f == [e EXCEPT !.proposals = @ \cup {p}]
             added == [s EXCEPT !.e = f]
  <1>0. DOMAIN e = EngineFields /\ DOMAIN s = {"e", "fx", "ok"} /\ Listed(s.fx)
    BY DEF Going
  <1>1. t = IF ~Cacheable(e, p.round) \/ p \in first THEN s
            ELSE IF first # {} THEN [s EXCEPT !.fx = Append(@, Evidence(p.validator))]
            ELSE IF p.round = e.round THEN ActivateCurrentRound(added, held)
            ELSE added
    BY DEF AcceptProposal
  <1>2. /\ DOMAIN f = EngineFields /\ f.height = e.height /\ f.round = e.round
        /\ f.started = e.started /\ f.proposals = e.proposals \cup {p}
        /\ f.validBlock = e.validBlock /\ f.phase = e.phase
        /\ f.lockedBlock = e.lockedBlock /\ f.lockedRound = e.lockedRound
        /\ f.decisions = e.decisions
    BY <1>0 DEF EngineFields
  <1> HIDE DEF f
  <1>3. added.e = f /\ added.fx = s.fx /\ DOMAIN added = {"e", "fx", "ok"}
    BY <1>0
  <1> HIDE DEF added
  <1>4. Reaches(s, added, X, held)
    BY <1>0, <1>2, <1>3 DEF Reaches, Going, Holds
  <1>5. p.round = e.round => first = Current(e)
    BY DEF Current
  <1>6. CASE ~Cacheable(e, p.round) \/ p \in first
    <2>1. t = s
      BY <1>1, <1>6
    <2> QED BY <1>5, <1>6, <2>1, ReachesItself
  <1>7. CASE ~(~Cacheable(e, p.round) \/ p \in first) /\ first # {}
    <2>1. t = [s EXCEPT !.fx = Append(@, Evidence(p.validator))]
      BY <1>1, <1>7
    <2>2. Reaches(s, t, X, held)
      BY <2>1, EvidenceReaches
    <2> QED BY <1>5, <1>7, <2>2
  <1>8. CASE ~(~Cacheable(e, p.round) \/ p \in first) /\ first = {} /\ p.round = e.round
    <2>1. t = ActivateCurrentRound(added, held)
      BY <1>1, <1>8
    <2>2. Current(added.e) = {p}
      BY <1>2, <1>3, <1>8 DEF Current
    <2>3. Undecided(e) => Undecided(added.e)
      BY <1>2, <1>3 DEF Undecided
    <2>4. PrevoteFor(added.e, p) = PrevoteFor(e, p)
      BY <1>2, <1>3 DEF PrevoteFor
    <2>5. added.e.phase = "propose" => \A q \in Current(added.e) : PrevoteFor(added.e, q) \in X
      BY <1>2, <1>3, <1>8, <2>2, <2>4
    <2>6. /\ Reaches(added, t, X, held)
          /\ Current(added.e) # {} /\ Undecided(added.e) => t.e.phase # "propose"
      BY <1>4, <2>1, <2>5, ActivateReaches DEF Reaches
    <2> QED BY <1>4, <2>2, <2>3, <2>6, ReachesMore
  <1>9. CASE ~(~Cacheable(e, p.round) \/ p \in first) /\ first = {} /\ p.round # e.round
    <2>1. t = added
      BY <1>1, <1>9
    <2> QED BY <1>4, <1>9, <2>1
  <1> QED BY <1>6, <1>7, <1>8, <1>9

\* accept_vote.
LEMMA AcceptVoteReaches ==
    ASSUME NEW s, Going(s), NEW m, NEW held, NEW X, NEW t, t = AcceptVote(s, m, held)
    PROVE  Reaches(s, t, X, held)
  <1> DEFINE e == s.e
             first == {n \in e.votes : SameSlot(n, m)}
             f == [e EXCEPT !.votes = @ \cup {m}]
             added == [s EXCEPT !.e = f]
  <1>0. DOMAIN e = EngineFields /\ DOMAIN s = {"e", "fx", "ok"} /\ Listed(s.fx)
    BY DEF Going
  <1>1. t = IF ~Cacheable(e, m.round) \/ m \in first THEN s
            ELSE IF first # {} THEN [s EXCEPT !.fx = Append(@, Evidence(m.validator))]
            ELSE EvaluateRound(added, m.round, held)
    BY DEF AcceptVote
  <1>2. /\ DOMAIN f = EngineFields /\ f.height = e.height /\ f.round = e.round
        /\ f.started = e.started /\ f.proposals = e.proposals
        /\ f.validBlock = e.validBlock /\ f.phase = e.phase
    BY <1>0 DEF EngineFields
  <1> HIDE DEF f
  <1>3. added.e = f /\ added.fx = s.fx /\ DOMAIN added = {"e", "fx", "ok"}
    BY <1>0
  <1> HIDE DEF added
  <1>4. Reaches(s, added, X, held)
    BY <1>0, <1>2, <1>3 DEF Reaches, Going, Holds
  <1>5. Reaches(added, EvaluateRound(added, m.round, held), X, held)
    BY <1>4, EvaluateRoundReaches DEF Reaches
  <1>6. Reaches(s, EvaluateRound(added, m.round, held), X, held)
    BY <1>4, <1>5, ReachesMore
  <1>7. Reaches(s, [s EXCEPT !.fx = Append(@, Evidence(m.validator))], X, held)
    BY EvidenceReaches
  <1>8. Reaches(s, s, X, held)
    BY ReachesItself
  <1> HIDE DEF first
  <1> QED BY <1>1, <1>6, <1>7, <1>8

-------------------------------------------------------------------------------
(* One step of the engine *)

AllValues == Blocks \cup {Nil}

\* What may be prevoted: anything while nothing is decided in the round.
Votable(e) == IF e.phase = "propose" THEN AllValues ELSE {}

\* A step within the round.
Within(e, t, X, held) ==
    /\ Going(t)
    /\ t.e.height = e.height /\ t.e.round = e.round /\ t.e.started = e.started
    /\ t.e.phase = "propose" => e.phase = "propose"
    /\ Holds(e, held) => Holds(t.e, held)
    /\ Tame(t.fx, X)

\* The proposer asks for its proposal, after setting the round's timer.
Asks(t) ==
    /\ Awaits(t.e) /\ Len(t.fx) = 2
    /\ t.fx[1].type = "schedule"
    /\ t.fx[2].type = "request" /\ t.fx[2].validBlock = t.e.validBlock

\* A step into round r.
Enters(e, t, r, held) ==
    /\ Going(t)
    /\ t.e.height = e.height /\ t.e.round = r /\ t.e.started = e.started
    /\ Holds(e, held) => Holds(t.e, held)
    /\ Tame(t.fx, AllValues) \/ Asks(t)

\* Lists of at most two elements.
LEMMA ShortLists ==
    ASSUME NEW x, NEW y
    PROVE  /\ Listed(<<>>) /\ Len(<<>>) = 0
           /\ Listed(<<x>>) /\ Len(<<x>>) = 1 /\ <<x>>[1] = x
           /\ Listed(Append(<<x>>, y)) /\ Len(Append(<<x>>, y)) = 2
           /\ Append(<<x>>, y)[1] = x /\ Append(<<x>>, y)[2] = y
  <1> DEFINE T == {x, y}
  <1>1. x \in T /\ y \in T
    OBVIOUS
  <1> HIDE DEF T
  <1>2. <<>> \in Seq(T) /\ <<x>> \in Seq(T) /\ Append(<<x>>, y) \in Seq(T)
    BY <1>1
  <1> QED BY <1>1, <1>2 DEF Listed

\* A list of at most one effect.
LEMMA ShortTame ==
    ASSUME NEW x, NEW X
    PROVE  Tame(<<>>, X) /\ (Minor(x, X) => Tame(<<x>>, X))
  BY ShortLists DEF Tame

\* A step that begins with the effects fx.
LEMMA BeginsWithin ==
    ASSUME NEW e, NEW f, NEW held, DOMAIN f = EngineFields, f.height = e.height,
           f.round = e.round, f.started = e.started, f.phase = e.phase,
           Holds(e, held) => Holds(f, held),
           NEW X, NEW fx, Listed(fx), Tame(fx, X),
           NEW s, s = Run(f, fx), NEW t, Reaches(s, t, X, held)
    PROVE  Within(e, t, X, held)
  <1>1. s.e = f /\ s.fx = fx
    BY DEF Run
  <1> QED BY <1>1 DEF Reaches, Within

\* A run has an engine and effects.
LEMMA RunGoes ==
    ASSUME NEW f, DOMAIN f = EngineFields, NEW fx, Listed(fx)
    PROVE  Going(Run(f, fx)) /\ Run(f, fx).e = f /\ Run(f, fx).fx = fx
  BY DEF Going, Run

\* A step that does nothing.
LEMMA NothingWithin ==
    ASSUME NEW e \in Engines, NEW X, NEW held
    PROVE  Within(e, Failed(e), X, held) /\ Within(e, Run(e, <<>>), X, held)
  <1>1. DOMAIN e = EngineFields /\ Listed(<<>>) /\ Tame(<<>>, X)
    BY Fields, ShortLists, ShortTame
  <1>2. Going(Failed(e)) /\ Failed(e).e = e /\ Failed(e).fx = <<>>
    BY <1>1 DEF Going, Failed
  <1>3. Going(Run(e, <<>>)) /\ Run(e, <<>>).e = e /\ Run(e, <<>>).fx = <<>>
    BY <1>1, RunGoes
  <1> QED BY <1>1, <1>2, <1>3 DEF Within

\* PrevoteFor gives the proposed block or nil.
LEMMA PrevoteValue ==
    ASSUME NEW e, NEW p, p.value \in Blocks
    PROVE  PrevoteFor(e, p) \in AllValues /\ (e.phase = "propose" => PrevoteFor(e, p) \in Votable(e))
  BY DEF PrevoteFor, AllValues, Votable

\* A message accepted after the effects fx.
LEMMA AcceptedWithin ==
    ASSUME NEW e \in Engines, NEW f, NEW held, DOMAIN f = EngineFields, f.height = e.height,
           f.round = e.round, f.started = e.started, f.phase = e.phase,
           Holds(e, held) => Holds(f, held),
           NEW fx, Listed(fx), NEW X, Tame(fx, X),
           NEW m \in Msgs, MessageIsValid(e, m, held),
           m.kind = "proposal" /\ f.phase = "propose" /\ m.round = f.round => PrevoteFor(f, m) \in X,
           NEW t, t = AcceptMessage(Run(f, fx), m, held)
    PROVE  /\ Within(e, t, X, held)
           /\ m.kind = "proposal" /\ m.round = e.round /\ Current(f) = {} /\ Undecided(f)
                 => t.e.phase # "propose"
  <1> DEFINE s == Run(f, fx)
  <1>1. Going(s) /\ s.e = f
    BY RunGoes
  <1>2. m.kind = "proposal" => m.value \in held
    BY DEF MessageIsValid, ProposalIsValid, BlockIsValid
  <1>3. Cacheable(f, f.round)
    <2>1. f.round \in Nat
      BY Basics DEF Engines
    <2> QED BY <2>1, CurrentCacheable
  <1>4. t = IF m.kind = "proposal" THEN AcceptProposal(s, m, held) ELSE AcceptVote(s, m, held)
    BY DEF AcceptMessage
  <1>5. s = Run(f, fx)
    OBVIOUS
  <1> HIDE DEF s
  <1>6. ASSUME m.kind = "proposal"
        PROVE  /\ Reaches(s, t, X, held)
               /\ m.round = e.round /\ Current(f) = {} /\ Undecided(f) => t.e.phase # "propose"
    <2>1. t = AcceptProposal(s, m, held)
      BY <1>4, <1>6
    <2>2. s.e.phase = "propose" /\ m.round = s.e.round => PrevoteFor(s.e, m) \in X
      BY <1>1, <1>6
    <2>3. /\ Reaches(s, t, X, held)
          /\ m.round = s.e.round /\ Cacheable(s.e, m.round) /\ Current(s.e) = {} /\ Undecided(s.e)
                => t.e.phase # "propose"
      BY <1>1, <1>2, <1>6, <2>1, <2>2, AcceptProposalReaches
    <2> QED BY <1>1, <1>3, <2>3
  <1>7. m.kind # "proposal" => Reaches(s, t, X, held)
    BY <1>1, <1>4, AcceptVoteReaches
  <1>8. Reaches(s, t, X, held)
    BY <1>6, <1>7
  <1>9. Within(e, t, X, held)
    BY <1>5, <1>8, BeginsWithin
  <1> QED BY <1>6, <1>9

\* A proposal proposes a block.
LEMMA MessageValue ==
    ASSUME NEW m \in Msgs
    PROVE  m.kind = "proposal" => m.value \in Blocks
  BY MsgFields DEF ProposalMsgs

\* accept_message, for a message of another validator.
LEMMA ReceiveWithin ==
    ASSUME NEW e \in Engines, NEW m \in Msgs, NEW held, NEW t, t = ReceiveMessage(e, m, held)
    PROVE  Within(e, t, Votable(e), held)
  <1> DEFINE fx == <<>>
             X == Votable(e)
  <1>1. DOMAIN e = EngineFields /\ Listed(fx) /\ Tame(fx, X)
    BY Fields, ShortLists, ShortTame
  <1>2. CASE MessageIsValid(e, m, held)
    <2>1. t = AcceptMessage(Run(e, fx), m, held)
      BY <1>2 DEF ReceiveMessage
    <2>2. m.kind = "proposal" /\ e.phase = "propose" /\ m.round = e.round => PrevoteFor(e, m) \in X
      BY MessageValue, PrevoteValue
    <2> HIDE DEF fx, X
    <2>3. Within(e, t, X, held)
      BY <1>1, <1>2, <2>1, <2>2, AcceptedWithin
    <2> QED BY <2>3 DEF X
  <1>3. CASE ~MessageIsValid(e, m, held)
    BY <1>3, NothingWithin DEF ReceiveMessage
  <1> QED BY <1>2, <1>3

\* The proposer takes up the proposal it has signed, and its lock accepts it.
OwnProposal(e, p, held) ==
    /\ Awaits(e) /\ Undecided(e)
    /\ p.kind = "proposal" /\ p \in e.pending /\ p.round = e.round
    /\ ProposalIsValid(e, p, held) /\ PrevoteFor(e, p) = p.value

\* local_message_persisted.
LEMMA PersistedWithin ==
    ASSUME NEW e \in Engines, NEW m \in Msgs, NEW held, NEW t, t = Persisted(e, m, held)
    PROVE  /\ Within(e, t, Votable(e), held)
           /\ OwnProposal(e, m, held) => Within(e, t, {m.value}, held) /\ t.e.phase # "propose"
  <1> DEFINE f == [e EXCEPT !.pending = @ \ {m}]
             x == Broadcast(m)
             fx == <<x>>
  <1>1. DOMAIN e = EngineFields
    BY Fields
  <1>2. /\ DOMAIN f = EngineFields /\ f.height = e.height /\ f.round = e.round
        /\ f.started = e.started /\ f.phase = e.phase /\ f.proposals = e.proposals
        /\ f.validBlock = e.validBlock /\ f.decisions = e.decisions
        /\ f.lockedBlock = e.lockedBlock /\ f.lockedRound = e.lockedRound
    BY <1>1 DEF EngineFields
  <1>3. \A X : Minor(x, X)
    BY DEF Minor, Broadcast
  <1>4. t = IF m \notin e.pending \/ ~MessageIsValid(e, m, held) THEN Failed(e)
            ELSE AcceptMessage(Run(f, fx), m, held)
    BY DEF Persisted
  <1> HIDE DEF f, x
  <1>5. Listed(fx) /\ \A X : Tame(fx, X)
    BY <1>3, ShortLists, ShortTame
  <1>6. /\ Holds(e, held) => Holds(f, held)
        /\ PrevoteFor(f, m) = PrevoteFor(e, m)
        /\ Current(f) = Current(e) /\ (Undecided(e) => Undecided(f))
    BY <1>2 DEF Holds, PrevoteFor, Current, Undecided
  <1> HIDE DEF fx
  <1>7. CASE m \notin e.pending \/ ~MessageIsValid(e, m, held)
    <2>1. ~OwnProposal(e, m, held)
      BY <1>7 DEF OwnProposal, MessageIsValid
    <2>2. Within(e, t, Votable(e), held)
      BY <1>4, <1>7, NothingWithin
    <2> QED BY <2>1, <2>2
  <1>8. CASE ~(m \notin e.pending \/ ~MessageIsValid(e, m, held))
    <2>1. t = AcceptMessage(Run(f, fx), m, held) /\ MessageIsValid(e, m, held)
      BY <1>4, <1>8
    <2> DEFINE X == Votable(e)
    <2>2. m.kind = "proposal" /\ f.phase = "propose" /\ m.round = f.round => PrevoteFor(f, m) \in X
      BY <1>2, <1>6, MessageValue, PrevoteValue
    <2> HIDE DEF X
    <2>3. Within(e, t, X, held)
      BY <1>2, <1>5, <1>6, <2>1, <2>2, AcceptedWithin
    <2>4. ASSUME OwnProposal(e, m, held)
          PROVE  Within(e, t, {m.value}, held) /\ t.e.phase # "propose"
      <3> DEFINE Y == {m.value}
      <3>1. PrevoteFor(f, m) \in Y
        BY <1>6, <2>4 DEF OwnProposal
      <3> HIDE DEF Y
      <3>2. m.kind = "proposal" /\ m.round = e.round /\ Current(f) = {} /\ Undecided(f)
        BY <1>6, <2>4 DEF OwnProposal, Awaits, Current
      <3>3. Within(e, t, Y, held) /\ t.e.phase # "propose"
        BY <1>2, <1>5, <1>6, <2>1, <3>1, <3>2, AcceptedWithin
      <3> QED BY <3>3 DEF Y
    <2> QED BY <2>3, <2>4 DEF X
  <1> QED BY <1>7, <1>8

\* enter_round.
LEMMA EnterRoundEnters ==
    ASSUME NEW e \in Engines, e.started, e.finalized = None,
           NEW r \in Nat, e.validRound < r, NEW held, NEW t, t = EnterRound(e, r, held)
    PROVE  t = Failed(e) \/ Enters(e, t, r, held)
  <1> DEFINE f == Entered(e, r)
             x == Schedule(f, "propose")
             y == RequestProposal(f)
             fx == <<x>>
             g == [f EXCEPT !.requested = @ \cup {r}]
  <1>1. DOMAIN e = EngineFields
    BY Fields
  <1>2. /\ DOMAIN f = EngineFields /\ f.height = e.height /\ f.round = r /\ f.phase = "propose"
        /\ f.started = e.started /\ f.validBlock = e.validBlock /\ f.finalized = e.finalized
        /\ f.validRound = e.validRound /\ f.proposals \subseteq e.proposals
    BY <1>1 DEF Entered, PruneCaches, EngineFields
  <1>3. t = IF r >= MaxRounds THEN Failed(e)
            ELSE IF \E p \in f.proposals : p.round = r
            THEN ActivateCurrentRound(Run(f, fx), held)
            ELSE IF Proposer(e.height, r) = e.id
            THEN Run(g, Append(fx, y))
            ELSE Run(f, fx)
    BY DEF EnterRound, Entered
  <1>4. /\ \A X : Minor(x, X)
        /\ x.type = "schedule" /\ y.type = "request" /\ y.validBlock = f.validBlock
    BY DEF Minor, Schedule, RequestProposal
  <1>5. /\ DOMAIN g = EngineFields /\ g.height = f.height /\ g.round = f.round
        /\ g.phase = f.phase /\ g.started = f.started /\ g.validBlock = f.validBlock
        /\ g.finalized = f.finalized /\ g.validRound = f.validRound
        /\ g.proposals = f.proposals
    <2> HIDE DEF f
    <2> QED BY <1>2 DEF EngineFields
  <1>6. \A p \in f.proposals : PrevoteFor(f, p) \in AllValues
    <2>1. \A p \in e.proposals : p.value \in Blocks
      BY DEF Engines, ProposalMsgs
    <2> QED BY <1>2, <2>1, PrevoteValue
  <1> HIDE DEF f, x, y, g
  <1>7. /\ Listed(fx) /\ \A X : Tame(fx, X)
        /\ Listed(Append(fx, y)) /\ Len(Append(fx, y)) = 2
        /\ Append(fx, y)[1] = x /\ Append(fx, y)[2] = y
    BY <1>4, ShortLists, ShortTame
  <1> HIDE DEF fx
  <1>8. Holds(e, held) => Holds(f, held) /\ Holds(g, held)
    BY <1>2, <1>5 DEF Holds
  <1>9. CASE r >= MaxRounds
    BY <1>3, <1>9
  <1>10. CASE ~(r >= MaxRounds) /\ \E p \in f.proposals : p.round = r
    <2> DEFINE s == Run(f, fx)
               X == AllValues
    <2>1. t = ActivateCurrentRound(s, held)
      BY <1>3, <1>10
    <2>2. Going(s) /\ s.e = f /\ s.fx = fx
      BY <1>2, <1>7, RunGoes
    <2> HIDE DEF s
    <2>3. s.e.phase = "propose" => \A p \in Current(s.e) : PrevoteFor(s.e, p) \in X
      BY <1>6, <2>2 DEF Current
    <2> HIDE DEF X
    <2>4. Reaches(s, t, X, held)
      BY <2>1, <2>2, <2>3, ActivateReaches
    <2>5. Tame(t.fx, X)
      BY <1>7, <2>2, <2>4 DEF Reaches
    <2> QED BY <1>2, <1>8, <2>2, <2>4, <2>5 DEF Reaches, Enters, X
  <1>11. CASE ~(r >= MaxRounds) /\ ~(\E p \in f.proposals : p.round = r) /\ Proposer(e.height, r) = e.id
    <2>1. t = Run(g, Append(fx, y))
      BY <1>3, <1>11
    <2>2. Going(t) /\ t.e = g /\ t.fx = Append(fx, y)
      <3> DEFINE gx == Append(fx, y)
      <3>1. Listed(gx) /\ t = Run(g, gx)
        BY <1>7, <2>1
      <3> HIDE DEF gx
      <3>2. Going(t) /\ t.e = g /\ t.fx = gx
        BY <1>5, <3>1, RunGoes
      <3> QED BY <3>2 DEF gx
    <2>3. Awaits(g)
      <3>1. g.started /\ g.finalized = None /\ g.phase = "propose" /\ g.validRound < g.round
        BY <1>2, <1>5
      <3>2. \A p \in g.proposals : p.round # g.round
        BY <1>2, <1>5, <1>11
      <3> QED BY <3>1, <3>2 DEF Awaits
    <2>4. Asks(t)
      BY <1>4, <1>5, <1>7, <2>2, <2>3 DEF Asks
    <2> QED BY <1>2, <1>5, <1>8, <2>2, <2>4 DEF Enters
  <1>12. CASE ~(r >= MaxRounds) /\ ~(\E p \in f.proposals : p.round = r) /\ Proposer(e.height, r) # e.id
    <2>1. t = Run(f, fx)
      BY <1>3, <1>12
    <2>2. Going(t) /\ t.e = f /\ t.fx = fx
      BY <1>2, <1>7, <2>1, RunGoes
    <2> QED BY <1>2, <1>7, <1>8, <2>2 DEF Enters
  <1> QED BY <1>9, <1>10, <1>11, <1>12

\* The height starts in the engine's round, as if it were entered.
LEMMA StartEnters ==
    ASSUME NEW e \in Engines, ~e.started, e.finalized = None, e.validRound < e.round,
           NEW held, NEW t, t = EnterRound([e EXCEPT !.started = TRUE], e.round, held)
    PROVE  /\ Going(t) /\ t.e.height = e.height /\ t.e.round = e.round /\ t.e.started
           /\ Holds(e, held) => Holds(t.e, held)
           /\ Tame(t.fx, AllValues) \/ Asks(t)
  <1> DEFINE f == [e EXCEPT !.started = TRUE]
             r == e.round
  <1>1. e.round \in Nat
    BY Basics DEF Engines
  <1>2. f \in Engines /\ f.started = TRUE
    BY DEF Engines
  <1>3. /\ f.height = e.height /\ f.round = r /\ f.validRound = e.validRound
        /\ f.finalized = e.finalized /\ f.proposals = e.proposals /\ f.validBlock = e.validBlock
    BY DEF Engines
  <1>4. t = EnterRound(f, r, held)
    OBVIOUS
  <1> HIDE DEF f
  <1>5. r \in Nat /\ f.validRound < r /\ f.finalized = None /\ f.started
    BY <1>1, <1>2, <1>3
  <1> HIDE DEF r
  <1>6. t = Failed(f) \/ Enters(f, t, r, held)
    BY <1>2, <1>4, <1>5, EnterRoundEnters
  <1>7. Holds(e, held) => Holds(f, held)
    BY <1>3 DEF Holds
  <1>8. CASE t = Failed(f)
    <2>1. Within(f, t, AllValues, held)
      BY <1>2, <1>8, NothingWithin
    <2> QED BY <1>2, <1>3, <1>7, <2>1 DEF Within, r
  <1>9. CASE Enters(f, t, r, held)
    BY <1>2, <1>3, <1>7, <1>9 DEF Enters, r
  <1> QED BY <1>6, <1>8, <1>9

\* handle_timeout.
LEMMA TimeoutWithin ==
    ASSUME NEW e \in Engines, e.started, e.finalized = None, e.validRound <= e.round,
           NEW o, NEW held, NEW t, t = HandleTimeout(e, o, held)
    PROVE  \/ Within(e, t, Votable(e), held)
           \/ \E r \in Nat : e.round < r /\ Enters(e, t, r, held)
  <1> DEFINE X == Votable(e)
             timedOut(kind) == EvaluateRound(CastVote(Run(e, <<>>), kind, Nil), e.round, held)
  <1>1. /\ DOMAIN e = EngineFields /\ e.round \in Nat /\ e.validRound \in Int
        /\ Listed(<<>>) /\ Tame(<<>>, X) /\ Nil \in AllValues
    <2>1. DOMAIN e = EngineFields /\ Listed(<<>>) /\ Tame(<<>>, X)
      BY Fields, ShortLists, ShortTame
    <2>2. e.round \in Nat /\ e.validRound \in Int
      BY Basics DEF Engines
    <2> QED BY <2>1, <2>2 DEF AllValues
  <1>2. ASSUME NEW kind \in VoteKinds, kind = "prevote" => e.phase = "propose"
        PROVE  Within(e, timedOut(kind), X, held)
    <2> DEFINE s == Run(e, <<>>)
               u == CastVote(s, kind, Nil)
               w == timedOut(kind)
    <2>1. Going(s) /\ s = Run(e, <<>>)
      BY <1>1, RunGoes
    <2>2. w = EvaluateRound(u, e.round, held)
      OBVIOUS
    <2> HIDE DEF s, w
    <2>3. kind = "prevote" => Nil \in X
      BY <1>1, <1>2 DEF Votable
    <2>4. Reaches(s, u, X, held)
      BY <1>2, <2>1, <2>3, CastVoteReaches
    <2> HIDE DEF u, X
    <2>5. Reaches(u, w, X, held)
      BY <2>2, <2>4, EvaluateRoundReaches DEF Reaches
    <2>6. Reaches(s, w, X, held)
      BY <2>4, <2>5, ReachesMore
    <2>7. Within(e, w, X, held)
      BY <1>1, <2>1, <2>6, BeginsWithin
    <2> QED BY <2>7 DEF w
  <1>3. t = IF o # [height |-> e.height, round |-> e.round, phase |-> e.phase]
            THEN Run(e, <<>>)
            ELSE CASE e.phase = "propose"   -> timedOut("prevote")
                   [] e.phase = "prevote"   -> timedOut("precommit")
                   [] e.phase = "precommit" -> EnterRound(e, e.round + 1, held)
                   [] OTHER                 -> Run(e, <<>>)
    BY DEF HandleTimeout
  <1> HIDE DEF timedOut
  <1>4. \/ t = Run(e, <<>>)
        \/ e.phase = "propose" /\ t = timedOut("prevote")
        \/ t = timedOut("precommit")
        \/ t = EnterRound(e, e.round + 1, held)
    BY <1>3
  <1>5. CASE t = Run(e, <<>>)
    BY <1>5, NothingWithin
  <1>6. CASE e.phase = "propose" /\ t = timedOut("prevote")
    BY <1>2, <1>6 DEF VoteKinds
  <1>7. CASE t = timedOut("precommit")
    BY <1>2, <1>7 DEF VoteKinds
  <1>8. CASE t = EnterRound(e, e.round + 1, held)
    <2> DEFINE r == e.round + 1
    <2>1. r \in Nat /\ e.round < r /\ e.validRound < r
      BY <1>1
    <2>2. t = EnterRound(e, r, held)
      BY <1>8
    <2> HIDE DEF r
    <2>3. t = Failed(e) \/ Enters(e, t, r, held)
      BY <2>1, <2>2, EnterRoundEnters
    <2>4. t = Failed(e) => Within(e, t, X, held)
      BY NothingWithin
    <2> QED BY <2>1, <2>3, <2>4
  <1> QED BY <1>4, <1>5, <1>6, <1>7, <1>8

\* The proposal of block b for the engine's round.
ProposalOf(e, b) ==
    LET proven == e.validRound # NoRound /\ e.validRound < e.round /\ e.validBlock = b
    IN Proposal(e.height, e.round, b, IF proven THEN e.validRound ELSE NoRound,
                                      IF proven THEN e.validProof ELSE {})

\* Nothing but the proposals asked for and decided differs.
SameRound(e, f) ==
    /\ f.height = e.height /\ f.round = e.round /\ f.started = e.started
    /\ f.phase = e.phase /\ f.finalized = e.finalized /\ f.proposals = e.proposals
    /\ f.lockedRound = e.lockedRound /\ f.lockedBlock = e.lockedBlock
    /\ f.validRound = e.validRound /\ f.validBlock = e.validBlock

\* Nothing is decided, or the proposal of b, which awaits its confirmation.
Readies(e, t, b) ==
    /\ SameRound(e, t.e)
    /\ \/ t.fx = <<>>
       \/ /\ Len(t.fx) = 1 /\ t.fx[1].type = "persist" /\ t.fx[1].msg = ProposalOf(e, b)
          /\ ProposalOf(e, b) \in t.e.pending

\* proposal_ready.
LEMMA ReadyDecides ==
    ASSUME NEW e \in Engines, NEW b, NEW t, t = ProposalReady(e, e.height, e.round, b)
    PROVE  Readies(e, t, b)
  <1> DEFINE r == e.round
             m == ProposalOf(e, b)
             asked == [e EXCEPT !.requested = @ \ {r}]
             decided == [asked EXCEPT !.decisions = @ \cup {m}, !.pending = @ \cup {m}]
             fx == <<Persist(m, decided)>>
  <1>1. t = IF r \notin e.requested THEN Failed(e)
            ELSE IF m \in e.decisions THEN Run(asked, <<>>)
            ELSE IF \E d \in e.decisions : SameSlot(d, m) THEN Failed(asked)
            ELSE Run(decided, fx)
    BY DEF ProposalReady, ProposalOf
  <1> HIDE DEF m
  <1>2. DOMAIN e = EngineFields
    BY Fields
  <1>3. SameRound(e, asked) /\ DOMAIN asked = EngineFields
    BY <1>2 DEF SameRound, EngineFields
  <1>4. SameRound(e, decided) /\ m \in decided.pending
    <2> HIDE DEF asked
    <2> QED BY <1>3 DEF SameRound, EngineFields
  <1>5. Len(fx) = 1 /\ fx[1].type = "persist" /\ fx[1].msg = m
    BY DEF Persist
  <1> HIDE DEF asked, decided, fx
  <1>6. t = Failed(e) \/ t = Failed(asked) \/ t = Run(asked, <<>>) \/ t = Run(decided, fx)
    BY <1>1
  <1>7. SameRound(e, e)
    BY DEF SameRound
  <1>8. ASSUME t = Run(decided, fx) PROVE Readies(e, t, b)
    <2>1. t.e = decided /\ t.fx = fx
      BY <1>8 DEF Run
    <2> QED BY <1>4, <1>5, <2>1 DEF Readies, m
  <1>9. ASSUME NEW f, SameRound(e, f), t = Failed(f) \/ t = Run(f, <<>>) PROVE Readies(e, t, b)
    <2>1. t.e = f /\ t.fx = <<>>
      BY <1>9 DEF Failed, Run
    <2> QED BY <1>9, <2>1 DEF Readies
  <1> QED BY <1>3, <1>6, <1>7, <1>8, <1>9

\* The proposal is valid, and the lock accepts it, if b is what the engine
\* would propose again or nothing is locked.
LEMMA ReadyConfirms ==
    ASSUME NEW D, NEW S, NEW v, NEW e, EngineOK(D, S, v, e), Awaits(e),
           NEW held, NEW b \in Blocks, b \in held, Fits(b, e.round),
           e.lockedBlock = None \/ b = e.validBlock,
           NEW f, SameRound(e, f), NEW p, p = ProposalOf(e, b)
    PROVE  /\ Awaits(f) /\ p.kind = "proposal" /\ p.round = f.round /\ p.height = f.height
           /\ ProposalIsValid(f, p, held) /\ PrevoteFor(f, p) = p.value
  <1>1. /\ e \in Engines /\ e.round \in Nat /\ e.round < MaxRounds
        /\ e.validRound \in Rounds \cup {NoRound} /\ e.lockedRound \in Rounds \cup {NoRound}
        /\ e.validProof \subseteq Validators
    BY Basics DEF EngineOK, Engines, Rounds
  <1>2. Awaits(f)
    BY DEF Awaits, SameRound
  <1> DEFINE proven == e.validRound # NoRound /\ e.validRound < e.round /\ e.validBlock = b
  <1>3. /\ p.kind = "proposal" /\ p.round = e.round /\ p.height = e.height /\ p.value = b
        /\ p.validator = Proposer(e.height, e.round)
        /\ p.validRound = IF proven THEN e.validRound ELSE NoRound
        /\ p.proof = IF proven THEN e.validProof ELSE {}
    BY DEF ProposalOf, Proposal
  <1>4. proven => e.validRound \in 0 .. (e.round - 1) /\ e.validProof \in Quorums
    <2> SUFFICES ASSUME proven PROVE e.validRound \in 0 .. (e.round - 1) /\ e.validProof \in Quorums
      OBVIOUS
    <2>1. e.validRound \in Nat
      BY <1>1, Basics
    <2>2. IsQuorum(e.validProof)
      BY Basics DEF EngineOK, LockOK
    <2> QED BY <1>1, <2>1, <2>2 DEF Quorums
  <1>5. ProposalIsValid(f, p, held)
    <2>1. BlockIsValid(p, held)
      BY <1>3 DEF BlockIsValid, Fits
    <2>2. \/ p.validRound = NoRound /\ p.proof = {}
          \/ p.validRound \in 0 .. (p.round - 1) /\ p.proof \in Quorums
      BY <1>3, <1>4
    <2> QED BY <1>1, <1>3, <2>1, <2>2 DEF ProposalIsValid, SameRound
  <1>6. PrevoteFor(f, p) = p.value
    <2>1. CASE e.lockedBlock = None
      BY <2>1 DEF PrevoteFor, SameRound
    <2>2. CASE e.lockedBlock # None
      <3>1. b = e.validBlock /\ e.validBlock # None
        BY <2>2, Basics
      <3>2. e.validRound # NoRound /\ e.validRound < e.round
        BY <3>1 DEF EngineOK, LockOK, Awaits
      <3>3. p.validRound = e.validRound
        BY <1>3, <3>1, <3>2
      <3>4. e.lockedRound < e.validRound \/ e.lockedBlock = b
        BY <2>2, <3>1 DEF EngineOK, LockOK
      <3>5. p.validRound > f.lockedRound \/ f.lockedBlock = p.value
        BY <1>1, <1>3, <3>3, <3>4, Basics DEF SameRound
      <3> QED BY <3>5 DEF PrevoteFor
    <2> QED BY <2>1, <2>2
  <1> QED BY <1>2, <1>3, <1>5, <1>6 DEF SameRound

\* A step that begins a round.
Begins(e, t, held) ==
    /\ Going(t)
    /\ t.e.height = e.height /\ t.e.started
    /\ e.round < t.e.round \/ (t.e.round = e.round /\ ~e.started)
    /\ Holds(e, held) => Holds(t.e, held)
    /\ Tame(t.fx, AllValues) \/ Asks(t)

\* A step on anything but a built proposal.
LEMMA StepWithin ==
    ASSUME NEW D, NEW S, NEW v, NEW e, EngineOK(D, S, v, e),
           ~e.started => e.finalized = None,
           NEW event \in Events, event.type # "ready",
           NEW held, NEW t, t = StepEngine(e, event, held)
    PROVE  Within(e, t, Votable(e), held) \/ Begins(e, t, held)
  <1>1. e \in Engines /\ e.started \in BOOLEAN /\ e.round \in Nat
    BY Basics DEF EngineOK, Engines
  <1>2. Within(e, Failed(e), Votable(e), held) /\ Within(e, Run(e, <<>>), Votable(e), held)
    BY <1>1, NothingWithin
  <1>3. CASE event.type = "start" /\ ~e.started
    <2>1. t = EnterRound([e EXCEPT !.started = TRUE], e.round, held)
      BY <1>3 DEF StepEngine
    <2>2. e.validRound < e.round /\ e.finalized = None
      BY <1>3 DEF EngineOK, SlotsOK
    <2>3. /\ Going(t) /\ t.e.height = e.height /\ t.e.round = e.round /\ t.e.started
          /\ Holds(e, held) => Holds(t.e, held)
          /\ Tame(t.fx, AllValues) \/ Asks(t)
      BY <1>1, <1>3, <2>1, <2>2, StartEnters
    <2> QED BY <1>3, <2>3 DEF Begins
  <1>4. CASE t = Failed(e) \/ t = Run(e, <<>>)
    BY <1>2, <1>4
  <1>5. CASE event.type = "message" /\ t = ReceiveMessage(e, event.msg, held)
    BY <1>1, <1>5, EventFields, ReceiveWithin
  <1>6. CASE event.type = "persisted" /\ t = Persisted(e, event.msg, held)
    BY <1>1, <1>6, EventFields, PersistedWithin
  <1>7. CASE e.started /\ e.finalized = None /\ t = HandleTimeout(e, event.timeout, held)
    <2> DEFINE o == event.timeout
    <2>1. t = HandleTimeout(e, o, held)
      BY <1>7
    <2> HIDE DEF o
    <2>2. e.validRound <= e.round
      <3>1. e.validRound = NoRound \/ e.validBlock # None
        BY DEF EngineOK, LockOK
      <3>2. e.validRound = NoRound => e.validRound <= e.round
        BY <1>1, Basics DEF NoRound
      <3> QED BY <3>1, <3>2 DEF EngineOK, LockOK
    <2>3. \/ Within(e, t, Votable(e), held)
          \/ \E r \in Nat : e.round < r /\ Enters(e, t, r, held)
      BY <1>1, <1>7, <2>1, <2>2, TimeoutWithin
    <2>4. ASSUME NEW r \in Nat, e.round < r, Enters(e, t, r, held) PROVE Begins(e, t, held)
      <3>1. t.e.started
        BY <1>7, <2>4 DEF Enters
      <3>2. e.round < t.e.round
        BY <2>4 DEF Enters
      <3> QED BY <2>4, <3>1, <3>2 DEF Enters, Begins
    <2> QED BY <2>3, <2>4
  <1>8. event.type \in {"start", "message", "persisted", "timeout"}
    BY EventFields
  <1>9. \/ event.type = "start" /\ ~e.started
        \/ t = Failed(e) \/ t = Run(e, <<>>)
        \/ event.type = "message" /\ t = ReceiveMessage(e, event.msg, held)
        \/ event.type = "persisted" /\ t = Persisted(e, event.msg, held)
        \/ e.started /\ e.finalized = None /\ t = HandleTimeout(e, event.timeout, held)
    BY <1>1, <1>8 DEF StepEngine
  <1> QED BY <1>3, <1>4, <1>5, <1>6, <1>7, <1>9

\* A step on the own proposal, signed.
LEMMA StepOwn ==
    ASSUME NEW e \in Engines, NEW event \in Events, event.type = "persisted", NEW held,
           OwnProposal(e, event.msg, held), NEW t, t = StepEngine(e, event, held)
    PROVE  Within(e, t, {event.msg.value}, held) /\ t.e.phase # "propose"
  <1> DEFINE m == event.msg
  <1>1. t = Persisted(e, m, held)
    BY DEF OwnProposal, Awaits, StepEngine
  <1>2. m \in Msgs
    BY EventFields
  <1> HIDE DEF m
  <1>3. OwnProposal(e, m, held) => Within(e, t, {m.value}, held) /\ t.e.phase # "propose"
    BY <1>1, <1>2, PersistedWithin
  <1> QED BY <1>3 DEF m

\* A step on a built proposal.
LEMMA StepReady ==
    ASSUME NEW e \in Engines, Awaits(e), NEW event, event.type = "ready",
           event.height = e.height, event.round = e.round, NEW held,
           NEW t, t = StepEngine(e, event, held)
    PROVE  Readies(e, t, event.block)
  <1>1. t = ProposalReady(e, e.height, e.round, event.block)
    BY DEF StepEngine, Awaits
  <1> QED BY <1>1, ReadyDecides

-------------------------------------------------------------------------------
(* The way of the own proposal *)

NoneReady(q) == \A i \in 1 .. Len(q) : q[i].type # "ready"

\* Holding more bytes, an own proposal is still confirmed.
LEMMA ConfirmsMore ==
    ASSUME NEW n, NEW f, NEW p, Confirms(n, p), f.eng = n.eng, n.blocks \subseteq f.blocks
    PROVE  Confirms(f, p)
  BY DEF Confirms, ProposalIsValid, BlockIsValid

\* Nothing changes but what the proposal does not depend on.
LEMMA PathKept ==
    ASSUME NEW n, NEW f, NEW M, PathOK(n, M), n.mode # "down", f.eng = n.eng,
           f.effects = n.effects, f.events = n.events, n.blocks \subseteq f.blocks
    PROVE  PathOK(f, M)
  <1>1. HeldOK(n) /\ AskedFor(n) /\ ReadyOK(n) /\ DecidedOK(n) /\ SignedOK(n, M) /\ PrevotesOK(n, M)
    BY DEF PathOK
  <1>2. HeldOK(f)
    BY <1>1 DEF HeldOK
  <1>3. AskedFor(f)
    BY <1>1 DEF AskedFor
  <1>4. ReadyOK(f)
    BY <1>1 DEF ReadyOK, Backs
  <1>5. DecidedOK(f)
    BY <1>1, ConfirmsMore DEF DecidedOK
  <1>6. SignedOK(f, M)
    BY <1>1, ConfirmsMore DEF SignedOK
  <1>7. PrevotesOK(f, M)
    BY <1>1 DEF PrevotesOK
  <1> QED BY <1>2, <1>3, <1>4, <1>5, <1>6, <1>7 DEF PathOK

\* No proposal of the round is under way.
LEMMA PathTame ==
    ASSUME NEW f, NEW M, HeldOK(f), NEW X, Tame(f.effects, X), NoneReady(f.events),
           \A p \in OwnAt(M, f.eng) : f.eng.phase # "propose" /\ \A x \in X : x = p.value
    PROVE  PathOK(f, M)
  <1>1. AskedFor(f) /\ DecidedOK(f)
    BY DEF AskedFor, DecidedOK, Tame, Minor
  <1>2. ReadyOK(f)
    BY DEF ReadyOK, NoneReady
  <1>3. SignedOK(f, M)
    BY DEF SignedOK
  <1>4. PrevotesOK(f, M)
    BY DEF PrevotesOK, Tame, Minor
  <1> QED BY <1>1, <1>2, <1>3, <1>4 DEF PathOK

\* With effects to perform, no proposal is ready or signed but unconfirmed.
LEMMA PathBusy ==
    ASSUME NEW n, NEW M, PathOK(n, M), n.mode # "down", n.effects # <<>>
    PROVE  NoneReady(n.events) /\ (n.eng.phase = "propose" => OwnAt(M, n.eng) = {})
  BY DEF PathOK, ReadyOK, SignedOK, NoneReady

\* An empty queue.
LEMMA NoneReadyEmpty == NoneReady(<<>>)
  BY ShortLists DEF NoneReady

\* The command is abandoned.
LEMMA PathAbort ==
    ASSUME NEW n \in Nodes, NEW M, HeldOK(n),
           n.eng.phase = "propose" => OwnAt(M, n.eng) = {},
           NEW f, f = Abort(n)
    PROVE  PathOK(f, M)
  <1>1. f.eng = n.eng /\ f.blocks = n.blocks /\ f.effects = <<>> /\ f.events = <<>>
    BY DEF Abort, Nodes
  <1>2. HeldOK(f)
    BY <1>1 DEF HeldOK
  <1> DEFINE X == {}
  <1>3. Tame(f.effects, X) /\ NoneReady(f.events)
    BY <1>1, ShortTame, NoneReadyEmpty
  <1>4. \A p \in OwnAt(M, f.eng) : f.eng.phase # "propose" /\ \A x \in X : x = p.value
    BY <1>1
  <1> HIDE DEF X
  <1> QED BY <1>2, <1>3, <1>4, PathTame

\* The head of the effects has been performed, and is not a proposal's.
LEMMA PathRest ==
    ASSUME NEW n \in Nodes, NEW M, PathOK(n, M), n.mode # "down", n.effects # <<>>,
           Head(n.effects).type # "request",
           Head(n.effects).type = "persist" => Head(n.effects).msg.kind # "proposal",
           NEW f, f.eng = n.eng, f.blocks = n.blocks, f.effects = Tail(n.effects),
           f.events = n.events \/ (Head(n.effects).type # "schedule" /\ NoneReady(f.events)),
           NEW K, OwnAt(K, n.eng) = OwnAt(M, n.eng)
    PROVE  PathOK(f, K)
  <1>1. HeldOK(n) /\ AskedFor(n) /\ DecidedOK(n) /\ PrevotesOK(n, M)
    BY DEF PathOK
  <1>2. NoneReady(n.events) /\ (n.eng.phase = "propose" => OwnAt(M, n.eng) = {})
    BY PathBusy
  <1>3. n.effects \in Seq(Effects)
    BY DEF Nodes
  <1>4. /\ Head(n.effects) = n.effects[1] /\ 1 \in 1 .. Len(n.effects) /\ Len(n.effects) \in Nat \ {0}
        /\ Len(f.effects) = Len(n.effects) - 1
        /\ \A i \in 1 .. Len(f.effects) :
              f.effects[i] = n.effects[i + 1] /\ i + 1 \in 1 .. Len(n.effects)
    BY <1>3, HeadTail
  <1>5. HeldOK(f)
    BY <1>1 DEF HeldOK
  <1>6. AskedFor(f)
    <2> SUFFICES ASSUME NEW i \in 1 .. Len(f.effects), f.effects[i].type = "request"
                 PROVE  /\ i = Len(f.effects) /\ f.events = <<>> /\ Awaits(f.eng)
                        /\ f.effects[i].validBlock = f.eng.validBlock
                        /\ \A j \in 1 .. i - 1 : f.effects[j].type = "schedule"
      BY DEF AskedFor
    <2> DEFINE k == i + 1
    <2>1. k \in 1 .. Len(n.effects) /\ n.effects[k] = f.effects[i] /\ k > 1
      BY <1>4
    <2>2. /\ k = Len(n.effects) /\ n.events = <<>> /\ Awaits(n.eng)
          /\ n.effects[k].validBlock = n.eng.validBlock
          /\ \A j \in 1 .. k - 1 : n.effects[j].type = "schedule"
      <3> HIDE DEF k
      <3> QED BY <1>1, <2>1 DEF AskedFor
    <2>3. Head(n.effects).type = "schedule"
      BY <1>4, <2>1, <2>2
    <2>4. ASSUME NEW j \in 1 .. i - 1 PROVE f.effects[j].type = "schedule"
      <3>1. j + 1 \in 1 .. k - 1 /\ f.effects[j] = n.effects[j + 1]
        BY <1>4
      <3> QED BY <2>2, <3>1
    <2>5. i = Len(f.effects)
      BY <1>4, <2>2
    <2> QED BY <2>1, <2>2, <2>3, <2>4, <2>5
  <1>7. ReadyOK(f)
    BY <1>2 DEF ReadyOK, NoneReady
  <1>8. DecidedOK(f)
    <2> SUFFICES ASSUME NEW i \in 1 .. Len(f.effects), f.effects[i].type = "persist",
                        f.effects[i].msg.kind = "proposal"
                 PROVE  FALSE
      BY DEF DecidedOK
    <2> DEFINE k == i + 1
    <2>1. k \in 1 .. Len(n.effects) /\ n.effects[k] = f.effects[i] /\ k > 1
      BY <1>4
    <2> HIDE DEF k
    <2>2. Len(n.effects) = 1
      BY <1>1, <2>1 DEF DecidedOK
    <2> QED BY <2>1, <2>2
  <1>9. SignedOK(f, K)
    BY <1>2 DEF SignedOK
  <1>10. PrevotesOK(f, K)
    <2> SUFFICES ASSUME NEW i \in 1 .. Len(f.effects), f.effects[i].type = "persist",
                        f.effects[i].msg.kind = "prevote", NEW p \in OwnAt(M, n.eng)
                 PROVE  f.effects[i].msg.value = p.value
      BY DEF PrevotesOK
    <2> DEFINE k == i + 1
    <2>1. k \in 1 .. Len(n.effects) /\ n.effects[k] = f.effects[i]
      BY <1>4
    <2> HIDE DEF k
    <2> QED BY <1>1, <2>1 DEF PrevotesOK
  <1> QED BY <1>5, <1>6, <1>7, <1>8, <1>9, <1>10 DEF PathOK

-------------------------------------------------------------------------------
(* What is asked for, decided and signed *)

\* The slots of an engine's round that are taken are among its decisions.
LEMMA SignedDecided ==
    ASSUME NEW D, NEW S, NEW v, NEW e, EngineOK(D, S, v, e)
    PROVE  /\ \A m \in D[v] : m.height = e.height /\ m.round = e.round => m \in e.decisions
           /\ e.phase = "propose" => Undecided(e)
           /\ (\A m \in e.decisions : m.round # e.round) => OwnAt(D[v], e) = {}
  <1>1. e.round \in Nat
    BY Basics DEF EngineOK, Engines
  <1>2. \A m \in D[v] : m.height = e.height /\ m.round = e.round => m \in e.decisions
    BY <1>1 DEF EngineOK, SlotsOK
  <1> QED BY <1>2 DEF EngineOK, SlotsOK, Undecided, OwnAt

\* An engine that has not started has signed no proposal in its round.
LEMMA UnstartedSigned ==
    ASSUME NEW n, NEW M, PathOK(n, M), n.mode # "down", ~n.eng.started, n.eng.phase = "propose"
    PROVE  OwnAt(M, n.eng) = {}
  BY DEF PathOK, SignedOK, Confirms, Awaits

\* With no effects left nothing is asked for or decided.
LEMMA NothingAsked ==
    ASSUME NEW f, f.effects = <<>>, NEW M
    PROVE  AskedFor(f) /\ DecidedOK(f) /\ PrevotesOK(f, M)
  <1> DEFINE fx == f.effects
  <1>1. fx = <<>>
    OBVIOUS
  <1> HIDE DEF fx
  <1>2. Len(fx) = 0
    BY <1>1, ShortLists
  <1>3. \A i \in 1 .. Len(fx) : FALSE
    BY <1>2
  <1> QED BY <1>3, Zenon DEF AskedFor, DecidedOK, PrevotesOK, fx

\* A proposal has been built.
LEMMA PathBuilt ==
    ASSUME NEW n \in Nodes, NEW M, PathOK(n, M), n.mode # "down", n.effects # <<>>,
           Head(n.effects).type = "request",
           NEW b, NEW ready, ready.type = "ready", ready.height = n.eng.height,
           ready.round = n.eng.round, ready.block = b,
           NEW f, f.eng = n.eng, f.blocks = n.blocks \cup {b}, f.effects = Tail(n.effects),
           f.events = Append(n.events, ready), Fits(b, n.eng.round),
           n.eng.lockedBlock = None \/ b = n.eng.validBlock
    PROVE  PathOK(f, M)
  <1>1. n.effects \in Seq(Effects) /\ Head(n.effects) = n.effects[1] /\ 1 \in 1 .. Len(n.effects)
        /\ Len(n.effects) \in Nat /\ Tail(n.effects) \in Seq(Effects)
        /\ Len(Tail(n.effects)) = Len(n.effects) - 1
    BY HeadTail DEF Nodes
  <1>2. Len(n.effects) = 1 /\ n.events = <<>> /\ Awaits(n.eng)
    BY <1>1 DEF PathOK, AskedFor
  <1>3. f.effects = <<>>
    <2> DEFINE gx == Tail(n.effects)
    <2>1. gx \in Seq(Effects) /\ Len(gx) = 0
      BY <1>1, <1>2
    <2> HIDE DEF gx
    <2>2. gx = <<>>
      BY <2>1
    <2> QED BY <2>2 DEF gx
  <1>4. Len(f.events) = 1 /\ f.events[1] = ready
    <2> DEFINE T == {ready}
    <2>1. ready \in T
      OBVIOUS
    <2> HIDE DEF T
    <2>2. <<>> \in Seq(T) /\ Len(<<>>) = 0
      OBVIOUS
    <2> QED BY <1>2, <2>1, <2>2, AddOne
  <1>5. HeldOK(f)
    BY DEF PathOK, HeldOK
  <1>6. AskedFor(f) /\ DecidedOK(f) /\ PrevotesOK(f, M)
    BY <1>3, NothingAsked
  <1>7. ReadyOK(f)
    <2>1. \A i \in 1 .. Len(f.events) : i = 1
      BY <1>4
    <2>2. Backs(f, b) /\ Awaits(f.eng)
      BY <1>2 DEF Backs
    <2> QED BY <1>3, <1>4, <2>1, <2>2 DEF ReadyOK
  <1>8. SignedOK(f, M)
    <2>1. n.eng.phase = "propose" => OwnAt(M, n.eng) = {}
      BY PathBusy
    <2> QED BY <2>1 DEF SignedOK
  <1> QED BY <1>5, <1>6, <1>7, <1>8 DEF PathOK

\* A proposal has been signed.
LEMMA PathSigned ==
    ASSUME NEW n \in Nodes, NEW M, PathOK(n, M), n.mode # "down", n.effects # <<>>,
           Head(n.effects).type = "persist", NEW m, m = Head(n.effects).msg, m.kind = "proposal",
           NEW x, x = [type |-> "persisted", msg |-> m],
           NEW f, f.eng = n.eng, f.blocks = n.blocks, f.effects = Tail(n.effects),
           f.events = Append(n.events, x)
    PROVE  PathOK(f, M \cup {m}) /\ n.eng.phase = "propose"
  <1>1. n.effects \in Seq(Effects) /\ Head(n.effects) = n.effects[1] /\ 1 \in 1 .. Len(n.effects)
        /\ Len(n.effects) \in Nat /\ Tail(n.effects) \in Seq(Effects)
        /\ Len(Tail(n.effects)) = Len(n.effects) - 1
    BY HeadTail DEF Nodes
  <1>2. Len(n.effects) = 1 /\ n.events = <<>> /\ Confirms(n, m)
    BY <1>1 DEF PathOK, DecidedOK
  <1>3. f.effects = <<>>
    <2> DEFINE gx == Tail(n.effects)
    <2>1. gx \in Seq(Effects) /\ Len(gx) = 0
      BY <1>1, <1>2
    <2> HIDE DEF gx
    <2>2. gx = <<>>
      BY <2>1
    <2> QED BY <2>2 DEF gx
  <1>4. f.events = <<x>>
    BY <1>2
  <1>5. n.eng.phase = "propose"
    BY <1>2 DEF Confirms, Awaits
  <1>6. OwnAt(M, n.eng) = {}
    BY <1>5, PathBusy
  <1>7. Confirms(f, m)
    BY <1>2, ConfirmsMore
  <1>8. HeldOK(f)
    BY DEF PathOK, HeldOK
  <1>9. AskedFor(f) /\ DecidedOK(f) /\ PrevotesOK(f, M \cup {m})
    BY <1>3, NothingAsked
  <1>10. ReadyOK(f)
    <2>1. Len(f.events) = 1 /\ f.events[1] = x
      BY <1>4, ShortLists
    <2>2. \A i \in 1 .. Len(f.events) : f.events[i].type = "persisted"
      BY <2>1
    <2> QED BY <2>2 DEF ReadyOK
  <1>11. SignedOK(f, M \cup {m})
    <2>1. \A p \in OwnAt(M \cup {m}, f.eng) : p = m
      BY <1>6 DEF OwnAt
    <2> QED BY <1>3, <1>4, <1>7, <2>1 DEF SignedOK
  <1> QED BY <1>5, <1>8, <1>9, <1>10, <1>11 DEF PathOK

-------------------------------------------------------------------------------
(* The event loop *)

\* What is left of the events.  A built or a signed proposal is alone.
LEMMA TakesRest ==
    ASSUME NEW D, NEW S, NEW v, NEW n \in Nodes, QueuesOK(D, S, v, n), ReadyOK(n),
           NEW event, NEW rest, Takes(n, event, rest)
    PROVE  /\ rest.blocks = n.blocks /\ event \in Events
           /\ event.type # "ready" => NoneReady(rest.events)
           /\ event.type = "ready" =>
                 /\ rest.events = <<>> /\ n.events # <<>> /\ n.events[1] = event
                 /\ n.effects = <<>> /\ Awaits(n.eng) /\ event.height = n.eng.height
                 /\ event.round = n.eng.round /\ Backs(n, event.block)
           /\ \A x : n.events = <<x>> => event = x /\ rest.events = <<>>
  <1>1. n.jobs \in Seq(Events) /\ n.events \in Seq(Events)
    BY DEF Nodes
  <1>2. CASE n.events # <<>> /\ event = Head(n.events) /\ rest = [n EXCEPT !.events = Tail(@)]
    <2>1. rest.blocks = n.blocks /\ rest.events = Tail(n.events)
      BY <1>2 DEF Nodes
    <2>2. /\ event = n.events[1] /\ 1 \in 1 .. Len(n.events) /\ event \in Events
          /\ Tail(n.events) \in Seq(Events) /\ Len(n.events) \in Nat
          /\ Len(rest.events) = Len(n.events) - 1
          /\ \A i \in 1 .. Len(rest.events) :
                rest.events[i] = n.events[i + 1] /\ i + 1 \in 1 .. Len(n.events)
      BY <1>1, <1>2, <2>1, HeadTail
    <2>3. ASSUME Len(n.events) = 1 PROVE rest.events = <<>>
      <3> DEFINE q == Tail(n.events)
      <3>1. q \in Seq(Events) /\ Len(q) = 0
        BY <2>1, <2>2, <2>3
      <3> HIDE DEF q
      <3>2. q = <<>>
        BY <3>1
      <3> QED BY <2>1, <3>2 DEF q
    <2>4. ASSUME event.type # "ready", NEW i \in 1 .. Len(rest.events)
          PROVE  rest.events[i].type # "ready"
      <3> DEFINE k == i + 1
      <3>1. rest.events[i] = n.events[k] /\ k \in 1 .. Len(n.events) /\ k > 1
        BY <2>2
      <3> HIDE DEF k
      <3>2. n.events[k].type = "ready" => Len(n.events) = 1
        BY <3>1 DEF ReadyOK
      <3> QED BY <3>1, <3>2
    <2>5. ASSUME event.type = "ready"
          PROVE  /\ rest.events = <<>> /\ n.events # <<>> /\ n.events[1] = event
                 /\ n.effects = <<>> /\ Awaits(n.eng) /\ event.height = n.eng.height
                 /\ event.round = n.eng.round /\ Backs(n, event.block)
      BY <1>2, <2>2, <2>3, <2>5 DEF ReadyOK
    <2>6. ASSUME NEW x, n.events = <<x>> PROVE event = x /\ rest.events = <<>>
      BY <2>2, <2>3, <2>6, ShortLists
    <2> QED BY <2>1, <2>2, <2>4, <2>5, <2>6 DEF NoneReady
  <1>3. CASE /\ n.events = <<>> /\ n.jobs # <<>>
             /\ event = Head(n.jobs) /\ rest = [n EXCEPT !.jobs = Tail(@)]
    <2>1. rest.blocks = n.blocks /\ rest.events = <<>>
      BY <1>3 DEF Nodes
    <2>2. event = n.jobs[1] /\ 1 \in 1 .. Len(n.jobs) /\ event \in Events
      BY <1>1, <1>3, HeadTail
    <2>3. event.type # "ready"
      BY <2>2 DEF QueuesOK, JobOK
    <2>4. \A x : n.events # <<x>>
      BY <1>3
    <2> QED BY <2>1, <2>2, <2>3, <2>4, NoneReadyEmpty
  <1> QED BY <1>2, <1>3 DEF Takes

\* The process after a step: its engine and effects, or nothing under way.
Ran(n, rest, s, f) ==
    /\ f.eng = s.e /\ f.blocks = n.blocks
    /\ \/ f.effects = s.fx /\ f.events = rest.events
       \/ f.effects = <<>> /\ f.events = <<>>

\* Whatever the step did, no proposal of the round is under way.
LEMMA PathRan ==
    ASSUME NEW n, NEW rest, NEW s, NEW f, Ran(n, rest, s, f), NEW M, NEW X, Tame(s.fx, X),
           Holds(s.e, n.blocks), ~s.e.started => s.e.finalized = None, NoneReady(rest.events),
           \A p \in OwnAt(M, s.e) : s.e.phase # "propose" /\ \A x \in X : x = p.value
    PROVE  PathOK(f, M)
  <1>1. HeldOK(f)
    BY DEF HeldOK, Holds, Ran
  <1>2. Tame(f.effects, X) /\ NoneReady(f.events)
    BY ShortTame, NoneReadyEmpty DEF Ran
  <1>3. \A p \in OwnAt(M, f.eng) : f.eng.phase # "propose" /\ \A x \in X : x = p.value
    BY DEF Ran
  <1> QED BY <1>1, <1>2, <1>3, PathTame

\* The proposer of a new round asks for its proposal.
LEMMA PathAsked ==
    ASSUME NEW n, NEW rest, NEW s, NEW f, Ran(n, rest, s, f), NEW M, Asks(s),
           Holds(s.e, n.blocks), rest.events = <<>>, OwnAt(M, s.e) = {}
    PROVE  PathOK(f, M)
  <1>1. f.eng = s.e /\ f.events = <<>> /\ f.eng.started
    BY DEF Ran, Asks, Awaits
  <1>2. HeldOK(f)
    BY <1>1 DEF HeldOK, Holds, Ran
  <1>3. ReadyOK(f)
    BY <1>1, NoneReadyEmpty DEF ReadyOK, NoneReady
  <1>4. SignedOK(f, M) /\ PrevotesOK(f, M)
    BY <1>1 DEF SignedOK, PrevotesOK
  <1>5. CASE f.effects = <<>>
    BY <1>2, <1>3, <1>4, <1>5, NothingAsked DEF PathOK
  <1>6. CASE f.effects = s.fx
    <2>1. \A i \in 1 .. Len(f.effects) : i = 1 \/ i = 2
      <3>1. Len(f.effects) = 2
        BY <1>6, Zenon DEF Asks
      <3> QED BY <3>1
    <2>2. DecidedOK(f)
      <3>1. \A i \in 1 .. Len(f.effects) : f.effects[i].type \in {"schedule", "request"}
        BY <1>6, <2>1 DEF Asks
      <3> QED BY <3>1 DEF DecidedOK
    <2>3. AskedFor(f)
      <3>1. \A i \in 1 .. Len(f.effects) : f.effects[i].type = "request" => i = 2
        BY <1>6, <2>1 DEF Asks
      <3>2. \A j \in 1 .. 2 - 1 : f.effects[j].type = "schedule"
        BY <1>6 DEF Asks
      <3> QED BY <1>1, <1>6, <3>1, <3>2 DEF AskedFor, Asks
    <2> QED BY <1>2, <1>3, <1>4, <2>2, <2>3 DEF PathOK
  <1> QED BY <1>5, <1>6 DEF Ran

\* A built proposal is decided, or dropped.
LEMMA PathReady ==
    ASSUME NEW D, NEW S, NEW v, NEW n, EngineOK(D, S, v, n.eng), n.blocks \subseteq Blocks,
           PathOK(n, D[v]), n.mode # "down",
           Awaits(n.eng), NEW b, Backs(n, b), OwnAt(D[v], n.eng) = {},
           NEW rest, rest.events = <<>>, NEW s, Readies(n.eng, s, b),
           NEW f, Ran(n, rest, s, f)
    PROVE  PathOK(f, D[v])
  <1>1. f.eng = s.e /\ f.blocks = n.blocks /\ f.events = <<>> /\ SameRound(n.eng, f.eng)
    BY DEF Ran, Readies
  <1>2. HeldOK(f)
    BY <1>1 DEF PathOK, HeldOK, SameRound
  <1>3. OwnAt(D[v], f.eng) = {}
    BY <1>1 DEF OwnAt, SameRound
  <1>4. ReadyOK(f) /\ SignedOK(f, D[v])
    BY <1>1, <1>3, NoneReadyEmpty DEF ReadyOK, NoneReady, SignedOK
  <1>5. CASE f.effects = <<>>
    BY <1>2, <1>4, <1>5, NothingAsked DEF PathOK
  <1>6. CASE f.effects # <<>>
    <2> DEFINE p == ProposalOf(n.eng, b)
    <2>1. /\ f.effects = s.fx /\ Len(f.effects) = 1 /\ f.effects[1].type = "persist"
          /\ f.effects[1].msg = p /\ p \in f.eng.pending
      BY <1>1, <1>6 DEF Ran, Readies
    <2> HIDE DEF p
    <2>2. b \in Blocks /\ b \in n.blocks /\ Fits(b, n.eng.round)
          /\ (n.eng.lockedBlock = None \/ b = n.eng.validBlock)
      BY DEF Backs
    <2>3. /\ Awaits(f.eng) /\ p.kind = "proposal" /\ p.round = f.eng.round
          /\ ProposalIsValid(f.eng, p, n.blocks) /\ PrevoteFor(f.eng, p) = p.value
      BY <1>1, <2>2, ReadyConfirms DEF p
    <2>4. Confirms(f, p)
      BY <1>1, <2>1, <2>3 DEF Confirms
    <2>5. \A i \in 1 .. Len(f.effects) : i = 1
      BY <2>1
    <2>6. AskedFor(f) /\ DecidedOK(f) /\ PrevotesOK(f, D[v])
      BY <1>1, <2>1, <2>3, <2>4, <2>5 DEF AskedFor, DecidedOK, PrevotesOK
    <2> QED BY <1>2, <1>4, <2>6 DEF PathOK
  <1> QED BY <1>5, <1>6

\* A step that begins a round.
LEMMA PathBegins ==
    ASSUME NEW D, NEW S, NEW v, NEW n, EngineOK(D, S, v, n.eng), n.mode # "down",
           PathOK(n, D[v]), NEW rest, NoneReady(rest.events), NEW event, event.type # "ready",
           rest.events # <<>> => event.type \notin {"start", "timeout"},
           NEW s, StepEnds(D, S, v, n.eng, event, s), Begins(n.eng, s, n.blocks),
           NEW f, Ran(n, rest, s, f)
    PROVE  PathOK(f, D[v])
  <1> DEFINE e == n.eng
  <1>1. e \in Engines /\ e.round \in Nat /\ e.started \in BOOLEAN /\ s.e \in Engines
        /\ s.e.round \in Nat
    BY Basics DEF EngineOK, Engines, StepEnds, RunOK
  <1>2. s.e.started /\ s.e.started = TRUE
    BY <1>1 DEF Begins, Engines
  <1>3. rest.events = <<>>
    <2>1. CASE e.round < s.e.round
      BY <1>1, <2>1 DEF StepEnds
    <2>2. CASE ~e.started
      BY <1>2, <2>2 DEF StepEnds
    <2> QED BY <2>1, <2>2 DEF Begins
  <1>4. OwnAt(D[v], s.e) = {}
    <2> SUFFICES ASSUME NEW m \in OwnAt(D[v], s.e) PROVE FALSE
      OBVIOUS
    <2>1. m \in D[v] /\ m.height = e.height /\ m.round = s.e.round /\ m.kind = "proposal"
      BY DEF OwnAt, Begins
    <2>2. m.round <= e.round
      BY <1>1, <2>1 DEF EngineOK, SlotsOK
    <2>3. s.e.round = e.round /\ ~e.started
      BY <1>1, <2>1, <2>2 DEF Begins
    <2>4. e.phase = "propose"
      BY <2>3 DEF EngineOK, SlotsOK
    <2>5. m \in OwnAt(D[v], e)
      BY <2>1, <2>3 DEF OwnAt
    <2> QED BY <2>3, <2>4, <2>5, UnstartedSigned
  <1>5. Holds(s.e, n.blocks)
    BY DEF Begins, PathOK, HeldOK, Holds
  <1>6. CASE Tame(s.fx, AllValues)
    <2>1. ~s.e.started => s.e.finalized = None
      BY <1>2
    <2>2. \A p \in OwnAt(D[v], s.e) :
             s.e.phase # "propose" /\ \A x \in AllValues : x = p.value
      BY <1>4
    <2> QED BY <1>5, <1>6, <2>1, <2>2, PathRan
  <1>7. CASE Asks(s)
    BY <1>3, <1>4, <1>5, <1>7, PathAsked
  <1> QED BY <1>6, <1>7 DEF Begins

\* A step within the round.
LEMMA PathWithin ==
    ASSUME NEW D, NEW S, NEW v, NEW n, EngineOK(D, S, v, n.eng), n.mode # "down",
           PathOK(n, D[v]), NEW rest, NoneReady(rest.events),
           OwnAt(D[v], n.eng) = {} \/ n.eng.phase # "propose",
           NEW s, Within(n.eng, s, Votable(n.eng), n.blocks),
           ~s.e.started => s.e.finalized = None,
           NEW f, Ran(n, rest, s, f)
    PROVE  PathOK(f, D[v])
  <1> DEFINE X == Votable(n.eng)
  <1>1. Holds(s.e, n.blocks) /\ Tame(s.fx, X)
    BY DEF Within, PathOK, HeldOK, Holds
  <1>2. OwnAt(D[v], s.e) = OwnAt(D[v], n.eng)
    BY DEF OwnAt, Within
  <1>3. n.eng.phase # "propose" => s.e.phase # "propose" /\ X = {}
    BY DEF Within, Votable
  <1>4. \A p \in OwnAt(D[v], s.e) : s.e.phase # "propose" /\ \A x \in X : x = p.value
    BY <1>2, <1>3
  <1> HIDE DEF X
  <1> QED BY <1>1, <1>4, PathRan

\* The proposer takes up the proposal it has signed.
LEMMA PathOwn ==
    ASSUME NEW D, NEW S, NEW v, NEW n, EngineOK(D, S, v, n.eng), n.mode # "down",
           PathOK(n, D[v]), n.eng.phase = "propose", OwnAt(D[v], n.eng) # {},
           NEW event \in Events, NEW rest,
           \A x : n.events = <<x>> => event = x /\ rest.events = <<>>,
           NEW s, s = StepEngine(n.eng, event, n.blocks),
           ~s.e.started => s.e.finalized = None,
           NEW f, Ran(n, rest, s, f)
    PROVE  PathOK(f, D[v])
  <1> DEFINE e == n.eng
  <1>1. PICK p : p \in OwnAt(D[v], e)
    OBVIOUS
  <1>2. n.events = <<[type |-> "persisted", msg |-> p]>> /\ Confirms(n, p)
    BY <1>1 DEF PathOK, SignedOK
  <1>3. event = [type |-> "persisted", msg |-> p] /\ rest.events = <<>>
    BY <1>2
  <1>4. event.type = "persisted" /\ event.msg = p
    BY <1>3
  <1>5. \A q \in OwnAt(D[v], e) : q = p
    <2> TAKE q \in OwnAt(D[v], e)
    <2>1. n.events = <<[type |-> "persisted", msg |-> q]>>
      BY DEF PathOK, SignedOK
    <2>2. event = [type |-> "persisted", msg |-> q]
      BY <2>1
    <2> QED BY <1>3, <2>2
  <1>6. OwnProposal(e, p, n.blocks)
    <2>1. Undecided(e)
      BY SignedDecided
    <2>2. p.kind = "proposal"
      BY <1>1 DEF OwnAt
    <2> QED BY <1>2, <2>1, <2>2 DEF OwnProposal, Confirms
  <1> DEFINE X == {event.msg.value}
  <1>7. Within(e, s, X, n.blocks) /\ s.e.phase # "propose"
    BY <1>4, <1>6, StepOwn DEF EngineOK
  <1>8. Holds(s.e, n.blocks) /\ Tame(s.fx, X)
    BY <1>7 DEF Within, PathOK, HeldOK, Holds
  <1>9. \A q \in OwnAt(D[v], s.e) : q = p
    BY <1>5, <1>7 DEF OwnAt, Within
  <1>10. \A q \in OwnAt(D[v], s.e) : s.e.phase # "propose" /\ \A x \in X : x = q.value
    BY <1>4, <1>7, <1>9
  <1> HIDE DEF X
  <1> QED BY <1>3, <1>8, <1>10, NoneReadyEmpty, PathRan

\* Whatever the engine is given, once started it stays so.
LEMMA StepStarted ==
    ASSUME NEW D, NEW S, NEW v, NEW e, EngineOK(D, S, v, e), ~e.started => e.finalized = None,
           NEW event, NEW held, NEW s, s = StepEngine(e, event, held),
           Within(e, s, Votable(e), held) \/ Begins(e, s, held)
    PROVE  ~s.e.started => s.e.finalized = None
  <1>1. e \in Engines /\ e.started \in BOOLEAN
    BY DEF EngineOK, Engines
  <1> SUFFICES ASSUME ~s.e.started PROVE s.e.finalized = None
    OBVIOUS
  <1>2. ~e.started
    BY DEF Within, Begins
  <1>3. CASE event.type # "start"
    BY <1>2, <1>3 DEF StepEngine, Failed
  <1>4. CASE event.type = "start"
    <2>1. s = EnterRound([e EXCEPT !.started = TRUE], e.round, held)
      BY <1>2, <1>4 DEF StepEngine
    <2>2. e.validRound < e.round
      BY <1>2 DEF EngineOK, SlotsOK
    <2> QED BY <1>1, <1>2, <2>1, <2>2, StartEnters
  <1> QED BY <1>3, <1>4

\* Any step.
LEMMA PathStepped ==
    ASSUME NEW D, NEW d, NEW v, Context(D, d.stored, v), NEW n, NodeOK(D, d, v, n),
           PathOK(n, D[v]), n.mode # "down", n.effects = <<>>,
           NEW event, NEW rest, Takes(n, event, rest),
           NEW s, s = StepEngine(n.eng, event, n.blocks), NEW f, Ran(n, rest, s, f)
    PROVE  PathOK(f, D[v])
  <1> DEFINE e == n.eng
  <1>1. /\ QueuesOK(D, d.stored, v, n) /\ n \in Nodes /\ EngineOK(D, d.stored, v, e)
        /\ e \in Engines /\ n.blocks \subseteq Blocks
    BY UpOK DEF Nodes
  <1>2. HeldOK(n) /\ ReadyOK(n) /\ SignedOK(n, D[v])
    BY DEF PathOK
  <1>3. /\ event \in Events
        /\ event.type # "ready" => NoneReady(rest.events)
        /\ event.type = "ready" =>
              /\ rest.events = <<>> /\ n.events # <<>> /\ n.events[1] = event
              /\ Awaits(n.eng) /\ event.height = n.eng.height
              /\ event.round = n.eng.round /\ Backs(n, event.block)
        /\ \A x : n.events = <<x>> => event = x /\ rest.events = <<>>
    BY <1>1, <1>2, TakesRest
  <1>4. CASE event.type = "ready"
    <2>1. Readies(e, s, event.block)
      BY <1>1, <1>3, <1>4, StepReady
    <2>2. OwnAt(D[v], e) = {}
      <3> SUFFICES ASSUME NEW p \in OwnAt(D[v], e) PROVE FALSE
        OBVIOUS
      <3>1. n.events = <<[type |-> "persisted", msg |-> p]>>
        BY <1>2, <1>3, <1>4 DEF SignedOK, Awaits
      <3>2. event = [type |-> "persisted", msg |-> p]
        BY <1>3, <3>1
      <3> QED BY <1>4, <3>2
    <2> QED BY <1>1, <1>3, <1>4, <2>1, <2>2, PathReady
  <1>5. CASE event.type # "ready"
    <2>1. Within(e, s, Votable(e), n.blocks) \/ Begins(e, s, n.blocks)
      BY <1>1, <1>2, <1>3, <1>5, StepWithin DEF HeldOK
    <2>2. ~s.e.started => s.e.finalized = None
      BY <1>1, <1>2, <2>1, StepStarted DEF HeldOK
    <2>3. CASE e.phase = "propose" /\ OwnAt(D[v], e) # {}
      BY <1>1, <1>3, <2>2, <2>3, PathOwn
    <2>4. CASE /\ OwnAt(D[v], e) = {} \/ e.phase # "propose"
               /\ Within(e, s, Votable(e), n.blocks)
      BY <1>1, <1>3, <1>5, <2>2, <2>4, PathWithin
    <2>5. CASE Begins(e, s, n.blocks)
      <3>1. StepEnds(D, d.stored, v, e, event, s)
        <4>1. EventOK(D, d.stored, v, e, event) /\ (event.type = "start" => e.height <= MaxHeight)
          BY <1>1, TakenOK
        <4> QED BY <1>1, <4>1, StepEngineOK
      <3>2. rest.events # <<>> => event.type \notin {"start", "timeout"}
        <4> SUFFICES ASSUME event.type \in {"start", "timeout"} PROVE rest.events = <<>>
          OBVIOUS
        <4>1. \A i \in 1 .. Len(rest.events) : event.type \notin {"start", "timeout"}
          BY <1>1, TakenOK
        <4>2. rest \in Nodes
          BY <1>1, TakenOK
        <4>3. rest.events \in Seq(Events) /\ \A i \in 1 .. Len(rest.events) : FALSE
          BY <4>1, <4>2 DEF Nodes
        <4>4. Len(rest.events) = 0
          <5>1. Len(rest.events) \in Nat
            BY <4>3
          <5> QED BY <4>3, <5>1
        <4> QED BY <4>3, <4>4
      <3> QED BY <1>1, <1>3, <1>5, <2>5, <3>1, <3>2, PathBegins
    <2> QED BY <2>1, <2>3, <2>4, <2>5
  <1> QED BY <1>4, <1>5

-------------------------------------------------------------------------------
(* The steps of the nodes *)

\* The process of v, and no other, changes, and stays on the way.
PathMoves(v) ==
    /\ \A w \in Honest \ {v} : node'[w] = node[w]
    /\ PathOK(node'[v], Durable(v))

\* The process of v becomes f.
LEMMA MovesTo ==
    ASSUME IInv, NEW v \in Honest, NEW f, node' = [node EXCEPT ![v] = f], PathOK(f, Durable(v))
    PROVE  PathMoves(v)
  BY DEF IInv, PathMoves

\* What is known of the validator that takes a step.
LEMMA OwnKnown ==
    ASSUME IInv, OwnInv, NEW v \in Honest
    PROVE  /\ node[v] \in Nodes /\ PathOK(node[v], Durable(v)) /\ DurableBy[v] = Durable(v)
           /\ node[v].mode # "down" => HeldOK(node[v])
           /\ node[v].effects # <<>> /\ node[v].mode # "down" =>
                 /\ NoneReady(node[v].events)
                 /\ node[v].eng.phase = "propose" => OwnAt(Durable(v), node[v].eng) = {}
  <1>1. node[v] \in Nodes /\ DurableBy[v] = Durable(v)
    BY Own
  <1>2. PathOK(node[v], Durable(v))
    BY DEF OwnInv
  <1> QED BY <1>1, <1>2, PathBusy DEF PathOK

\* The command in hand is abandoned.
LEMMA AbortMoves ==
    ASSUME IInv, OwnInv, NEW v \in Honest, NEW type, Performs(v, type),
           node' = [node EXCEPT ![v] = Abort(node[v])]
    PROVE  PathMoves(v)
  <1> DEFINE f == Abort(node[v])
  <1>1. node[v].effects # <<>> /\ node[v].mode # "down"
    BY DEF Performs
  <1>2. PathOK(f, Durable(v))
    BY <1>1, OwnKnown, PathAbort
  <1> HIDE DEF f
  <1>3. node' = [node EXCEPT ![v] = f]
    BY DEF f
  <1> QED BY <1>2, <1>3, MovesTo

\* RunEvent: the engine takes the next event.
LEMMA RunEventMoves ==
    ASSUME IInv, OwnInv, NEW v \in Honest, RunEvent(v)
    PROVE  PathMoves(v)
  <1> DEFINE n == node[v]
             event == IF n.events # <<>> THEN Head(n.events) ELSE Head(n.jobs)
             rest == IF n.events # <<>> THEN [n EXCEPT !.events = Tail(@)]
                                        ELSE [n EXCEPT !.jobs = Tail(@)]
             s == StepEngine(n.eng, event, n.blocks)
             g == [rest EXCEPT !.eng = s.e, !.effects = s.fx]
             f == IF s.ok THEN g ELSE Abort(g)
  <1>1. /\ n.mode \in {"running", "recovering"} /\ n.effects = <<>>
        /\ n.events # <<>> \/ n.jobs # <<>>
        /\ node' = [node EXCEPT ![v] = f]
    BY DEF RunEvent
  <1>2. Takes(n, event, rest)
    BY <1>1 DEF Takes
  <1>3. NodeOK(DurableBy, disk[v], v, n) /\ Context(DurableBy, disk[v].stored, v) /\ n \in Nodes
    BY Own
  <1>4. PathOK(n, DurableBy[v]) /\ DurableBy[v] = Durable(v)
    BY OwnKnown
  <1>5. n.mode # "down"
    BY <1>1
  <1>6. rest \in Nodes /\ rest.blocks = n.blocks
    <2> HIDE DEF n, event, rest
    <2>1. QueuesOK(DurableBy, disk[v].stored, v, n)
      BY <1>3 DEF NodeOK
    <2>2. rest \in Nodes
      BY <1>1, <1>2, <1>3, <2>1, TakenOK
    <2>3. rest.blocks = n.blocks
      BY <1>2, <1>3 DEF Takes, Nodes
    <2> QED BY <2>2, <2>3
  <1>7. s = StepEngine(n.eng, event, n.blocks)
    OBVIOUS
  <1> HIDE DEF n, event, rest, s
  <1>8. /\ g.eng = s.e /\ g.effects = s.fx /\ g.blocks = n.blocks /\ g.events = rest.events
        /\ DOMAIN g = DOMAIN rest
    BY <1>6 DEF Nodes
  <1>9. Ran(n, rest, s, f)
    <2>1. CASE f = g
      BY <1>8, <2>1 DEF Ran
    <2>2. CASE f = Abort(g)
      <3> HIDE DEF g
      <3>1. DOMAIN g = {"mode", "eng", "blocks", "timers", "target", "jobs", "events", "effects"}
        BY <1>6, <1>8 DEF Nodes
      <3>2. /\ Abort(g).eng = g.eng /\ Abort(g).blocks = g.blocks
            /\ Abort(g).effects = <<>> /\ Abort(g).events = <<>>
        BY <3>1 DEF Abort
      <3> QED BY <1>8, <2>2, <3>2 DEF Ran
    <2> QED BY <2>1, <2>2
  <1> HIDE DEF g, f
  <1>10. PathOK(f, DurableBy[v])
    BY <1>1, <1>2, <1>3, <1>4, <1>5, <1>7, <1>9, PathStepped
  <1> QED BY <1>1, <1>4, <1>10, MovesTo

\* The rest of the process changes, or the node holds more bytes.
LEMMA KeptMoves ==
    ASSUME IInv, OwnInv, NEW v \in Honest, NEW f, node' = [node EXCEPT ![v] = f],
           node[v].mode # "down", f.eng = node[v].eng, f.effects = node[v].effects,
           f.events = node[v].events, node[v].blocks \subseteq f.blocks
    PROVE  PathMoves(v)
  <1>1. PathOK(node[v], Durable(v))
    BY OwnKnown
  <1>2. PathOK(f, Durable(v))
    BY <1>1, PathKept
  <1> QED BY <1>2, MovesTo

\* An engine that has decided nothing in its round, with nothing under way.
LEMMA FreshMoves ==
    ASSUME IInv, IInv', NEW v \in Honest, Durable(v)' = Durable(v),
           NEW f, node' = [node EXCEPT ![v] = f], f.mode # "down",
           f.eng.proposals = {}, f.eng.validBlock \in f.blocks \cup {None},
           f.eng.finalized = None, f.effects = <<>>, NoneReady(f.events),
           \A m \in f.eng.decisions : m.round # f.eng.round
    PROVE  PathMoves(v)
  <1>1. node'[v] = f
    BY DEF IInv
  <1>2. NodeOK(DurableBy', disk'[v], v, f)
    BY <1>1 DEF IInv
  <1>3. EngineOK(DurableBy', disk'[v].stored, v, f.eng)
    BY <1>2, UpOK
  <1>4. OwnAt(DurableBy'[v], f.eng) = {}
    BY <1>3, SignedDecided
  <1>5. DurableBy'[v] = Durable(v)
    BY DEF DurableBy
  <1> DEFINE X == {}
  <1>6. HeldOK(f) /\ Tame(f.effects, X)
    BY ShortTame DEF HeldOK
  <1>7. \A p \in OwnAt(Durable(v), f.eng) : f.eng.phase # "propose" /\ \A x \in X : x = p.value
    BY <1>4, <1>5
  <1> HIDE DEF X
  <1>8. PathOK(f, Durable(v))
    BY <1>6, <1>7, PathTame
  <1> QED BY <1>8, MovesTo

\* BuildProposal: the valid value again, or a new block while nothing is locked.
LEMMA BuildProposalMoves ==
    ASSUME IInv, OwnInv, NEW v \in Honest, NEW stamp \in Stamps \ BadStamps,
           BuildProposal(v, stamp)
    PROVE  PathMoves(v)
  <1> DEFINE n == node[v]
             e == n.eng
             fx == Effect(v)
             reuse == IF fx.validBlock # None THEN fx.validBlock ELSE e.lockedBlock
             b == IF reuse # None /\ reuse \in n.blocks THEN reuse
                  ELSE [round |-> fx.round, stamp |-> stamp]
             ready == [type |-> "ready", height |-> fx.height, round |-> fx.round, block |-> b]
             f == [Done(v) EXCEPT !.blocks = @ \cup {b}, !.events = Append(@, ready)]
  <1>1. Performs(v, "request") /\ node' = [node EXCEPT ![v] = f]
    BY DEF BuildProposal
  <1>2. /\ n \in Nodes /\ PathOK(n, Durable(v)) /\ HeldOK(n) /\ n.mode # "down"
        /\ n.effects # <<>> /\ Head(n.effects) = fx /\ fx.type = "request"
    BY <1>1, OwnKnown DEF Performs, Effect
  <1>3. /\ EngineOK(DurableBy, disk[v].stored, v, e) /\ fx \in Effects
        /\ EffectOK(DurableBy, disk[v].stored, v, e, fx)
    BY <1>1, Performing
  <1>4. fx.height = e.height /\ fx.round = e.round /\ e.round \in Rounds
    BY <1>2, <1>3 DEF EffectOK, EngineOK, Engines
  <1>5. fx.validBlock = e.validBlock /\ Awaits(e)
    <2>1. n.effects \in Seq(Effects)
      BY <1>2 DEF Nodes
    <2>2. 1 \in 1 .. Len(n.effects) /\ n.effects[1] = fx
      BY <1>2, <2>1, HeadTail
    <2> HIDE DEF fx, e
    <2>3. AskedFor(n)
      BY <1>2 DEF PathOK
    <2>4. n.effects[1].validBlock = n.eng.validBlock /\ Awaits(n.eng)
      BY <1>2, <2>2, <2>3 DEF AskedFor
    <2> QED BY <2>2, <2>4 DEF e
  <1>6. Fits(b, e.round) /\ (e.lockedBlock = None \/ b = e.validBlock)
    <2>1. CASE e.validBlock # None
      <3>1. b = e.validBlock
        BY <1>2, <1>5, <2>1 DEF HeldOK
      <3>2. Fits(e.validBlock, e.validRound) /\ e.validRound < e.round
        BY <1>3, <1>5, <2>1 DEF EngineOK, LockOK, Awaits
      <3>3. e.validBlock.round \in Int /\ e.validRound \in Int /\ e.round \in Int
        BY <1>3, <1>4, <2>1, Basics DEF EngineOK, Engines, Blocks
      <3>4. Fits(e.validBlock, e.round)
        BY <3>2, <3>3 DEF Fits
      <3> HIDE DEF b
      <3> QED BY <3>1, <3>4
    <2>2. CASE e.validBlock = None
      <3>1. e.lockedBlock = None
        BY <1>3, <2>2, Basics DEF EngineOK, LockOK, Engines
      <3>2. b = [round |-> e.round, stamp |-> stamp]
        BY <1>4, <1>5, <2>2, <3>1
      <3> HIDE DEF b
      <3>3. b.round = e.round /\ b.stamp \notin BadStamps
        BY <3>2
      <3> QED BY <1>4, <3>1, <3>3, Basics DEF Fits, Executable
    <2> QED BY <2>1, <2>2
  <1> HIDE DEF b
  <1>7. /\ ready.type = "ready" /\ ready.height = e.height /\ ready.round = e.round
        /\ ready.block = b
    BY <1>4
  <1> HIDE DEF ready
  <1>8. /\ f.eng = e /\ f.blocks = n.blocks \cup {b} /\ f.effects = Tail(n.effects)
        /\ f.events = Append(n.events, ready)
    BY <1>2 DEF Done, Nodes
  <1> HIDE DEF f, n, fx
  <1>9. PathOK(f, Durable(v))
    BY <1>2, <1>6, <1>7, <1>8, PathBuilt
  <1> QED BY <1>1, <1>9, MovesTo

\* Effects that are neither a request nor a decision.
LEMMA DoneMoves ==
    ASSUME IInv, OwnInv, NEW v \in Honest, NEW type \in {"broadcast", "schedule", "evidence"},
           Performs(v, type), NEW f, node' = [node EXCEPT ![v] = f],
           f.eng = node[v].eng, f.blocks = node[v].blocks,
           f.effects = Tail(node[v].effects), f.events = node[v].events
    PROVE  PathMoves(v)
  <1> DEFINE n == node[v]
  <1>1. /\ n \in Nodes /\ PathOK(n, Durable(v)) /\ n.mode # "down" /\ n.effects # <<>>
        /\ Head(n.effects).type = type
    BY OwnKnown DEF Performs, Effect
  <1>2. Head(n.effects).type # "request" /\ Head(n.effects).type # "persist"
    BY <1>1
  <1> DEFINE M == Durable(v)
  <1>3. PathOK(n, M) /\ OwnAt(M, n.eng) = OwnAt(M, n.eng)
    BY <1>1
  <1> HIDE DEF n, M
  <1>4. f.eng = n.eng /\ f.blocks = n.blocks /\ f.effects = Tail(n.effects) /\ f.events = n.events
    BY DEF n
  <1>5. PathOK(f, M)
    BY <1>1, <1>2, <1>3, <1>4, PathRest
  <1> QED BY <1>5, MovesTo DEF M

\* PersistProposal: the store refuses, or the process does not change.
LEMMA PersistProposalMoves ==
    ASSUME IInv, OwnInv, NEW v \in Honest, PersistProposal(v)
    PROVE  PathMoves(v)
  <1>1. Performs(v, "persist")
    BY DEF PersistProposal
  <1>2. CASE node' = [node EXCEPT ![v] = Abort(node[v])]
    BY <1>1, <1>2, AbortMoves
  <1>3. CASE node' = node
    BY <1>3, OwnKnown DEF PathMoves
  <1> QED BY <1>2, <1>3 DEF PersistProposal

\* BroadcastMessage performs an effect or abandons the command.
LEMMA BroadcastMoves ==
    ASSUME IInv, OwnInv, NEW v \in Honest, BroadcastMessage(v)
    PROVE  PathMoves(v)
  <1> DEFINE type == "broadcast"
             f == Done(v)
  <1>1. Performs(v, type) /\ type \in {"broadcast", "schedule", "evidence"}
    BY DEF BroadcastMessage
  <1>2. /\ f.eng = node[v].eng /\ f.blocks = node[v].blocks
        /\ f.effects = Tail(node[v].effects) /\ f.events = node[v].events
    BY OwnKnown DEF Done, Nodes
  <1> HIDE DEF f, type
  <1>3. CASE node' = [node EXCEPT ![v] = Abort(node[v])]
    BY <1>1, <1>3, AbortMoves
  <1>4. CASE node' = [node EXCEPT ![v] = f]
    BY <1>1, <1>2, <1>4, DoneMoves
  <1> QED BY <1>3, <1>4 DEF BroadcastMessage, f

\* ScheduleTimeout performs an effect.
LEMMA ScheduleMoves ==
    ASSUME IInv, OwnInv, NEW v \in Honest, ScheduleTimeout(v)
    PROVE  PathMoves(v)
  <1> DEFINE type == "schedule"
             f == [Done(v) EXCEPT !.timers = Newest(Append(@, Effect(v).timeout))]
  <1>1. /\ Performs(v, type) /\ type \in {"broadcast", "schedule", "evidence"}
        /\ node' = [node EXCEPT ![v] = f]
    BY DEF ScheduleTimeout
  <1>2. /\ f.eng = node[v].eng /\ f.blocks = node[v].blocks
        /\ f.effects = Tail(node[v].effects) /\ f.events = node[v].events
    BY OwnKnown DEF Done, Nodes
  <1> HIDE DEF f, type
  <1> QED BY <1>1, <1>2, DoneMoves

\* RecordEvidence performs an effect.
LEMMA EvidenceMoves ==
    ASSUME IInv, OwnInv, NEW v \in Honest, RecordEvidence(v)
    PROVE  PathMoves(v)
  <1> DEFINE type == "evidence"
             f == Done(v)
  <1>1. /\ Performs(v, type) /\ type \in {"broadcast", "schedule", "evidence"}
        /\ node' = [node EXCEPT ![v] = f]
    BY DEF RecordEvidence
  <1>2. /\ f.eng = node[v].eng /\ f.blocks = node[v].blocks
        /\ f.effects = Tail(node[v].effects) /\ f.events = node[v].events
    BY OwnKnown DEF Done, Nodes
  <1> HIDE DEF f, type
  <1> QED BY <1>1, <1>2, DoneMoves

\* A new engine has decided nothing.
LEMMA NewEngineFields ==
    ASSUME NEW v, NEW h
    PROVE  /\ NewEngine(v, h).proposals = {} /\ NewEngine(v, h).validBlock = None
           /\ NewEngine(v, h).finalized = None /\ NewEngine(v, h).decisions = {}
  BY DEF NewEngine

\* CommitFinalized: an engine for the next height.
LEMMA CommitFinalizedMoves ==
    ASSUME IInv, IInv', OwnInv, NEW v \in Honest, CommitFinalized(v), Durable(v)' = Durable(v)
    PROVE  PathMoves(v)
  <1> DEFINE h == Effect(v).certificate.height + 1
             n == node[v]
             f == Reset(Done(v), h)
  <1>1. Performs(v, "finalize")
    BY DEF CommitFinalized
  <1>2. CASE node' = [node EXCEPT ![v] = Abort(node[v])]
    BY <1>1, <1>2, AbortMoves
  <1>3. CASE node' = [node EXCEPT ![v] = f]
    <2>1. /\ n \in Nodes /\ n.mode # "down" /\ n.effects # <<>> /\ NoneReady(n.events)
          /\ Head(n.effects).type = "finalize"
      BY <1>1, OwnKnown DEF Performs, Effect
    <2>2. EffectsOK(DurableBy, disk[v].stored, v, n.eng, n.effects)
      BY <2>1, Own, UpOK
    <2>3. Tail(n.effects) = <<>>
      <3> DEFINE fx == n.effects
      <3>1. EffectsOK(DurableBy, disk[v].stored, v, n.eng, fx) /\ fx # <<>>
            /\ Head(fx).type = "finalize"
        BY <2>1, <2>2
      <3> HIDE DEF fx
      <3>2. Tail(fx) = <<>>
        BY <3>1, FinalizeLast
      <3> QED BY <3>2 DEF fx
    <2> HIDE DEF h
    <2>4. /\ f.eng = NewEngine(n.eng.id, h) /\ f.effects = Tail(n.effects)
          /\ f.events = n.events /\ f.mode = n.mode
      BY <2>1 DEF Reset, Done, Nodes
    <2> HIDE DEF f
    <2>5. /\ f.mode # "down" /\ f.effects = <<>> /\ NoneReady(f.events)
          /\ f.eng.proposals = {} /\ f.eng.validBlock \in f.blocks \cup {None}
          /\ f.eng.finalized = None /\ \A m \in f.eng.decisions : m.round # f.eng.round
      BY <2>1, <2>3, <2>4, NewEngineFields
    <2> QED BY <1>3, <2>5, FreshMoves
  <1> QED BY <1>2, <1>3 DEF CommitFinalized

\* ImportNext: an engine for the next height.
LEMMA ImportNextMoves ==
    ASSUME IInv, IInv', OwnInv, NEW v \in Honest, NEW c, ImportNext(v, c),
           Durable(v)' = Durable(v)
    PROVE  PathMoves(v)
  <1> DEFINE h == c.height + 1
             n == node[v]
             o == IF node[v].target <= c.height THEN 0 ELSE node[v].target
             f == [Reset(n, h) EXCEPT !.target = o]
  <1>1. node' = [node EXCEPT ![v] = f]
    BY DEF ImportNext
  <1>2. n.mode = "running" /\ n.events = <<>> /\ n.effects = <<>> /\ n \in Nodes
    BY OwnKnown DEF ImportNext, Ready, Idle
  <1> HIDE DEF h, o
  <1>3. /\ f.eng = NewEngine(n.eng.id, h) /\ f.effects = n.effects
        /\ f.events = n.events /\ f.mode = n.mode
    BY <1>2 DEF Reset, Nodes
  <1> HIDE DEF f
  <1>4. /\ f.mode # "down" /\ f.effects = <<>> /\ NoneReady(f.events)
        /\ f.eng.proposals = {} /\ f.eng.validBlock \in f.blocks \cup {None}
        /\ f.eng.finalized = None /\ \A m \in f.eng.decisions : m.round # f.eng.round
    BY <1>2, <1>3, NewEngineFields, NoneReadyEmpty
  <1> QED BY <1>1, <1>4, FreshMoves

\* A process that is down does nothing.
LEMMA CrashMoves ==
    ASSUME IInv, NEW v \in Honest, Crash(v)
    PROVE  PathMoves(v)
  <1> DEFINE f == DownProcess(v)
  <1>1. f.mode = "down"
    BY DEF DownProcess, Process
  <1>2. node' = [node EXCEPT ![v] = f]
    BY DEF Crash
  <1> HIDE DEF f
  <1> QED BY <1>1, <1>2, MovesTo DEF PathOK

\* RestartFresh: a new engine.
LEMMA RestartFreshMoves ==
    ASSUME IInv, IInv', NEW v \in Honest, RestartFresh(v), Durable(v)' = Durable(v)
    PROVE  PathMoves(v)
  <1> DEFINE h == NextHeight(v)
             f == Process("running", NewEngine(v, h), {}, <<>>)
  <1>1. node' = [node EXCEPT ![v] = f]
    BY DEF RestartFresh
  <1>2. /\ f.eng = NewEngine(v, h) /\ f.effects = <<>> /\ f.events = <<>>
        /\ f.mode = "running"
    BY DEF Process
  <1> HIDE DEF f
  <1>3. /\ f.mode # "down" /\ NoneReady(f.events)
        /\ f.eng.proposals = {} /\ f.eng.validBlock \in f.blocks \cup {None}
        /\ f.eng.finalized = None /\ \A m \in f.eng.decisions : m.round # f.eng.round
    BY <1>2, NewEngineFields, NoneReadyEmpty
  <1> QED BY <1>1, <1>2, <1>3, FreshMoves

\* RestartInterrupted: the round after the last signed one, nothing decided in it.
LEMMA RestartInterruptedMoves ==
    ASSUME IInv, IInv', NEW v \in Honest, RestartInterrupted(v), Durable(v)' = Durable(v)
    PROVE  PathMoves(v)
  <1> DEFINE h == NextHeight(v)
             s == disk[v].safety
             M == MessagesAt(v, h)
             e == RestoredEngine(v, s, M)
             held == StoredBlocks(v, h)
             f == Process("recovering", e, held, <<Start>>)
  <1>1. node' = [node EXCEPT ![v] = f] /\ s # None /\ Recoverable(v)
    BY DEF RestartInterrupted
  <1>2. s.validBlock \in held \cup {None} /\ \A m \in M : m.round <= s.round
    BY <1>1 DEF Recoverable, Restorable
  <1>3. s \in SafetyStates
    BY <1>1, Own DEF Disks
  <1>4. s.round \in Nat /\ M \subseteq Msgs
    <2>1. s.round \in Nat
      BY <1>3, Basics DEF SafetyStates
    <2>2. M \subseteq Durable(v)
      BY MessagesAtHeight
    <2>3. Durable(v) \subseteq Msgs
      BY Own DEF Context, DurableOK
    <2> QED BY <2>1, <2>2, <2>3
  <1>5. \A m \in M : m.round \in Nat
    BY <1>4, MsgFields
  <1> HIDE DEF M, s, held, h
  <1>6. /\ e.proposals = {} /\ e.validBlock = s.validBlock /\ e.finalized = None
        /\ e.decisions = M /\ e.round = s.round + 1
    BY DEF RestoredEngine, NewEngine
  <1> HIDE DEF e
  <1>7. /\ f.eng = e /\ f.effects = <<>> /\ f.events = <<>> /\ f.mode = "recovering"
        /\ f.blocks = held
    BY DEF Process
  <1> HIDE DEF f
  <1>8. \A m \in f.eng.decisions : m.round # f.eng.round
    BY <1>2, <1>4, <1>5, <1>6, <1>7
  <1>9. /\ f.mode # "down" /\ NoneReady(f.events)
        /\ f.eng.proposals = {} /\ f.eng.validBlock \in f.blocks \cup {None}
        /\ f.eng.finalized = None
    BY <1>2, <1>6, <1>7, NoneReadyEmpty
  <1> QED BY <1>1, <1>7, <1>8, <1>9, FreshMoves

\* Steps that touch neither the engine nor what is under way in it.
LEMMA CommandMoves ==
    ASSUME IInv, OwnInv, NEW v \in Honest,
           \/ Resumed(v) \/ Tick(v)
           \/ \E m : DeliverVote(v, m) \/ DeliverProposal(v, m)
           \/ \E i : TimerFires(v, i)
           \/ \E c : BeginSync(v, c) \/ HaltOnConflict(v, c)
    PROVE  PathMoves(v)
  <1> DEFINE n == node[v]
  <1>1. n \in Nodes /\ node \in [Honest -> Nodes]
    BY Own DEF IInv
  <1>2. ASSUME NEW f, node' = [node EXCEPT ![v] = f], n.mode # "down", f.eng = n.eng,
               f.effects = n.effects, f.events = n.events, n.blocks \subseteq f.blocks
        PROVE  PathMoves(v)
    BY <1>2, KeptMoves
  <1>3. CASE Resumed(v)
    <2> DEFINE f == [n EXCEPT !.mode = "running"]
    <2>1. node' = [node EXCEPT ![v] = f] /\ n.mode # "down"
      BY <1>3 DEF Resumed
    <2>2. f.eng = n.eng /\ f.effects = n.effects /\ f.events = n.events /\ f.blocks = n.blocks
      BY <1>1 DEF Nodes
    <2> HIDE DEF f
    <2> QED BY <1>2, <2>1, <2>2
  <1>4. CASE Tick(v)
    <2> DEFINE f == [n EXCEPT !.jobs = <<Start>>]
    <2>1. node' = [node EXCEPT ![v] = f] /\ n.mode # "down"
      BY <1>4 DEF Tick, Participates, Ready
    <2>2. f.eng = n.eng /\ f.effects = n.effects /\ f.events = n.events /\ f.blocks = n.blocks
      BY <1>1 DEF Nodes
    <2> HIDE DEF f
    <2> QED BY <1>2, <2>1, <2>2
  <1>5. ASSUME NEW m, DeliverVote(v, m) PROVE PathMoves(v)
    <2> DEFINE q == StartThen(v, [type |-> "message", msg |-> m])
               f == [n EXCEPT !.jobs = q]
    <2>1. node' = [node EXCEPT ![v] = f] /\ n.mode # "down"
      BY <1>5 DEF DeliverVote, Participates, Ready
    <2> HIDE DEF q
    <2>2. f.eng = n.eng /\ f.effects = n.effects /\ f.events = n.events /\ f.blocks = n.blocks
      BY <1>1 DEF Nodes
    <2> HIDE DEF f
    <2> QED BY <1>2, <2>1, <2>2
  <1>6. ASSUME NEW m, DeliverProposal(v, m) PROVE PathMoves(v)
    <2> DEFINE q == StartThen(v, [type |-> "message", msg |-> m])
               held == n.blocks \cup {m.value}
               f == [n EXCEPT !.blocks = held, !.jobs = q]
    <2>1. node' = [node EXCEPT ![v] = f] /\ n.mode # "down"
      BY <1>6 DEF DeliverProposal, Participates, Ready
    <2>2. n.blocks \subseteq held
      OBVIOUS
    <2> HIDE DEF q, held
    <2>3. f.eng = n.eng /\ f.effects = n.effects /\ f.events = n.events /\ f.blocks = held
      BY <1>1 DEF Nodes
    <2> HIDE DEF f
    <2> QED BY <1>2, <2>1, <2>2, <2>3
  <1>7. ASSUME NEW i, TimerFires(v, i) PROVE PathMoves(v)
    <2> DEFINE q == IF n.eng.started /\ n.target = 0
                    THEN <<[type |-> "timeout", timeout |-> n.timers[i]]>> ELSE <<>>
               o == RemoveAt(n.timers, i)
               f == [n EXCEPT !.timers = o, !.jobs = q]
    <2>1. node' = [node EXCEPT ![v] = f] /\ n.mode # "down"
      BY <1>1, <1>7 DEF TimerFires, Ready
    <2> HIDE DEF q, o
    <2>2. f.eng = n.eng /\ f.effects = n.effects /\ f.events = n.events /\ f.blocks = n.blocks
      BY <1>1 DEF Nodes
    <2> HIDE DEF f
    <2> QED BY <1>2, <2>1, <2>2
  <1>8. ASSUME NEW c, BeginSync(v, c) PROVE PathMoves(v)
    <2> DEFINE f == [n EXCEPT !.target = c.height]
    <2>1. node' = [node EXCEPT ![v] = f] /\ n.mode # "down"
      BY <1>8 DEF BeginSync, Ready
    <2>2. f.eng = n.eng /\ f.effects = n.effects /\ f.events = n.events /\ f.blocks = n.blocks
      BY <1>1 DEF Nodes
    <2> HIDE DEF f
    <2> QED BY <1>2, <2>1, <2>2
  <1>9. ASSUME NEW c, HaltOnConflict(v, c) PROVE PathMoves(v)
    <2> DEFINE f == [n EXCEPT !.mode = "halted", !.target = 0]
    <2>1. node' = [node EXCEPT ![v] = f] /\ n.mode # "down"
      BY <1>9 DEF HaltOnConflict, Ready
    <2>2. f.eng = n.eng /\ f.effects = n.effects /\ f.events = n.events /\ f.blocks = n.blocks
      BY <1>1 DEF Nodes
    <2> HIDE DEF f
    <2> QED BY <1>2, <2>1, <2>2
  <1> QED BY <1>3, <1>4, <1>5, <1>6, <1>7, <1>8, <1>9

\* Only a proposer's own proposal comes before a prevote.
LEMMA PersistDecisionMoves ==
    ASSUME IInv, OwnInv, NEW v \in Honest, PersistDecision(v)
    PROVE  /\ \A w \in Honest \ {v} : node'[w] = node[w]
           /\ PathOK(node'[v], Durable(v)') /\ BacksOwn(Durable(v)')
  <1> DEFINE fx == Effect(v)
             m == fx.msg
             n == node[v]
             M == Durable(v)
             x == [type |-> "persisted", msg |-> m]
             f == [Done(v) EXCEPT !.events = Append(@, x)]
  <1>1. Performs(v, "persist")
    BY DEF PersistDecision
  <1>2. {r \in Rows(v) : SameSlot(r.msg, m)} = {}
    BY <1>1, SlotFree
  <1>3. node' = [node EXCEPT ![v] = f]
    BY <1>2 DEF PersistDecision
  <1>4. Durable(v)' = M \cup {m}
    BY PersistAdds
  <1>5. /\ n \in Nodes /\ PathOK(n, M) /\ n.mode # "down" /\ n.effects # <<>>
        /\ Head(n.effects).type = "persist" /\ Head(n.effects).msg = m
        /\ NoneReady(n.events)
    BY <1>1, OwnKnown DEF Performs, Effect
  <1>6. BacksOwn(M)
    BY DEF OwnInv
  <1>7. /\ EngineOK(DurableBy, disk[v].stored, v, n.eng)
        /\ DecisionOK(DurableBy, v, n.eng, m) /\ m \in Msgs /\ DurableBy[v] = M
    BY <1>1, Performing, EffectFields, OwnKnown DEF EffectOK
  <1>8. /\ f.eng = n.eng /\ f.blocks = n.blocks /\ f.effects = Tail(n.effects)
        /\ f.events = Append(n.events, x)
    BY <1>5 DEF Done, Nodes
  <1>9. /\ node'[v] = f /\ \A w \in Honest \ {v} : node'[w] = node[w]
    BY <1>3 DEF IInv
  <1> DEFINE K == M \cup {m}
  <1> HIDE DEF f, n, m, fx, M
  <1>10. m.height = n.eng.height /\ m.round = n.eng.round
    BY <1>7 DEF DecisionOK
  <1>11. CASE m.kind = "proposal"
    <2>1. PathOK(f, K) /\ n.eng.phase = "propose"
      BY <1>5, <1>8, <1>11, PathSigned
    <2>2. BacksOwn(K)
      <3> SUFFICES ASSUME NEW p \in K, NEW q \in K, p.kind = "proposal", q.kind = "prevote",
                          p.height = q.height, p.round = q.round
                   PROVE  q.value = p.value
        BY DEF BacksOwn
      <3>1. q \in M
        BY <1>11
      <3>2. p \in M
        <4> SUFFICES ASSUME p = m PROVE FALSE
          OBVIOUS
        <4>1. q \in n.eng.decisions /\ q.round = n.eng.round
          BY <1>7, <1>10, <3>1, SignedDecided
        <4>2. Undecided(n.eng)
          BY <1>7, <2>1, SignedDecided
        <4> QED BY <4>1, <4>2 DEF Undecided
      <3> QED BY <1>6, <3>1, <3>2 DEF BacksOwn
    <2> QED BY <1>4, <1>9, <2>1, <2>2
  <1>12. CASE m.kind # "proposal"
    <2>1. OwnAt(K, n.eng) = OwnAt(M, n.eng)
      BY <1>12 DEF OwnAt
    <2>2. NoneReady(f.events)
      <3>1. n.events \in Seq(Events) /\ x \in Events
        BY <1>5, <1>7 DEF Nodes, Events
      <3> HIDE DEF x
      <3>2. /\ Len(n.events) \in Nat /\ Len(f.events) = Len(n.events) + 1
            /\ \A i \in 1 .. Len(n.events) : f.events[i] = n.events[i]
            /\ f.events[Len(n.events) + 1] = x
        BY <1>8, <3>1, AddOne
      <3>3. x.type = "persisted"
        BY DEF x
      <3>4. ASSUME NEW i \in 1 .. Len(f.events) PROVE f.events[i].type # "ready"
        <4>1. CASE i \in 1 .. Len(n.events)
          BY <1>5, <3>2, <4>1 DEF NoneReady
        <4>2. CASE i = Len(n.events) + 1
          BY <3>2, <3>3, <4>2
        <4> QED BY <3>2, <4>1, <4>2
      <3> QED BY <3>4 DEF NoneReady
    <2> HIDE DEF K
    <2>3. PathOK(f, K)
      BY <1>5, <1>8, <1>12, <2>1, <2>2, PathRest
    <2>4. ASSUME m.kind = "prevote", NEW p \in M, p.kind = "proposal",
                 p.height = m.height, p.round = m.round
          PROVE  m.value = p.value
      <3>1. p \in OwnAt(M, n.eng)
        BY <1>10, <2>4 DEF OwnAt
      <3>2. n.effects \in Seq(Effects)
        BY <1>5 DEF Nodes
      <3>3. n.effects[1].type = "persist" /\ n.effects[1].msg = m /\ 1 \in 1 .. Len(n.effects)
        BY <1>5, <3>2, HeadTail
      <3> QED BY <1>5, <2>4, <3>1, <3>3 DEF PathOK, PrevotesOK
    <2>5. BacksOwn(K)
      BY <1>6, <1>12, <2>4 DEF BacksOwn, K
    <2> QED BY <1>4, <1>9, <2>3, <2>5 DEF K
  <1> QED BY <1>11, <1>12

\* One validator moves, and nothing new is durable.
LEMMA OneMoves ==
    ASSUME IInv, OwnInv, NEW v \in Honest, PathMoves(v),
           \A w \in Honest : Durable(w)' = Durable(w)
    PROVE  OwnInv'
  <1>1. ASSUME NEW w \in Honest PROVE BacksOwn(Durable(w)) /\ PathOK(node'[w], Durable(w))
    <2>1. BacksOwn(Durable(w)) /\ PathOK(node[w], Durable(w))
      BY DEF OwnInv
    <2>2. CASE w = v
      BY <2>1, <2>2 DEF PathMoves
    <2>3. CASE w # v
      BY <2>1, <2>3 DEF PathMoves
    <2> QED BY <2>2, <2>3
  <1>2. ASSUME NEW w \in Honest PROVE (BacksOwn(Durable(w)) /\ PathOK(node[w], Durable(w)))'
    <2>1. Durable(w)' = Durable(w)
      OBVIOUS
    <2> QED BY <1>1, <2>1
  <1> QED BY <1>2 DEF OwnInv

\* Every step keeps OwnInv.
LEMMA NextOwnInv ==
    ASSUME IInv, IInv', OwnInv, [Next]_vars
    PROVE  OwnInv'
  <1>1. CASE \E v \in Honest : PersistDecision(v)
    <2>1. PICK v \in Honest : PersistDecision(v)
      BY <1>1
    <2>2. /\ \A w \in Honest \ {v} : node'[w] = node[w]
          /\ PathOK(node'[v], Durable(v)') /\ BacksOwn(Durable(v)')
      BY <2>1, PersistDecisionMoves
    <2>3. \A w \in Honest \ {v} : Durable(w)' = Durable(w)
      BY <2>1, PersistAdds
    <2>4. ASSUME NEW w \in Honest PROVE BacksOwn(Durable(w)') /\ PathOK(node'[w], Durable(w)')
      <3>1. CASE w = v
        BY <2>2, <3>1
      <3>2. CASE w # v
        BY <2>2, <2>3, <3>2 DEF OwnInv
      <3> QED BY <3>1, <3>2
    <2> QED BY <2>4 DEF OwnInv
  <1>2. CASE ~\E v \in Honest : PersistDecision(v)
    <2>1. \A w \in Honest : Durable(w)' = Durable(w)
      BY <1>2, OnlyPersistSigns
    <2>2. CASE UNCHANGED vars
      <3>1. \A w \in Honest : node'[w] = node[w]
        BY <2>2 DEF vars
      <3>2. ASSUME NEW w \in Honest PROVE BacksOwn(Durable(w)') /\ PathOK(node'[w], Durable(w)')
        BY <2>1, <3>1 DEF OwnInv
      <3> QED BY <3>2 DEF OwnInv
    <2>3. ASSUME NEW v \in Honest, NodeStep(v) PROVE PathMoves(v)
      <3>1. CASE RunEvent(v)
        BY <3>1, RunEventMoves
      <3>2. CASE Resumed(v)
        BY <3>2, CommandMoves
      <3>3. CASE \E stamp \in Stamps \ BadStamps : BuildProposal(v, stamp)
        BY <3>3, BuildProposalMoves
      <3>4. CASE PersistProposal(v)
        BY <3>4, PersistProposalMoves
      <3>5. CASE BroadcastMessage(v)
        BY <3>5, BroadcastMoves
      <3>6. CASE ScheduleTimeout(v)
        BY <3>6, ScheduleMoves
      <3>7. CASE RecordEvidence(v)
        BY <3>7, EvidenceMoves
      <3>8. CASE CommitFinalized(v)
        BY <2>1, <3>8, CommitFinalizedMoves
      <3> QED BY <1>2, <2>3, <3>1, <3>2, <3>3, <3>4, <3>5, <3>6, <3>7, <3>8 DEF NodeStep
    <2>4. ASSUME NEW v \in Honest, Command(v) PROVE PathMoves(v)
      <3>1. CASE \E c \in Importable : ImportNext(v, c)
        BY <2>1, <3>1, ImportNextMoves
      <3>2. CASE \/ Tick(v)
                 \/ \E m \in Deliverable : DeliverVote(v, m) \/ DeliverProposal(v, m)
                 \/ \E i \in DOMAIN node[v].timers : TimerFires(v, i)
                 \/ \E c \in Importable : BeginSync(v, c) \/ HaltOnConflict(v, c)
        BY <3>2, CommandMoves
      <3> QED BY <2>4, <3>1, <3>2 DEF Command
    <2>5. ASSUME NEW v \in Honest, Crash(v) \/ RestartFresh(v) \/ RestartInterrupted(v)
          PROVE  PathMoves(v)
      BY <2>1, <2>5, CrashMoves, RestartFreshMoves, RestartInterruptedMoves
    <2> QED BY <2>1, <2>2, <2>3, <2>4, <2>5, OneMoves DEF Next
  <1> QED BY <1>1, <1>2

\* Nothing is signed and nobody is up.
LEMMA InitOwnInv == Init => OwnInv
  <1> SUFFICES ASSUME Init, NEW v \in Honest
               PROVE  BacksOwn(Durable(v)) /\ PathOK(node[v], Durable(v))
    BY DEF OwnInv
  <1>1. node[v].mode = "down"
    BY DEF Init, DownProcess, Process
  <1>2. Durable(v) = {}
    BY DEF Init, Durable, Rows, EmptyDisk
  <1> QED BY <1>1, <1>2 DEF PathOK, BacksOwn

\* A proposer's own lock accepts what it proposes: what it proposes again is
\* its valid value, which its lock never contradicts, and between asking for
\* the proposal and prevoting it nothing reaches the engine but its answers.
THEOREM ProposerConfirms == Spec => []ProposerBacksItself
  <1>1. IInv /\ OwnInv /\ IInv' /\ [Next]_vars => OwnInv'
    BY NextOwnInv
  <1>2. OwnInv => ProposerBacksItself
    BY DEF OwnInv, BacksOwn, ProposerBacksItself
  <1> QED BY <1>1, <1>2, InitOwnInv, Invariance, PTL DEF Spec
===============================================================================
