--------------------------------- MODULE Sync ---------------------------------
(***************************************************************************)
(* Catching up with finalized history (kcoin-node runtime.rs, network.rs): *)
(* one node's sync target, its single active range request, the requests   *)
(* the network task still tracks, and the completions on their way back,   *)
(* which may be late, lost by the lagging event bus, or stale.  Peers      *)
(* connect and disconnect, and the bus may drop the news of that too;      *)
(* unhelpful peers (faulty, stuck or lagging) never serve a range, or      *)
(* serve one with an invalid record.                                       *)
(*                                                                         *)
(* There is one certified chain (module Voting), so a record is a height   *)
(* and whether it verifies; what a conflicting record does is modelled in  *)
(* module Consensus.                                                       *)
(***************************************************************************)
EXTENDS Integers, Sequences, SequencesExt, FiniteSets, FiniteSetsExt

CONSTANTS
    Peers,       \* peer ids, ordered as their bytes are
    Unhelpful,   \* peers that never serve what is asked for
    Limit,       \* records in a range (128)
    MaxTip,      \* bound: finalized heights
    MaxFlight,   \* bound: requests under way; a command that would exceed it waits
    MaxFaults    \* bound: losses, early deadlines, failures, disconnects, crashes

ASSUME SyncAssumption ==
    /\ Peers \subseteq Nat \ {0} /\ Unhelpful \subseteq Peers
    /\ Limit \in Nat \ {0} /\ MaxTip \in Nat /\ MaxFlight \in Nat \ {0} /\ MaxFaults \in Nat

NoPeer == 0
NoRequest == 0
NoTarget == 0
Nothing == [kind |-> "nothing"]
Pending == [type |-> "pending"]
Failed == [type |-> "failed"]     \* SyncFailure, or SyncResponse::Error

Helpful == Peers \ Unhelpful

VARIABLES
    node,     \* the actor's sync state
    linked,   \* the peers the network task is connected to
    has,      \* has[p]: finalized height of a helpful peer
    flight,   \* requests not yet completed, and completions not yet handled
    faults    \* faults so far

vars == <<node, linked, has, flight, faults>>

\* The deadline of the watchdog is set and cleared together with the request.
NewNode(height, peers) ==
    [height |-> height, target |-> NoTarget, syncPeer |-> NoPeer,
     request |-> NoRequest, peers |-> peers, out |-> Nothing]

\* The highest certified height.
Tip == Max({has[p] : p \in Helpful} \cup {0})

\* Request ids are only compared with the active id and those in flight, so the
\* code's counter is replaced by the smallest id that is not in use.
FreshId ==
    LET used == {i.id : i \in flight} \cup {node.request}
    IN Min((1 .. Cardinality(used) + 1) \ used)

Intent(peer, kind, from) ==
    [id |-> FreshId, peer |-> peer, kind |-> kind, from |-> from, reply |-> Pending]

-------------------------------------------------------------------------------
(* The actor.  n.out is the request a command sends, if any. *)

RequestSyncBlocks(n, p) ==
    [n EXCEPT !.syncPeer = p, !.request = FreshId,
              !.out = Intent(p, "blocks", n.height + 1)]

EnsureActiveSyncRequest(n, p) ==
    IF n.request # NoRequest THEN n ELSE RequestSyncBlocks(n, p)

BeginSync(n, p, height) ==
    IF height <= n.height THEN n
    ELSE EnsureActiveSyncRequest([n EXCEPT !.target = Max({@, height})], p)

\* Wrong on purpose: the target has to be passed.
FinishSyncPastTarget(n) ==
    IF n.target # NoTarget /\ n.height > n.target
    THEN [n EXCEPT !.target = NoTarget, !.syncPeer = NoPeer, !.request = NoRequest]
    ELSE n

FinishSyncIfCurrent(n) ==
    IF n.target # NoTarget /\ n.height >= n.target
    THEN [n EXCEPT !.target = NoTarget, !.syncPeer = NoPeer, !.request = NoRequest]
    ELSE n

ImportFinalized(n) == FinishSyncIfCurrent([n EXCEPT !.height = @ + 1])

\* Wrong on purpose: the only connected peer is not tried again.
ChooseOtherPeer(peers, failed) ==
    IF peers \ {failed} # {} THEN Min(peers \ {failed}) ELSE NoPeer

\* The connected peer with the smallest id, the failed one as the last resort.
ChooseSyncRetryPeer(peers, failed) ==
    IF peers \ {failed} # {} THEN Min(peers \ {failed})
    ELSE IF failed \in peers THEN failed
    ELSE NoPeer

\* Wrong on purpose: the failure of any request to the peer counts.
RetryAnyRequest(n, failed, id) ==
    LET next == ChooseSyncRetryPeer(n.peers, failed)
        cleared == [n EXCEPT !.syncPeer = next, !.request = NoRequest]
    IN IF n.target = NoTarget \/ n.syncPeer # failed THEN n
       ELSE IF next = NoPeer THEN cleared
       ELSE RequestSyncBlocks(cleared, next)

\* Nothing happens unless the failure is about the active request: id is the
\* failed request, or NoRequest when the peer disconnected.
RetrySyncAfterFailure(n, failed, id) ==
    LET next == ChooseSyncRetryPeer(n.peers, failed)
        cleared == [n EXCEPT !.syncPeer = next, !.request = NoRequest]
    IN IF \/ n.target = NoTarget \/ n.syncPeer # failed
          \/ id # NoRequest /\ id # n.request
       THEN n
       ELSE IF next = NoPeer THEN cleared
       ELSE RequestSyncBlocks(cleared, next)

\* validate_sync_response_intent for a range: it is still the one waited for.
MatchesIntent(n, i) ==
    /\ n.target # NoTarget
    /\ n.request = i.id /\ n.syncPeer = i.peer
    /\ i.from = n.height + 1
    /\ i.reply.type = "blocks" /\ Len(i.reply.records) <= Limit

\* validate_sync_batch_sequence.
IsSequence(records, from) ==
    \A k \in DOMAIN records : records[k].height = from + k - 1

\* The node after k records of a range, in sequence, have been imported.
Imported(n, k) == IF k = 0 THEN n ELSE FinishSyncIfCurrent([n EXCEPT !.height = @ + k])

\* Wrong on purpose: a range is trusted once its heights are in sequence.
ImportUnverified(n, records) == [n |-> Imported(n, Len(records)), ok |-> TRUE]

\* Records are imported one after another until one does not verify.
ImportRange(n, records) ==
    LET good == Max({k \in 0 .. Len(records) : \A j \in 1 .. k : records[j].valid})
    IN [n |-> Imported(n, good), ok |-> good = Len(records)]

\* (A range that is empty although the target is reached cannot be waited for:
\* see SyncingIsBehind.)
HandleBlocks(n, i) ==
    LET s == ImportRange(n, i.reply.records)
        refused == RetrySyncAfterFailure(n, i.peer, i.id)
    IN IF ~MatchesIntent(n, i) THEN refused
       ELSE IF i.reply.records = <<>> THEN refused
       ELSE IF ~IsSequence(i.reply.records, i.from) THEN refused
       ELSE IF ~s.ok THEN RetrySyncAfterFailure(s.n, i.peer, i.id)
       ELSE IF s.n.target # NoTarget THEN RequestSyncBlocks(s.n, i.peer)
       ELSE s.n

\* Wrong on purpose: the claimed height is believed.
HandleClaimedStatus(n, i) ==
    IF i.reply.type = "status" THEN BeginSync(n, i.peer, i.reply.height)
    ELSE RetrySyncAfterFailure(n, i.peer, i.id)

\* A higher tip counts only with its certificate.
HandleStatus(n, i) ==
    IF i.reply.type = "status" /\ i.reply.proven THEN BeginSync(n, i.peer, i.reply.height)
    ELSE RetrySyncAfterFailure(n, i.peer, i.id)

-------------------------------------------------------------------------------
(* Actions *)

\* A command leaves the actor in state n and hands its request to the network.
Commands(n, rest) ==
    /\ n.out # Nothing => Cardinality(rest) < MaxFlight
    /\ node' = [n EXCEPT !.out = Nothing]
    /\ flight' = rest \cup (IF n.out = Nothing THEN {} ELSE {n.out})

Init ==
    /\ node = NewNode(0, {}) /\ linked = {}
    /\ has = [p \in Helpful |-> 0]
    /\ flight = {}
    /\ faults = 0

\* Another height is finalized, or reaches another helpful peer.
Finalize(p) ==
    /\ has[p] < MaxTip
    /\ has' = [has EXCEPT ![p] = @ + 1]
    /\ UNCHANGED <<node, linked, flight, faults>>

\* The actor's set of peers tolerates an event for a peer it already has.
PeerConnected(p) ==
    LET n == [node EXCEPT !.peers = @ \cup {p}]
    IN /\ p \notin linked /\ linked' = linked \cup {p}
       /\ Commands(IF n.target # NoTarget THEN EnsureActiveSyncRequest(n, p)
                   ELSE [n EXCEPT !.out = Intent(p, "status", 0)], flight)
       /\ UNCHANGED <<has, faults>>

PeerDisconnected(p) ==
    LET n == [node EXCEPT !.peers = @ \ {p}]
    IN /\ p \in linked /\ faults < MaxFaults
       /\ linked' = linked \ {p}
       /\ Commands(IF n.syncPeer = p THEN RetrySyncAfterFailure(n, p, NoRequest) ELSE n,
                   flight)
       /\ faults' = faults + 1
       /\ UNCHANGED has

\* The event bus lags and drops the news of a connection or of its end.
LosePeerEvent(p) ==
    /\ faults < MaxFaults
    /\ linked' = IF p \in linked THEN linked \ {p} ELSE linked \cup {p}
    /\ faults' = faults + 1
    /\ UNCHANGED <<node, has, flight>>

\* A finalized record arrives by gossip, published by p, connected or not.
Gossip(p, h) ==
    /\ h \in (node.height + 1) .. has[p]
    /\ Commands(IF h = node.height + 1 THEN ImportFinalized(node) ELSE BeginSync(node, p, h),
                flight)
    /\ UNCHANGED <<linked, has, faults>>

Record(height, valid) == [height |-> height, valid |-> valid]
Blocks(records) == [type |-> "blocks", records |-> records]
Status(height, proven) == [type |-> "status", height |-> height, proven |-> proven]

\* respond_to_sync: consecutive records, as many as fit into the answer.
HelpfulReplies(i) ==
    IF i.kind = "status" THEN {Status(has[i.peer], TRUE)}
    ELSE LET most == Min({Limit, Max({0, has[i.peer] - i.from + 1})})
         IN {Blocks([k \in 1 .. n |-> Record(i.from + k - 1, TRUE)]) :
                n \in IF most = 0 THEN {0} ELSE 1 .. most}

\* What peers that are no help may answer: a tip without its certificate, the
\* wrong kind, nothing, records out of place, a range that turns invalid.  They
\* cannot forge a certificate.
UnhelpfulReplies(i) ==
    IF i.kind = "status" THEN {Status(Tip, TRUE), Status(MaxTip + 1, FALSE)}
    ELSE {Status(Tip, TRUE), Blocks(<<>>), Blocks(<<Record(i.from + 1, i.from < Tip)>>),
          Blocks(<<Record(i.from, i.from <= Tip), Record(i.from + 1, FALSE)>>)}

\* The network completes a request: with an answer, or with a failure.
Complete(i) ==
    /\ i.reply = Pending
    /\ UNCHANGED <<node, linked, has>>
    /\ \E reply \in {Failed} \cup (IF i.peer \notin linked THEN {}
                                   ELSE IF i.peer \in Helpful THEN HelpfulReplies(i)
                                   ELSE UnhelpfulReplies(i)) :
          /\ flight' = (flight \ {i}) \cup {[i EXCEPT !.reply = reply]}
          /\ IF reply = Failed /\ i.peer \in Helpful \cap linked
             THEN faults < MaxFaults /\ faults' = faults + 1
             ELSE faults' = faults

HandleCompletion(i) ==
    /\ i.reply # Pending
    /\ UNCHANGED <<linked, has, faults>>
    /\ Commands(IF i.reply = Failed THEN RetrySyncAfterFailure(node, i.peer, i.id)
                ELSE IF i.kind = "status" THEN HandleStatus(node, i)
                ELSE HandleBlocks(node, i),
                flight \ {i})

\* The event bus lags and drops a completion.
LoseCompletion(i) ==
    /\ i.reply # Pending /\ faults < MaxFaults
    /\ flight' = flight \ {i}
    /\ faults' = faults + 1
    /\ UNCHANGED <<node, linked, has>>

\* Wrong on purpose: the deadline is bound to another request.
WatchdogOfSuccessor ==
    /\ node.request # NoRequest
    /\ \A i \in flight : i.id # node.request
    /\ Commands(RetrySyncAfterFailure(node, node.syncPeer, node.request + 1), flight)
    /\ UNCHANGED <<linked, has, faults>>

\* The active request's completion was lost, or is late: requests complete
\* within 10 seconds, the deadline is 12, so a pending one is never cut short.
Watchdog ==
    LET active == {i \in flight : i.id = node.request}
    IN /\ node.request # NoRequest
       /\ \A i \in active : i.reply # Pending
       /\ UNCHANGED <<linked, has>>
       /\ IF active = {} THEN faults' = faults
                         ELSE faults < MaxFaults /\ faults' = faults + 1
       /\ Commands(RetrySyncAfterFailure(node, node.syncPeer, node.request), flight)

\* Only the finalized chain survives; peers that were connected before the
\* actor subscribed are known to it, but were never asked for their status.
Restart ==
    /\ faults < MaxFaults
    /\ \E peers \in SUBSET linked : linked' = peers /\ node' = NewNode(node.height, peers)
    /\ flight' = {}
    /\ faults' = faults + 1
    /\ UNCHANGED has

Next ==
    \/ \E p \in Helpful : Finalize(p) \/ \E h \in 1 .. MaxTip : Gossip(p, h)
    \/ \E p \in Peers : PeerConnected(p) \/ PeerDisconnected(p) \/ LosePeerEvent(p)
    \/ \E i \in flight : Complete(i) \/ HandleCompletion(i) \/ LoseCompletion(i)
    \/ Watchdog
    \/ Restart

\* Heights reach every helpful peer, the network completes every request, the
\* actor handles every completion and runs its watchdog, and lost connections
\* are dialled again.
Fairness ==
    /\ \A p \in Helpful : WF_vars(Finalize(p)) /\ WF_vars(PeerConnected(p))
    /\ WF_vars(\E i \in flight : Complete(i))
    /\ WF_vars(\E i \in flight : HandleCompletion(i))
    /\ WF_vars(Watchdog)

Spec == Init /\ [][Next]_vars /\ Fairness

-------------------------------------------------------------------------------
(* Properties *)

\* Between commands no request waits to be sent, and no two requests under way
\* share an id (NetworkHandle::request).
TypeOK ==
    /\ node.height \in 0 .. MaxTip /\ node.target \in 0 .. MaxTip
    /\ node.syncPeer \in Peers \cup {NoPeer} /\ node.peers \cup linked \subseteq Peers
    /\ node.out = Nothing
    /\ has \in [Helpful -> 0 .. MaxTip]
    /\ \A i \in flight : i.peer \in Peers /\ i.kind \in {"status", "blocks"}
    /\ \A i, j \in flight : i.id = j.id => i = j
    /\ faults \in 0 .. MaxFaults

\* Nobody without a certificate moves the node: neither its height nor the
\* height it stops voting for ever exceeds what is finalized.
OnlyCertifiedHeights == node.height <= Tip /\ node.target <= Tip

\* A node that synchronizes is behind its target: it resumes voting with the
\* very block that reaches it, by whatever path that block came.
SyncingIsBehind == node.target # NoTarget => node.height < node.target

\* A synchronizing node never just waits: it has an active request, guarded by
\* its deadline, unless no peer is connected.
NeverIdle ==
    node.target # NoTarget /\ node.request = NoRequest =>
        node.syncPeer = NoPeer /\ node.peers = {}

\* A completion of a range request that is no longer the active one changes
\* nothing, in particular not its successor.
StaleCompletionsIgnored ==
    [][\A i \in flight :
          i.kind = "blocks" /\ i.id # node.request /\ HandleCompletion(i)
              => node' = node]_vars

\* Synchronization ends, unless the actor was not told of the connection to a
\* helpful peer: then nothing makes it ask that one.
CatchesUp ==
    node.target # NoTarget ~> (node.target = NoTarget \/ (Helpful \cap linked) \ node.peers # {})
===============================================================================
