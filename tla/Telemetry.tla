------------------------------- MODULE Telemetry ------------------------------
(***************************************************************************)
(* What a node shows of another validator (runtime.rs): the validator      *)
(* gossips a signed status about every second, the node keeps the last one *)
(* it accepted with the time it arrived, votes, proposals and finalized    *)
(* certificates count as a sign of life too, and the snapshot that the API *)
(* serves is computed from that table whenever something makes the node    *)
(* publish one.  Statuses are lost, delayed and overtaken; votes and       *)
(* proposals arrive at any time, or again; the validator stops, returns    *)
(* and synchronizes.  Time passes in steps of a second; ages are counted   *)
(* up to the largest one the code tells apart.  The clocks agree.          *)
(***************************************************************************)
EXTENDS Integers, FiniteSets

CONSTANTS
    FreshFor,       \* a sign of life counts this long (3.5 s)
    AcceptFor,      \* the age at which a status is refused (10 s)
    MaxInFlight,    \* bound: statuses on their way
    MaxChanges,     \* bound: stops, returns, starts and ends of synchronization
    MaxHeight       \* bound: finalized blocks

ASSUME TelemetryAssumption ==
    /\ FreshFor \in Nat /\ AcceptFor \in Nat
    /\ MaxInFlight \in Nat /\ MaxChanges \in Nat /\ MaxHeight \in Nat

VARIABLES
    holdsKey,   \* this node is a validator itself, not an observer
    up,         \* the other validator runs
    catching,   \* the other validator has a sync target
    air,        \* its statuses on their way
    entry,      \* its entry in validator_telemetry
    shown,      \* its phase in the published snapshot
    voted,      \* the heights it has signed a vote or a proposal for
    height,     \* the height of this node's ledger
    silence,    \* history: seconds since it signed a status, vote or proposal
    closed,     \* history: seconds since this node last worked on a height that
                \* the other validator has signed for
    changes

telemetryVars ==
    <<holdsKey, up, catching, air, entry, shown, voted, height, silence, closed, changes>>

Never == [heard |-> FALSE, age |-> 0, phase |-> "current"]

TelemetryInit ==
    /\ holdsKey \in BOOLEAN
    /\ up \in BOOLEAN /\ catching = FALSE
    /\ air = {} /\ entry = Never
    /\ shown = "offline"
    /\ voted = {} /\ height = 0
    /\ silence = 0 /\ closed = FreshFor + 1 /\ changes = 0

Older(age, limit) == IF age < limit THEN age + 1 ELSE limit

\* snapshot_for, for a validator other than the local one.
ShownFor(e) == IF e.heard /\ e.age <= FreshFor THEN e.phase ELSE "offline"

\* It has signed for the height that this node works on.
SignedForOpen == height + 1 \in voted

\* History: nothing has closed while it has signed for the open height.
Reopened == closed' = IF SignedForOpen' THEN 0 ELSE closed

-------------------------------------------------------------------------------
(* The other validator *)

\* publish_validator_status
PublishStatus ==
    /\ up /\ Cardinality(air) < MaxInFlight
    /\ air' = air \cup {[phase |-> IF catching THEN "syncing" ELSE "current", age |-> 0]}
    /\ silence' = 0
    /\ UNCHANGED <<holdsKey, up, catching, entry, shown, voted, height, closed, changes>>

\* It signs a vote or a proposal for the height it works on, which may be behind
\* this node's or ahead of it, and never goes back.
SignMessage(h) ==
    /\ up /\ ~catching /\ \A g \in voted : g <= h
    /\ voted' = voted \cup {h}
    /\ silence' = 0
    /\ UNCHANGED <<holdsKey, up, catching, air, entry, shown, height, changes>>
    /\ Reopened

StopOrReturn ==
    /\ changes < MaxChanges /\ changes' = changes + 1
    /\ up' = ~up /\ catching' = FALSE
    /\ UNCHANGED <<holdsKey, air, entry, shown, voted, height, silence, closed>>

BeginOrEndSync ==
    /\ up /\ changes < MaxChanges /\ changes' = changes + 1
    /\ catching' = ~catching
    /\ UNCHANGED <<holdsKey, up, air, entry, shown, voted, height, silence, closed>>

-------------------------------------------------------------------------------
(* This node *)

AcceptsStatus(status) == status.age <= AcceptFor

\* The entry is replaced, also by a status older than the one it holds; the
\* time of arrival counts, not the time of signing.
Heard(phase) == [heard |-> TRUE, age |-> 0, phase |-> phase]

\* accept_validator_status, which publishes a snapshot.
ReceiveStatus(status) ==
    /\ air' = air \ {status}
    /\ entry' = IF AcceptsStatus(status) THEN Heard(status.phase) ELSE entry
    /\ shown' = IF AcceptsStatus(status) THEN ShownFor(entry') ELSE shown
    /\ UNCHANGED <<holdsKey, up, catching, voted, height, silence, closed, changes>>

LoseStatus(status) ==
    /\ air' = air \ {status}
    /\ UNCHANGED <<holdsKey, up, catching, entry, shown, voted, height, silence, closed, changes>>

\* The entry when the next block is committed: the signers of its certificate
\* are noted as alive, although it may be an old one met while catching up.
AfterCommit(signs) == IF signs THEN Heard("current") ELSE entry

\* commit_finalized, which publishes a snapshot.  An honest validator's signature
\* is in the certificate only if it has signed a precommit for the height.
CommitBlock(signs) ==
    /\ height < MaxHeight /\ height' = height + 1
    /\ signs => SignedForOpen
    /\ entry' = AfterCommit(signs) /\ shown' = ShownFor(entry')
    /\ UNCHANGED <<holdsKey, up, catching, air, voted, silence, changes>>
    /\ Reopened

\* Wrong on purpose: messages for finished heights count too.
CountsUpTo(h) == h <= height + 1

\* Messages for another height than the next one are ignored.
CountsFor(h) == h = height + 1

\* handle_consensus_message, with a message of the other validator for height h,
\* however old and also for the second time.  An observer ignores it, and so does a
\* node that synchronizes or is halted: there the message has no effect.  Handling
\* it publishes a snapshot, and may finalize the block; only then is the signer
\* noted, with no snapshot of its own.
HearMessage(h) ==
    /\ holdsKey /\ h \in voted /\ CountsFor(h)
    /\ \/ height' = height /\ shown' = ShownFor(entry)
       \/ /\ height < MaxHeight /\ height' = height + 1
          /\ \E signs \in BOOLEAN : shown' = ShownFor(AfterCommit(signs))
    /\ entry' = Heard("current")
    /\ UNCHANGED <<holdsKey, up, catching, air, voted, silence, changes>>
    /\ Reopened

\* Wrong on purpose: a validator's own status does not publish a snapshot.
ShownAfterTick(e) == shown

\* A validator's tick accepts its own status, which publishes a snapshot; an
\* observer has no status of its own.
ShownAfterOwnStatus(e) == IF holdsKey THEN ShownFor(e) ELSE shown

Second ==
    /\ air' = {[s EXCEPT !.age = Older(@, AcceptFor + 1)] : s \in air}
    /\ entry' = [entry EXCEPT !.age = IF entry.heard THEN Older(@, FreshFor + 1) ELSE @]
    /\ silence' = Older(silence, AcceptFor + FreshFor + 1)
    /\ closed' = IF SignedForOpen THEN 0 ELSE Older(closed, FreshFor + 1)
    /\ shown' = ShownAfterOwnStatus(entry')
    /\ UNCHANGED <<holdsKey, up, catching, voted, height, changes>>

\* A third validator's status or consensus message, a timer, a peer that comes or
\* goes, an admitted transaction, a sync: each publishes a snapshot.
PublishSnapshot ==
    /\ shown' = ShownFor(entry)
    /\ UNCHANGED <<holdsKey, up, catching, air, entry, voted, height, silence, closed, changes>>

Hear == \E h \in voted : HearMessage(h)

TelemetryNext ==
    \/ PublishStatus \/ StopOrReturn \/ BeginOrEndSync
    \/ \E h \in 1 .. MaxHeight + 1 : SignMessage(h)
    \/ \E s \in air : ReceiveStatus(s) \/ LoseStatus(s)
    \/ Hear \/ (\E signs \in BOOLEAN : CommitBlock(signs))
    \/ Second \/ PublishSnapshot

\* Time passes; a running validator publishes; statuses do not stay on their way
\* for ever, and of those that are recent some arrive; an observer hears of a
\* third validator again and again.
TelemetryFairness ==
    /\ WF_telemetryVars(Second) /\ WF_telemetryVars(PublishStatus)
    /\ WF_telemetryVars(\E s \in air : ReceiveStatus(s) \/ LoseStatus(s))
    /\ SF_telemetryVars(\E s \in air : s.age = 0 /\ ReceiveStatus(s))
    /\ WF_telemetryVars(~holdsKey /\ PublishSnapshot)

TelemetrySpec == TelemetryInit /\ [][TelemetryNext]_telemetryVars /\ TelemetryFairness

-------------------------------------------------------------------------------
(* Properties *)

\* A validator node shows another validator as running only if that one signed
\* something within the two windows together (a status may be as old as AcceptFor
\* when it arrives and counts for FreshFor from then on), or if it has signed for
\* the height this node works on, or for one it still worked on FreshFor ago: its
\* votes and proposals for the open height count however old they are, and no others.
ShownMeansRecent ==
    (holdsKey /\ shown # "offline") => silence <= AcceptFor + FreshFor \/ closed <= FreshFor

\* What is shown settles on what is: a validator that stays down is shown offline
\* for good, unless votes or proposals for a height that never ends go on arriving
\* from it, and one that has caught up and stays up is not shown syncing for ever,
\* although statuses overtake each other.
ShownSettles ==
    /\ <>[](~up) => <>[](shown = "offline") \/ []<><<Hear>>_telemetryVars
    /\ <>[](up /\ ~catching) => <>[](shown # "syncing")
===============================================================================
