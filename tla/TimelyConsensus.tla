--------------------------- MODULE TimelyConsensus ----------------------------
(***************************************************************************)
(* Consensus while the network is timely: every published message reaches  *)
(* every node while its round is cached, and                               *)
(* the timeouts are longer than it takes the nodes to handle everything    *)
(* that is under way.  Timeouts grow with the round (timeout_for), so the  *)
(* node that is furthest behind is the next to time out.  This is the      *)
(* partial synchrony under which the docs promise that validators time out *)
(* into a later round and keep finalizing blocks.                          *)
(***************************************************************************)
EXTENDS Consensus

\* Published messages that node v would still count.
Undelivered(v) ==
    LET e == node[v].eng
    IN {m \in net : /\ m.kind # "certificate" /\ m.height = NextHeight(v)
                    /\ Cacheable(e, m.round)
                    /\ m \notin e.votes \cup e.proposals}

NextCertificates(v) == {c \in net : c.kind = "certificate" /\ c.height = NextHeight(v)}

Crashed(v) == node[v].mode = "down" /\ crashes > 0

\* The nodes have started and no other node is inside a command.  Nodes share nothing
\* but the messages they have published, which only accumulate, so every
\* interleaving of two commands leaves the rows and messages of some serial
\* order of the two.
OthersWait(v) ==
    \A w \in Honest : (node[w].mode # "down" \/ Crashed(w)) /\ (w # v => Idle(w))

\* Every node has handled all it can, so the next thing to happen is a timeout.
Quiet ==
    \A v \in Honest :
        \/ Crashed(v) \/ node[v].mode = "halted"
        \/ Ready(v) /\ Undelivered(v) \cup NextCertificates(v) = {}

Position(v) ==
    LET e == node[v].eng
        phase == [propose |-> 0, prevote |-> 1, precommit |-> 2, finalized |-> 3]
    IN 4 * (MaxRounds * e.height + e.round) + phase[e.phase]

FurthestBehind(v) ==
    \A w \in Honest : node[w].eng.started => Position(v) <= Position(w)

\* Faulty validators speak in the phase their message is for, or not at all.
InTime(v, m) ==
    LET e == node[v].eng
    IN m.round = e.round /\ e.phase = (IF m.kind = "proposal" THEN "propose" ELSE m.kind)

TimelyCommand(v) ==
    \/ Tick(v)
    \/ \E m \in Undelivered(v) : DeliverVote(v, m) \/ DeliverProposal(v, m)
    \/ \E m \in ForgedProposals \ disk[v].stored :
          InTime(v, m) /\ DeliverProposal(v, m)
    \/ \E m \in FaultyVotes \ node[v].eng.votes :
          InTime(v, m) /\ DeliverVote(v, m)
    \/ \E c \in NextCertificates(v) : ImportNext(v, c)

\* Some honest node, or a timer, has something to do.
Obliged ==
    \/ \E v \in Honest :
          \/ node[v].mode = "down" \/ ~Idle(v)
          \/ ~node[v].eng.started /\ LedgerHeight(v) < MaxHeight
          \/ Undelivered(v) \cup NextCertificates(v) # {}
    \/ Quiet /\ \E v \in Honest : FurthestBehind(v) /\ node[v].timers # <<>>

\* Nothing is left to do.  (With this step, TLC's deadlock check shows that a
\* step exists wherever Obliged holds.)
Settled == ~Obliged /\ UNCHANGED vars

TimelyNext ==
    \/ \E v \in Honest :
          \/ NodeStep(v)
          \/ RestartFresh(v)
          \/ OthersWait(v) /\ TimelyCommand(v)
          \/ Quiet /\ FurthestBehind(v) /\ \E i \in DOMAIN node[v].timers : TimerFires(v, i)
    \/ Settled

\* The actor loops, the timers and the gossip tasks never stop while there is
\* something for them to do: weak fairness with its enabling condition spelled
\* out, which does not oblige faulty validators to speak.
Fairness == []<>~Obliged \/ []<><<TRUE>>_vars

TimelySpec == Init /\ [][TimelyNext]_vars /\ Fairness

\* Every node finalizes every height, although a faulty proposer may show its
\* block to some nodes only, a lock may be known to one node only, and nodes
\* enter rounds, cache votes and time out at different moments.
Progress == <>(\A v \in Honest : LedgerHeight(v) = MaxHeight)

-------------------------------------------------------------------------------
(* The same network with crashes, for the safety of several honest nodes    *)
(* over several heights.  A restarted node may be handed again what it had  *)
(* received before.                                                         *)

CrashNext == TimelyNext \/ \E v \in Honest : Crash(v) \/ RestartInterrupted(v)

CrashSpec == Init /\ [][CrashNext]_vars
===============================================================================
