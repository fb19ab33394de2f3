------------------------------- MODULE Bootstrap ------------------------------
(***************************************************************************)
(* Redialling the static bootstrap addresses (StaticBootstrapSet of        *)
(* kcoin-node network.rs).  Nodes have a new identity after every restart, *)
(* so an address is dialled without knowing who answers; the identity that *)
(* did answer is remembered to leave the address alone while connected.    *)
(***************************************************************************)
EXTENDS Integers, FiniteSets

CONSTANTS
    Targets,        \* number of distinct bootstrap addresses
    Dead,           \* addresses where nobody ever answers
    DialLimit,      \* MAX_BOOTSTRAP_DIALS_PER_TICK
    MaxRestarts,    \* bound: restarts of the node behind an address
    MaxFaults       \* bound: refused or failed dials and dropped connections

ASSUME BootstrapAssumption ==
    /\ Targets \in Nat \ {0} /\ DialLimit \in Nat \ {0}
    /\ Dead \subseteq 0 .. (Targets - 1)
    /\ MaxRestarts \in Nat /\ MaxFaults \in Nat

Addresses == 0 .. (Targets - 1)

\* Who can answer: the node at an address after so many restarts.
Identities == (Addresses \ Dead) \X (0 .. MaxRestarts)
Nobody == <<-1, 0>>

VARIABLES
    known,       \* known[a]: StaticBootstrap::peer_id
    pending,     \* the addresses with a dial under way
    cursor,      \* where the next pass begins
    dialled,     \* dialled[p]: connections to p that this node opened
    inbound,     \* identities that opened a connection to this node
    restarts,    \* restarts[a]: of the node at address a
    faults       \* faults so far

vars == <<known, pending, cursor, dialled, inbound, restarts, faults>>

\* The identity of the node that now runs at address a.
Identity(a) == <<a, restarts[a]>>

\* swarm.connected_peers().
ConnectedPeers == {p \in Identities : dialled[p] > 0} \cup inbound

Init ==
    /\ known = [a \in Addresses |-> Nobody]
    /\ pending = {}
    /\ cursor = 0
    /\ dialled = [p \in Identities |-> 0]
    /\ inbound = {}
    /\ restarts = [a \in Addresses |-> 0]
    /\ faults = 0

\* Wrong on purpose: an address is dialled whether its node is connected or not.
ShouldDialAlways(a) == a \notin pending

ShouldDial(a) == a \notin pending /\ known[a] \notin ConnectedPeers

\* Wrong on purpose: every pass begins with the first address.
ScannedFromFirst(k) == k

\* The k-th address a pass looks at.
Scanned(k) == (cursor + k) % Targets

\* The addresses to dial among the first n a pass looks at.
Due(n) == {a \in {Scanned(k) : k \in 0 .. (n - 1)} : ShouldDial(a)}

\* Where the pass after one that has looked at n addresses begins.
Advanced(n) == (cursor + n) % Targets

\* A pass looks at addresses from the cursor on until it has seen them all or
\* started DialLimit dials; the swarm may refuse to start some.
RedialDue(refused) ==
    \E n \in 1 .. Targets :
        /\ refused \subseteq Due(n)
        /\ Cardinality(Due(n - 1) \ refused) < DialLimit
        /\ n = Targets \/ Cardinality(Due(n) \ refused) = DialLimit
        /\ pending' = pending \cup (Due(n) \ refused)
        /\ cursor' = Advanced(n)
        /\ faults' = faults + Cardinality(refused)
        /\ UNCHANGED <<known, dialled, inbound, restarts>>

\* The new identity replaces the one remembered from before a restart.
ConnectionEstablished(a) ==
    /\ a \in pending \ Dead
    /\ known' = [known EXCEPT ![a] = Identity(a)]
    /\ pending' = pending \ {a}
    /\ dialled' = [dialled EXCEPT ![Identity(a)] = @ + 1]
    /\ UNCHANGED <<cursor, inbound, restarts, faults>>

\* A dial fails: always at a dead address, sometimes elsewhere.
ConnectionFailed(a) ==
    /\ a \in pending
    /\ pending' = pending \ {a}
    /\ faults' = IF a \in Dead THEN faults ELSE faults + 1
    /\ UNCHANGED <<known, cursor, dialled, inbound, restarts>>

\* The node at a, which has this node among its own bootstrap addresses, dials.
InboundEstablished(p) ==
    /\ p = Identity(p[1]) /\ p \notin inbound
    /\ inbound' = inbound \cup {p}
    /\ UNCHANGED <<known, pending, cursor, dialled, restarts, faults>>

\* One of the connections to p is closed: its node is gone, or it drops.  p is
\* connected while another one is left.
ConnectionClosed(p) ==
    /\ \/ /\ dialled[p] > 0
          /\ dialled' = [dialled EXCEPT ![p] = @ - 1]
          /\ UNCHANGED inbound
       \/ /\ p \in inbound
          /\ inbound' = inbound \ {p}
          /\ UNCHANGED dialled
    /\ faults' = IF p = Identity(p[1]) THEN faults + 1 ELSE faults
    /\ UNCHANGED <<known, pending, cursor, restarts>>

\* The node at a comes back under another identity.
NodeRestarts(a) ==
    /\ a \notin Dead /\ restarts[a] < MaxRestarts
    /\ restarts' = [restarts EXCEPT ![a] = @ + 1]
    /\ UNCHANGED <<known, pending, cursor, dialled, inbound, faults>>

Step ==
    \/ \E refused \in SUBSET Addresses : RedialDue(refused)
    \/ \E a \in Addresses :
          ConnectionEstablished(a) \/ ConnectionFailed(a) \/ NodeRestarts(a)
    \/ \E p \in Identities : InboundEstablished(p) \/ ConnectionClosed(p)

Next == Step /\ faults' <= MaxFaults

\* The redial interval keeps ticking; every dial and every dead connection
\* comes to its end.
Fairness ==
    /\ WF_vars(RedialDue({}))
    /\ \A a \in Addresses \ Dead : WF_vars(ConnectionEstablished(a))
    /\ \A a \in Dead : WF_vars(ConnectionFailed(a))
    /\ \A p \in Identities : WF_vars(p # Identity(p[1]) /\ ConnectionClosed(p))

Spec == Init /\ [][Next]_vars /\ Fairness

-------------------------------------------------------------------------------
\* Redialling opens at most one connection to a node, however often the node
\* itself connects, drops and restarts: healthy connections are not duplicated
\* (should_dial, connection_established).
NoDuplicateDials == \A p \in Identities : dialled[p] <= 1

\* Every node that is up is connected in the end, although dead addresses use
\* up the dials of a pass and nodes come back under other identities
\* (redial_due's cursor).
Reconnects == \A a \in Addresses \ Dead : <>[](Identity(a) \in ConnectedPeers)
===============================================================================
