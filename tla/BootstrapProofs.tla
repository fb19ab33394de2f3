---------------------------- MODULE BootstrapProofs ----------------------------
(***************************************************************************)
(* Redialling never duplicates a connection, for any number of bootstrap   *)
(* addresses, dead or not, any limit of dials and any number of restarts   *)
(* and faults.                                                             *)
(***************************************************************************)
EXTENDS Bootstrap, TLAPS

\* Identities are those of restarts that have happened, and addresses are
\* remembered with the identity that answered.
TypesOK ==
    /\ known \in [Addresses -> Identities \cup {Nobody}]
    /\ pending \subseteq Addresses /\ cursor \in Addresses /\ inbound \subseteq Identities
    /\ dialled \in [Identities -> Nat]
    /\ restarts \in [Addresses -> 0 .. MaxRestarts]

\* Nobody is connected under an identity still to come.
NoFutureDials ==
    \A a \in Addresses \ Dead : \A k \in 0 .. MaxRestarts :
        restarts[a] < k => dialled[<<a, k>>] = 0

\* While a connection to the node now at address a is open, the address is
\* known to be its own and no dial to it is under way.
DialledIsKnown ==
    \A a \in Addresses \ Dead :
        dialled[Identity(a)] > 0 => known[a] = Identity(a) /\ a \notin pending

IInv == TypesOK /\ NoDuplicateDials /\ NoFutureDials /\ DialledIsKnown

-------------------------------------------------------------------------------

\* An identity is an address and a number of restarts.
LEMMA IdentityFields ==
    ASSUME TypesOK, NEW a \in Addresses \ Dead
    PROVE  /\ Identity(a) \in Identities /\ restarts[a] \in 0 .. MaxRestarts
           /\ \A b \in Addresses : Identity(a) = Identity(b) => a = b
  BY DEF TypesOK, Identity, Identities

\* The node answers under an identity that has no connection yet.
LEMMA EstablishedIInv ==
    ASSUME IInv, NEW a \in Addresses, ConnectionEstablished(a)
    PROVE  IInv'
  <1>1. /\ a \in Addresses \ Dead /\ a \in pending
        /\ known' = [known EXCEPT ![a] = Identity(a)]
        /\ pending' = pending \ {a}
        /\ dialled' = [dialled EXCEPT ![Identity(a)] = @ + 1]
        /\ restarts' = restarts /\ inbound' = inbound /\ cursor' = cursor
    BY DEF ConnectionEstablished
  <1>2. Identity(a) \in Identities /\ \A b \in Addresses : Identity(b)' = Identity(b)
    BY <1>1, IdentityFields DEF IInv, Identity
  <1>3. dialled[Identity(a)] = 0
    BY <1>1, <1>2 DEF IInv, DialledIsKnown, TypesOK
  <1>4. TypesOK'
    BY <1>1, <1>2 DEF IInv, TypesOK
  <1>5. NoDuplicateDials'
    BY <1>1, <1>2, <1>3 DEF IInv, NoDuplicateDials, TypesOK
  <1>6. NoFutureDials'
    <2> SUFFICES ASSUME NEW b \in Addresses \ Dead, NEW k \in 0 .. MaxRestarts, restarts[b] < k
                 PROVE  dialled'[<<b, k>>] = 0
      BY <1>1 DEF NoFutureDials
    <2>1. dialled[<<b, k>>] = 0 /\ <<b, k>> \in Identities
      BY DEF IInv, NoFutureDials, Identities
    <2>2. <<b, k>> # Identity(a)
      BY IdentityFields, <1>1 DEF Identity, IInv
    <2> QED BY <1>1, <2>1, <2>2 DEF IInv, TypesOK
  <1>7. DialledIsKnown'
    <2> SUFFICES ASSUME NEW b \in Addresses \ Dead, dialled'[Identity(b)] > 0
                 PROVE  known'[b] = Identity(b) /\ b \notin pending'
      BY <1>2 DEF DialledIsKnown
    <2>1. CASE b = a
      BY <1>1, <2>1 DEF IInv, TypesOK
    <2>2. CASE b # a
      <3>1. Identity(b) # Identity(a) /\ Identity(b) \in Identities
        BY <1>1, <2>2, IdentityFields DEF IInv
      <3>2. dialled[Identity(b)] > 0
        BY <1>1, <3>1 DEF IInv, TypesOK
      <3> QED BY <1>1, <2>2, <3>2 DEF IInv, DialledIsKnown, TypesOK
    <2> QED BY <2>1, <2>2
  <1> QED BY <1>4, <1>5, <1>6, <1>7 DEF IInv

\* A pass dials only addresses whose remembered identity is not connected.
LEMMA RedialIInv ==
    ASSUME IInv, NEW refused \in SUBSET Addresses, RedialDue(refused)
    PROVE  IInv'
  <1>1. PICK n \in 1 .. Targets :
           pending' = pending \cup (Due(n) \ refused) /\ cursor' = Advanced(n)
    BY DEF RedialDue
  <1>2. /\ known' = known /\ dialled' = dialled /\ inbound' = inbound /\ restarts' = restarts
        /\ \A a : Identity(a)' = Identity(a)
    BY DEF RedialDue, Identity
  <1>3. Targets \in Nat \ {0} /\ cursor \in Nat /\ n \in Nat
    BY BootstrapAssumption DEF IInv, TypesOK, Addresses
  <1>4. ASSUME NEW a \in Due(n) PROVE known[a] \notin ConnectedPeers
    BY <1>4 DEF Due, ShouldDial
  <1>5. pending' \subseteq Addresses /\ cursor' \in Addresses
    <2>1. \A k \in Nat : (cursor + k) % Targets \in Addresses
      BY <1>3 DEF Addresses
    <2>2. Due(n) \subseteq Addresses
      BY <1>3, <2>1 DEF Due, Scanned
    <2> QED BY <1>1, <1>3, <2>1, <2>2 DEF IInv, TypesOK, Advanced
  <1>6. TypesOK' /\ NoDuplicateDials' /\ NoFutureDials'
    BY <1>2, <1>5 DEF IInv, TypesOK, NoDuplicateDials, NoFutureDials
  <1>7. DialledIsKnown'
    <2> SUFFICES ASSUME NEW a \in Addresses \ Dead, dialled[Identity(a)] > 0
                 PROVE  known[a] = Identity(a) /\ a \notin pending'
      BY <1>2 DEF DialledIsKnown
    <2>1. known[a] = Identity(a) /\ a \notin pending /\ Identity(a) \in Identities
      BY IdentityFields DEF IInv, DialledIsKnown
    <2>2. known[a] \in ConnectedPeers
      BY <2>1 DEF ConnectedPeers
    <2> QED BY <1>1, <1>4, <2>1, <2>2
  <1> QED BY <1>6, <1>7 DEF IInv

\* A restarted node has an identity nobody has dialled.
LEMMA RestartIInv ==
    ASSUME IInv, NEW a \in Addresses, NodeRestarts(a)
    PROVE  IInv'
  <1>1. /\ a \in Addresses \ Dead /\ restarts[a] < MaxRestarts
        /\ restarts' = [restarts EXCEPT ![a] = @ + 1]
        /\ known' = known /\ pending' = pending /\ cursor' = cursor
        /\ dialled' = dialled /\ inbound' = inbound
    BY DEF NodeRestarts
  <1>2. restarts[a] \in Nat /\ MaxRestarts \in Nat /\ restarts \in [Addresses -> 0 .. MaxRestarts]
    BY BootstrapAssumption DEF IInv, TypesOK
  <1>3. TypesOK' /\ NoDuplicateDials'
    BY <1>1, <1>2 DEF IInv, TypesOK, NoDuplicateDials
  <1>4. NoFutureDials'
    BY <1>1, <1>2 DEF IInv, NoFutureDials
  <1>5. DialledIsKnown'
    <2> SUFFICES ASSUME NEW b \in Addresses \ Dead, dialled[Identity(b)'] > 0
                 PROVE  known[b] = Identity(b)' /\ b \notin pending
      BY <1>1 DEF DialledIsKnown
    <2>1. CASE b = a
      <3>1. Identity(a)' = <<a, restarts[a] + 1>>
        BY <1>1, <1>2 DEF Identity
      <3>2. dialled[Identity(a)'] = 0
        BY <1>1, <1>2, <3>1 DEF IInv, NoFutureDials
      <3> QED BY <2>1, <3>2
    <2>2. CASE b # a
      BY <1>1, <1>2, <2>2 DEF IInv, DialledIsKnown, Identity
    <2> QED BY <2>1, <2>2
  <1> QED BY <1>3, <1>4, <1>5 DEF IInv

\* A dial that fails, and connections the other side opens or either closes.
LEMMA OthersIInv ==
    ASSUME IInv, \/ \E a \in Addresses : ConnectionFailed(a)
                 \/ \E p \in Identities : InboundEstablished(p) \/ ConnectionClosed(p)
                 \/ UNCHANGED vars
    PROVE  IInv'
  <1>1. /\ known' = known /\ cursor' = cursor /\ restarts' = restarts
        /\ pending' \subseteq pending /\ inbound' \subseteq inbound \cup Identities
    BY DEF ConnectionFailed, InboundEstablished, ConnectionClosed, vars
  <1>2. dialled' = dialled \/ \E p \in Identities :
           dialled[p] > 0 /\ dialled' = [dialled EXCEPT ![p] = @ - 1]
    BY DEF ConnectionFailed, InboundEstablished, ConnectionClosed, vars
  <1>3. dialled' \in [Identities -> Nat] /\ \A p \in Identities : dialled'[p] <= dialled[p]
    BY <1>2 DEF IInv, TypesOK
  <1>4. dialled \in [Identities -> Nat]
    BY DEF IInv, TypesOK
  <1>5. TypesOK'
    BY <1>1, <1>3 DEF IInv, TypesOK
  <1>6. NoDuplicateDials'
    BY <1>3, <1>4 DEF IInv, NoDuplicateDials
  <1>7. NoFutureDials'
    <2> SUFFICES ASSUME NEW a \in Addresses \ Dead, NEW k \in 0 .. MaxRestarts, restarts[a] < k
                 PROVE  dialled'[<<a, k>>] = 0
      BY <1>1 DEF NoFutureDials
    <2>1. <<a, k>> \in Identities /\ dialled[<<a, k>>] = 0
      BY DEF Identities, IInv, NoFutureDials
    <2>2. dialled'[<<a, k>>] <= dialled[<<a, k>>] /\ dialled'[<<a, k>>] \in Nat
      BY <1>3, <2>1
    <2> QED BY <2>1, <2>2
  <1>8. DialledIsKnown'
    <2> SUFFICES ASSUME NEW a \in Addresses \ Dead, dialled'[Identity(a)] > 0
                 PROVE  known[a] = Identity(a) /\ a \notin pending'
      BY <1>1 DEF DialledIsKnown, Identity
    <2>1. Identity(a) \in Identities
      BY IdentityFields DEF IInv
    <2>2. dialled[Identity(a)] > 0
      BY <1>3, <1>4, <2>1
    <2> QED BY <1>1, <2>2 DEF IInv, DialledIsKnown
  <1> QED BY <1>5, <1>6, <1>7, <1>8 DEF IInv

\* NoDuplicateDials: redialling opens at most one connection to a node.
THEOREM BootstrapNoDuplicateDials == Spec => []NoDuplicateDials
  <1>1. Init => IInv
    <2> SUFFICES ASSUME Init PROVE IInv
      OBVIOUS
    <2>1. 0 \in Addresses /\ 0 \in 0 .. MaxRestarts
      BY BootstrapAssumption DEF Addresses
    <2>2. TypesOK
      BY <2>1 DEF Init, TypesOK
    <2>3. \A a \in Addresses \ Dead : Identity(a) \in Identities
      BY <2>2, IdentityFields
    <2>4. \A p \in Identities : dialled[p] = 0
      BY DEF Init
    <2> QED BY <2>2, <2>3, <2>4
            DEF IInv, NoDuplicateDials, NoFutureDials, DialledIsKnown, Identities
  <1>2. IInv /\ [Next]_vars => IInv'
    BY EstablishedIInv, RedialIInv, RestartIInv, OthersIInv DEF Next, Step
  <1>3. IInv => NoDuplicateDials
    BY DEF IInv
  <1> QED BY <1>1, <1>2, <1>3, PTL DEF Spec

===============================================================================
