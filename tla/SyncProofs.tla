------------------------------ MODULE SyncProofs ------------------------------
(***************************************************************************)
(* Safety of synchronization, for any set of peers, helpful or not, any    *)
(* length of the chain and of a range, and any number of requests and      *)
(* faults.                                                                 *)
(*                                                                         *)
(* A command turns the actor's state into another one by the operators of  *)
(* module Sync, so most lemmas say what an operator makes of a state n;    *)
(* CommandsIInv then puts the result into the specification's state.       *)
(***************************************************************************)
EXTENDS Sync, FiniteSetTheorems, WellFoundedInduction, TLAPS

-------------------------------------------------------------------------------
(* The inductive invariant *)

Records == [height : Nat, valid : BOOLEAN]

Replies ==
    {Pending, Failed}
    \cup [type : {"blocks"}, records : Seq(Records)]
    \cup [type : {"status"}, height : Nat, proven : BOOLEAN]

Intents ==
    [id : Nat \ {0}, peer : Peers, kind : {"status", "blocks"}, from : Nat, reply : Replies]

SyncNodes ==
    [height : Nat, target : Nat, syncPeer : Peers \cup {NoPeer}, request : Nat,
     peers : SUBSET Peers, out : Intents \cup {Nothing}]

\* What is proven or verifies in an answer is finalized; t is the highest
\* finalized height.
CertifiedReply(reply, t) ==
    /\ reply.type = "status" /\ reply.proven => reply.height <= t
    /\ reply.type = "blocks" =>
          \A k \in 1 .. Len(reply.records) :
              reply.records[k].valid => reply.records[k].height <= t

\* The actor's heights are finalized, and a target is ahead.
Sound(n, t) ==
    /\ n \in SyncNodes
    /\ n.height <= t /\ n.target <= t
    /\ n.target # NoTarget => n.height < n.target

\* NeverIdle of a state of the actor.
Busy(n) ==
    n.target # NoTarget /\ n.request = NoRequest => n.syncPeer = NoPeer /\ n.peers = {}

\* A command sends at most one request, under a new id.
Sends(n, id) == n.out # Nothing => n.out.id = id /\ n.out.reply = Pending

FlightOK(t) ==
    /\ IsFiniteSet(flight) /\ flight \subseteq Intents
    /\ \A i, j \in flight : i.id = j.id => i = j
    /\ \A i \in flight : CertifiedReply(i.reply, t)

IInv ==
    /\ Sound(node, Tip) /\ Busy(node) /\ node.out = Nothing
    /\ linked \subseteq Peers
    /\ has \in [Helpful -> 0 .. MaxTip]
    /\ FlightOK(Tip)
    /\ faults \in 0 .. MaxFaults

-------------------------------------------------------------------------------
(* Least and greatest elements *)

\* A set of natural numbers with an element has a least one.
LEMMA MinIsLeast ==
    ASSUME NEW S \in SUBSET Nat, S # {}
    PROVE  Min(S) \in S /\ \A y \in S : Min(S) <= y
  <1>1. PICK u \in S : \A w \in S : ~(<<w, u>> \in OpToRel(<, Nat))
    BY NatLessThanWellFounded, WFMin, Zenon
  <1>2. \A w \in S : ~(w < u)
    BY <1>1 DEF OpToRel
  <1>3. \A w \in S : u <= w
    BY <1>2
  <1> QED BY <1>3 DEF Min

\* A bounded one has a greatest one.
LEMMA MaxIsGreatest ==
    ASSUME NEW n \in Nat, NEW T \in SUBSET (0 .. n), T # {}
    PROVE  Max(T) \in T /\ \A y \in T : y <= Max(T)
  <1> DEFINE U == {u \in 0 .. n : n - u \in T}
  <1>1. U \in SUBSET Nat
    OBVIOUS
  <1>2. U # {}
    <2>1. PICK x \in T : TRUE
      OBVIOUS
    <2>2. n - x \in U
      OBVIOUS
    <2> QED BY <2>2
  <1>3. Min(U) \in U /\ \A w \in U : Min(U) <= w
    <2> HIDE DEF U
    <2> QED BY <1>1, <1>2, MinIsLeast
  <1> DEFINE m == n - Min(U)
  <1>4. m \in T /\ \A y \in T : y <= m
    <2>1. ASSUME NEW y \in T PROVE y <= m
      <3>1. n - y \in U
        OBVIOUS
      <3> QED BY <1>3, <3>1
    <2> QED BY <1>3, <2>1
  <1> HIDE DEF m
  <1>5. \A y \in T : m >= y
    BY <1>4
  <1> QED BY <1>4, <1>5 DEF Max

\* The greater and the lesser of two numbers.
LEMMA MaxOfTwo ==
    ASSUME NEW a \in Int, NEW b \in Int
    PROVE  /\ Max({a, b}) \in {a, b} /\ a <= Max({a, b}) /\ b <= Max({a, b})
           /\ Min({a, b}) \in {a, b} /\ Min({a, b}) <= a /\ Min({a, b}) <= b
  BY DEF Max, Min

HasOK == has \in [Helpful -> 0 .. MaxTip]
TipOK ==
    /\ Tip \in 0 .. MaxTip
    /\ \A p \in Helpful : has[p] <= Tip
    /\ Tip = 0 \/ \E p \in Helpful : Tip = has[p]

\* The tip is the height of some helpful peer and of no higher one.
LEMMA TipIsHighest == HasOK => TipOK
  <1> SUFFICES ASSUME HasOK PROVE TipOK
    OBVIOUS
  <1> DEFINE T == {has[p] : p \in Helpful} \cup {0}
  <1>1. MaxTip \in Nat /\ T \in SUBSET (0 .. MaxTip) /\ T # {}
    BY SyncAssumption DEF HasOK
  <1>2. Tip = Max(T)
    BY DEF Tip
  <1> HIDE DEF T
  <1>3. Max(T) \in T /\ \A y \in T : y <= Max(T)
    BY <1>1, MaxIsGreatest
  <1> QED BY <1>1, <1>2, <1>3 DEF T, TipOK

\* The id of a new request is not in use.
LEMMA FreshIdIsNew ==
    ASSUME IInv
    PROVE  /\ FreshId \in Nat \ {0} /\ FreshId # node.request
           /\ \A i \in flight : i.id # FreshId
  <1> DEFINE ids == {i.id : i \in flight}
             used == ids \cup {node.request}
             free == (1 .. Cardinality(used) + 1) \ used
  <1>1. IsFiniteSet(ids)
    <2> DEFINE f == [i \in flight |-> i.id]
    <2>1. f \in Surjection(flight, ids)
      BY DEF Surjection
    <2>2. IsFiniteSet(flight)
      BY DEF IInv, FlightOK
    <2> HIDE DEF f, ids
    <2> QED BY <2>1, <2>2, FS_Surjection
  <1>2. IsFiniteSet(used)
    BY <1>1, FS_AddElement
  <1>3. Cardinality(used) \in Nat
    BY <1>2, FS_CardinalityType
  <1>4. free # {}
    <2> SUFFICES ASSUME 1 .. Cardinality(used) + 1 \subseteq used PROVE FALSE
      OBVIOUS
    <2> HIDE DEF used
    <2>1. Cardinality(1 .. Cardinality(used) + 1) = Cardinality(used) + 1
      BY <1>3, FS_Interval
    <2>2. Cardinality(1 .. Cardinality(used) + 1) <= Cardinality(used)
      BY <1>2, FS_Subset
    <2> QED BY <1>3, <2>1, <2>2
  <1>5. free \in SUBSET Nat
    BY <1>3
  <1>6. FreshId = Min(free)
    BY DEF FreshId
  <1>7. Min(free) \in free
    <2> HIDE DEF free
    <2> QED BY <1>4, <1>5, MinIsLeast
  <1>8. FreshId \in 1 .. Cardinality(used) + 1 /\ FreshId \notin used
    BY <1>6, <1>7
  <1> QED BY <1>3, <1>8

-------------------------------------------------------------------------------
(* What the actor's operators make of its state *)

\* A state a command may leave the actor in.
Good(n) == Sound(n, Tip) /\ Busy(n) /\ Sends(n, FreshId)

\* A request is well-formed.
LEMMA IntentIsSent ==
    ASSUME IInv, NEW p \in Peers, NEW k \in {"status", "blocks"}, NEW from \in Nat
    PROVE  /\ Intent(p, k, from) \in Intents /\ Intent(p, k, from) # Nothing
           /\ Intent(p, k, from).id = FreshId /\ Intent(p, k, from).reply = Pending
  <1>1. FreshId \in Nat \ {0}
    BY FreshIdIsNew
  <1>2. Intent(p, k, from).kind # Nothing.kind
    BY DEF Intent, Nothing
  <1> QED BY <1>1, <1>2 DEF Intent, Intents, Replies

\* request_sync_blocks: the actor has an active request.
LEMMA RequestGood ==
    ASSUME IInv, NEW n, Sound(n, Tip), NEW p \in Peers
    PROVE  Good(RequestSyncBlocks(n, p))
  <1> DEFINE i == Intent(p, "blocks", n.height + 1)
             f == RequestSyncBlocks(n, p)
  <1>1. n \in SyncNodes /\ n.height + 1 \in Nat
    BY DEF Sound, SyncNodes
  <1>2. i \in Intents /\ i # Nothing /\ i.id = FreshId /\ i.reply = Pending
    BY <1>1, IntentIsSent
  <1>3. FreshId \in Nat \ {0}
    BY FreshIdIsNew
  <1>4. f = [n EXCEPT !.syncPeer = p, !.request = FreshId, !.out = i]
    BY DEF RequestSyncBlocks
  <1> HIDE DEF i, f
  <1>5. /\ f \in SyncNodes /\ f.height = n.height /\ f.target = n.target
        /\ f.request = FreshId /\ f.out = i
    BY <1>1, <1>2, <1>3, <1>4 DEF SyncNodes
  <1>6. Sound(f, Tip)
    BY <1>5 DEF Sound
  <1>7. Busy(f)
    BY <1>3, <1>5 DEF Busy, NoRequest
  <1>8. Sends(f, FreshId)
    BY <1>2, <1>5 DEF Sends
  <1> QED BY <1>6, <1>7, <1>8 DEF Good, f

\* ensure_active_sync_request.
LEMMA EnsureGood ==
    ASSUME IInv, NEW n, Sound(n, Tip), n.out = Nothing, NEW p \in Peers
    PROVE  Good(EnsureActiveSyncRequest(n, p))
  <1>1. CASE n.request # NoRequest
    BY <1>1 DEF EnsureActiveSyncRequest, Good, Busy, Sends
  <1>2. CASE n.request = NoRequest
    BY <1>2, RequestGood DEF EnsureActiveSyncRequest
  <1> QED BY <1>1, <1>2

\* A finalized height from anyone: the target moves up to it.
LEMMA BeginGood ==
    ASSUME IInv, NEW n, Sound(n, Tip), Busy(n), n.out = Nothing, NEW p \in Peers,
           NEW h \in Nat, h <= Tip
    PROVE  Good(BeginSync(n, p, h))
  <1>1. CASE h <= n.height
    BY <1>1 DEF BeginSync, Good, Sends
  <1>2. CASE ~(h <= n.height)
    <2> DEFINE f == [n EXCEPT !.target = Max({n.target, h})]
    <2>1. BeginSync(n, p, h) = EnsureActiveSyncRequest(f, p)
      BY <1>2 DEF BeginSync
    <2>2. n \in SyncNodes /\ n.target \in Nat /\ n.height \in Nat /\ n.target <= Tip
          /\ n.height <= Tip
      BY DEF Sound, SyncNodes
    <2>3. Max({n.target, h}) \in {n.target, h} /\ h <= Max({n.target, h})
      <3>1. n.target \in Int /\ h \in Int
        BY <2>2
      <3> QED BY <3>1, MaxOfTwo
    <2>4. f \in SyncNodes /\ f.target \in {n.target, h} /\ h <= f.target
          /\ f.height = n.height /\ f.out = Nothing
      BY <2>2, <2>3 DEF SyncNodes
    <2> HIDE DEF f
    <2>5. Sound(f, Tip)
      BY <1>2, <2>2, <2>4 DEF Sound
    <2> QED BY <2>1, <2>4, <2>5, EnsureGood
  <1> QED BY <1>1, <1>2

\* Finalized blocks are imported, and a sync that is done ends.
LEMMA ImportGood ==
    ASSUME IInv, NEW n, Sound(n, Tip), Busy(n), n.out = Nothing,
           NEW k \in Nat, n.height + k <= Tip
    PROVE  /\ Good(Imported(n, k)) /\ Imported(n, k).out = Nothing
           /\ Imported(n, k).target # NoTarget => Imported(n, k).syncPeer = n.syncPeer
  <1>1. CASE k = 0
    BY <1>1 DEF Imported, Good, Sends
  <1>2. CASE k # 0
    <2> DEFINE f == [n EXCEPT !.height = n.height + k]
               g == [f EXCEPT !.target = NoTarget, !.syncPeer = NoPeer, !.request = NoRequest]
    <2>1. Imported(n, k) = IF f.target # NoTarget /\ f.height >= f.target THEN g ELSE f
      BY <1>2 DEF Imported, FinishSyncIfCurrent
    <2>2. n \in SyncNodes /\ n.height \in Nat /\ n.target \in Nat /\ n.target <= Tip
      BY DEF Sound, SyncNodes
    <2>3. /\ f \in SyncNodes /\ f.height = n.height + k /\ f.target = n.target
          /\ f.syncPeer = n.syncPeer /\ f.request = n.request /\ f.peers = n.peers
          /\ f.out = Nothing
      BY <2>2 DEF SyncNodes
    <2>4. Tip \in Nat
      BY TipIsHighest, SyncAssumption DEF IInv, HasOK, TipOK
    <2> HIDE DEF f
    <2>5. CASE f.target # NoTarget /\ f.height >= f.target
      <3>1. /\ g \in SyncNodes /\ g.height = f.height /\ g.target = NoTarget
            /\ g.out = Nothing
        BY <2>3 DEF SyncNodes, NoTarget, NoPeer, NoRequest
      <3> HIDE DEF g
      <3> QED BY <2>1, <2>3, <2>4, <2>5, <3>1 DEF Good, Sound, Busy, Sends, NoTarget
    <2>6. CASE ~(f.target # NoTarget /\ f.height >= f.target)
      <3>1. Sound(f, Tip)
        BY <2>2, <2>3, <2>4, <2>6 DEF Sound
      <3>2. Busy(f) /\ Sends(f, FreshId)
        BY <2>3 DEF Busy, Sends
      <3> QED BY <2>1, <2>3, <2>6, <3>1, <3>2 DEF Good
    <2> QED BY <2>5, <2>6
  <1> QED BY <1>1, <1>2

\* choose_sync_retry_peer finds a peer while there is one.
LEMMA ChosenPeer ==
    ASSUME NEW S \in SUBSET Peers, NEW q
    PROVE  /\ ChooseSyncRetryPeer(S, q) \in Peers \cup {NoPeer}
           /\ ChooseSyncRetryPeer(S, q) = NoPeer => S = {}
  <1>1. CASE S \ {q} # {}
    <2>1. S \ {q} \in SUBSET Nat /\ NoPeer \notin Peers
      BY SyncAssumption DEF NoPeer
    <2>2. Min(S \ {q}) \in S \ {q}
      BY <1>1, <2>1, MinIsLeast
    <2> QED BY <1>1, <2>1, <2>2 DEF ChooseSyncRetryPeer
  <1>2. CASE S \ {q} = {}
    BY <1>2, SyncAssumption DEF ChooseSyncRetryPeer, NoPeer
  <1> QED BY <1>1, <1>2

\* retry_sync_after_failure: another request, unless nobody is left to ask.
\* When q, the peer that failed, is gone, it is the one the actor waited for.
LEMMA RetryGood ==
    ASSUME IInv, NEW n, Sound(n, Tip), n.out = Nothing, NEW q, NEW id,
           Busy(n) \/ (n.syncPeer = q /\ id = NoRequest)
    PROVE  Good(RetrySyncAfterFailure(n, q, id))
  <1> DEFINE p == ChooseSyncRetryPeer(n.peers, q)
             c == [n EXCEPT !.syncPeer = p, !.request = NoRequest]
             idle == \/ n.target = NoTarget \/ n.syncPeer # q
                     \/ id # NoRequest /\ id # n.request
  <1>1. RetrySyncAfterFailure(n, q, id) =
           IF idle THEN n ELSE IF p = NoPeer THEN c ELSE RequestSyncBlocks(c, p)
    BY DEF RetrySyncAfterFailure
  <1>2. n \in SyncNodes /\ n.peers \in SUBSET Peers
    BY DEF Sound, SyncNodes
  <1>3. p \in Peers \cup {NoPeer} /\ (p = NoPeer => n.peers = {})
    BY <1>2, ChosenPeer
  <1> HIDE DEF p
  <1>4. /\ c \in SyncNodes /\ c.height = n.height /\ c.target = n.target
        /\ c.syncPeer = p /\ c.peers = n.peers /\ c.out = Nothing
    BY <1>2, <1>3 DEF SyncNodes, NoRequest
  <1> HIDE DEF c
  <1>5. Sound(c, Tip)
    BY <1>4 DEF Sound
  <1>6. CASE idle
    BY <1>1, <1>6 DEF Good, Sends, Busy
  <1>7. CASE ~idle /\ p = NoPeer
    BY <1>1, <1>3, <1>4, <1>5, <1>7 DEF Good, Sends, Busy
  <1>8. CASE ~idle /\ p # NoPeer
    <2>1. p \in Peers
      BY <1>3, <1>8
    <2>2. Good(RequestSyncBlocks(c, p))
      BY <1>5, <2>1, RequestGood
    <2> QED BY <1>1, <1>8, <2>2
  <1> QED BY <1>6, <1>7, <1>8

\* A proven tip is synchronized to; anything else counts as a failure.
LEMMA StatusGood ==
    ASSUME IInv, NEW i \in flight
    PROVE  Good(HandleStatus(node, i))
  <1>1. /\ i \in Intents /\ i.peer \in Peers /\ i.reply \in Replies
        /\ CertifiedReply(i.reply, Tip)
    BY DEF IInv, FlightOK, Intents
  <1>2. Sound(node, Tip) /\ Busy(node) /\ node.out = Nothing
    BY DEF IInv
  <1>3. CASE i.reply.type = "status" /\ i.reply.proven
    <2>1. i.reply.height \in Nat /\ i.reply.height <= Tip
      BY <1>1, <1>3 DEF Replies, Pending, Failed, CertifiedReply
    <2> QED BY <1>1, <1>2, <1>3, <2>1, BeginGood DEF HandleStatus
  <1>4. CASE ~(i.reply.type = "status" /\ i.reply.proven)
    BY <1>2, <1>4, RetryGood DEF HandleStatus
  <1> QED BY <1>3, <1>4

\* The records that verify, one after another, are finalized.
LEMMA ImportRangeGood ==
    ASSUME IInv, NEW rs \in Seq(Records), IsSequence(rs, node.height + 1),
           \A k \in 1 .. Len(rs) : rs[k].valid => rs[k].height <= Tip
    PROVE  LET s == ImportRange(node, rs)
           IN /\ Good(s.n) /\ s.n.out = Nothing
              /\ s.n.target # NoTarget => s.n.syncPeer = node.syncPeer
  <1> DEFINE K == {k \in 0 .. Len(rs) : \A j \in 1 .. k : rs[j].valid}
             good == Max(K)
  <1>1. Len(rs) \in Nat /\ K \in SUBSET (0 .. Len(rs)) /\ 0 \in K
    OBVIOUS
  <1>2. good \in K
    <2> HIDE DEF K
    <2> QED BY <1>1, MaxIsGreatest
  <1>3. ImportRange(node, rs).n = Imported(node, good)
    BY DEF ImportRange
  <1>4. good \in Nat /\ good <= Len(rs) /\ (good # 0 => rs[good].valid)
    BY <1>1, <1>2
  <1> HIDE DEF good, K
  <1>5. /\ Sound(node, Tip) /\ Busy(node) /\ node.out = Nothing
        /\ node.height \in Nat /\ node.height <= Tip
    BY DEF IInv, Sound, SyncNodes
  <1>6. node.height + good <= Tip
    <2>1. CASE good = 0
      BY <1>5, <2>1
    <2>2. CASE good # 0
      <3>1. good \in 1 .. Len(rs) /\ good \in DOMAIN rs
        BY <1>1, <1>4, <2>2
      <3>2. rs[good].height = node.height + 1 + good - 1 /\ rs[good].height <= Tip
        BY <1>4, <2>2, <3>1 DEF IsSequence
      <3> QED BY <1>4, <1>5, <3>2
    <2> QED BY <2>1, <2>2
  <1> QED BY <1>3, <1>4, <1>5, <1>6, ImportGood

\* handle_sync_response for a range.
LEMMA BlocksGood ==
    ASSUME IInv, NEW i \in flight
    PROVE  Good(HandleBlocks(node, i))
  <1> DEFINE rs == i.reply.records
             s == ImportRange(node, rs)
             refused == RetrySyncAfterFailure(node, i.peer, i.id)
             taken == /\ MatchesIntent(node, i) /\ rs # <<>> /\ IsSequence(rs, i.from)
  <1>1. /\ i \in Intents /\ i.peer \in Peers /\ i.reply \in Replies
        /\ CertifiedReply(i.reply, Tip)
    BY DEF IInv, FlightOK, Intents
  <1>2. Sound(node, Tip) /\ Busy(node) /\ node.out = Nothing
    BY DEF IInv
  <1>3. Good(refused)
    BY <1>2, RetryGood
  <1>4. HandleBlocks(node, i) =
           IF ~taken THEN refused
           ELSE IF ~s.ok THEN RetrySyncAfterFailure(s.n, i.peer, i.id)
           ELSE IF s.n.target # NoTarget THEN RequestSyncBlocks(s.n, i.peer)
           ELSE s.n
    BY DEF HandleBlocks
  <1>5. CASE taken
    <2>1. i.reply.type = "blocks" /\ i.from = node.height + 1
      BY <1>5 DEF MatchesIntent
    <2>2. rs \in Seq(Records)
      BY <1>1, <2>1 DEF Replies, Pending, Failed
    <2>3. \A k \in 1 .. Len(rs) : rs[k].valid => rs[k].height <= Tip
      BY <1>1, <2>1 DEF CertifiedReply
    <2> HIDE DEF rs
    <2>4. Good(s.n) /\ s.n.out = Nothing
      BY <1>5, <2>1, <2>2, <2>3, ImportRangeGood
    <2> HIDE DEF s
    <2>5. Good(RetrySyncAfterFailure(s.n, i.peer, i.id))
      BY <2>4, RetryGood DEF Good
    <2>6. Good(RequestSyncBlocks(s.n, i.peer))
      BY <1>1, <2>4, RequestGood DEF Good
    <2> HIDE DEF taken, refused
    <2> QED BY <1>4, <1>5, <2>4, <2>5, <2>6
  <1>6. CASE ~taken
    BY <1>3, <1>4, <1>6
  <1> QED BY <1>5, <1>6

-------------------------------------------------------------------------------
(* The steps *)

\* A command that leaves the actor in state n.
LEMMA CommandsIInv ==
    ASSUME IInv, NEW n, Good(n), NEW rest \in SUBSET flight, Commands(n, rest),
           linked' \subseteq Peers, has' = has, faults' \in 0 .. MaxFaults
    PROVE  IInv'
  <1>1. Tip' = Tip
    BY DEF Tip
  <1>2. n \in SyncNodes /\ node' = [n EXCEPT !.out = Nothing]
    BY DEF Good, Sound, Commands
  <1>3. /\ node' \in SyncNodes /\ node'.out = Nothing
        /\ node'.height = n.height /\ node'.target = n.target /\ node'.request = n.request
        /\ node'.syncPeer = n.syncPeer /\ node'.peers = n.peers
    BY <1>2 DEF SyncNodes
  <1>4. Sound(node', Tip)
    BY <1>3 DEF Good, Sound
  <1>5. Busy(node')
    BY <1>3 DEF Good, Busy
  <1>6. /\ IsFiniteSet(rest) /\ rest \subseteq Intents
        /\ \A i, j \in rest : i.id = j.id => i = j
        /\ \A i \in rest : CertifiedReply(i.reply, Tip) /\ i.id # FreshId
    BY FS_Subset, FreshIdIsNew DEF IInv, FlightOK
  <1>7. IsFiniteSet(flight') /\ flight' \subseteq Intents
        /\ (\A i, j \in flight' : i.id = j.id => i = j)
        /\ (\A i \in flight' : CertifiedReply(i.reply, Tip))
    <2>1. CASE n.out = Nothing
      <3>1. flight' = rest
        BY <2>1 DEF Commands
      <3> QED BY <1>6, <3>1
    <2>2. CASE n.out # Nothing
      <3> DEFINE o == n.out
      <3>1. flight' = rest \cup {o}
        BY <2>2 DEF Commands
      <3>2. o \in Intents /\ o.id = FreshId /\ o.reply = Pending
        BY <1>2, <2>2 DEF Good, Sends, SyncNodes
      <3> HIDE DEF o
      <3>3. CertifiedReply(o.reply, Tip)
        BY <3>2 DEF CertifiedReply, Pending
      <3>4. IsFiniteSet(flight')
        BY <1>6, <3>1, FS_AddElement
      <3> QED BY <1>6, <3>1, <3>2, <3>3, <3>4
    <2> QED BY <2>1, <2>2
  <1>8. FlightOK(Tip)'
    BY <1>1, <1>7 DEF FlightOK
  <1>9. Sound(node, Tip)' /\ Busy(node)'
    BY <1>1, <1>4, <1>5 DEF Sound, Busy
  <1> QED BY <1>3, <1>8, <1>9 DEF IInv

\* Another height is finalized: what was certified stays so.
LEMMA FinalizeIInv ==
    ASSUME IInv, NEW p \in Helpful, Finalize(p)
    PROVE  IInv'
  <1>1. /\ has' = [has EXCEPT ![p] = has[p] + 1] /\ has[p] < MaxTip
        /\ node' = node /\ linked' = linked /\ flight' = flight /\ faults' = faults
        /\ has \in [Helpful -> 0 .. MaxTip] /\ MaxTip \in Nat
    BY SyncAssumption DEF Finalize, IInv
  <1>2. has' \in [Helpful -> 0 .. MaxTip] /\ \A q \in Helpful : has[q] <= has'[q]
    BY <1>1
  <1>3. /\ Tip \in 0 .. MaxTip /\ (Tip = 0 \/ \E q \in Helpful : Tip = has[q])
    BY <1>1, TipIsHighest DEF HasOK, TipOK
  <1>4. /\ Tip' \in 0 .. MaxTip /\ \A q \in Helpful : has'[q] <= Tip'
    <2>1. HasOK'
      BY <1>2 DEF HasOK
    <2>2. TipOK'
      BY <2>1, TipIsHighest, PTL
    <2> QED BY <2>2 DEF TipOK
  <1>5. Tip <= Tip'
    <2>1. CASE Tip = 0
      BY <1>1, <1>4, <2>1
    <2>2. ASSUME NEW q \in Helpful, Tip = has[q] PROVE Tip <= Tip'
      <3>1. has[q] <= has'[q] /\ has'[q] <= Tip' /\ has[q] \in Nat /\ has'[q] \in Nat
        BY <1>1, <1>2, <1>4
      <3> QED BY <1>1, <1>4, <2>2, <3>1
    <2> QED BY <1>3, <2>1, <2>2
  <1>6. Tip \in Nat /\ Tip' \in Nat
    BY <1>1, <1>3, <1>4
  <1>7. Sound(node', Tip') /\ Busy(node') /\ node'.out = Nothing
    <2>1. node.height \in Nat /\ node.target \in Nat /\ node.height <= Tip /\ node.target <= Tip
      BY DEF IInv, Sound, SyncNodes
    <2>2. node.height <= Tip' /\ node.target <= Tip'
      BY <1>5, <1>6, <2>1
    <2> QED BY <1>1, <2>2 DEF IInv, Sound
  <1>8. ASSUME NEW i \in flight PROVE CertifiedReply(i.reply, Tip')
    <2>1. CertifiedReply(i.reply, Tip) /\ i.reply \in Replies
      BY DEF IInv, FlightOK, Intents
    <2>2. ASSUME i.reply.type = "status", i.reply.proven PROVE i.reply.height <= Tip'
      <3>1. i.reply.height \in Nat /\ i.reply.height <= Tip
        BY <2>1, <2>2 DEF CertifiedReply, Replies, Pending, Failed
      <3> QED BY <1>5, <1>6, <3>1
    <2>3. ASSUME i.reply.type = "blocks", NEW k \in 1 .. Len(i.reply.records),
                 i.reply.records[k].valid
          PROVE  i.reply.records[k].height <= Tip'
      <3>1. i.reply.records \in Seq(Records)
        BY <2>1, <2>3 DEF Replies, Pending, Failed
      <3>2. i.reply.records[k].height \in Nat
        <4>1. i.reply.records[k] \in Records
          BY <3>1
        <4> QED BY <4>1 DEF Records
      <3>3. i.reply.records[k].height <= Tip
        BY <2>1, <2>3 DEF CertifiedReply
      <3> QED BY <1>5, <1>6, <3>2, <3>3
    <2> QED BY <2>2, <2>3 DEF CertifiedReply
  <1>9. FlightOK(Tip)'
    BY <1>1, <1>8 DEF IInv, FlightOK
  <1>10. Sound(node, Tip)' /\ Busy(node)'
    BY <1>7 DEF Sound, Busy
  <1> QED BY <1>1, <1>2, <1>7, <1>9, <1>10 DEF IInv

\* The fields of a record.
LEMMA RecordFields ==
    ASSUME NEW h \in Nat, NEW b \in BOOLEAN
    PROVE  Record(h, b) \in Records /\ Record(h, b).height = h /\ Record(h, b).valid = b
  BY DEF Record, Records

\* The fields of a status.
LEMMA StatusFields ==
    ASSUME NEW h \in Nat, NEW b \in BOOLEAN
    PROVE  /\ Status(h, b) \in Replies
           /\ Status(h, b).type = "status" /\ Status(h, b).height = h /\ Status(h, b).proven = b
  BY DEF Status, Replies

\* A peer serves finalized records, and nobody forges a certificate.
LEMMA RepliesAreCertified ==
    ASSUME IInv, NEW i \in flight,
           NEW reply \in IF i.peer \in Helpful THEN HelpfulReplies(i) ELSE UnhelpfulReplies(i)
    PROVE  reply \in Replies /\ CertifiedReply(reply, Tip)
  <1>1. i.from \in Nat /\ i.kind \in {"status", "blocks"}
    BY DEF IInv, FlightOK, Intents
  <1>2. /\ Tip \in 0 .. MaxTip /\ \A p \in Helpful : has[p] <= Tip
        /\ MaxTip \in Nat /\ Limit \in Nat \ {0}
        /\ has \in [Helpful -> 0 .. MaxTip]
    BY TipIsHighest, SyncAssumption DEF IInv, HasOK, TipOK
  <1>3. Tip \in Nat
    BY <1>2
  <1>4. CASE i.peer \in Helpful /\ reply \in HelpfulReplies(i)
    <2> DEFINE x == has[i.peer]
               most == Min({Limit, Max({0, x - i.from + 1})})
    <2>1. x \in Nat /\ x <= Tip
      BY <1>2, <1>4
    <2> HIDE DEF x
    <2>2. CASE i.kind = "status"
      <3>1. reply = [type |-> "status", height |-> x, proven |-> TRUE]
        BY <1>4, <2>2 DEF HelpfulReplies, Status, x
      <3> QED BY <2>1, <3>1 DEF Replies, CertifiedReply
    <2>3. CASE i.kind # "status"
      <3>1. PICK n \in (IF most = 0 THEN {0} ELSE 1 .. most) :
               reply = Blocks([k \in 1 .. n |-> Record(i.from + k - 1, TRUE)])
        <4>1. reply \in HelpfulReplies(i)
          BY <1>4
        <4> QED BY <2>3, <4>1 DEF HelpfulReplies, x
      <3>2. most \in Nat /\ (most = 0 \/ most <= x - i.from + 1)
        <4> DEFINE y == Max({0, x - i.from + 1})
        <4>1. x - i.from + 1 \in Int /\ 0 \in Int /\ Limit \in Int
          BY <1>1, <1>2, <2>1
        <4>2. y \in {0, x - i.from + 1} /\ 0 <= y
          BY <4>1, MaxOfTwo
        <4> HIDE DEF y
        <4>3. y \in Int
          BY <4>1, <4>2
        <4>4. Min({Limit, y}) \in {Limit, y} /\ Min({Limit, y}) <= y
          BY <4>1, <4>3, MaxOfTwo
        <4> QED BY <1>2, <4>1, <4>2, <4>3, <4>4 DEF y
      <3> HIDE DEF most
      <3>3. n \in Nat /\ (n = 0 \/ i.from + n - 1 <= x)
        BY <1>1, <2>1, <3>2
      <3> DEFINE rs == [k \in 1 .. n |-> Record(i.from + k - 1, TRUE)]
      <3>4. \A k \in 1 .. n : Record(i.from + k - 1, TRUE) \in Records
        BY <1>1, <3>3 DEF Record, Records
      <3>5. rs \in Seq(Records) /\ Len(rs) = n
        <4>1. rs \in [1 .. n -> Records]
          BY <3>4
        <4> HIDE DEF rs
        <4> QED BY <3>3, <4>1
      <3>6. \A k \in 1 .. n : rs[k].height = i.from + k - 1
        BY DEF Record
      <3>7. reply = [type |-> "blocks", records |-> rs]
        BY <3>1 DEF Blocks
      <3> HIDE DEF rs
      <3>8. \A k \in 1 .. Len(rs) : rs[k].height <= Tip
        BY <1>1, <1>3, <2>1, <3>3, <3>5, <3>6
      <3> QED BY <3>5, <3>7, <3>8 DEF Replies, CertifiedReply
    <2> QED BY <2>2, <2>3
  <1>5. CASE reply \in UnhelpfulReplies(i)
    <2>1. \/ reply = Status(Tip, TRUE) \/ reply = Status(MaxTip + 1, FALSE)
          \/ reply = Blocks(<<>>) \/ reply = Blocks(<<Record(i.from + 1, i.from < Tip)>>)
          \/ reply = Blocks(<<Record(i.from, i.from <= Tip), Record(i.from + 1, FALSE)>>)
      BY <1>5 DEF UnhelpfulReplies
    <2>2. CASE reply = Status(Tip, TRUE) \/ reply = Status(MaxTip + 1, FALSE)
      <3>1. MaxTip + 1 \in Nat
        BY <1>2
      <3>2. /\ Status(Tip, TRUE) \in Replies /\ Status(Tip, TRUE).height = Tip
            /\ Status(Tip, TRUE).type = "status"
        BY <1>3, StatusFields
      <3>3. /\ Status(MaxTip + 1, FALSE) \in Replies /\ ~Status(MaxTip + 1, FALSE).proven
            /\ Status(MaxTip + 1, FALSE).type = "status"
        BY <3>1, StatusFields
      <3>4. Tip <= Tip
        BY <1>3
      <3>5. CASE reply = Status(Tip, TRUE)
        BY <3>2, <3>4, <3>5, Zenon DEF CertifiedReply
      <3>6. CASE reply = Status(MaxTip + 1, FALSE)
        BY <3>3, <3>6, Zenon DEF CertifiedReply
      <3> QED BY <2>2, <3>5, <3>6
    <2>3. CASE reply = Blocks(<<>>)
      BY <2>3 DEF Blocks, Replies, CertifiedReply
    <2>4. CASE reply = Blocks(<<Record(i.from + 1, i.from < Tip)>>)
      <3> DEFINE r == Record(i.from + 1, i.from < Tip)
      <3>1. r \in Records /\ (r.valid => r.height <= Tip)
        <4> DEFINE b == i.from < Tip
        <4>1. b \in BOOLEAN
          OBVIOUS
        <4>2. b => i.from + 1 <= Tip
          BY <1>1, <1>3
        <4>3. i.from + 1 \in Nat
          BY <1>1
        <4> HIDE DEF b
        <4>4. /\ Record(i.from + 1, b) \in Records /\ Record(i.from + 1, b).valid = b
              /\ Record(i.from + 1, b).height = i.from + 1
          BY <4>1, <4>3, RecordFields
        <4> QED BY <4>2, <4>4, Zenon DEF b
      <3>2. reply = [type |-> "blocks", records |-> <<r>>]
        BY <2>4 DEF Blocks
      <3> HIDE DEF r
      <3> QED BY <3>1, <3>2 DEF Replies, CertifiedReply
    <2>5. CASE reply = Blocks(<<Record(i.from, i.from <= Tip), Record(i.from + 1, FALSE)>>)
      <3> DEFINE r == Record(i.from, i.from <= Tip)
                 q == Record(i.from + 1, FALSE)
      <3>1. r \in Records /\ (r.valid => r.height <= Tip) /\ q \in Records /\ ~q.valid
        <4> DEFINE b == i.from <= Tip
        <4>1. b \in BOOLEAN
          OBVIOUS
        <4>2. i.from + 1 \in Nat
          BY <1>1
        <4>3. q \in Records /\ q.valid = FALSE
          BY <4>2, RecordFields
        <4> HIDE DEF b
        <4>4. /\ Record(i.from, b) \in Records /\ Record(i.from, b).valid = b
              /\ Record(i.from, b).height = i.from
          BY <1>1, <4>1, RecordFields
        <4> QED BY <4>3, <4>4, Zenon DEF b
      <3>2. reply = [type |-> "blocks", records |-> <<r, q>>]
        BY <2>5 DEF Blocks
      <3> HIDE DEF r, q
      <3> QED BY <3>1, <3>2 DEF Replies, CertifiedReply
    <2> QED BY <2>1, <2>2, <2>3, <2>4, <2>5
  <1> QED BY <1>4, <1>5

\* A peer connects: it is asked for its status, or for a range.
LEMMA ConnectedIInv ==
    ASSUME IInv, NEW p \in Peers, PeerConnected(p)
    PROVE  IInv'
  <1> DEFINE n == [node EXCEPT !.peers = node.peers \cup {p}]
             i == Intent(p, "status", 0)
             m == [n EXCEPT !.out = i]
             c == IF n.target # NoTarget THEN EnsureActiveSyncRequest(n, p) ELSE m
  <1>1. Commands(c, flight) /\ linked' \subseteq Peers /\ has' = has /\ faults' \in 0 .. MaxFaults
    BY DEF PeerConnected, IInv
  <1>2. node \in SyncNodes /\ node.out = Nothing
    BY DEF IInv, Sound
  <1>3. /\ n \in SyncNodes /\ n.height = node.height /\ n.target = node.target
        /\ n.out = Nothing
    BY <1>2 DEF SyncNodes
  <1> HIDE DEF n
  <1>4. Sound(n, Tip)
    BY <1>3 DEF IInv, Sound
  <1>5. Good(c)
    <2>1. CASE n.target # NoTarget
      BY <1>3, <1>4, <2>1, EnsureGood
    <2>2. CASE n.target = NoTarget
      <3>1. i \in Intents /\ i.id = FreshId /\ i.reply = Pending
        BY IntentIsSent
      <3> HIDE DEF i
      <3>2. m \in SyncNodes /\ m.height = n.height /\ m.target = n.target /\ m.out = i
        BY <1>3, <3>1 DEF SyncNodes
      <3> HIDE DEF m
      <3>3. Sound(m, Tip) /\ Busy(m) /\ Sends(m, FreshId)
        BY <1>4, <2>2, <3>1, <3>2 DEF Sound, Busy, Sends
      <3> QED BY <2>2, <3>3 DEF Good
    <2> QED BY <2>1, <2>2
  <1> HIDE DEF c
  <1> QED BY <1>1, <1>5, CommandsIInv

\* A peer disconnects: its request is given to another one.
LEMMA DisconnectedIInv ==
    ASSUME IInv, NEW p \in Peers, PeerDisconnected(p)
    PROVE  IInv'
  <1> DEFINE n == [node EXCEPT !.peers = node.peers \ {p}]
             c == IF n.syncPeer = p THEN RetrySyncAfterFailure(n, p, NoRequest) ELSE n
  <1>1. Commands(c, flight) /\ linked' \subseteq Peers /\ has' = has
    BY DEF PeerDisconnected, IInv
  <1>2. faults' \in 0 .. MaxFaults
    BY SyncAssumption DEF PeerDisconnected, IInv
  <1>3. node \in SyncNodes /\ node.out = Nothing
    BY DEF IInv, Sound
  <1>4. /\ n \in SyncNodes /\ n.height = node.height /\ n.target = node.target
        /\ n.out = Nothing /\ n.request = node.request /\ n.syncPeer = node.syncPeer
        /\ n.peers \subseteq node.peers
    BY <1>3 DEF SyncNodes
  <1> HIDE DEF n
  <1>5. Sound(n, Tip)
    BY <1>4 DEF IInv, Sound
  <1>6. Good(c)
    <2>1. CASE n.syncPeer = p
      BY <1>4, <1>5, <2>1, RetryGood
    <2>2. CASE n.syncPeer # p
      BY <1>4, <1>5, <2>2 DEF IInv, Good, Busy, Sends
    <2> QED BY <2>1, <2>2
  <1> HIDE DEF c
  <1> QED BY <1>1, <1>2, <1>6, CommandsIInv

\* A finalized record arrives by gossip.
LEMMA GossipIInv ==
    ASSUME IInv, NEW p \in Helpful, NEW h, Gossip(p, h)
    PROVE  IInv'
  <1> DEFINE c == IF h = node.height + 1 THEN ImportFinalized(node) ELSE BeginSync(node, p, h)
  <1>1. /\ h \in (node.height + 1) .. has[p] /\ Commands(c, flight)
        /\ linked' \subseteq Peers /\ has' = has /\ faults' \in 0 .. MaxFaults
    BY DEF Gossip, IInv
  <1>2. /\ Sound(node, Tip) /\ Busy(node) /\ node.out = Nothing /\ node.height \in Nat
        /\ p \in Peers
    BY DEF IInv, Sound, SyncNodes, Helpful
  <1>3. has[p] \in Nat /\ has[p] <= Tip /\ Tip \in Nat
    BY TipIsHighest, SyncAssumption DEF IInv, HasOK, TipOK
  <1>4. h \in Nat /\ h <= Tip
    BY <1>1, <1>2, <1>3
  <1>5. Good(c)
    <2>1. CASE h = node.height + 1
      <3>1. ImportFinalized(node) = Imported(node, 1)
        BY DEF ImportFinalized, Imported
      <3>2. Good(Imported(node, 1))
        BY <1>2, <1>4, <2>1, ImportGood
      <3> QED BY <2>1, <3>1, <3>2
    <2>2. CASE h # node.height + 1
      BY <1>2, <1>4, <2>2, BeginGood
    <2> QED BY <2>1, <2>2
  <1> HIDE DEF c
  <1> QED BY <1>1, <1>5, CommandsIInv

\* A completion is handled.
LEMMA HandleIInv ==
    ASSUME IInv, NEW i \in flight, HandleCompletion(i)
    PROVE  IInv'
  <1> DEFINE c == IF i.reply = Failed THEN RetrySyncAfterFailure(node, i.peer, i.id)
                  ELSE IF i.kind = "status" THEN HandleStatus(node, i)
                  ELSE HandleBlocks(node, i)
  <1>1. /\ Commands(c, flight \ {i})
        /\ linked' \subseteq Peers /\ has' = has /\ faults' \in 0 .. MaxFaults
    BY DEF HandleCompletion, IInv
  <1>2. Good(RetrySyncAfterFailure(node, i.peer, i.id))
    BY RetryGood DEF IInv
  <1>3. Good(c)
    BY <1>2, StatusGood, BlocksGood
  <1> HIDE DEF c
  <1> QED BY <1>1, <1>3, CommandsIInv

\* The deadline of the active request passes.
LEMMA WatchdogIInv == ASSUME IInv, Watchdog PROVE IInv'
  <1> DEFINE c == RetrySyncAfterFailure(node, node.syncPeer, node.request)
  <1>1. Commands(c, flight) /\ linked' \subseteq Peers /\ has' = has
    BY DEF Watchdog, IInv
  <1>2. faults' \in 0 .. MaxFaults
    BY SyncAssumption DEF Watchdog, IInv
  <1>3. Good(c)
    BY RetryGood DEF IInv
  <1> HIDE DEF c
  <1> QED BY <1>1, <1>2, <1>3, CommandsIInv

\* The network completes a request.
LEMMA CompleteIInv ==
    ASSUME IInv, NEW i \in flight, Complete(i)
    PROVE  IInv'
  <1>1. PICK reply \in {Failed} \cup (IF i.peer \notin linked THEN {}
                                      ELSE IF i.peer \in Helpful THEN HelpfulReplies(i)
                                      ELSE UnhelpfulReplies(i)) :
           /\ flight' = (flight \ {i}) \cup {[i EXCEPT !.reply = reply]}
           /\ IF reply = Failed /\ i.peer \in Helpful \cap linked
              THEN faults < MaxFaults /\ faults' = faults + 1
              ELSE faults' = faults
    BY DEF Complete
  <1>2. node' = node /\ linked' = linked /\ has' = has /\ Tip' = Tip
    BY DEF Complete, Tip
  <1>3. faults' \in 0 .. MaxFaults
    BY <1>1, SyncAssumption DEF IInv
  <1>4. reply \in Replies /\ CertifiedReply(reply, Tip)
    <2>1. CASE reply = Failed
      BY <2>1 DEF Failed, Replies, CertifiedReply
    <2>2. CASE reply # Failed
      BY <1>1, <2>2, RepliesAreCertified
    <2> QED BY <2>1, <2>2
  <1> DEFINE j == [i EXCEPT !.reply = reply]
  <1>5. i \in Intents /\ IsFiniteSet(flight) /\ flight \subseteq Intents
        /\ (\A x, y \in flight : x.id = y.id => x = y)
        /\ (\A x \in flight : CertifiedReply(x.reply, Tip))
    BY DEF IInv, FlightOK
  <1>6. j \in Intents /\ j.id = i.id /\ j.reply = reply /\ flight' = (flight \ {i}) \cup {j}
    BY <1>1, <1>4, <1>5 DEF Intents
  <1> HIDE DEF j
  <1>7. IsFiniteSet(flight')
    BY <1>5, <1>6, FS_AddElement, FS_RemoveElement
  <1>8. FlightOK(Tip)'
    <2>1. flight' \subseteq Intents
      BY <1>5, <1>6
    <2>2. ASSUME NEW x \in flight', NEW y \in flight', x.id = y.id PROVE x = y
      BY <1>5, <1>6, <2>2
    <2>3. ASSUME NEW x \in flight' PROVE CertifiedReply(x.reply, Tip)
      <3>1. CASE x \in flight
        BY <1>5, <3>1
      <3>2. CASE x = j
        BY <1>4, <1>6, <3>2
      <3> QED BY <1>6, <3>1, <3>2
    <2> QED BY <1>2, <1>7, <2>1, <2>2, <2>3 DEF FlightOK
  <1>9. Sound(node, Tip)' /\ Busy(node)'
    BY <1>2 DEF IInv, Sound, Busy
  <1> QED BY <1>2, <1>3, <1>8, <1>9 DEF IInv

\* News is lost, or the node restarts.
LEMMA LossIInv ==
    ASSUME IInv, \/ \E p \in Peers : LosePeerEvent(p)
                 \/ \E i \in flight : LoseCompletion(i)
                 \/ Restart
                 \/ UNCHANGED vars
    PROVE  IInv'
  <1>1. has' = has /\ Tip' = Tip
    BY DEF LosePeerEvent, LoseCompletion, Restart, vars, Tip
  <1>2. faults' \in 0 .. MaxFaults
    BY SyncAssumption DEF LosePeerEvent, LoseCompletion, Restart, vars, IInv
  <1>3. linked' \subseteq Peers
    BY DEF LosePeerEvent, LoseCompletion, Restart, vars, IInv
  <1>4. flight' \subseteq flight
    BY DEF LosePeerEvent, LoseCompletion, Restart, vars
  <1>5. IsFiniteSet(flight')
    BY <1>4, FS_Subset DEF IInv, FlightOK
  <1>6. FlightOK(Tip)'
    BY <1>1, <1>4, <1>5 DEF IInv, FlightOK
  <1>7. Sound(node', Tip) /\ Busy(node') /\ node'.out = Nothing
    <2>1. CASE node' = node
      BY <2>1 DEF IInv
    <2>2. CASE Restart
      <3>1. PICK S \in SUBSET linked : node' = NewNode(node.height, S)
        BY <2>2 DEF Restart
      <3>2. node.height \in Nat /\ node.height <= Tip /\ S \in SUBSET Peers /\ Tip \in Nat
        BY TipIsHighest, SyncAssumption DEF IInv, HasOK, TipOK, Sound, SyncNodes
      <3> QED BY <3>1, <3>2
              DEF NewNode, Sound, Busy, SyncNodes, NoTarget, NoPeer, NoRequest
    <2> QED BY <2>1, <2>2 DEF LosePeerEvent, LoseCompletion, vars
  <1>8. Sound(node, Tip)' /\ Busy(node)'
    BY <1>1, <1>7 DEF Sound, Busy
  <1> QED BY <1>1, <1>2, <1>3, <1>6, <1>7, <1>8 DEF IInv

\* The invariant holds of a node that has just been set up.
LEMMA InitIInv == ASSUME Init PROVE IInv
  <1>1. has \in [Helpful -> 0 .. MaxTip]
    BY SyncAssumption DEF Init
  <1>2. Tip \in Nat
    BY <1>1, TipIsHighest, SyncAssumption DEF HasOK, TipOK
  <1>3. Sound(node, Tip) /\ Busy(node) /\ node.out = Nothing
    BY <1>2 DEF Init, NewNode, Sound, Busy, SyncNodes, NoTarget, NoPeer, NoRequest
  <1>4. FlightOK(Tip)
    BY FS_EmptySet DEF Init, FlightOK
  <1> QED BY <1>1, <1>3, <1>4, SyncAssumption DEF Init, IInv

\* Every step preserves it.
LEMMA NextIInv == ASSUME IInv, [Next]_vars PROVE IInv'
  BY FinalizeIInv, GossipIInv, ConnectedIInv, DisconnectedIInv, CompleteIInv, HandleIInv,
     WatchdogIInv, LossIInv DEF Next

-------------------------------------------------------------------------------
(* The theorems *)

\* Every reachable state satisfies the inductive invariant.
THEOREM SyncInvariance == Spec => []IInv
  <1>1. Init => IInv
    BY InitIInv
  <1>2. IInv /\ [Next]_vars => IInv'
    BY NextIInv
  <1> QED BY <1>1, <1>2, PTL DEF Spec

\* TypeOK: states are well-formed, no request waits to be sent between commands
\* and requests under way have different ids.
THEOREM SyncTypeCorrect == Spec => []TypeOK
  <1>1. IInv => TypeOK
    <2> SUFFICES ASSUME IInv PROVE TypeOK
      OBVIOUS
    <2>1. Tip \in 0 .. MaxTip /\ MaxTip \in Nat
      BY TipIsHighest, SyncAssumption DEF IInv, HasOK, TipOK
    <2>2. /\ node.height \in 0 .. MaxTip /\ node.target \in 0 .. MaxTip
          /\ node.syncPeer \in Peers \cup {NoPeer} /\ node.peers \subseteq Peers
      BY <2>1 DEF IInv, Sound, SyncNodes
    <2> QED BY <2>2 DEF IInv, FlightOK, Intents, TypeOK
  <1> QED BY <1>1, SyncInvariance, PTL

\* OnlyCertifiedHeights: nobody without a certificate moves the node or its
\* target, whatever unhelpful peers answer.
THEOREM SyncOnlyCertifiedHeights == Spec => []OnlyCertifiedHeights
  <1>1. IInv => OnlyCertifiedHeights
    BY DEF IInv, Sound, OnlyCertifiedHeights
  <1> QED BY <1>1, SyncInvariance, PTL

\* SyncingIsBehind: a node resumes voting with the block that reaches its target.
THEOREM SyncingNodesAreBehind == Spec => []SyncingIsBehind
  <1>1. IInv => SyncingIsBehind
    BY DEF IInv, Sound, SyncingIsBehind
  <1> QED BY <1>1, SyncInvariance, PTL

\* NeverIdle: a synchronizing node with a peer has a request under way, through
\* losses, late and stale completions, disconnects and restarts.
THEOREM SyncNeverIdle == Spec => []NeverIdle
  <1>1. IInv => NeverIdle
    BY DEF IInv, Busy, NeverIdle
  <1> QED BY <1>1, SyncInvariance, PTL

\* StaleCompletionsIgnored: a completion of a range request that is no longer
\* the active one changes nothing.
THEOREM SyncStaleCompletionsIgnored == Spec => StaleCompletionsIgnored
  <1> DEFINE Ignores == \A i \in flight :
                 i.kind = "blocks" /\ i.id # node.request /\ HandleCompletion(i) => node' = node
  <1>1. IInv => Ignores
    <2> SUFFICES ASSUME IInv, NEW i \in flight, i.kind = "blocks", i.id # node.request,
                        HandleCompletion(i)
                 PROVE  node' = node
      OBVIOUS
    <2> DEFINE c == IF i.reply = Failed THEN RetrySyncAfterFailure(node, i.peer, i.id)
                    ELSE HandleBlocks(node, i)
    <2>1. Commands(c, flight \ {i})
      BY DEF HandleCompletion
    <2>2. i.id # NoRequest
      BY DEF IInv, FlightOK, Intents, NoRequest
    <2>3. RetrySyncAfterFailure(node, i.peer, i.id) = node
      BY <2>2 DEF RetrySyncAfterFailure
    <2>4. ~MatchesIntent(node, i)
      BY DEF MatchesIntent
    <2>5. HandleBlocks(node, i) = node
      BY <2>3, <2>4 DEF HandleBlocks
    <2>6. node' = [node EXCEPT !.out = Nothing]
      BY <2>1, <2>3, <2>5 DEF Commands
    <2>7. node \in SyncNodes /\ node.out = Nothing
      BY DEF IInv, Sound
    <2> QED BY <2>6, <2>7 DEF SyncNodes
  <1>2. IInv /\ [Next]_vars => [Ignores]_vars
    BY <1>1
  <1> HIDE DEF Ignores
  <1>3. Spec => [][Ignores]_vars
    BY <1>2, SyncInvariance, PTL DEF Spec
  <1> QED BY <1>3 DEF StaleCompletionsIgnored, Ignores

===============================================================================
