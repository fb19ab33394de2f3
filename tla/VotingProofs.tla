----------------------------- MODULE VotingProofs -----------------------------
(***************************************************************************)
(* Agreement of the voting rules for any number of validators, any set of  *)
(* fewer than a third faulty ones, any set of blocks and any round limit.  *)
(***************************************************************************)
EXTENDS Voting, ValidatorsProofs, WellFoundedInduction

-------------------------------------------------------------------------------
(* The latest round of a finite set of rounds *)

\* A finite, non-empty set of numbers has a largest element.
LEMMA MaxExists ==
    ASSUME NEW n \in Nat, NEW T \in SUBSET (0 .. n), T # {}
    PROVE  \E x \in T : \A y \in T : y <= x
  <1> DEFINE U == {u \in 0 .. n : n - u \in T}
  <1>1. U \subseteq Nat
    OBVIOUS
  <1>2. U # {}
    <2>1. PICK x \in T : TRUE
      OBVIOUS
    <2>2. n - x \in U
      OBVIOUS
    <2> QED BY <2>2
  <1>3. PICK u \in U : \A w \in U : ~(<<w, u>> \in OpToRel(<, Nat))
    <2> HIDE DEF U
    <2> QED BY <1>1, <1>2, NatLessThanWellFounded, WFMin, Zenon
  <1>4. \A w \in U : ~(w < u)
    <2> HIDE DEF U
    <2> QED BY <1>1, <1>3 DEF OpToRel
  <1>5. n - u \in T /\ \A y \in T : y <= n - u
    <2>1. ASSUME NEW y \in T PROVE y <= n - u
      <3>1. n - y \in U
        OBVIOUS
      <3> QED BY <1>4, <3>1
    <2> QED BY <2>1
  <1> QED BY <1>5

-------------------------------------------------------------------------------
(* The voting step *)

\* Only validators are counted for a value.
LEMMA SignersAreValidators ==
    ASSUME NEW k, NEW h, NEW r, NEW x PROVE Signers(k, h, r, x) \in SUBSET Validators
  BY FaultyAssumption DEF Signers, Honest, Validators

\* Every action of Next adds one vote to an open slot.
Step(k, h, r, v, x) == SlotOpen(v, k, h, r) /\ Cast(k, h, r, v, x)

\* What the rules demand of a vote for a block.
Justified(k, h, r, v, x) ==
    x # Nil => /\ k = "prevote" => LockAllows(v, h, r, x)
               /\ k = "precommit" => Polc(h, r, x)

\* Every action casts one vote in an open slot, under the condition of its kind:
\* a lock that allows a block prevote, a proof-of-lock for a block precommit.
LEMMA NextIsStep ==
    ASSUME Next
    PROVE  \E k \in Kinds, h \in Heights, r \in Rounds, v \in Honest, x \in Blocks \cup {Nil} :
              Step(k, h, r, v, x) /\ Justified(k, h, r, v, x)
  <1>1. PICK v \in Honest, h \in Heights, r \in Rounds :
            \/ \E b \in Blocks : Prevote(v, h, r, b) \/ Precommit(v, h, r, b)
            \/ PrevoteNil(v, h, r)
            \/ PrecommitNil(v, h, r)
    BY DEF Next
  <1>2. ASSUME NEW b \in Blocks, Prevote(v, h, r, b)
        PROVE  Step("prevote", h, r, v, b) /\ Justified("prevote", h, r, v, b)
    BY <1>2 DEF Prevote, Step, Justified
  <1>3. ASSUME NEW b \in Blocks, Precommit(v, h, r, b)
        PROVE  Step("precommit", h, r, v, b) /\ Justified("precommit", h, r, v, b)
    BY <1>3 DEF Precommit, Step, Justified
  <1>4. ASSUME PrevoteNil(v, h, r)
        PROVE  Step("prevote", h, r, v, Nil) /\ Justified("prevote", h, r, v, Nil)
    BY <1>4 DEF PrevoteNil, Step, Justified
  <1>5. ASSUME PrecommitNil(v, h, r)
        PROVE  Step("precommit", h, r, v, Nil) /\ Justified("precommit", h, r, v, Nil)
    BY <1>5 DEF PrecommitNil, Step, Justified
  <1> QED BY <1>1, <1>2, <1>3, <1>4, <1>5 DEF Kinds

\* A vote record is determined by its fields.
LEMMA VoteFields ==
    ASSUME NEW k, NEW h, NEW r, NEW v, NEW x
    PROVE  /\ Vote(k, h, r, v, x).kind = k /\ Vote(k, h, r, v, x).height = h
           /\ Vote(k, h, r, v, x).round = r
           /\ Vote(k, h, r, v, x).validator = v /\ Vote(k, h, r, v, x).value = x
  BY DEF Vote

\* Votes are never withdrawn, so quorums of votes persist.
LEMMA PolcStable ==
    ASSUME votes \subseteq votes', NEW h, NEW r, NEW b, Polc(h, r, b)
    PROVE  Polc(h, r, b)'
  <1>1. Signers("prevote", h, r, b) \subseteq Signers("prevote", h, r, b)'
    BY DEF Signers
  <1>2. Signers("prevote", h, r, b)' \in SUBSET Validators
    BY FaultyAssumption DEF Signers, Honest, Validators
  <1> QED BY <1>1, <1>2, QuorumMonotone DEF Polc

\* A quorum of precommits, once durable, persists.
LEMMA CommittedStable ==
    ASSUME votes \subseteq votes', NEW h, NEW r, NEW b, Committed(h, r, b)
    PROVE  Committed(h, r, b)'
  <1>1. Signers("precommit", h, r, b) \subseteq Signers("precommit", h, r, b)'
    BY DEF Signers
  <1>2. Signers("precommit", h, r, b)' \in SUBSET Validators
    BY FaultyAssumption DEF Signers, Honest, Validators
  <1> QED BY <1>1, <1>2, QuorumMonotone DEF Committed

\* A validator past round r never precommits in r, so NeverCommits is stable.
LEMMA NeverCommitsStable ==
    ASSUME TypeOK, NEW k \in Kinds, NEW h \in Heights, NEW r \in Rounds, NEW v \in Honest,
           NEW x \in Blocks \cup {Nil}, Step(k, h, r, v, x),
           NEW g \in Heights, NEW r0 \in Rounds, NEW b0 \in Blocks,
           NeverCommits(g, r0, b0)
    PROVE  NeverCommits(g, r0, b0)'
  <1> DEFINE G == Faulty \cup {w \in Honest : IsPast(w, g, r0)
                                  /\ Vote("precommit", g, r0, w, b0) \notin votes}
  <1>1. votes' = votes \cup {Vote(k, h, r, v, x)}
    BY DEF Step, Cast
  <1>2. ASSUME NEW w \in Honest, IsPast(w, g, r0),
               Vote("precommit", g, r0, w, b0) \notin votes
        PROVE  IsPast(w, g, r0)' /\ Vote("precommit", g, r0, w, b0) \notin votes'
    <2>1. IsPast(w, g, r0)'
      BY <1>1, <1>2 DEF IsPast
    <2>2. Vote("precommit", g, r0, w, b0) # Vote(k, h, r, v, x)
      <3> SUFFICES ASSUME w = v, g = h, r0 = r PROVE FALSE
        BY VoteFields
      <3> QED BY <1>2 DEF IsPast, Step, SlotOpen, TypeOK, Votes, Rounds
    <2> QED BY <1>1, <1>2, <2>1, <2>2
  <1>3. G \subseteq G' /\ G' \in SUBSET Validators
    BY <1>2, FaultyAssumption DEF Honest, Validators
  <1> HIDE DEF G
  <1>4. IsQuorum(G')
    BY <1>3, QuorumMonotone DEF NeverCommits, G
  <1> QED BY <1>4 DEF NeverCommits, G

\* The lock a prevote respects is the latest one; this covers the older ones.
LEMMA LatestLockSuffices ==
    ASSUME IInv, NEW v \in Honest, NEW h \in Heights, NEW r \in Rounds, NEW b \in Blocks,
           LockAllows(v, h, r, b),
           NEW x \in Locks(v, h), x.value # b,
           \A y \in Locks(v, h) : y.round < r
    PROVE  \E vr \in Rounds : x.round < vr /\ vr < r /\ Polc(h, vr, b)
  <1> DEFINE R == {y.round : y \in Locks(v, h)}
  <1>1. Locks(v, h) \subseteq Votes
    BY DEF Locks, IInv, TypeOK
  <1>2. R \subseteq 0 .. (MaxRounds - 1) /\ R # {}
    BY <1>1 DEF Votes, Rounds
  <1>3. PICK m \in R : \A n \in R : n <= m
    <2> HIDE DEF R
    <2>1. MaxRounds - 1 \in Nat
      BY MaxRoundsAssumption
    <2> QED BY <1>2, <2>1, MaxExists
  <1>4. PICK y \in Locks(v, h) : y.round = m
    BY <1>3
  <1>5. \A z \in Locks(v, h) : z.round <= y.round
    BY <1>3, <1>4
  <1>6. CASE y.value = b
    <2>1. y.round \in Rounds /\ x.round \in Rounds /\ x.round <= y.round
      BY <1>1, <1>5 DEF Votes
    <2>2. x.round # y.round
      BY <1>1, <1>6 DEF Locks, IInv, OneVotePerSlot
    <2>3. Polc(h, y.round, b)
      BY <1>6 DEF Locks, IInv, PrecommitHasPolc
    <2> QED BY <2>1, <2>2, <2>3 DEF Rounds
  <1>7. CASE y.value # b
    <2>1. PICK vr \in Rounds : y.round < vr /\ vr < r /\ Polc(h, vr, b)
      BY <1>5, <1>7 DEF LockAllows
    <2>2. x.round <= y.round /\ x.round \in Rounds /\ y.round \in Rounds
      BY <1>1, <1>5 DEF Votes
    <2> QED BY <2>1, <2>2 DEF Rounds
  <1> QED BY <1>6, <1>7

-------------------------------------------------------------------------------
(* The inductive invariant *)

\* The inductive invariant holds before any vote is cast.
LEMMA InitIInv == FewFaulty /\ Init => IInv
  <1> SUFFICES ASSUME FewFaulty, Init PROVE IInv
    OBVIOUS
  <1>1. votes = {}
    BY DEF Init
  <1>2. ASSUME NEW h, NEW r \in Rounds, NEW b \in Blocks, Polc(h, r, b) PROVE FALSE
    <2>1. Signers("prevote", h, r, b) = Faulty
      BY <1>1 DEF Signers
    <2>2. IsQuorum(Faulty) /\ Faulty \in SUBSET Validators
      BY <1>2, <2>1, SignersAreValidators DEF Polc
    <2> QED BY <2>2, QuorumIntersection DEF Honest
  <1> QED
    BY <1>1, <1>2 DEF IInv, TypeOK, OneVotePerSlot, PrecommitHasPolc, LockRespected,
                      PolcExcludes

\* Casting one vote under the voting rules preserves the inductive invariant.
LEMMA StepIInv ==
    ASSUME FewFaulty, IInv,
           NEW k \in Kinds, NEW h \in Heights, NEW r \in Rounds, NEW v \in Honest,
           NEW x \in Blocks \cup {Nil},
           Step(k, h, r, v, x), Justified(k, h, r, v, x)
    PROVE  IInv'
  <1> DEFINE new == Vote(k, h, r, v, x)
  <1>1. votes' = votes \cup {new} /\ votes \subseteq votes'
    BY DEF Step, Cast
  <1>2. /\ new.kind = k /\ new.height = h /\ new.round = r /\ new.validator = v /\ new.value = x
        /\ new \in Votes
    BY DEF Vote, Votes
  <1>3. \A y \in votes : y.validator = v /\ y.height = h =>
            \/ y.round < r
            \/ y.round = r /\ y.kind = "prevote" /\ k = "precommit"
    BY DEF Step, SlotOpen
  <1>4. \A y \in votes : y \in Votes /\ y.round \in Nat
    BY DEF IInv, TypeOK, Votes, Rounds
  <1>5. r \in Nat
    BY DEF Rounds
  <1> HIDE DEF new
  <1>6. TypeOK'
    BY <1>1, <1>2, <1>4 DEF TypeOK
  <1>7. OneVotePerSlot'
    <2> SUFFICES ASSUME NEW y \in votes', NEW z \in votes', y.kind = z.kind,
                        y.height = z.height, y.round = z.round, y.validator = z.validator
                 PROVE  y = z
      BY DEF OneVotePerSlot
    <2>1. CASE y \in votes /\ z \in votes
      BY <2>1 DEF IInv, OneVotePerSlot
    <2>2. ASSUME NEW w \in votes, w.kind = k, w.height = h, w.round = r, w.validator = v PROVE FALSE
      BY <1>3, <1>4, <1>5, <2>2
    <2> QED BY <1>1, <1>2, <2>1, <2>2
  <1>8. PrecommitHasPolc'
    <2> SUFFICES ASSUME NEW y \in votes', y.kind = "precommit", y.value # Nil
                 PROVE  Polc(y.height, y.round, y.value)'
      BY DEF PrecommitHasPolc
    <2>1. Polc(y.height, y.round, y.value)
      <3>1. CASE y \in votes
        BY <3>1 DEF IInv, PrecommitHasPolc
      <3>2. CASE y = new
        BY <1>2, <3>2 DEF Justified
      <3> QED BY <1>1, <3>1, <3>2
    <2> QED BY <1>1, <2>1, PolcStable
  <1>9. LockRespected'
    <2> SUFFICES ASSUME NEW y \in votes', NEW z \in votes',
                        y.validator = z.validator, y.height = z.height, y.round < z.round,
                        y.kind = "precommit", z.kind = "prevote",
                        y.value # Nil, z.value # Nil, y.value # z.value
                 PROVE  \E vr \in Rounds :
                            y.round < vr /\ vr < z.round /\ Polc(z.height, vr, z.value)'
      BY DEF LockRespected
    <2>1. \E vr \in Rounds : y.round < vr /\ vr < z.round /\ Polc(z.height, vr, z.value)
      <3>1. CASE y \in votes /\ z \in votes
        BY <3>1 DEF IInv, LockRespected
      <3>2. CASE y = new /\ z \in votes
        BY <1>2, <1>3, <1>4, <1>5, <3>2
      <3>3. CASE y = new /\ z = new
        BY <1>2, <1>5, <3>3
      <3>4. CASE y \in votes /\ z = new
        <4>1. y \in Locks(v, h)
          BY <1>2, <3>4 DEF Locks
        <4>2. LockAllows(v, h, r, x) /\ x \in Blocks /\ k = "prevote"
          BY <1>2, <3>4 DEF Justified
        <4>3. \A w \in Locks(v, h) : w.round < r
          BY <1>3, <4>2 DEF Locks
        <4> QED BY <1>2, <3>4, <4>1, <4>2, <4>3, LatestLockSuffices
      <3> QED BY <1>1, <3>1, <3>2, <3>3, <3>4
    <2> QED BY <1>1, <2>1, PolcStable
  <1>10. PolcExcludes'
    <2> SUFFICES ASSUME NEW g \in Heights, NEW r1 \in Rounds, NEW b1 \in Blocks, Polc(g, r1, b1)',
                        NEW r0 \in Rounds, NEW b0 \in Blocks, r0 < r1, b0 # b1
                 PROVE  NeverCommits(g, r0, b0)'
      BY DEF PolcExcludes
    <2>1. CASE Polc(g, r1, b1)
      BY <2>1, NeverCommitsStable DEF IInv, PolcExcludes
    <2>2. CASE ~Polc(g, r1, b1)
      <3> DEFINE S == Signers("prevote", g, r1, b1)'
      <3>1. S \in SUBSET Validators /\ IsQuorum(S)
        BY FaultyAssumption DEF Polc, Signers, Honest, Validators
      <3>2. g = h /\ r1 = r
        <4> SUFFICES ASSUME g # h \/ r1 # r PROVE Polc(g, r1, b1)
          BY <2>2
        <4>1. \A w : Vote("prevote", g, r1, w, b1) # new
          BY <1>2, VoteFields
        <4>2. S = Signers("prevote", g, r1, b1)
          BY <1>1, <4>1 DEF Signers
        <4> QED BY <3>1, <4>2 DEF Polc
      <3>3. CASE \E w \in Honest : w \in S /\ Vote("precommit", g, r0, w, b0) \in votes'
        <4>1. PICK w \in Honest : w \in S /\ Vote("precommit", g, r0, w, b0) \in votes'
          BY <3>3
        <4>2. Vote("prevote", g, r1, w, b1) \in votes'
          BY <4>1 DEF Signers, Honest
        <4>3. b0 # Nil /\ b1 # Nil
          BY NilAssumption
        <4>4. PICK vr \in Rounds : r0 < vr /\ vr < r1 /\ Polc(g, vr, b1)'
          BY <1>9, <4>1, <4>2, <4>3, VoteFields DEF LockRespected
        <4>5. \A u : Vote("prevote", g, vr, u, b1) # new
          BY <1>2, <3>2, <4>4, VoteFields DEF Rounds
        <4>6. Signers("prevote", g, vr, b1)' = Signers("prevote", g, vr, b1)
          BY <1>1, <4>5 DEF Signers
        <4>7. Polc(g, vr, b1)
          BY <4>4, <4>6 DEF Polc
        <4>8. NeverCommits(g, r0, b0)
          BY <4>4, <4>7 DEF IInv, PolcExcludes
        <4> QED BY <4>8, NeverCommitsStable DEF IInv
      <3>4. CASE \A w \in Honest : w \in S => Vote("precommit", g, r0, w, b0) \notin votes'
        <4> DEFINE G == Faulty \cup {w \in Honest : IsPast(w, g, r0)
                                        /\ Vote("precommit", g, r0, w, b0) \notin votes}
        <4>1. ASSUME NEW w \in S PROVE w \in G'
          <5>1. CASE w \in Faulty
            BY <5>1
          <5>2. CASE w \notin Faulty
            <6>1. w \in Honest /\ Vote("prevote", g, r1, w, b1) \in votes'
              BY <5>2 DEF Signers
            <6>2. IsPast(w, g, r0)'
              BY <6>1, VoteFields DEF IsPast
            <6> QED BY <3>4, <6>1, <6>2
          <5> QED BY <5>1, <5>2
        <4>2. G' \in SUBSET Validators
          BY FaultyAssumption DEF Honest, Validators
        <4> HIDE DEF G
        <4>3. IsQuorum(G')
          BY <3>1, <4>1, <4>2, QuorumMonotone
        <4> QED BY <4>3 DEF NeverCommits, G
      <3> QED BY <3>3, <3>4
    <2> QED BY <2>1, <2>2
  <1> QED BY <1>6, <1>7, <1>8, <1>9, <1>10 DEF IInv

\* Every step of the specification preserves the inductive invariant.
LEMMA NextIInv == FewFaulty /\ IInv /\ [Next]_votes => IInv'
  <1>1. ASSUME FewFaulty, IInv, Next PROVE IInv'
    BY <1>1, NextIsStep, StepIInv
  <1>2. ASSUME IInv, UNCHANGED votes PROVE IInv'
    <2>1. \A h, r, b : Polc(h, r, b)' = Polc(h, r, b)
      BY <1>2 DEF Polc, Signers
    <2>2. \A h, r, b : NeverCommits(h, r, b)' = NeverCommits(h, r, b)
      BY <1>2 DEF NeverCommits, IsPast
    <2>3. TypeOK' /\ OneVotePerSlot'
      BY <1>2 DEF IInv, TypeOK, OneVotePerSlot
    <2>4. PrecommitHasPolc'
      BY <1>2, <2>1 DEF IInv, PrecommitHasPolc
    <2>5. LockRespected'
      BY <1>2, <2>1 DEF IInv, LockRespected
    <2>6. PolcExcludes'
      BY <1>2, <2>1, <2>2 DEF IInv, PolcExcludes
    <2> QED BY <2>3, <2>4, <2>5, <2>6 DEF IInv
  <1> QED BY <1>1, <1>2

\* Every reachable state satisfies the inductive invariant.
THEOREM VotingInvariant == ASSUME FewFaulty PROVE Spec => []IInv
  <1>1. Init => IInv
    BY InitIInv
  <1>2. IInv /\ [Next]_votes => IInv'
    BY NextIInv
  <1> QED BY <1>1, <1>2, PTL DEF Spec

\* TypeOK: the durable votes of honest validators are well-formed votes.
THEOREM VotingTypeCorrect == ASSUME FewFaulty PROVE Spec => []TypeOK
  <1>1. IInv => TypeOK
    BY DEF IInv
  <1> QED BY <1>1, VotingInvariant, PTL

\* A proof-of-lock excludes every other block in all earlier rounds.
THEOREM VotingPolcExcludes == ASSUME FewFaulty PROVE Spec => []PolcExcludes
  <1>1. IInv => PolcExcludes
    BY DEF IInv
  <1> QED BY <1>1, VotingInvariant, PTL

-------------------------------------------------------------------------------
(* Agreement and the abstract promise *)

\* A certificate's round has a proof-of-lock for its block.
LEMMA CommittedHasPolc ==
    ASSUME FewFaulty, IInv, NEW h \in Heights, NEW r \in Rounds, NEW b \in Blocks, Committed(h, r, b)
    PROVE  Polc(h, r, b)
  <1>1. PICK v \in Honest : v \in Signers("precommit", h, r, b)
    BY QuorumIntersection, SignersAreValidators DEF Committed
  <1>2. Vote("precommit", h, r, v, b) \in votes
    BY <1>1 DEF Signers, Honest
  <1> QED BY <1>2, VoteFields, NilAssumption DEF IInv, PrecommitHasPolc

\* A block that NeverCommits in a round has no certificate of that round.
LEMMA NeverCommitsExcludes ==
    ASSUME FewFaulty, NEW h \in Heights, NEW r \in Rounds, NEW b \in Blocks,
           Committed(h, r, b), NeverCommits(h, r, b)
    PROVE  FALSE
  <1> DEFINE G == Faulty \cup {w \in Honest : IsPast(w, h, r)
                                  /\ Vote("precommit", h, r, w, b) \notin votes}
  <1>1. G \in SUBSET Validators /\ IsQuorum(G)
    BY FaultyAssumption DEF NeverCommits, Honest, Validators
  <1>2. PICK v \in Honest : v \in G /\ v \in Signers("precommit", h, r, b)
    <2> HIDE DEF G
    <2> QED BY <1>1, QuorumIntersection, SignersAreValidators DEF Committed
  <1> QED BY <1>2 DEF Signers, Honest

\* The inductive invariant implies Agreement.
LEMMA IInvAgreement == ASSUME FewFaulty, IInv PROVE Agreement
  <1> SUFFICES ASSUME NEW h \in Heights,
                      NEW r1 \in Rounds, NEW b1 \in Blocks, Committed(h, r1, b1),
                      NEW r2 \in Rounds, NEW b2 \in Blocks, Committed(h, r2, b2),
                      b1 # b2
               PROVE  FALSE
    BY DEF Agreement, Decided
  <1>1. Polc(h, r1, b1) /\ Polc(h, r2, b2)
    BY CommittedHasPolc
  <1>2. CASE r1 < r2
    BY <1>1, <1>2, NeverCommitsExcludes DEF IInv, PolcExcludes
  <1>3. CASE r2 < r1
    BY <1>1, <1>3, NeverCommitsExcludes DEF IInv, PolcExcludes
  <1>4. CASE r1 = r2
    <2>1. PICK v \in Honest : /\ v \in Signers("precommit", h, r1, b1)
                              /\ v \in Signers("precommit", h, r1, b2)
      BY <1>4, QuorumIntersection, SignersAreValidators DEF Committed
    <2>2. /\ Vote("precommit", h, r1, v, b1) \in votes
          /\ Vote("precommit", h, r1, v, b2) \in votes
      BY <2>1 DEF Signers, Honest
    <2>3. Vote("precommit", h, r1, v, b1) = Vote("precommit", h, r1, v, b2)
      BY <2>2, VoteFields DEF IInv, OneVotePerSlot
    <2> QED BY <2>3, VoteFields
  <1> QED BY <1>2, <1>3, <1>4 DEF Rounds

\* Agreement: no two certificates of a height carry different blocks, for any
\* number of validators of which fewer than a third are faulty.
THEOREM VotingAgreement == ASSUME FewFaulty PROVE Spec => []Agreement
  <1>1. IInv => Agreement
    BY IInvAgreement
  <1> QED BY <1>1, VotingInvariant, PTL

\* The voting rules implement module Finality: certificates for at most one
\* block ever come to exist, and none disappears.
THEOREM VotingImplementsFinality == ASSUME FewFaulty PROVE Spec => ImplementsFinality
  <1> DEFINE decided == [h \in Heights |-> Decided(h)]
  <1>1. Init => F!Init
    <2> SUFFICES ASSUME Init, NEW h \in Heights, NEW r \in Rounds, NEW b \in Blocks,
                        Committed(h, r, b)
                 PROVE  FALSE
      BY DEF F!Init, Decided
    <2>1. PICK v \in Honest : v \in Signers("precommit", h, r, b)
      BY QuorumIntersection, SignersAreValidators DEF Committed
    <2> QED BY <2>1 DEF Init, Signers, Honest
  <1>2. IInv /\ IInv' /\ [Next]_votes => [F!Next]_decided
    <2> SUFFICES ASSUME IInv, IInv', [Next]_votes, decided' # decided
                 PROVE  \E h \in Heights, b \in Blocks :
                            Decided(h) = {} /\ decided' = [decided EXCEPT ![h] = {b}]
      BY DEF F!Next, F!Decide
    <2>1. CASE UNCHANGED votes
      BY <2>1 DEF Decided, Committed, Signers
    <2>2. CASE Next
      <3>1. PICK k \in Kinds, h \in Heights, r \in Rounds, v \in Honest,
                 x \in Blocks \cup {Nil} : Step(k, h, r, v, x)
        BY <2>2, NextIsStep
      <3>2. votes' = votes \cup {Vote(k, h, r, v, x)} /\ votes \subseteq votes'
        BY <3>1 DEF Step, Cast
      <3>3. ASSUME NEW g \in Heights, g # h PROVE Decided(g)' = Decided(g)
        <4>1. \A r1, w, b : Vote("precommit", g, r1, w, b) # Vote(k, h, r, v, x)
          BY <3>3, VoteFields
        <4> QED BY <3>2, <4>1 DEF Decided, Committed, Signers
      <3>4. Decided(h) \subseteq Decided(h)'
        BY <3>2, CommittedStable DEF Decided
      <3>5. Decided(h)' # Decided(h)
        BY <3>3
      <3>6. PICK b \in Decided(h)' : b \notin Decided(h)
        BY <3>4, <3>5
      <3>7. b \in Blocks
        BY <3>6 DEF Decided
      <3>8. Agreement'
        <4>1. ASSUME FewFaulty, IInv PROVE Agreement
          BY IInvAgreement
        <4> QED BY <4>1, IInvAgreement, PTL
      <3>9. Decided(h)' = {b}
        BY <3>6, <3>8 DEF Agreement
      <3>10. decided' = [decided EXCEPT ![h] = {b}]
        BY <3>3, <3>9
      <3> QED BY <3>4, <3>6, <3>7, <3>9, <3>10
    <2> QED BY <2>1, <2>2
  <1> QED BY <1>1, <1>2, VotingInvariant, PTL DEF Spec, ImplementsFinality, F!Spec
===============================================================================
