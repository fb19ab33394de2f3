------------------------------ MODULE ViewsProofs ------------------------------
(***************************************************************************)
(* Two views of a node.  What a validator shows of another one is recent,  *)
(* or of the open height, for all lengths of the two windows and any       *)
(* number of statuses under way.                                           *)
(* The explorer's history list is an unbroken piece of the history,        *)
(* for every page size, number of rows and order of overlapping requests:  *)
(* pages and the list are descending runs of rows, and putting one in      *)
(* front of another that reaches it makes a run again (RunsMerge).         *)
(***************************************************************************)
EXTENDS HistoryView, Telemetry, WellFoundedInduction, TLAPS

-------------------------------------------------------------------------------
(* Telemetry *)

Statuses == [phase : {"syncing", "current"}, age : 0 .. AcceptFor + 1]
Entries == [heard : BOOLEAN, age : 0 .. FreshFor + 1, phase : {"syncing", "current"}]

TelemetryTypes ==
    /\ holdsKey \in BOOLEAN
    /\ air \subseteq Statuses
    /\ entry \in Entries
    /\ silence \in 0 .. AcceptFor + FreshFor + 1
    /\ closed \in 0 .. FreshFor + 1

\* A status that can still be accepted was signed that long ago.
AirIsRecent == \A s \in air : s.age <= AcceptFor => silence <= s.age

\* As long as a height it has signed for is open, none has closed.
OpenIsNow == SignedForOpen => closed = 0

\* What was heard that long ago was a status not older than AcceptFor, or of a
\* height that was open.
EntryIsRecent ==
    entry.heard /\ entry.age <= FreshFor =>
        silence <= AcceptFor + entry.age \/ closed <= entry.age

\* A validator's snapshot is never older than the last second.
ShownIsFresh == holdsKey /\ shown # "offline" => entry.heard /\ entry.age <= FreshFor

IInv == TelemetryTypes /\ AirIsRecent /\ OpenIsNow /\ EntryIsRecent /\ ShownIsFresh

\* A second passes: everything ages together.
LEMMA SecondIInv == ASSUME IInv, Second PROVE IInv'
  <1>1. AcceptFor \in Nat /\ FreshFor \in Nat
    BY TelemetryAssumption
  <1>2. /\ holdsKey' = holdsKey /\ holdsKey \in BOOLEAN
        /\ silence' = Older(silence, AcceptFor + FreshFor + 1)
        /\ silence \in 0 .. AcceptFor + FreshFor + 1
        /\ closed \in 0 .. FreshFor + 1
    BY DEF Second, IInv, TelemetryTypes
  <1>3. silence' \in 0 .. AcceptFor + FreshFor + 1 /\ silence' <= silence + 1
    BY <1>1, <1>2 DEF Older
  <1>4. ASSUME NEW t \in air'
        PROVE  t \in Statuses /\ (t.age <= AcceptFor => silence' <= t.age)
    <2>1. PICK s \in air : t = [s EXCEPT !.age = Older(@, AcceptFor + 1)]
      BY DEF Second
    <2>2. s \in Statuses /\ (s.age <= AcceptFor => silence <= s.age)
      BY DEF IInv, TelemetryTypes, AirIsRecent
    <2>3. t.age = Older(s.age, AcceptFor + 1) /\ t.phase = s.phase
      BY <2>1, <2>2 DEF Statuses
    <2>4. t.age \in 0 .. AcceptFor + 1
      BY <1>1, <2>2, <2>3 DEF Older, Statuses
    <2>5. t.age <= AcceptFor => t.age = s.age + 1
      BY <1>1, <2>2, <2>3 DEF Older, Statuses
    <2> QED BY <1>1, <1>2, <1>3, <2>1, <2>2, <2>4, <2>5 DEF Statuses
  <1>5. closed' \in 0 .. FreshFor + 1 /\ closed' <= closed + 1
    BY <1>1, <1>2 DEF Second, Older
  <1>6. /\ entry \in Entries
        /\ entry.heard /\ entry.age <= FreshFor =>
               silence <= AcceptFor + entry.age \/ closed <= entry.age
    BY DEF IInv, TelemetryTypes, EntryIsRecent
  <1>7. entry' = [entry EXCEPT !.age = IF entry.heard THEN Older(entry.age, FreshFor + 1)
                                                      ELSE entry.age]
    BY DEF Second
  <1>8. /\ entry' \in Entries
        /\ entry'.heard = entry.heard
        /\ entry'.heard /\ entry'.age <= FreshFor => entry'.age = entry.age + 1
    BY <1>1, <1>6, <1>7 DEF Older, Entries
  <1>9. TelemetryTypes' /\ AirIsRecent'
    BY <1>2, <1>3, <1>4, <1>5, <1>8 DEF TelemetryTypes, AirIsRecent
  <1>10. OpenIsNow'
    BY DEF OpenIsNow, SignedForOpen, Second
  <1>11. EntryIsRecent'
    <2>1. entry.age \in 0 .. FreshFor + 1
      BY <1>6 DEF Entries
    <2> QED BY <1>1, <1>2, <1>3, <1>5, <1>6, <1>8, <2>1 DEF EntryIsRecent
  <1>12. ShownIsFresh'
    BY <1>2 DEF ShownIsFresh, Second, ShownAfterOwnStatus, ShownFor
  <1> QED BY <1>9, <1>10, <1>11, <1>12 DEF IInv

\* A status arrives, and is accepted or refused.
LEMMA ReceiveIInv ==
    ASSUME IInv, NEW s \in air, ReceiveStatus(s) PROVE IInv'
  <1>1. AcceptFor \in Nat /\ FreshFor \in Nat
    BY TelemetryAssumption
  <1>2. /\ air' = air \ {s} /\ holdsKey' = holdsKey /\ silence' = silence
        /\ s \in Statuses /\ (s.age <= AcceptFor => silence <= s.age)
        /\ silence \in 0 .. AcceptFor + FreshFor + 1
        /\ closed' = closed /\ height' = height /\ voted' = voted
    BY DEF ReceiveStatus, IInv, TelemetryTypes, AirIsRecent
  <1>3. OpenIsNow'
    BY <1>2 DEF IInv, OpenIsNow, SignedForOpen
  <1>4. CASE AcceptsStatus(s)
    <2>1. entry' = Heard(s.phase) /\ shown' = ShownFor(entry')
      BY <1>4 DEF ReceiveStatus
    <2>2. entry'.heard /\ entry'.age = 0 /\ entry' \in Entries
      BY <1>1, <1>2, <2>1 DEF Heard, Statuses, Entries
    <2>3. TelemetryTypes' /\ AirIsRecent'
      BY <1>2, <2>2 DEF IInv, TelemetryTypes, AirIsRecent
    <2>4. s.age \in 0 .. AcceptFor + 1
      BY <1>2 DEF Statuses
    <2>5. EntryIsRecent' /\ ShownIsFresh'
      BY <1>1, <1>2, <1>4, <2>2, <2>4 DEF EntryIsRecent, ShownIsFresh, AcceptsStatus
    <2> QED BY <1>3, <2>3, <2>5 DEF IInv
  <1>5. CASE ~AcceptsStatus(s)
    <2>1. entry' = entry /\ shown' = shown
      BY <1>5 DEF ReceiveStatus
    <2> QED BY <1>2, <1>3, <2>1
            DEF IInv, TelemetryTypes, AirIsRecent, EntryIsRecent, ShownIsFresh
  <1> QED BY <1>4, <1>5

\* What the other validator signs.
LEMMA SignsIInv ==
    ASSUME IInv, PublishStatus \/ \E h \in 1 .. MaxHeight + 1 : SignMessage(h)
    PROVE  IInv'
  <1> DEFINE new == [phase |-> IF catching THEN "syncing" ELSE "current", age |-> 0]
  <1>1. AcceptFor \in Nat /\ FreshFor \in Nat
    BY TelemetryAssumption
  <1>2. new \in Statuses
    BY <1>1 DEF Statuses
  <1>3. /\ air' = air \/ air' = air \cup {new}
        /\ silence' = 0
        /\ holdsKey' = holdsKey /\ entry' = entry /\ shown' = shown
    BY DEF PublishStatus, SignMessage
  <1> HIDE DEF new
  <1>4. closed' \in 0 .. FreshFor + 1 /\ OpenIsNow'
    <2>1. CASE PublishStatus
      BY <2>1 DEF PublishStatus, IInv, TelemetryTypes, OpenIsNow, SignedForOpen
    <2>2. CASE \E h \in 1 .. MaxHeight + 1 : SignMessage(h)
      BY <1>1, <2>2 DEF SignMessage, Reopened, IInv, TelemetryTypes, OpenIsNow
    <2> QED BY <2>1, <2>2
  <1>5. TelemetryTypes'
    BY <1>1, <1>2, <1>3, <1>4 DEF IInv, TelemetryTypes
  <1>6. AirIsRecent'
    BY <1>3, <1>5 DEF TelemetryTypes, AirIsRecent, Statuses
  <1>7. EntryIsRecent' /\ ShownIsFresh'
    BY <1>1, <1>3, <1>5 DEF IInv, TelemetryTypes, EntryIsRecent, ShownIsFresh, Entries
  <1> QED BY <1>4, <1>5, <1>6, <1>7 DEF IInv

\* A message is heard, or a block committed: who is noted has signed for the
\* height that is open.
LEMMA HeardIInv ==
    ASSUME IInv, Hear \/ \E signs \in BOOLEAN : CommitBlock(signs)
    PROVE  IInv'
  <1>1. AcceptFor \in Nat /\ FreshFor \in Nat
    BY TelemetryAssumption
  <1>2. /\ air' = air /\ silence' = silence /\ holdsKey' = holdsKey
        /\ closed' = IF SignedForOpen' THEN 0 ELSE closed
    BY DEF Hear, HearMessage, CommitBlock, Reopened
  <1>3. closed' \in 0 .. FreshFor + 1 /\ closed' <= closed /\ OpenIsNow'
    BY <1>1, <1>2 DEF IInv, TelemetryTypes, OpenIsNow
  <1>4. \/ SignedForOpen /\ entry' = Heard("current")
        \/ entry' = entry /\ shown' = ShownFor(entry')
    BY DEF Hear, HearMessage, CountsFor, SignedForOpen, CommitBlock, AfterCommit
  <1>5. CASE SignedForOpen /\ entry' = Heard("current")
    <2>1. entry'.heard /\ entry'.age = 0 /\ entry' \in Entries
      BY <1>1, <1>5 DEF Heard, Entries
    <2>2. closed' = 0
      BY <1>2, <1>5 DEF IInv, OpenIsNow
    <2>3. TelemetryTypes' /\ AirIsRecent'
      BY <1>2, <1>3, <2>1 DEF IInv, TelemetryTypes, AirIsRecent
    <2>4. EntryIsRecent' /\ ShownIsFresh'
      BY <1>1, <2>1, <2>2 DEF EntryIsRecent, ShownIsFresh
    <2> QED BY <1>3, <2>3, <2>4 DEF IInv
  <1>6. CASE entry' = entry /\ shown' = ShownFor(entry')
    <2>1. TelemetryTypes' /\ AirIsRecent'
      BY <1>2, <1>3, <1>6 DEF IInv, TelemetryTypes, AirIsRecent
    <2>2. EntryIsRecent'
      BY <1>1, <1>2, <1>3, <1>6 DEF IInv, TelemetryTypes, EntryIsRecent, Entries
    <2>3. ShownIsFresh'
      BY <1>6 DEF ShownIsFresh, ShownFor
    <2> QED BY <1>3, <2>1, <2>2, <2>3 DEF IInv
  <1> QED BY <1>4, <1>5, <1>6

\* Steps that bring no sign of life.
LEMMA OthersIInv ==
    ASSUME IInv, \/ StopOrReturn \/ BeginOrEndSync
                 \/ PublishSnapshot \/ UNCHANGED telemetryVars
                 \/ \E s \in air : LoseStatus(s)
    PROVE  IInv'
  <1>1. /\ holdsKey' = holdsKey /\ entry' = entry /\ silence' = silence
        /\ closed' = closed /\ height' = height /\ voted' = voted /\ air' \subseteq air
    BY DEF StopOrReturn, BeginOrEndSync, PublishSnapshot, telemetryVars, LoseStatus
  <1>2. TelemetryTypes' /\ AirIsRecent' /\ EntryIsRecent'
    BY <1>1 DEF IInv, TelemetryTypes, AirIsRecent, EntryIsRecent
  <1>3. OpenIsNow'
    BY <1>1 DEF IInv, OpenIsNow, SignedForOpen
  <1>4. shown' = shown \/ shown' = ShownFor(entry)
    BY DEF StopOrReturn, BeginOrEndSync, PublishSnapshot, telemetryVars, LoseStatus
  <1>5. ShownIsFresh'
    BY <1>1, <1>4 DEF IInv, ShownIsFresh, ShownFor
  <1> QED BY <1>2, <1>3, <1>5 DEF IInv

\* ShownMeansRecent: a validator shows another one as running only if that one
\* signed something within the two windows together, or signed for a height that
\* is open here or was a moment ago, whatever is delayed, repeated or overtaken.
THEOREM TelemetryShownMeansRecent == TelemetrySpec => []ShownMeansRecent
  <1>1. TelemetryInit => IInv
    BY TelemetryAssumption
       DEF TelemetryInit, Never, IInv, TelemetryTypes, AirIsRecent, OpenIsNow, SignedForOpen,
           EntryIsRecent, ShownIsFresh, Entries
  <1>2. IInv /\ [TelemetryNext]_telemetryVars => IInv'
    BY SecondIInv, ReceiveIInv, SignsIInv, HeardIInv, OthersIInv DEF TelemetryNext
  <1>3. IInv => ShownMeansRecent
    BY TelemetryAssumption
       DEF IInv, TelemetryTypes, EntryIsRecent, ShownIsFresh, ShownMeansRecent, Entries
  <1> QED BY <1>1, <1>2, <1>3, PTL DEF TelemetrySpec

-------------------------------------------------------------------------------
(* Leaving out what is held *)

\* What holds of 0, and of m + 1 if of m, holds up to n.
LEMMA IntervalInduction ==
    ASSUME NEW n \in Nat, NEW T, 0 \in T, \A m \in 0 .. n : m < n /\ m \in T => m + 1 \in T
    PROVE  \A m \in 0 .. n : m \in T
  <1> DEFINE R == {m \in 0 .. n : m \notin T}
  <1>1. SUFFICES ASSUME R # {} PROVE FALSE
    OBVIOUS
  <1>2. R \in SUBSET Nat
    OBVIOUS
  <1> HIDE DEF R
  <1>3. PICK u \in R : \A w \in R : ~(<<w, u>> \in OpToRel(<, Nat))
    BY <1>1, <1>2, NatLessThanWellFounded, WFMin, Zenon
  <1>4. \A w \in R : ~(w < u)
    BY <1>2, <1>3 DEF OpToRel
  <1>5. u \in 0 .. n /\ u \notin T
    BY DEF R
  <1>6. u # 0 /\ u - 1 \in 0 .. n /\ u - 1 < u /\ (u - 1) + 1 = u
    BY <1>5
  <1>7. u - 1 \in T
    BY <1>4, <1>6 DEF R
  <1> QED BY <1>5, <1>6, <1>7

\* One item more: kept unless it is shown.
Kept(kept, item, held) == IF item \in ToSet(held) THEN kept ELSE Append(kept, item)

IsKept(f, n, items, held) ==
    f = [i \in 0 .. n |-> IF i = 0 THEN <<>> ELSE Kept(f[i - 1], items[i], held)]

\* Without is the last value of the recursive function it defines.
LEMMA WithoutDef ==
    ASSUME NEW items, Len(items) \in Nat, NEW held
    PROVE  \E f : IsKept(f, Len(items), items, held) /\ Without(items, held) = f[Len(items)]
  <1> DEFINE n == Len(items)
             T == {m \in 0 .. n : \E f : IsKept(f, m, items, held)}
  <1>1. 0 \in T
    <2> DEFINE f == [i \in 0 .. 0 |-> <<>>]
    <2>1. IsKept(f, 0, items, held) /\ 0 \in 0 .. n
      BY DEF IsKept
    <2> HIDE DEF f
    <2> QED BY <2>1
  <1>2. ASSUME NEW m \in 0 .. n, m < n, m \in T PROVE m + 1 \in T
    <2>1. PICK f : IsKept(f, m, items, held)
      BY <1>2
    <2> DEFINE g == [i \in 0 .. m + 1 |->
                        IF i = m + 1 THEN Kept(f[m], items[i], held) ELSE f[i]]
    <2>2. ASSUME NEW i \in 0 .. m + 1
          PROVE  g[i] = IF i = 0 THEN <<>> ELSE Kept(g[i - 1], items[i], held)
      <3>1. CASE i = m + 1
        <4>1. i # 0 /\ i - 1 = m /\ m \in 0 .. m + 1 /\ m # m + 1
          BY <3>1
        <4> QED BY <3>1, <4>1
      <3>2. CASE i # m + 1
        <4>1. i \in 0 .. m /\ g[i] = f[i]
          BY <3>2
        <4>2. f[i] = IF i = 0 THEN <<>> ELSE Kept(f[i - 1], items[i], held)
          BY <4>1, <2>1 DEF IsKept
        <4>3. i # 0 => i - 1 \in 0 .. m + 1 /\ i - 1 # m + 1
          BY <4>1
        <4> QED BY <4>1, <4>2, <4>3
      <3> QED BY <3>1, <3>2
    <2>3. IsKept(g, m + 1, items, held)
      BY <2>2 DEF IsKept
    <2>4. m + 1 \in 0 .. n
      BY <1>2
    <2> HIDE DEF g
    <2> QED BY <2>3, <2>4
  <1>3. n \in T
    <2> HIDE DEF T
    <2>1. \A m \in 0 .. n : m < n /\ m \in T => m + 1 \in T
      BY <1>2
    <2>2. \A m \in 0 .. n : m \in T
      BY <1>1, <2>1, IntervalInduction
    <2> QED BY <2>2
  <1>4. \E f : IsKept(f, n, items, held)
    BY <1>3
  <1>5. Without(items, held) = (CHOOSE f : IsKept(f, n, items, held))[n]
    BY DEF Without, IsKept, Kept
  <1>6. IsKept(CHOOSE f : IsKept(f, n, items, held), n, items, held)
    BY <1>4, Zenon
  <1> QED BY <1>5, <1>6

\* What is left of items without repetition has none, and is not shown.
Remains(kept, items, m, held) ==
    /\ kept \in Seq(Nat) /\ IsInjective(kept)
    /\ \A i \in 1 .. Len(kept) : kept[i] \notin ToSet(held) /\ \E j \in 1 .. m : kept[i] = items[j]

\* Without keeps, in order, what is not held.
LEMMA WithoutRemains ==
    ASSUME NEW items \in Seq(Nat), IsInjective(items), NEW held
    PROVE  Remains(Without(items, held), items, Len(items), held)
  <1> DEFINE n == Len(items)
  <1>1. n \in Nat /\ \A i \in 1 .. n : items[i] \in Nat
    OBVIOUS
  <1>2. \A i, j \in 1 .. n : items[i] = items[j] => i = j
    BY DEF IsInjective
  <1>3. PICK f : IsKept(f, n, items, held) /\ Without(items, held) = f[n]
    BY <1>1, WithoutDef
  <1> HIDE DEF n
  <1>4. f[0] = <<>> /\ \A i \in 1 .. n : f[i] = Kept(f[i - 1], items[i], held)
    BY <1>1, <1>3 DEF IsKept
  <1> DEFINE T == {m \in 0 .. n : Remains(f[m], items, m, held)}
  <1>5. 0 \in T
    <2>1. Remains(<<>>, items, 0, held)
      BY DEF Remains, IsInjective
    <2> QED BY <1>1, <1>4, <2>1
  <1>6. ASSUME NEW m \in 0 .. n, m < n, m \in T PROVE m + 1 \in T
    <2> DEFINE k == f[m]
               x == items[m + 1]
    <2>1. m + 1 \in 0 .. n /\ m + 1 \in 1 .. n /\ (m + 1) - 1 = m
      BY <1>1, <1>6
    <2>2. f[m + 1] = Kept(k, x, held) /\ Remains(k, items, m, held) /\ x \in Nat
      BY <1>1, <1>4, <1>6, <2>1
    <2>3. \A j \in 1 .. m : items[j] # x /\ j \in 1 .. m + 1
      BY <1>1, <1>2, <2>1
    <2>4. CASE x \in ToSet(held)
      <3>1. f[m + 1] = k
        BY <2>2, <2>4 DEF Kept
      <3> HIDE DEF k, x
      <3>2. Remains(k, items, m + 1, held)
        BY <2>2, <2>3 DEF Remains
      <3> QED BY <2>1, <3>1, <3>2
    <2>5. CASE x \notin ToSet(held)
      <3> DEFINE e == Append(k, x)
      <3>1. f[m + 1] = e
        BY <2>2, <2>5 DEF Kept
      <3>2. x = items[m + 1] /\ m + 1 \in 1 .. m + 1
        BY <2>1
      <3> HIDE DEF k, x
      <3>3. k \in Seq(Nat) /\ IsInjective(k) /\ DOMAIN k = 1 .. Len(k) /\ Len(k) \in Nat
        BY <2>2 DEF Remains
      <3>4. /\ e \in Seq(Nat) /\ Len(e) = Len(k) + 1 /\ e[Len(k) + 1] = x
            /\ DOMAIN e = 1 .. Len(k) + 1
            /\ \A i \in 1 .. Len(k) : e[i] = k[i]
        BY <2>2, <3>3
      <3> HIDE DEF e
      <3>5. \A i \in 1 .. Len(k) : k[i] # x
        BY <2>2, <2>3 DEF Remains
      <3>6. \A i \in 1 .. Len(e) : i \in 1 .. Len(k) \/ i = Len(k) + 1
        BY <3>3, <3>4
      <3>7. IsInjective(e)
        BY <3>3, <3>4, <3>5, <3>6 DEF IsInjective
      <3>8. \A i \in 1 .. Len(e) : e[i] \notin ToSet(held) /\ \E j \in 1 .. m + 1 : e[i] = items[j]
        BY <2>2, <2>3, <2>5, <3>2, <3>4, <3>6 DEF Remains
      <3>9. Remains(e, items, m + 1, held)
        BY <3>4, <3>7, <3>8 DEF Remains
      <3> QED BY <2>1, <3>1, <3>9
    <2> QED BY <2>4, <2>5
  <1>7. n \in T
    <2> HIDE DEF T
    <2>1. \A m \in 0 .. n : m < n /\ m \in T => m + 1 \in T
      BY <1>6
    <2>2. \A m \in 0 .. n : m \in T
      BY <1>1, <1>5, <2>1, IntervalInduction
    <2> QED BY <1>1, <2>2
  <1> QED BY <1>3, <1>7 DEF n

\* Exactly the first k items are shown, and rest is what follows them.
FirstShown(items, held, k) ==
    /\ \A i \in 1 .. k : items[i] \in ToSet(held)
    /\ \A i \in k + 1 .. Len(items) : items[i] \notin ToSet(held)

IsRest(rest, items, k) ==
    /\ rest \in Seq(Nat) /\ Len(rest) = Len(items) - k
    /\ \A i \in 1 .. Len(items) - k : rest[i] = items[k + i]

\* If what is held is a prefix, Without keeps the rest.
LEMMA WithoutPrefix ==
    ASSUME NEW items \in Seq(Nat), NEW held, NEW k \in 0 .. Len(items),
           FirstShown(items, held, k)
    PROVE  IsRest(Without(items, held), items, k)
  <1> DEFINE n == Len(items)
             Rest(w, m) == /\ w \in Seq(Nat)
                           /\ m <= k => w = <<>>
                           /\ m > k => /\ Len(w) = m - k
                                       /\ \A i \in 1 .. m - k : w[i] = items[k + i]
  <1>1. n \in Nat /\ k \in 0 .. n /\ \A i \in 1 .. n : items[i] \in Nat
    OBVIOUS
  <1>2. PICK f : IsKept(f, n, items, held) /\ Without(items, held) = f[n]
    BY <1>1, WithoutDef
  <1>3. /\ \A i \in 1 .. k : items[i] \in ToSet(held)
        /\ \A i \in k + 1 .. n : items[i] \notin ToSet(held)
    BY DEF FirstShown
  <1> HIDE DEF n
  <1>4. f[0] = <<>> /\ \A i \in 1 .. n : f[i] = Kept(f[i - 1], items[i], held)
    BY <1>1, <1>2 DEF IsKept
  <1> DEFINE T == {m \in 0 .. n : Rest(f[m], m)}
  <1>5. 0 \in T
    <2>1. Rest(<<>>, 0) /\ 0 \in 0 .. n
      BY <1>1
    <2> HIDE DEF Rest
    <2> QED BY <1>4, <2>1
  <1>6. ASSUME NEW m \in 0 .. n, m < n, m \in T PROVE m + 1 \in T
    <2> DEFINE w == f[m]
               x == items[m + 1]
    <2> HIDE DEF T
    <2>1. m + 1 \in 0 .. n /\ m + 1 \in 1 .. n /\ (m + 1) - 1 = m
      BY <1>1, <1>6
    <2>2. f[m + 1] = Kept(w, x, held) /\ x \in Nat
      BY <1>1, <1>4, <2>1
    <2>3. Rest(w, m)
      BY <1>6, Zenon DEF T
    <2>4. w \in Seq(Nat)
      BY <2>3
    <2>5. CASE m + 1 <= k
      <3>1. x \in ToSet(held)
        BY <1>1, <1>3, <2>1, <2>5
      <3>2. f[m + 1] = w
        BY <2>2, <3>1 DEF Kept
      <3> HIDE DEF w
      <3>3. Rest(w, m + 1)
        BY <1>1, <2>1, <2>3, <2>5
      <3> HIDE DEF Rest
      <3> QED BY <2>1, <3>2, <3>3 DEF T
    <2>6. CASE m + 1 > k
      <3> DEFINE e == Append(w, x)
      <3>1. m + 1 \in k + 1 .. n
        BY <1>1, <2>1, <2>6
      <3>2. x \notin ToSet(held)
        BY <1>3, <3>1
      <3>3. f[m + 1] = e
        BY <2>2, <3>2 DEF Kept
      <3>4. x = items[m + 1]
        OBVIOUS
      <3> HIDE DEF w, x
      <3>5. Len(w) = m - k /\ w \in Seq(Nat) /\ \A i \in 1 .. m - k : w[i] = items[k + i]
        <4>1. CASE m = k
          <5>1. w = <<>> /\ Len(w) = 0 /\ m - k = 0 /\ 1 .. 0 = {}
            BY <1>1, <2>3, <4>1
          <5> QED BY <2>3, <5>1
        <4>2. CASE m > k
          BY <2>3, <4>2
        <4> QED BY <1>1, <2>1, <2>6, <4>1, <4>2
      <3>6. /\ e \in Seq(Nat) /\ Len(e) = (m - k) + 1 /\ e[(m - k) + 1] = x
            /\ \A i \in 1 .. m - k : e[i] = w[i]
        <4>1. w \in Seq(Nat) /\ x \in Nat
          BY <2>2, <2>4
        <4>2. /\ e \in Seq(Nat) /\ Len(e) = Len(w) + 1 /\ e[Len(w) + 1] = x
              /\ \A i \in 1 .. Len(w) : e[i] = w[i]
          BY <4>1
        <4> QED BY <3>5, <4>2
      <3> HIDE DEF e
      <3>7. (m + 1) - k = (m - k) + 1 /\ k + ((m - k) + 1) = m + 1 /\ m - k \in Nat
        BY <1>1, <2>1, <2>6
      <3>8. \A i \in 1 .. (m + 1) - k : i \in 1 .. m - k \/ i = (m - k) + 1
        BY <3>7
      <3>9. \A i \in 1 .. (m + 1) - k : e[i] = items[k + i]
        BY <3>4, <3>5, <3>6, <3>7, <3>8
      <3>10. Rest(e, m + 1)
        BY <1>1, <2>1, <2>6, <3>6, <3>7, <3>9
      <3> HIDE DEF Rest
      <3> QED BY <2>1, <3>3, <3>10 DEF T
    <2> QED BY <1>1, <2>1, <2>5, <2>6
  <1>7. n \in T
    <2> HIDE DEF T
    <2>1. \A m \in 0 .. n : m < n /\ m \in T => m + 1 \in T
      BY <1>6
    <2>2. \A m \in 0 .. n : m \in T
      BY <1>1, <1>5, <2>1, IntervalInduction
    <2> QED BY <1>1, <2>2
  <1>8. Rest(f[n], n)
    BY <1>7
  <1>9. CASE n = k
    <2>1. f[n] = <<>> /\ Len(f[n]) = 0 /\ n - k = 0 /\ 1 .. 0 = {}
      BY <1>1, <1>8, <1>9
    <2> QED BY <1>2, <1>8, <2>1 DEF n, IsRest
  <1>10. CASE n > k
    BY <1>2, <1>8, <1>10 DEF n, IsRest
  <1> QED BY <1>1, <1>9, <1>10

-------------------------------------------------------------------------------
(* Runs of the history *)

\* The rows from the top-th downwards, without a hole.
IsRun(s, top) == /\ s \in Seq(Nat) /\ Len(s) <= top
                 /\ \A i \in 1 .. Len(s) : s[i] = top - i + 1

\* A run shows no row twice.
LEMMA RunIsInjective ==
    ASSUME NEW top \in Nat, NEW s, IsRun(s, top)
    PROVE  IsInjective(s)
  <1>1. s \in Seq(Nat) /\ Len(s) \in Nat /\ DOMAIN s = 1 .. Len(s)
    BY DEF IsRun
  <1>2. ASSUME NEW i \in 1 .. Len(s), NEW j \in 1 .. Len(s), s[i] = s[j] PROVE i = j
    <2>1. top - i + 1 = top - j + 1
      BY <1>2 DEF IsRun
    <2> QED BY <1>1, <2>1
  <1> QED BY <1>1, <1>2 DEF IsInjective

\* The rows of a run are those above what it leaves out.
LEMMA RunRows ==
    ASSUME NEW top \in Nat, NEW s, IsRun(s, top), NEW row \in 1 .. top
    PROVE  row \in ToSet(s) <=> row > top - Len(s)
  <1>1. s \in Seq(Nat) /\ Len(s) \in Nat /\ DOMAIN s = 1 .. Len(s)
    BY DEF IsRun
  <1>2. ASSUME row > top - Len(s) PROVE row \in ToSet(s)
    <2>1. (top - row) + 1 \in 1 .. Len(s) /\ s[(top - row) + 1] = row
      BY <1>1, <1>2 DEF IsRun
    <2> QED BY <1>1, <2>1 DEF ToSet
  <1>3. ASSUME row \in ToSet(s) PROVE row > top - Len(s)
    <2>1. PICK i \in 1 .. Len(s) : s[i] = row
      BY <1>1, <1>3 DEF ToSet
    <2> QED BY <1>1, <2>1 DEF IsRun
  <1> QED BY <1>2, <1>3

\* Two lists of rows, one after the other.
LEMMA Concatenation ==
    ASSUME NEW s \in Seq(Nat), NEW r \in Seq(Nat)
    PROVE  s \o r \in Seq(Nat) /\ Len(s \o r) = Len(s) + Len(r)
  OBVIOUS

\* Two runs that overlap or touch make one run.
LEMMA RunsMerge ==
    ASSUME NEW a \in Nat, NEW b \in 0 .. a, NEW A, NEW B, IsRun(A, a), IsRun(B, b),
           a - Len(A) <= b
    PROVE  LET m == A \o Without(B, A)
           IN /\ IsRun(m, a)
              /\ Len(m) >= Len(A) /\ b - Len(B) >= a - Len(m)
              /\ a - Len(m) = a - Len(A) \/ a - Len(m) = b - Len(B)
  <1> DEFINE k == IF b - Len(B) >= a - Len(A) THEN Len(B) ELSE b - (a - Len(A))
             w == Without(B, A)
             m == A \o w
  <1>1. /\ A \in Seq(Nat) /\ Len(A) \in Nat /\ Len(A) <= a /\ \A i \in 1 .. Len(A) : A[i] = a - i + 1
        /\ B \in Seq(Nat) /\ Len(B) \in Nat /\ Len(B) <= b /\ \A i \in 1 .. Len(B) : B[i] = b - i + 1
    BY DEF IsRun
  <1>2. k \in 0 .. Len(B)
    BY <1>1
  <1>3. \A i \in 1 .. Len(B) : B[i] \in 1 .. a /\ (B[i] > a - Len(A) <=> i <= k)
    BY <1>1
  <1>4. \A i \in 1 .. Len(B) : B[i] \in ToSet(A) <=> i <= k
    BY <1>3, RunRows
  <1>5. /\ Len(A) + (Len(B) - k) >= Len(A)
        /\ b - Len(B) >= a - (Len(A) + (Len(B) - k))
        /\ \/ a - (Len(A) + (Len(B) - k)) = a - Len(A)
           \/ a - (Len(A) + (Len(B) - k)) = b - Len(B)
        /\ Len(A) + (Len(B) - k) <= a
        /\ Len(B) # k => k = b - (a - Len(A))
    BY <1>1
  <1> HIDE DEF k
  <1>6. FirstShown(B, A, k)
    BY <1>1, <1>2, <1>4 DEF FirstShown
  <1>7. IsRest(w, B, k)
    BY <1>1, <1>2, <1>6, WithoutPrefix
  <1> HIDE DEF w
  <1>8. /\ m \in Seq(Nat) /\ Len(m) = Len(A) + (Len(B) - k)
        /\ \A i \in 1 .. Len(A) : m[i] = A[i]
        /\ \A i \in Len(A) + 1 .. Len(A) + (Len(B) - k) : m[i] = w[i - Len(A)]
    <2>1. w \in Seq(Nat) /\ Len(w) = Len(B) - k
      BY <1>7 DEF IsRest
    <2>2. A \in Seq(Nat)
      BY <1>1
    <2>3. m \in Seq(Nat) /\ Len(m) = Len(A) + Len(w)
      BY <2>1, <2>2, Concatenation
    <2>4. /\ \A i \in 1 .. Len(A) : m[i] = A[i]
          /\ \A i \in Len(A) + 1 .. Len(A) + Len(w) : m[i] = w[i - Len(A)]
      BY <2>1, <2>2
    <2> QED BY <2>1, <2>3, <2>4
  <1> HIDE DEF m
  <1>9. ASSUME NEW i \in 1 .. Len(m) PROVE m[i] = a - i + 1
    <2>1. CASE i <= Len(A)
      BY <1>1, <1>8, <2>1
    <2>2. CASE i > Len(A)
      <3>1. i - Len(A) \in 1 .. Len(B) - k /\ i \in Len(A) + 1 .. Len(A) + (Len(B) - k)
        BY <1>1, <1>2, <1>8, <2>2
      <3>2. m[i] = B[k + (i - Len(A))]
        BY <1>7, <1>8, <3>1 DEF IsRest
      <3>3. k = b - (a - Len(A))
        BY <1>1, <1>2, <1>5, <3>1
      <3>4. b - (k + (i - Len(A))) + 1 = a - i + 1
        BY <1>1, <3>3
      <3>5. k + (i - Len(A)) \in 1 .. Len(B)
        BY <1>1, <1>2, <3>1
      <3> QED BY <1>1, <3>2, <3>4, <3>5
    <2> QED BY <1>1, <2>1, <2>2
  <1>10. IsRun(m, a)
    BY <1>1, <1>5, <1>8, <1>9 DEF IsRun
  <1> QED BY <1>5, <1>8, <1>10 DEF m, w

\* Nor does a merge repeat a row, holes or not.
LEMMA MergeIsInjective ==
    ASSUME NEW A \in Seq(Nat), NEW B \in Seq(Nat), IsInjective(A), IsInjective(B)
    PROVE  A \o Without(B, A) \in Seq(Nat) /\ IsInjective(A \o Without(B, A))
  <1> DEFINE w == Without(B, A)
             m == A \o w
  <1>1. Remains(w, B, Len(B), A)
    BY WithoutRemains
  <1> HIDE DEF w
  <1>2. /\ w \in Seq(Nat) /\ Len(w) \in Nat
        /\ \A i, j \in 1 .. Len(w) : w[i] = w[j] => i = j
        /\ \A i \in 1 .. Len(w) : w[i] \notin ToSet(A)
    BY <1>1 DEF Remains, IsInjective
  <1>3. /\ Len(A) \in Nat
        /\ \A i, j \in 1 .. Len(A) : A[i] = A[j] => i = j
        /\ \A i \in 1 .. Len(A) : A[i] \in ToSet(A)
    BY DEF IsInjective, ToSet
  <1>4. /\ m \in Seq(Nat) /\ Len(m) = Len(A) + Len(w) /\ DOMAIN m = 1 .. Len(m)
        /\ \A i \in 1 .. Len(m) :
              \/ i \in 1 .. Len(A) /\ m[i] = A[i]
              \/ i - Len(A) \in 1 .. Len(w) /\ m[i] = w[i - Len(A)]
    BY <1>2, <1>3
  <1> HIDE DEF m
  <1>5. ASSUME NEW i \in 1 .. Len(m), NEW j \in 1 .. Len(m), m[i] = m[j] PROVE i = j
    <2> DEFINE u == i - Len(A)
               v == j - Len(A)
    <2>1. \/ i \in 1 .. Len(A) /\ m[i] = A[i]
          \/ u \in 1 .. Len(w) /\ m[i] = w[u]
      BY <1>4
    <2>2. \/ j \in 1 .. Len(A) /\ m[j] = A[j]
          \/ v \in 1 .. Len(w) /\ m[j] = w[v]
      BY <1>4
    <2>3. u = v => i = j
      BY <1>3, <1>4
    <2> HIDE DEF u, v
    <2> QED BY <1>2, <1>3, <1>5, <2>1, <2>2, <2>3
  <1>6. IsInjective(m)
    BY <1>4, <1>5 DEF IsInjective
  <1> QED BY <1>4, <1>6 DEF m, w

-------------------------------------------------------------------------------
(* Pages *)

\* A page from the top-th row downwards, and the cursor of the next one.
IsPage(page, top) ==
    /\ IsRun(page.items, top)
    /\ page.items = <<>> => top = 0
    /\ page.next = IF Len(page.items) = top THEN 0 ELSE top - Len(page.items) + 1

\* The smaller of two numbers.
LEMMA MinOfTwo ==
    ASSUME NEW a \in Int, NEW b \in Int
    PROVE  Min({a, b}) = IF a <= b THEN a ELSE b
  <1> DEFINE m == IF a <= b THEN a ELSE b
             IsMin(x) == x \in {a, b} /\ \A y \in {a, b} : x <= y
  <1>1. IsMin(m)
    OBVIOUS
  <1>2. \A x : IsMin(x) => x = m
    OBVIOUS
  <1> HIDE DEF m
  <1>3. Min({a, b}) = CHOOSE x \in {a, b} : \A y \in {a, b} : x <= y
    BY Zenon DEF Min
  <1>4. Min({a, b}) = CHOOSE x : IsMin(x)
    BY <1>3
  <1> HIDE DEF IsMin
  <1>5. IsMin(CHOOSE x : IsMin(x))
    BY <1>1, Zenon
  <1> QED BY <1>2, <1>4, <1>5 DEF m

\* A page the node serves is one.
LEMMA PageBelowIsPage ==
    ASSUME NEW s \in Nat, s = stored, NEW c \in Nat
    PROVE  IsPage(PageBelow(c), IF c = 0 \/ s <= c - 1 THEN s ELSE c - 1)
  <1> DEFINE top == IF c = 0 \/ s <= c - 1 THEN s ELSE c - 1
             limit == PageLimit + 1
             length == IF limit <= top THEN limit ELSE top
             rows == [i \in 1 .. length |-> top - i + 1]
             n == IF PageLimit <= top THEN PageLimit ELSE top
             items == SubSeq(rows, 1, n)
  <1>1. top \in Nat /\ PageLimit \in Nat \ {0} /\ limit \in Nat /\ limit = PageLimit + 1 /\ n \in Nat
    BY HistoryAssumption
  <1>2. top = IF c = 0 THEN stored ELSE Min({stored, c - 1})
    BY MinOfTwo
  <1> HIDE DEF top
  <1>3. ListRows(c, PageLimit + 1) = rows
    <2>1. Min({limit, top}) = IF limit <= top THEN limit ELSE top
      BY <1>1, MinOfTwo
    <2> QED BY <1>2, <2>1 DEF ListRows
  <1>4. length \in Nat /\ length <= top /\ n <= length /\ (PageLimit <= length <=> PageLimit <= top)
    BY <1>1
  <1>5. rows \in Seq(Nat) /\ Len(rows) = length /\ \A i \in 1 .. length : rows[i] = top - i + 1
    <2>1. \A i \in 1 .. length : top - i + 1 \in Nat
      BY <1>1, <1>4
    <2> HIDE DEF length
    <2> QED BY <1>4, <2>1
  <1>6. n = IF PageLimit <= Len(rows) THEN PageLimit ELSE Len(rows)
    BY <1>1, <1>5
  <1>7. Min({PageLimit, Len(rows)}) = n
    BY <1>1, <1>4, <1>5, <1>6, MinOfTwo
  <1> HIDE DEF rows, length, n
  <1>8. PageBelow(c) = [items |-> items, next |-> IF Len(rows) > PageLimit THEN Last(items) ELSE 0]
    BY <1>3, <1>7 DEF PageBelow
  <1>9. /\ items \in Seq(Nat) /\ Len(items) = n
        /\ \A i \in 1 .. n : items[i] = rows[i]
    BY <1>1, <1>4, <1>5
  <1> HIDE DEF items
  <1>10. IsRun(items, top)
    BY <1>1, <1>4, <1>5, <1>9 DEF IsRun
  <1>11. top > 0 => n > 0
    BY <1>1 DEF n
  <1>12. (Len(rows) > PageLimit <=> n # top) /\ (n # top => n > 0)
    BY <1>1, <1>5 DEF n, length
  <1>13. n > 0 => Last(items) = top - n + 1
    BY <1>1, <1>4, <1>5, <1>9 DEF Last
  <1>14. items = <<>> => top = 0
    BY <1>1, <1>9, <1>11
  <1> DEFINE page == PageBelow(c)
  <1>15. /\ page.items = items
         /\ page.next = IF Len(items) = top THEN 0 ELSE top - Len(items) + 1
    BY <1>8, <1>9, <1>12, <1>13
  <1> HIDE DEF page
  <1>16. IsPage(page, top)
    BY <1>10, <1>14, <1>15 DEF IsPage
  <1> QED BY <1>16 DEF page, top

-------------------------------------------------------------------------------
(* The list and the requests *)

TopOf(items) == IF items = <<>> THEN 0 ELSE Head(items)

\* Rows without a hole, and a cursor that reaches what is below them.
Unbroken(items, cursor) ==
    /\ IsRun(items, TopOf(items))
    /\ TopOf(items) > Len(items) => cursor > TopOf(items) - Len(items)

RequestOK(request) ==
    /\ request = [state |-> request.state, cursor |-> request.cursor, page |-> request.page]
    /\ request.state \in {"idle", "asked", "answered"}

ListOK ==
    /\ stored \in Nat
    /\ list = [items |-> list.items, cursor |-> list.cursor,
               beyond |-> list.beyond, ready |-> list.ready]
    /\ list.items \in Seq(Nat) /\ IsInjective(list.items)
    /\ TopOf(list.items) <= stored /\ (list.items # <<>> => TopOf(list.items) > 0)
    /\ list.cursor \in 0 .. TopOf(list.items) /\ list.cursor # 1
    /\ list.beyond => list.items # <<>>
    /\ ~gap => Unbroken(list.items, list.cursor)

\* The first page is asked for while nothing is shown and nothing else asked.
FirstOK ==
    /\ RequestOK(first)
    /\ first.state # "idle" =>
        /\ ~list.ready /\ list.items = <<>> /\ list.cursor = 0 /\ first.cursor = 0
        /\ refresh.state = "idle" /\ older.state = "idle"
    /\ first.state = "answered" => \E s \in 0 .. stored : IsPage(first.page, s)

\* A refresh answered is no older than what is shown.
RefreshOK ==
    /\ RequestOK(refresh)
    /\ refresh.state # "idle" => refresh.cursor = 0
    /\ refresh.state = "answered" =>
        \E s \in TopOf(list.items) .. stored : IsPage(refresh.page, s)

\* An older page touches what is shown.
OlderOK ==
    /\ RequestOK(older)
    /\ older.state # "idle" =>
        /\ list.items # <<>>
        /\ older.cursor \in 2 .. TopOf(list.items)
        /\ ~gap => older.cursor > TopOf(list.items) - Len(list.items)
    /\ older.state = "answered" => IsPage(older.page, older.cursor - 1)

HistoryInv == ListOK /\ FirstOK /\ RefreshOK /\ OlderOK

\* The top of a list.
LEMMA Tops ==
    ASSUME NEW items \in Seq(Nat)
    PROVE  /\ Len(items) \in Nat /\ TopOf(items) \in Nat
           /\ items = <<>> => TopOf(items) = 0
           /\ items # <<>> => Len(items) > 0 /\ TopOf(items) = items[1]
  BY DEF TopOf

\* The cursor of a page of n rows from row t downwards lies above its end.
LEMMA CursorAbove ==
    ASSUME NEW n \in Nat, NEW t \in Nat, t > n,
           NEW c, c = IF n = t THEN 0 ELSE t - n + 1
    PROVE  c > t - n
  OBVIOUS

\* The list of a page.
LEMMA PageTops ==
    ASSUME NEW top \in Nat, NEW page, IsPage(page, top)
    PROVE  /\ page.items \in Seq(Nat) /\ IsInjective(page.items) /\ IsRun(page.items, top)
           /\ TopOf(page.items) = top
           /\ page.next \in 0 .. top /\ page.next # 1
           /\ page.next = IF Len(page.items) = top THEN 0 ELSE top - Len(page.items) + 1
           /\ page.items # <<>> <=> top > 0
           /\ Unbroken(page.items, page.next)
  <1>1. /\ IsRun(page.items, top) /\ page.items \in Seq(Nat) /\ Len(page.items) \in Nat
        /\ Len(page.items) <= top
        /\ page.items = <<>> => top = 0
    BY DEF IsPage, IsRun
  <1>2. page.next = IF Len(page.items) = top THEN 0 ELSE top - Len(page.items) + 1
    BY DEF IsPage
  <1>3. IsInjective(page.items)
    BY <1>1, RunIsInjective
  <1>4. page.items # <<>> => page.items[1] = top
    BY <1>1 DEF IsRun
  <1>5. TopOf(page.items) = top
    BY <1>1, <1>4, Tops
  <1>6. page.next \in 0 .. top /\ page.next # 1
    BY <1>1, <1>2, Tops
  <1>7. Unbroken(page.items, page.next)
    <2>1. IsRun(page.items, TopOf(page.items))
      BY <1>1, <1>5
    <2>2. ASSUME top > Len(page.items) PROVE page.next > top - Len(page.items)
      <3>1. Len(page.items) \in Nat
        BY <1>1, Zenon
      <3> QED BY <1>2, <2>2, <3>1, CursorAbove, Zenon
    <2> QED BY <1>5, <2>1, <2>2 DEF Unbroken
  <1>8. page.items # <<>> <=> top > 0
    BY <1>1, Tops
  <1> QED BY <1>1, <1>2, <1>3, <1>5, <1>6, <1>7, <1>8

\* The first of a list with something in front of it.
LEMMA TopOfJoined ==
    ASSUME NEW s \in Seq(Nat), NEW r \in Seq(Nat)
    PROVE  /\ s # <<>> => s \o r # <<>> /\ TopOf(s \o r) = TopOf(s)
           /\ s = <<>> => s \o r = r
  <1>1. ASSUME s # <<>> PROVE s \o r # <<>> /\ TopOf(s \o r) = TopOf(s)
    <2>1. Len(s) \in Nat /\ Len(r) \in Nat /\ 1 \in 1 .. Len(s)
      BY <1>1
    <2>2. s \o r \in Seq(Nat) /\ Len(s \o r) = Len(s) + Len(r) /\ (s \o r)[1] = s[1]
      BY <2>1
    <2>3. s \o r # <<>>
      BY <2>1, <2>2
    <2> QED BY <1>1, <2>2, <2>3, Tops
  <1>2. <<>> \o r = r
    OBVIOUS
  <1> QED BY <1>1, <1>2

\* A refresh goes in front of what is shown and closes up with it, unless more
\* than a page of rows arrived since the last one.
LEMMA RefreshJoins ==
    ASSUME NEW items \in Seq(Nat), IsInjective(items), NEW s \in Nat, TopOf(items) <= s,
           items # <<>> => TopOf(items) > 0, NEW page, IsPage(page, s)
    PROVE  LET m == page.items \o Without(items, page.items)
           IN /\ m \in Seq(Nat) /\ IsInjective(m) /\ TopOf(m) = s
              /\ m # <<>> <=> s > 0
              /\ (/\ IsRun(items, TopOf(items))
                  /\ ~(page.items # <<>> /\ Last(page.items) > TopOf(items) + 1))
                 => /\ Unbroken(m, page.next)
                    /\ s - Len(m) <= TopOf(items) - Len(items)
  <1> DEFINE A == page.items
             w == Without(items, A)
             m == A \o w
             b == TopOf(items)
  <1>1. /\ A \in Seq(Nat) /\ IsInjective(A) /\ IsRun(A, s) /\ TopOf(A) = s
        /\ page.next = IF Len(A) = s THEN 0 ELSE s - Len(A) + 1
        /\ A # <<>> <=> s > 0
    BY PageTops
  <1>2. b \in 0 .. s /\ (A = <<>> => s = 0 /\ items = <<>>)
    BY <1>1, Tops
  <1>3. m \in Seq(Nat) /\ IsInjective(m)
    BY <1>1, MergeIsInjective
  <1>4. w \in Seq(Nat) /\ \A i \in 1 .. Len(w) : \E j \in 1 .. Len(items) : w[i] = items[j]
    <2>1. Remains(w, items, Len(items), A)
      BY WithoutRemains
    <2> QED BY <2>1 DEF Remains
  <1>5. A = <<>> => m = <<>>
    <2>1. ASSUME A = <<>>, w # <<>> PROVE FALSE
      <3>1. items = <<>> /\ Len(items) = 0
        BY <1>2, <2>1
      <3>2. 1 \in 1 .. Len(w)
        BY <1>4, <2>1
      <3>3. PICK j \in 1 .. 0 : w[1] = items[j]
        BY <1>4, <3>1, <3>2
      <3> QED BY <3>3
    <2> HIDE DEF A, w
    <2>2. A = <<>> => m = w
      BY <1>1, <1>4, TopOfJoined
    <2> QED BY <2>1, <2>2
  <1> HIDE DEF A, w
  <1>6. TopOf(m) = s /\ (m # <<>> <=> s > 0)
    <2>1. CASE A # <<>>
      BY <1>1, <1>4, <2>1, TopOfJoined
    <2>2. CASE A = <<>>
      BY <1>1, <1>3, <1>5, <2>2, Tops
    <2> QED BY <2>1, <2>2
  <1>7. ASSUME IsRun(items, b), ~(A # <<>> /\ Last(A) > b + 1)
        PROVE  Unbroken(m, page.next) /\ s - Len(m) <= b - Len(items)
    <2>1. s - Len(A) <= b
      <3>1. CASE A = <<>>
        BY <1>1, <1>2, <3>1, Tops
      <3>2. CASE A # <<>>
        <4>1. Len(A) \in Nat /\ Len(A) > 0 /\ Last(A) = A[Len(A)]
          BY <1>1, <3>2 DEF Last
        <4>2. Last(A) = s - Len(A) + 1
          BY <1>1, <4>1 DEF IsRun
        <4> QED BY <1>2, <1>7, <3>2, <4>1, <4>2
      <3> QED BY <3>1, <3>2
    <2> HIDE DEF b, m
    <2>2. IsRun(m, s) /\ Len(m) >= Len(A) /\ b - Len(items) >= s - Len(m)
      BY <1>1, <1>2, <1>7, <2>1, RunsMerge DEF m, w
    <2>3. Len(m) \in Nat /\ Len(A) \in Nat /\ Len(items) \in Nat /\ Len(A) <= s
      BY <1>1, <1>3 DEF IsRun
    <2>4. s > Len(m) => page.next > s - Len(m)
      BY <1>1, <2>2, <2>3
    <2>5. Unbroken(m, page.next)
      BY <1>6, <2>2, <2>4 DEF Unbroken
    <2> QED BY <1>2, <2>2, <2>3, <2>5
  <1> HIDE DEF m, b
  <1>8. /\ m \in Seq(Nat) /\ IsInjective(m) /\ TopOf(m) = s
        /\ m # <<>> <=> s > 0
        /\ IsRun(items, b) /\ ~(A # <<>> /\ Last(A) > b + 1)
           => Unbroken(m, page.next) /\ s - Len(m) <= b - Len(items)
    BY <1>3, <1>6, <1>7
  <1> QED BY <1>8 DEF m, b, w, A

\* An older page goes behind what is shown, which its cursor reaches.
LEMMA OlderJoins ==
    ASSUME NEW items \in Seq(Nat), IsInjective(items), items # <<>>,
           NEW c \in 2 .. TopOf(items), NEW page, IsPage(page, c - 1)
    PROVE  LET m == items \o Without(page.items, items)
           IN /\ m \in Seq(Nat) /\ IsInjective(m) /\ TopOf(m) = TopOf(items)
              /\ m # <<>>
              /\ page.next \in 0 .. TopOf(items) /\ page.next # 1
              /\ (IsRun(items, TopOf(items)) /\ c > TopOf(items) - Len(items))
                 => Unbroken(m, page.next)
  <1> DEFINE A == page.items
             w == Without(A, items)
             m == items \o w
             a == TopOf(items)
             b == c - 1
  <1>1. a \in Nat /\ b \in 0 .. a /\ b \in Nat /\ c \in Nat /\ c = b + 1 /\ Len(items) \in Nat
    BY Tops
  <1>2. /\ A \in Seq(Nat) /\ IsInjective(A) /\ IsRun(A, b)
        /\ page.next \in 0 .. b /\ page.next # 1
        /\ page.next = IF Len(A) = b THEN 0 ELSE b - Len(A) + 1
    <2> HIDE DEF b
    <2>1. IsPage(page, b)
      BY DEF b
    <2> QED BY <1>1, <2>1, PageTops
  <1>3. m \in Seq(Nat) /\ IsInjective(m)
    BY <1>2, MergeIsInjective
  <1>4. w \in Seq(Nat)
    <2>1. Remains(w, A, Len(A), items)
      BY <1>2, WithoutRemains
    <2> QED BY <2>1 DEF Remains
  <1> HIDE DEF w, A, b
  <1>5. m # <<>> /\ TopOf(m) = a
    BY <1>4, TopOfJoined
  <1>6. page.next \in 0 .. a
    BY <1>1, <1>2
  <1>7. ASSUME IsRun(items, a), c > a - Len(items) PROVE Unbroken(m, page.next)
    <2> HIDE DEF a, m
    <2>1. a - Len(items) <= b
      BY <1>1, <1>7
    <2>2. IsRun(m, a) /\ b - Len(A) >= a - Len(m)
      BY <1>1, <1>2, <1>7, <2>1, RunsMerge DEF m, w
    <2>3. Len(m) \in Nat /\ Len(A) \in Nat /\ Len(A) <= b
      BY <1>2, <1>3 DEF IsRun
    <2>4. a > Len(m) => page.next > a - Len(m)
      BY <1>1, <1>2, <2>2, <2>3
    <2> QED BY <1>5, <2>2, <2>4 DEF Unbroken
  <1> HIDE DEF m, a
  <1>8. /\ m \in Seq(Nat) /\ IsInjective(m) /\ TopOf(m) = a
        /\ m # <<>>
        /\ page.next \in 0 .. a /\ page.next # 1
        /\ IsRun(items, a) /\ c > a - Len(items) => Unbroken(m, page.next)
    BY <1>2, <1>3, <1>5, <1>6, <1>7
  <1> QED BY <1>8 DEF m, a, w, A

-------------------------------------------------------------------------------
(* The steps *)

\* The initial states satisfy HistoryInv.
LEMMA HistoryInitOK == HistoryInit => HistoryInv
  <1> SUFFICES ASSUME HistoryInit PROVE HistoryInv
    OBVIOUS
  <1>1. /\ stored = 0 /\ list = EmptyList
        /\ first = Asked(0) /\ refresh = Idle /\ older = Idle
    BY DEF HistoryInit
  <1>2. ListOK
    BY <1>1 DEF ListOK, EmptyList, TopOf, IsInjective, Unbroken, IsRun
  <1>3. FirstOK
    BY <1>1 DEF FirstOK, RequestOK, Asked, Idle, EmptyList
  <1>4. RefreshOK /\ OlderOK
    BY <1>1 DEF RefreshOK, OlderOK, RequestOK, Idle
  <1> QED BY <1>2, <1>3, <1>4 DEF HistoryInv

\* Rows that only get more leave everything in place.
LEMMA MoreRows ==
    HistoryInv /\ stored' \in Nat /\ stored <= stored' /\ UNCHANGED <<list, first, refresh, older, gap>>
    => HistoryInv'
  <1> SUFFICES ASSUME HistoryInv, stored' \in Nat, stored <= stored',
                      UNCHANGED <<list, first, refresh, older, gap>>
               PROVE  HistoryInv'
    OBVIOUS
  <1>1. stored \in Nat /\ TopOf(list.items) \in Nat
    BY Tops DEF HistoryInv, ListOK
  <1>2. ListOK'
    BY <1>1 DEF HistoryInv, ListOK
  <1>3. FirstOK'
    <2>1. \A s \in 0 .. stored : s \in 0 .. stored'
      BY <1>1
    <2> QED BY <2>1 DEF HistoryInv, FirstOK
  <1>4. RefreshOK'
    <2>1. \A s \in TopOf(list.items) .. stored : s \in TopOf(list.items) .. stored'
      BY <1>1
    <2> QED BY <2>1 DEF HistoryInv, RefreshOK
  <1>5. OlderOK'
    BY DEF HistoryInv, OlderOK
  <1> QED BY <1>2, <1>3, <1>4, <1>5 DEF HistoryInv

\* The steps of the node keep HistoryInv.
LEMMA NodeStepOK ==
    HistoryInv /\ (\/ \E n \in 1 .. MaxBatch : StoreRows(n)
                   \/ Announce \/ SendStatus \/ AdmitTransaction \/ Reconnect)
    => HistoryInv'
  <1> SUFFICES ASSUME HistoryInv,
                      \/ \E n \in 1 .. MaxBatch : StoreRows(n)
                      \/ Announce \/ SendStatus \/ AdmitTransaction \/ Reconnect
               PROVE  HistoryInv'
    OBVIOUS
  <1>1. stored \in Nat
    BY DEF HistoryInv, ListOK
  <1>2. stored' \in Nat /\ stored <= stored' /\ UNCHANGED <<list, first, refresh, older, gap>>
    <2>1. CASE \E n \in 1 .. MaxBatch : StoreRows(n)
      BY <1>1, <2>1 DEF StoreRows
    <2>2. CASE Announce
      BY <1>1, <2>2 DEF Announce
    <2>3. CASE SendStatus \/ AdmitTransaction
      BY <1>1, <2>3 DEF SendStatus, AdmitTransaction, SendWithoutRow
    <2>4. CASE Reconnect
      BY <1>1, <2>4 DEF Reconnect
    <2> QED BY <2>1, <2>2, <2>3, <2>4
  <1> QED BY <1>2, MoreRows

\* An answer keeps the request, and brings the page it asked for.
LEMMA AnsweredOK ==
    ASSUME NEW request, RequestOK(request)
    PROVE  /\ RequestOK(Answered(request))
           /\ Answered(request).state = "answered" /\ Answered(request).cursor = request.cursor
           /\ Answered(request).page = PageBelow(request.cursor)
  <1> DEFINE page == PageBelow(request.cursor)
             answer == [state |-> "answered", cursor |-> request.cursor, page |-> page]
  <1>1. Answered(request) = [request EXCEPT !.state = "answered", !.page = page]
    BY DEF Answered
  <1> HIDE DEF page
  <1>2. Answered(request) = answer
    BY <1>1 DEF RequestOK
  <1>3. RequestOK(answer)
    BY DEF RequestOK
  <1> QED BY <1>2, <1>3 DEF page

\* A request just sent, and none.
LEMMA AskedOK ==
    ASSUME NEW cursor \in Nat
    PROVE  /\ RequestOK(Asked(cursor)) /\ RequestOK(Idle)
           /\ Asked(cursor).state = "asked" /\ Asked(cursor).cursor = cursor
           /\ Idle.state = "idle"
  <1> DEFINE page == [items |-> <<>>, next |-> 0]
             question == [state |-> "asked", cursor |-> cursor, page |-> page]
  <1>1. Idle = [state |-> "idle", cursor |-> 0, page |-> page]
    BY DEF Idle
  <1> HIDE DEF page
  <1>2. Asked(cursor) = question
    <2> DEFINE asked == [Idle EXCEPT !.state = "asked"]
    <2>1. asked = [state |-> "asked", cursor |-> 0, page |-> page]
      BY <1>1
    <2> HIDE DEF asked
    <2>2. [asked EXCEPT !.cursor = cursor] = question
      BY <2>1
    <2> QED BY <2>2 DEF Asked, asked
  <1>3. RequestOK(question) /\ question.state = "asked" /\ question.cursor = cursor
    BY DEF RequestOK
  <1>4. RequestOK(Idle) /\ Idle.state = "idle"
    BY <1>1 DEF RequestOK
  <1> QED BY <1>2, <1>3, <1>4

\* ServeFirst keeps HistoryInv.
LEMMA ServeFirstOK == HistoryInv /\ ServeFirst => HistoryInv'
  <1> SUFFICES ASSUME HistoryInv, ServeFirst PROVE HistoryInv'
    OBVIOUS
  <1>1. /\ first.state = "asked" /\ first' = Answered(first) /\ first.cursor = 0
        /\ UNCHANGED <<stored, list, refresh, older, gap>> /\ RequestOK(first) /\ stored \in Nat
    BY DEF ServeFirst, HistoryInv, FirstOK, ListOK
  <1>2. IsPage(PageBelow(0), stored)
    BY <1>1, PageBelowIsPage
  <1>3. FirstOK'
    <2>1. stored \in 0 .. stored
      BY <1>1
    <2>2. /\ RequestOK(first') /\ first'.state = "answered" /\ first'.cursor = 0
          /\ first'.page = PageBelow(0)
      BY <1>1, AnsweredOK
    <2>3. /\ ~list.ready /\ list.items = <<>> /\ list.cursor = 0
          /\ refresh.state = "idle" /\ older.state = "idle"
      BY <1>1 DEF HistoryInv, FirstOK
    <2> QED BY <1>1, <1>2, <2>1, <2>2, <2>3 DEF FirstOK
  <1>4. ListOK' /\ RefreshOK' /\ OlderOK'
    BY <1>1 DEF HistoryInv, ListOK, RefreshOK, OlderOK
  <1> QED BY <1>3, <1>4 DEF HistoryInv

\* ServeRefresh keeps HistoryInv.
LEMMA ServeRefreshOK == HistoryInv /\ ServeRefresh => HistoryInv'
  <1> SUFFICES ASSUME HistoryInv, ServeRefresh PROVE HistoryInv'
    OBVIOUS
  <1>1. /\ refresh.state = "asked" /\ refresh' = Answered(refresh) /\ refresh.cursor = 0
        /\ UNCHANGED <<stored, list, first, older, gap>> /\ RequestOK(refresh) /\ stored \in Nat
        /\ TopOf(list.items) <= stored /\ list.items \in Seq(Nat)
    BY DEF ServeRefresh, HistoryInv, RefreshOK, ListOK
  <1>2. IsPage(PageBelow(0), stored)
    BY <1>1, PageBelowIsPage
  <1>3. /\ RequestOK(refresh') /\ refresh'.state = "answered" /\ refresh'.cursor = 0
        /\ refresh'.page = PageBelow(0)
    BY <1>1, AnsweredOK
  <1>4. RefreshOK'
    <2>1. stored \in TopOf(list.items) .. stored
      BY <1>1, Tops
    <2> QED BY <1>1, <1>2, <1>3, <2>1 DEF RefreshOK
  <1>5. FirstOK'
    <2>1. first.state = "idle"
      BY <1>1 DEF HistoryInv, FirstOK
    <2> QED BY <1>1, <2>1 DEF HistoryInv, FirstOK
  <1>6. ListOK' /\ OlderOK'
    BY <1>1 DEF HistoryInv, ListOK, OlderOK
  <1> QED BY <1>4, <1>5, <1>6 DEF HistoryInv

\* ServeOlder keeps HistoryInv.
LEMMA ServeOlderOK == HistoryInv /\ ServeOlder => HistoryInv'
  <1> SUFFICES ASSUME HistoryInv, ServeOlder PROVE HistoryInv'
    OBVIOUS
  <1>1. /\ older.state = "asked" /\ older' = Answered(older)
        /\ UNCHANGED <<stored, list, first, refresh, gap>> /\ RequestOK(older) /\ stored \in Nat
        /\ TopOf(list.items) <= stored /\ list.items \in Seq(Nat)
    BY DEF ServeOlder, HistoryInv, OlderOK, ListOK
  <1>2. older.cursor \in 2 .. TopOf(list.items) /\ TopOf(list.items) \in Nat
    BY <1>1, Tops DEF HistoryInv, OlderOK
  <1>3. IsPage(PageBelow(older.cursor), older.cursor - 1)
    <2>1. older.cursor \in Nat /\ older.cursor # 0
          /\ (stored <= older.cursor - 1 => stored = older.cursor - 1)
      BY <1>1, <1>2
    <2>2. IsPage(PageBelow(older.cursor),
                 IF older.cursor = 0 \/ stored <= older.cursor - 1 THEN stored ELSE older.cursor - 1)
      BY <1>1, <2>1, PageBelowIsPage
    <2> QED BY <2>1, <2>2
  <1>4. /\ RequestOK(older') /\ older'.state = "answered" /\ older'.cursor = older.cursor
        /\ older'.page = PageBelow(older.cursor)
    BY <1>1, AnsweredOK
  <1>5. OlderOK'
    BY <1>1, <1>3, <1>4 DEF HistoryInv, OlderOK
  <1>6. FirstOK'
    <2>1. first.state = "idle"
      BY <1>1 DEF HistoryInv, FirstOK
    <2> QED BY <1>1, <2>1 DEF HistoryInv, FirstOK
  <1>7. ListOK' /\ RefreshOK'
    BY <1>1 DEF HistoryInv, ListOK, RefreshOK
  <1> QED BY <1>5, <1>6, <1>7 DEF HistoryInv

\* Consume keeps HistoryInv.
LEMMA ConsumeOK == HistoryInv /\ Consume => HistoryInv'
  <1> SUFFICES ASSUME HistoryInv, Consume PROVE HistoryInv'
    OBVIOUS
  <1>1. UNCHANGED <<stored, list, first, older, gap>>
    BY DEF Consume
  <1>2. refresh' = refresh \/ (list.ready /\ refresh' = Asked(0))
    BY DEF Consume, RefreshAgain
  <1>3. ListOK' /\ OlderOK'
    BY <1>1 DEF HistoryInv, ListOK, OlderOK
  <1>4. RefreshOK'
    <2>1. CASE refresh' = refresh
      BY <1>1, <2>1 DEF HistoryInv, RefreshOK
    <2>2. CASE refresh' = Asked(0)
      BY <2>2, AskedOK DEF RefreshOK
    <2> QED BY <1>2, <2>1, <2>2
  <1>5. FirstOK'
    <2>1. CASE refresh' = refresh
      BY <1>1, <2>1 DEF HistoryInv, FirstOK
    <2>2. CASE list.ready
      <3>1. first.state = "idle"
        BY <2>2 DEF HistoryInv, FirstOK
      <3> QED BY <1>1, <3>1 DEF HistoryInv, FirstOK
    <2> QED BY <1>2, <2>1, <2>2
  <1> QED BY <1>3, <1>4, <1>5 DEF HistoryInv

\* LoadMore keeps HistoryInv.
LEMMA LoadMoreOK == HistoryInv /\ LoadMore => HistoryInv'
  <1> SUFFICES ASSUME HistoryInv, LoadMore PROVE HistoryInv'
    OBVIOUS
  <1>1. /\ list.cursor # 0 /\ older' = Asked(list.cursor)
        /\ UNCHANGED <<stored, list, first, refresh, gap>>
    BY DEF LoadMore
  <1>2. /\ list.items \in Seq(Nat) /\ list.cursor \in 0 .. TopOf(list.items) /\ list.cursor # 1
        /\ ~gap => Unbroken(list.items, list.cursor)
    BY DEF HistoryInv, ListOK
  <1>3. list.items # <<>> /\ list.cursor \in 2 .. TopOf(list.items)
    BY <1>1, <1>2, Tops
  <1>4. ~gap => list.cursor > TopOf(list.items) - Len(list.items)
    <2>1. ASSUME Unbroken(list.items, list.cursor)
          PROVE  list.cursor > TopOf(list.items) - Len(list.items)
      BY <1>2, <1>3, <2>1, Tops DEF Unbroken
    <2> QED BY <1>2, <2>1
  <1>5. OlderOK'
    BY <1>1, <1>3, <1>4, AskedOK DEF OlderOK
  <1>6. FirstOK'
    <2>1. first.state = "idle"
      BY <1>1 DEF HistoryInv, FirstOK
    <2> QED BY <1>1, <2>1 DEF HistoryInv, FirstOK
  <1>7. ListOK' /\ RefreshOK'
    BY <1>1 DEF HistoryInv, ListOK, RefreshOK
  <1> QED BY <1>5, <1>6, <1>7 DEF HistoryInv

\* RequestFails keeps HistoryInv.
LEMMA RequestFailsOK == HistoryInv /\ RequestFails => HistoryInv'
  <1> SUFFICES ASSUME HistoryInv, RequestFails PROVE HistoryInv'
    OBVIOUS
  <1>1. UNCHANGED <<stored, list, gap>>
    BY DEF RequestFails
  <1>2. /\ first' = first \/ first' = Idle
        /\ refresh' = refresh \/ refresh' = Idle
        /\ older' = older \/ older' = Idle
    BY DEF RequestFails
  <1>3. ListOK'
    BY <1>1 DEF HistoryInv, ListOK
  <1>4. FirstOK'
    BY <1>1, <1>2, AskedOK DEF HistoryInv, FirstOK
  <1>5. RefreshOK'
    BY <1>1, <1>2, AskedOK DEF HistoryInv, RefreshOK
  <1>6. OlderOK'
    BY <1>1, <1>2, AskedOK DEF HistoryInv, OlderOK
  <1> QED BY <1>3, <1>4, <1>5, <1>6 DEF HistoryInv

\* Reset keeps HistoryInv.
LEMMA ResetOK == HistoryInv /\ Reset => HistoryInv'
  <1> SUFFICES ASSUME HistoryInv, Reset PROVE HistoryInv'
    OBVIOUS
  <1>1. /\ list' = EmptyList /\ stored' = stored
        /\ first' = Asked(0) /\ refresh' = Idle /\ older' = Idle
    BY DEF Reset, OlderForgotten
  <1>2. stored \in Nat
    BY DEF HistoryInv, ListOK
  <1>3. ListOK'
    BY <1>1, <1>2 DEF ListOK, EmptyList, TopOf, IsInjective, Unbroken, IsRun
  <1>4. FirstOK'
    <2>1. ~list'.ready /\ list'.items = <<>> /\ list'.cursor = 0
      BY <1>1 DEF EmptyList
    <2> QED BY <1>1, <2>1, AskedOK DEF FirstOK
  <1>5. RefreshOK' /\ OlderOK'
    BY <1>1, AskedOK DEF RefreshOK, OlderOK
  <1> QED BY <1>3, <1>4, <1>5 DEF HistoryInv

\* ShowFirst keeps HistoryInv.
LEMMA ShowFirstOK == HistoryInv /\ ShowFirst => HistoryInv'
  <1> SUFFICES ASSUME HistoryInv, ShowFirst PROVE HistoryInv'
    OBVIOUS
  <1> DEFINE page == first.page
  <1>1. /\ first.state = "answered" /\ first' = Idle
        /\ list' = [items |-> page.items, cursor |-> page.next, beyond |-> FALSE, ready |-> TRUE]
        /\ UNCHANGED <<stored, refresh, older, gap>>
    BY DEF ShowFirst
  <1>2. /\ stored \in Nat /\ refresh.state = "idle" /\ older.state = "idle"
        /\ \E s \in 0 .. stored : IsPage(page, s)
    BY <1>1 DEF HistoryInv, ListOK, FirstOK
  <1>3. PICK s \in 0 .. stored : IsPage(page, s)
    BY <1>2
  <1>4. s \in Nat /\ s <= stored
    BY <1>2
  <1>5. /\ page.items \in Seq(Nat) /\ IsInjective(page.items)
        /\ TopOf(page.items) = s /\ (page.items # <<>> => s > 0)
        /\ page.next \in 0 .. s /\ page.next # 1
        /\ Unbroken(page.items, page.next)
    BY <1>3, <1>4, PageTops
  <1> HIDE DEF page
  <1>6. ListOK'
    BY <1>1, <1>2, <1>4, <1>5 DEF ListOK
  <1>7. FirstOK'
    BY <1>1, AskedOK DEF FirstOK
  <1>8. RefreshOK' /\ OlderOK'
    BY <1>1, <1>2 DEF HistoryInv, RefreshOK, OlderOK
  <1> QED BY <1>6, <1>7, <1>8 DEF HistoryInv

\* ShowRefresh keeps HistoryInv.
LEMMA ShowRefreshOK == HistoryInv /\ ShowRefresh => HistoryInv'
  <1> SUFFICES ASSUME HistoryInv, ShowRefresh PROVE HistoryInv'
    OBVIOUS
  <1> DEFINE page == refresh.page
             items == list.items
             m == page.items \o Without(items, page.items)
  <1>1. /\ refresh.state = "answered" /\ refresh' = Idle
        /\ list' = Refreshed(list, page)
        /\ UNCHANGED <<stored, first, older>>
    BY DEF ShowRefresh
  <1>2. ~gap' => ~gap /\ ~(page.items # <<>> /\ Last(page.items) > TopOf(items) + 1)
    <2>1. Newest = TopOf(items)
      BY DEF Newest, TopOf
    <2>2. gap' = (gap \/ (page.items # <<>> /\ Last(page.items) > Newest + 1))
      BY DEF ShowRefresh
    <2> QED BY <2>1, <2>2
  <1>3. /\ stored \in Nat /\ items \in Seq(Nat) /\ IsInjective(items)
        /\ TopOf(items) <= stored /\ (items # <<>> => TopOf(items) > 0)
        /\ list.cursor \in 0 .. TopOf(items) /\ list.cursor # 1
        /\ list.beyond => items # <<>>
        /\ ~gap => Unbroken(items, list.cursor)
        /\ list = [items |-> items, cursor |-> list.cursor,
                   beyond |-> list.beyond, ready |-> list.ready]
    BY DEF HistoryInv, ListOK
  <1>4. \E s \in TopOf(items) .. stored : IsPage(page, s)
    BY <1>1 DEF HistoryInv, RefreshOK
  <1>5. PICK s \in TopOf(items) .. stored : IsPage(page, s)
    BY <1>4
  <1>6. s \in Nat /\ TopOf(items) <= s /\ s <= stored /\ TopOf(items) \in Nat
    BY <1>3, Tops
  <1>7. /\ m \in Seq(Nat) /\ IsInjective(m) /\ TopOf(m) = s
        /\ m # <<>> <=> s > 0
        /\ (/\ IsRun(items, TopOf(items))
            /\ ~(page.items # <<>> /\ Last(page.items) > TopOf(items) + 1))
           => /\ Unbroken(m, page.next)
              /\ s - Len(m) <= TopOf(items) - Len(items)
    BY <1>3, <1>5, <1>6, RefreshJoins
  <1>8. page.next \in 0 .. s /\ page.next # 1
    BY <1>5, <1>6, PageTops
  <1>9. /\ list'.items = m /\ list'.beyond = list.beyond /\ list'.ready = list.ready
        /\ list'.cursor = IF list.beyond THEN list.cursor ELSE page.next
        /\ list' = [items |-> list'.items, cursor |-> list'.cursor,
                    beyond |-> list'.beyond, ready |-> list'.ready]
    <2> DEFINE c == IF list.beyond THEN list.cursor ELSE page.next
    <2>1. list' = [list EXCEPT !.items = m, !.cursor = c]
      BY <1>1 DEF Refreshed
    <2> HIDE DEF m, c
    <2> QED BY <1>3, <2>1 DEF c
  <1> HIDE DEF m, page, items
  <1>10. items # <<>> => m # <<>>
    BY <1>3, <1>6, <1>7
  <1>11. ASSUME ~gap'
         PROVE  Unbroken(m, page.next) /\ s - Len(m) <= TopOf(items) - Len(items)
    BY <1>2, <1>3, <1>7, <1>11 DEF Unbroken
  <1>12. ASSUME ~gap', list.beyond PROVE Unbroken(m, list.cursor)
    <2>1. TopOf(items) > Len(items) => list.cursor > TopOf(items) - Len(items)
      BY <1>2, <1>3, <1>12 DEF Unbroken
    <2>2. Len(m) \in Nat /\ Len(items) \in Nat /\ TopOf(items) - Len(items) >= s - Len(m)
      BY <1>3, <1>7, <1>11, <1>12
    <2>3. s > Len(m) => list.cursor > s - Len(m)
      BY <1>3, <1>6, <2>1, <2>2
    <2> QED BY <1>7, <1>11, <1>12, <2>3 DEF Unbroken
  <1>13. list'.cursor \in 0 .. s /\ list'.cursor # 1
    BY <1>3, <1>6, <1>8, <1>9
  <1>14. ASSUME ~gap' PROVE Unbroken(m, list'.cursor)
    BY <1>9, <1>11, <1>12, <1>14
  <1>15. list'.beyond => m # <<>>
    BY <1>3, <1>9, <1>10
  <1>16. ListOK'
    <2>1. stored' \in Nat /\ TopOf(m) <= stored' /\ (m # <<>> => TopOf(m) > 0)
      BY <1>1, <1>3, <1>6, <1>7
    <2>2. list'.cursor \in 0 .. TopOf(m)
      BY <1>7, <1>13
    <2> QED BY <1>7, <1>9, <1>13, <1>14, <1>15, <2>1, <2>2 DEF ListOK
  <1>17. first.state = "idle"
    BY <1>1 DEF HistoryInv, FirstOK
  <1>18. FirstOK' /\ RefreshOK'
    BY <1>1, <1>17, AskedOK DEF HistoryInv, FirstOK, RefreshOK
  <1>19. OlderOK'
    <2>1. ASSUME older.state # "idle"
          PROVE  /\ m # <<>> /\ older.cursor \in 2 .. s
                 /\ ~gap' => older.cursor > s - Len(m)
      <3>1. items # <<>> /\ older.cursor \in 2 .. TopOf(items)
        BY <2>1 DEF HistoryInv, OlderOK, items
      <3>2. older.cursor \in 2 .. s
        BY <1>6, <3>1
      <3>3. ASSUME ~gap' PROVE older.cursor > s - Len(m)
        <4>1. older.cursor > TopOf(items) - Len(items)
          BY <1>2, <2>1, <3>3 DEF HistoryInv, OlderOK, items
        <4>2. Len(m) \in Nat /\ Len(items) \in Nat /\ TopOf(items) - Len(items) >= s - Len(m)
          BY <1>3, <1>7, <1>11, <3>3
        <4> QED BY <1>6, <3>1, <4>1, <4>2
      <3> QED BY <1>10, <3>1, <3>2, <3>3
    <2> QED BY <1>1, <1>7, <1>9, <2>1 DEF HistoryInv, OlderOK
  <1> QED BY <1>16, <1>18, <1>19 DEF HistoryInv

\* ShowOlder keeps HistoryInv.
LEMMA ShowOlderOK == HistoryInv /\ ShowOlder => HistoryInv'
  <1> SUFFICES ASSUME HistoryInv, ShowOlder PROVE HistoryInv'
    OBVIOUS
  <1> DEFINE page == older.page
             items == list.items
             m == items \o Without(page.items, items)
  <1>1. /\ older.state = "answered" /\ older' = Idle
        /\ list' = Extended(list, page)
        /\ UNCHANGED <<stored, first, refresh, gap>>
    BY DEF ShowOlder
  <1>2. /\ stored \in Nat /\ items \in Seq(Nat) /\ IsInjective(items)
        /\ TopOf(items) <= stored /\ (items # <<>> => TopOf(items) > 0)
        /\ ~gap => Unbroken(items, list.cursor)
        /\ list = [items |-> items, cursor |-> list.cursor,
                   beyond |-> list.beyond, ready |-> list.ready]
    BY DEF HistoryInv, ListOK
  <1>3. /\ items # <<>> /\ older.cursor \in 2 .. TopOf(items)
        /\ ~gap => older.cursor > TopOf(items) - Len(items)
        /\ IsPage(page, older.cursor - 1)
    BY <1>1 DEF HistoryInv, OlderOK
  <1>4. /\ m \in Seq(Nat) /\ IsInjective(m) /\ TopOf(m) = TopOf(items)
        /\ m # <<>>
        /\ page.next \in 0 .. TopOf(items) /\ page.next # 1
        /\ (IsRun(items, TopOf(items)) /\ older.cursor > TopOf(items) - Len(items))
           => Unbroken(m, page.next)
    BY <1>2, <1>3, OlderJoins
  <1>5. /\ list'.items = m /\ list'.beyond = TRUE /\ list'.cursor = page.next
        /\ list' = [items |-> list'.items, cursor |-> list'.cursor,
                    beyond |-> list'.beyond, ready |-> list'.ready]
    <2>1. list' = [list EXCEPT !.items = m, !.cursor = page.next, !.beyond = TRUE]
      BY <1>1 DEF Extended
    <2> HIDE DEF m, page
    <2> QED BY <1>2, <2>1
  <1> HIDE DEF m, page, items
  <1>6. ASSUME ~gap PROVE Unbroken(m, page.next)
    BY <1>2, <1>3, <1>4, <1>6 DEF Unbroken
  <1>7. ListOK'
    BY <1>1, <1>2, <1>3, <1>4, <1>5, <1>6 DEF ListOK
  <1>8. first.state = "idle"
    BY <1>1 DEF HistoryInv, FirstOK
  <1>9. FirstOK' /\ OlderOK'
    BY <1>1, <1>8, AskedOK DEF HistoryInv, FirstOK, OlderOK
  <1>10. RefreshOK'
    <2>1. TopOf(list'.items) = TopOf(list.items)
      BY <1>4, <1>5 DEF items
    <2> QED BY <1>1, <2>1 DEF HistoryInv, RefreshOK
  <1> QED BY <1>7, <1>9, <1>10 DEF HistoryInv

\* The history list of the explorer shows no row twice and, as long as no more
\* than a page of rows arrives between two refreshes, an unbroken piece of the
\* history whose cursor reaches what is older: every page is a run that ends
\* where the list begins or begins where the list ends.
THEOREM HistoryListIsHistory == HistorySpec => []ListIsHistory
  <1>1. HistoryInit => HistoryInv
    BY HistoryInitOK
  <1>2. HistoryInv /\ [HistoryNext]_historyVars => HistoryInv'
    <2>1. HistoryInv /\ UNCHANGED historyVars => HistoryInv'
      BY MoreRows DEF historyVars, HistoryInv, ListOK
    <2>2. HistoryInv /\ HistoryNext => HistoryInv'
      BY NodeStepOK, ServeFirstOK, ServeRefreshOK, ServeOlderOK, ConsumeOK, ShowFirstOK,
         ShowRefreshOK, LoadMoreOK, ShowOlderOK, ResetOK, RequestFailsOK
         DEF HistoryNext
    <2> QED BY <2>1, <2>2
  <1>3. HistoryInv => ListIsHistory
    <2> SUFFICES ASSUME HistoryInv PROVE ListIsHistory
      OBVIOUS
    <2> DEFINE items == list.items
    <2>1. /\ items \in Seq(Nat) /\ IsInjective(items) /\ Newest = TopOf(items)
          /\ list.cursor \in 0 .. TopOf(items)
          /\ ~gap => Unbroken(items, list.cursor)
      BY DEF HistoryInv, ListOK, Newest, TopOf
    <2>2. /\ Len(items) \in Nat /\ DOMAIN items = 1 .. Len(items) /\ TopOf(items) \in Nat
          /\ items # <<>> => Len(items) > 0
      BY <2>1, Tops
    <2> HIDE DEF items
    <2>3. ASSUME ~gap
          PROVE  /\ \A i \in DOMAIN items : items[i] = Newest - i + 1
                 /\ (items # <<>> /\ Last(items) > 1) => list.cursor >= Last(items)
      <3>1. /\ \A i \in 1 .. Len(items) : items[i] = TopOf(items) - i + 1
            /\ TopOf(items) > Len(items) => list.cursor > TopOf(items) - Len(items)
        BY <2>1, <2>3 DEF Unbroken, IsRun
      <3>2. items # <<>> => Last(items) = TopOf(items) - Len(items) + 1
        BY <2>2, <3>1 DEF Last
      <3>3. (items # <<>> /\ Last(items) > 1) => list.cursor >= Last(items)
        BY <2>1, <2>2, <3>1, <3>2
      <3> QED BY <2>1, <2>2, <3>1, <3>3
    <2> QED BY <2>1, <2>3 DEF ListIsHistory, items
  <1> QED BY <1>1, <1>2, <1>3, PTL DEF HistorySpec

===============================================================================
