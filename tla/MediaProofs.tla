---------------------------- MODULE MediaProofs ----------------------------
(***************************************************************************)
(* Theorems about Media: for every set of readers and of tracks and every  *)
(* size of the queues, nothing of a stream is lost but what is counted, a  *)
(* reader that was removed is left alone, the stream keeps the promise of  *)
(* StreamPromise, and a forwarder forwards nothing but the current stream; *)
(* and for all codecs, units, durations, steps of the clock and faults,    *)
(* the hooks of a recording tell of its files.                             *)
(***************************************************************************)
EXTENDS Media, Sequences, WellFoundedInduction, TLAPS

-----------------------------------------------------------------------------
(* The stream.                                                             *)

(* The types of the stream, with units as pairs and seen as sequences.     *)
StreamTypes ==
    /\ onDatas \in [Readers -> SUBSET Tracks]
    /\ written \in [Tracks -> Nat] /\ \A t \in Tracks : written[t] <= MaxUnits[t]
    /\ writer \in [Tracks -> SUBSET Readers] /\ inside \subseteq Tracks
    /\ readers \subseteq Readers /\ closed \subseteq Readers
    /\ buffer \in [Readers -> Seq(Tracks \X Nat)]
    /\ \A r \in Readers : Len(buffer[r]) <= WriteQueueSize
    /\ run \in [Readers -> {"none", "pulling", "calling", "failed", "terminated", "done"}]
    /\ unit \in [Readers -> Seq(Tracks \X Nat)]
    /\ owner \in [Readers -> {"out", "reading", "locking", "stopping", "gone"}]
    /\ joined \in [Readers -> [Tracks -> Nat]]
    /\ seen \in [Readers -> [Tracks -> Seq(Nat)]]
    /\ discarded \in [Readers -> SUBSET (Tracks \X Nat)]

(* Who is in the stream is known to it, and RemoveReader keeps writers out.*)
LockInv ==
    /\ \A r \in Readers :
        /\ r \in readers <=> owner[r] \in {"reading", "locking", "stopping"}
        /\ owner[r] = "stopping" => inside = {}
    /\ \A t \in Tracks : writer[t] \subseteq readers /\ (t \notin inside => writer[t] = {})

(* The goroutine of a reader is there while its owner is, and has a unit   *)
(* only in the callback.                                                   *)
RunInv ==
    \A r \in Readers :
        /\ run[r] = "calling" \/ unit[r] = <<>>
        /\ owner[r] = "out" => /\ run[r] = "none" /\ buffer[r] = <<>> /\ discarded[r] = {}
                               /\ \A t \in Tracks : seen[r][t] = <<>>
        /\ owner[r] = "gone" => run[r] = "done"

(* A unit of the track that r was to be given.                             *)
Due(r, t, n) == t \in onDatas[r] /\ joined[r][t] < n /\ n <= written[t]
(* It is from before the unit that is being written to r.                  *)
Earlier(r, t, n) == Due(r, t, n) /\ (r \in writer[t] => n < written[t])

(* It was given to r, or waits in its queue.                               *)
Given(r, t, n) == \E i \in DOMAIN seen[r][t] : seen[r][t][i] = n
Queued(r, t, n) == \E i \in DOMAIN buffer[r] : buffer[r][i] = <<t, n>>

(* A track arrives in order: first what was seen, then what is queued, then*)
(* what is being written.                                                  *)
OrderOf(r, t) ==
    /\ joined[r][t] <= written[t]
    /\ \A n \in Nat : Given(r, t, n) => Earlier(r, t, n)
    /\ \A n \in Nat : Queued(r, t, n) => Earlier(r, t, n)
    /\ \A n \in Nat : <<t, n>> \in discarded[r] => Due(r, t, n)
    /\ \A m, n \in Nat : Given(r, t, m) /\ Queued(r, t, n) => m < n
    /\ \A i, j \in DOMAIN seen[r][t] : i < j => seen[r][t][i] < seen[r][t][j]
    /\ \A i, j \in DOMAIN buffer[r] :
          i < j /\ buffer[r][i][1] = t /\ buffer[r][j][1] = t => buffer[r][i][2] < buffer[r][j][2]
    /\ r \in writer[t] => Due(r, t, written[t])

(* And nothing is missing.                                                 *)
CompleteOf(r, t) ==
    owner[r] = "reading" =>
        \A n \in Nat : Due(r, t, n) =>
            \/ Given(r, t, n) \/ Queued(r, t, n) \/ <<t, n>> \in discarded[r]
            \/ r \in writer[t] /\ n = written[t]

(* Both hold for every reader and track.                                   *)
ArriveInv == \A r \in Readers, t \in Tracks : OrderOf(r, t) /\ CompleteOf(r, t)

(* All that a stream keeps.                                                *)
StreamInv == StreamTypes /\ LockInv /\ RunInv /\ ArriveInv

-----------------------------------------------------------------------------
(* Sequences.                                                              *)

(* What Append does, index by index.                                       *)
LEMMA AppendFacts ==
    ASSUME NEW S, NEW s \in Seq(S), NEW x \in S
    PROVE  /\ Append(s, x) \in Seq(S)
           /\ Len(Append(s, x)) = Len(s) + 1
           /\ DOMAIN Append(s, x) = 1..(Len(s) + 1)
           /\ DOMAIN s = 1..Len(s) /\ Len(s) \in Nat
           /\ \A i \in 1..Len(s) : Append(s, x)[i] = s[i]
           /\ Append(s, x)[Len(s) + 1] = x
  OBVIOUS

(* What Tail and Head do, index by index.                                  *)
LEMMA TailFacts ==
    ASSUME NEW S, NEW s \in Seq(S), s # <<>>
    PROVE  /\ Tail(s) \in Seq(S)
           /\ Len(s) \in Nat \ {0} /\ DOMAIN s = 1..Len(s)
           /\ Len(Tail(s)) = Len(s) - 1
           /\ DOMAIN Tail(s) = 1..(Len(s) - 1)
           /\ \A i \in 1..(Len(s) - 1) : Tail(s)[i] = s[i + 1]
           /\ Head(s) = s[1] /\ Head(s) \in S
  OBVIOUS

(* Two units are the same if their tracks and their numbers are.           *)
LEMMA PairFacts == \A a, b, c, d : <<a, b>> = <<c, d>> <=> a = c /\ b = d
  OBVIOUS

(* There are no readers in the beginning.                                  *)
LEMMA StreamInit ==
    ASSUME Str!ConstantsAreRight, Str!Init
    PROVE  StreamInv
<1>1. StreamTypes
  BY DEF Str!ConstantsAreRight, Str!Init, StreamTypes
<1>2. LockInv /\ RunInv
  BY DEF Str!Init, LockInv, RunInv
<1>3. ASSUME NEW r \in Readers, NEW t \in Tracks
      PROVE  OrderOf(r, t) /\ CompleteOf(r, t)
  <2>1. DOMAIN seen[r][t] = {} /\ DOMAIN buffer[r] = {} /\ discarded[r] = {} /\ writer[t] = {}
        /\ owner[r] = "out" /\ joined[r][t] = 0 /\ written[t] = 0
    BY DEF Str!Init
  <2> QED
    BY <2>1 DEF OrderOf, CompleteOf, Given, Queued
<1> QED
  BY <1>1, <1>2, <1>3 DEF StreamInv, ArriveInv

(* Steps that leave alone what a unit goes through.                        *)
LEMMA ArriveSame ==
    ASSUME ArriveInv, \A t \in Tracks : writer'[t] = writer[t],
           UNCHANGED <<onDatas, written, buffer, joined, seen, discarded>>,
           \A r \in Readers : owner'[r] = "reading" => owner[r] = "reading"
    PROVE  ArriveInv'
<1> SUFFICES ASSUME NEW r \in Readers, NEW t \in Tracks
             PROVE  (OrderOf(r, t) /\ CompleteOf(r, t))'
  BY DEF ArriveInv
<1>1. OrderOf(r, t) /\ CompleteOf(r, t)
  BY DEF ArriveInv
<1>2. \A n \in Nat : /\ Due(r, t, n)' <=> Due(r, t, n)
                     /\ Earlier(r, t, n)' <=> Earlier(r, t, n)
                     /\ Given(r, t, n)' <=> Given(r, t, n)
                     /\ Queued(r, t, n)' <=> Queued(r, t, n)
  BY DEF Due, Earlier, Given, Queued
<1>3. Due(r, t, written[t])' <=> Due(r, t, written[t])
  BY DEF Due
<1> QED
  BY <1>1, <1>2, <1>3 DEF OrderOf, CompleteOf


(* A unit is numbered, and what was written before is older.               *)
LEMMA WriteKeeps ==
    ASSUME StreamInv, NEW t \in Tracks, Str!WriteUnit(t), Str!ConstantsAreRight, UNCHANGED onDatas
    PROVE  StreamInv'
<1>1. StreamTypes /\ LockInv /\ RunInv /\ ArriveInv
  BY DEF StreamInv
<1>2. /\ Str!Removing = {} /\ t \notin inside /\ inside' = inside \union {t}
      /\ written[t] < MaxUnits[t]
      /\ written' = [written EXCEPT ![t] = @ + 1]
      /\ writer' = [writer EXCEPT ![t] = {r \in readers : t \in onDatas[r]}]
      /\ UNCHANGED <<onDatas, readers, buffer, closed, run, unit, seen, owner, joined, discarded>>
  BY DEF Str!WriteUnit, Str!MayRLock, Str!readVars
<1>3. /\ written'[t] = written[t] + 1 /\ writer'[t] = {r \in readers : t \in onDatas[r]}
      /\ \A s \in Tracks : s # t => written'[s] = written[s] /\ writer'[s] = writer[s]
  BY <1>1, <1>2 DEF StreamTypes
<1>4. StreamTypes'
  BY <1>1, <1>2, <1>3 DEF StreamTypes, Str!ConstantsAreRight
<1>5. LockInv'
  BY <1>1, <1>2, <1>3 DEF LockInv, Str!Removing, StreamTypes
<1>6. RunInv'
  BY <1>1, <1>2 DEF RunInv
<1>7. ASSUME NEW r \in Readers, NEW s \in Tracks
      PROVE  (OrderOf(r, s) /\ CompleteOf(r, s))'
  <2>1. OrderOf(r, s) /\ CompleteOf(r, s)
    BY <1>1 DEF ArriveInv
  <2>2. \A n \in Nat : /\ Given(r, s, n)' <=> Given(r, s, n)
                       /\ Queued(r, s, n)' <=> Queued(r, s, n)
    BY <1>2 DEF Given, Queued
  <2>3. CASE s # t
    <3>1. written'[s] = written[s] /\ writer'[s] = writer[s]
      BY <1>3, <2>3
    <3>2. \A n \in Nat : /\ Due(r, s, n)' <=> Due(r, s, n)
                         /\ Earlier(r, s, n)' <=> Earlier(r, s, n)
      BY <1>2, <3>1 DEF Due, Earlier
    <3>3. Due(r, s, written[s])' <=> Due(r, s, written[s])
      BY <1>2, <3>1 DEF Due
    <3> QED
      BY <1>2, <2>1, <2>2, <3>1, <3>2, <3>3 DEF OrderOf, CompleteOf
  <2>4. CASE s = t
    <3>1. written[s] \in Nat /\ joined[r][s] \in Nat /\ written'[s] = written[s] + 1
          /\ joined[r][s] <= written[s]
      BY <1>1, <1>3, <2>1, <2>4 DEF StreamTypes, OrderOf
    <3>2. \A n \in Nat : Earlier(r, s, n) => Earlier(r, s, n)'
      BY <1>2, <3>1 DEF Earlier, Due
    <3>3. \A n \in Nat : Due(r, s, n)' <=> Due(r, s, n) \/ (s \in onDatas[r] /\ n = written'[s])
      BY <1>2, <3>1 DEF Due
    <3>4. r \in writer'[s] <=> r \in readers /\ s \in onDatas[r]
      BY <1>3, <2>4
    <3>5. OrderOf(r, s)'
      <4>1. r \in writer'[s] => Due(r, s, written[s])'
        BY <1>2, <3>1, <3>4 DEF Due
      <4> QED
        BY <1>2, <2>1, <2>2, <3>1, <3>2, <3>3, <4>1 DEF OrderOf
    <3>6. CompleteOf(r, s)'
      <4>1. writer[s] = {}
        BY <1>1, <1>2, <2>4 DEF LockInv
      <4>2. owner[r] = "reading" => r \in readers
        BY <1>1 DEF LockInv
      <4> QED
        BY <1>2, <2>1, <2>2, <3>3, <3>4, <4>1, <4>2 DEF CompleteOf
    <3> QED
      BY <3>5, <3>6
  <2> QED
    BY <2>3, <2>4
<1> QED
  BY <1>4, <1>5, <1>6, <1>7 DEF StreamInv, ArriveInv

(* A unit is queued behind all that is older, or counted.                  *)
LEMMA PushKeeps ==
    ASSUME StreamInv, NEW t \in Tracks, NEW q \in Readers, Str!Push(t, q), Str!ConstantsAreRight,
           UNCHANGED onDatas
    PROVE  StreamInv'
<1>1. StreamTypes /\ LockInv /\ RunInv /\ ArriveInv
  BY DEF StreamInv
<1> DEFINE u == <<t, written[t]>>
<1>2. /\ t \in inside /\ q \in writer[t]
      /\ writer' = [writer EXCEPT ![t] = @ \ {q}]
      /\ UNCHANGED <<onDatas, written, inside, readers, closed, run, unit, seen, owner, joined>>
  BY DEF Str!Push, Str!readVars
<1>3. \/ /\ Len(buffer[q]) < WriteQueueSize
         /\ buffer' = [buffer EXCEPT ![q] = Append(@, u)] /\ discarded' = discarded
      \/ /\ discarded' = [discarded EXCEPT ![q] = @ \union {u}] /\ buffer' = buffer
  BY DEF Str!Push, Str!Unit, Str!Fits
<1>4. /\ writer'[t] = writer[t] \ {q}
      /\ \A s \in Tracks : s # t => writer'[s] = writer[s]
      /\ u \in Tracks \X Nat /\ buffer[q] \in Seq(Tracks \X Nat)
  BY <1>1, <1>2 DEF StreamTypes
<1>5. /\ Append(buffer[q], u) \in Seq(Tracks \X Nat)
      /\ Len(Append(buffer[q], u)) = Len(buffer[q]) + 1
  BY <1>4, AppendFacts
<1>6. StreamTypes'
  <2>1. buffer' \in [Readers -> Seq(Tracks \X Nat)]
    BY <1>1, <1>3, <1>5, Zenon DEF StreamTypes
  <2>2. \A r \in Readers : Len(buffer'[r]) <= WriteQueueSize
    <3> SUFFICES ASSUME NEW r \in Readers
                 PROVE  Len(buffer'[r]) <= WriteQueueSize
      OBVIOUS
    <3>1. CASE buffer'[r] = buffer[r]
      BY <1>1, <3>1 DEF StreamTypes
    <3>2. CASE Len(buffer[q]) < WriteQueueSize /\ buffer'[r] = Append(buffer[q], u)
      <4>1. Len(buffer[q]) \in Nat /\ WriteQueueSize \in Nat
        BY <1>4 DEF Str!ConstantsAreRight
      <4> QED
        BY <1>5, <3>2, <4>1
    <3> QED
      BY <1>1, <1>3, <3>1, <3>2, Zenon DEF StreamTypes
  <2>3. discarded' \in [Readers -> SUBSET (Tracks \X Nat)]
    <3>1. discarded \in [Readers -> SUBSET (Tracks \X Nat)]
      BY <1>1 DEF StreamTypes
    <3>2. discarded[q] \union {u} \in SUBSET (Tracks \X Nat)
      BY <1>4, <3>1
    <3> HIDE DEF u
    <3> QED
      BY <1>3, <3>1, <3>2
  <2>4. writer' \in [Tracks -> SUBSET Readers]
    BY <1>1, <1>2 DEF StreamTypes
  <2> QED
    BY <1>1, <1>2, <2>1, <2>2, <2>3, <2>4, Zenon DEF StreamTypes
<1>7. LockInv'
  BY <1>1, <1>2, <1>4 DEF LockInv
<1>8. RunInv'
  <2>1. owner[q] # "out"
    BY <1>1, <1>2 DEF LockInv
  <2> QED
    BY <1>1, <1>2, <1>3, <2>1, Zenon DEF RunInv, StreamTypes
<1>9. ASSUME NEW r \in Readers, NEW s \in Tracks
      PROVE  (OrderOf(r, s) /\ CompleteOf(r, s))'
  <2>1. OrderOf(r, s) /\ CompleteOf(r, s)
    BY <1>1 DEF ArriveInv
  <2>2. \A n \in Nat : /\ Given(r, s, n)' <=> Given(r, s, n)
                       /\ Due(r, s, n)' <=> Due(r, s, n)
    BY <1>2 DEF Given, Due
  <2>3. \A n \in Nat : Earlier(r, s, n) => Earlier(r, s, n)'
    BY <1>2, <1>4, <2>2 DEF Earlier
  <2>4. r \in writer'[s] => r \in writer[s]
    BY <1>4
  <2>5. Due(r, s, written[s])' <=> Due(r, s, written[s])
    BY <1>2 DEF Due
  <2>6. ASSUME r # q \/ buffer' = buffer
        PROVE  /\ \A n \in Nat : Queued(r, s, n)' <=> Queued(r, s, n)
               /\ buffer'[r] = buffer[r]
    <3>1. buffer'[r] = buffer[r]
      BY <1>1, <1>3, <2>6, Zenon DEF StreamTypes
    <3> QED
      BY <3>1 DEF Queued
  <2>7. CASE r # q
    <3>1. discarded'[r] = discarded[r]
      BY <1>1, <1>3, <2>7, Zenon DEF StreamTypes
    <3>2. r \in writer'[s] <=> r \in writer[s]
      BY <1>4, <2>7
    <3> QED
      BY <1>2, <2>1, <2>2, <2>3, <2>5, <2>6, <2>7, <3>1, <3>2 DEF OrderOf, CompleteOf
  <2>8. CASE r = q /\ buffer' = buffer /\ discarded' = [discarded EXCEPT ![q] = @ \union {u}]
    <3>1. discarded'[r] = discarded[r] \union {u}
      BY <1>1, <2>8 DEF StreamTypes
    <3>2. s = t => Due(r, s, written[s])
      BY <1>2, <2>1, <2>8 DEF OrderOf
    <3>3. \A n \in Nat : <<s, n>> \in discarded'[r] <=>
                            <<s, n>> \in discarded[r] \/ (s = t /\ n = written[s])
      BY <3>1
    <3>4. r \in writer[s] => r \in writer'[s] \/ s = t
      BY <1>4
    <3> QED
      BY <1>2, <2>1, <2>2, <2>3, <2>4, <2>5, <2>6, <2>8, <3>2, <3>3, <3>4
         DEF OrderOf, CompleteOf
  <2>9. CASE r = q /\ buffer' = [buffer EXCEPT ![q] = Append(@, u)] /\ discarded' = discarded
    <3> DEFINE b == buffer[r]
               d == buffer'[r]
    <3>1. d = Append(b, u)
      BY <1>1, <2>9 DEF StreamTypes
    <3>2. /\ DOMAIN b = 1..Len(b) /\ Len(b) \in Nat /\ DOMAIN d = 1..(Len(b) + 1)
          /\ \A i \in 1..Len(b) : d[i] = b[i]
          /\ d[Len(b) + 1] = u
      BY <1>4, <2>9, <3>1, AppendFacts
    <3>3. ASSUME NEW n \in Nat
          PROVE  Queued(r, s, n)' <=> Queued(r, s, n) \/ (s = t /\ n = written[s])
      <4>1. <<s, n>> = <<t, written[t]>> <=> s = t /\ n = written[t]
        BY PairFacts, Zenon
      <4>2. Queued(r, s, n)' <=> \E i \in 1..(Len(b) + 1) : d[i] = <<s, n>>
        BY <3>2 DEF Queued
      <4>3. Queued(r, s, n) <=> \E i \in 1..Len(b) : d[i] = <<s, n>>
        BY <3>2, Zenon DEF Queued
      <4>4. 1..(Len(b) + 1) = 1..Len(b) \union {Len(b) + 1}
        BY <3>2
      <4> HIDE DEF b, d
      <4> QED
        BY <3>2, <4>1, <4>2, <4>3, <4>4
    <3>4. s = t => /\ \A n \in Nat : Given(r, s, n) \/ Queued(r, s, n) => n < written[s]
                   /\ Due(r, s, written[s])
      BY <1>2, <2>1, <2>9 DEF OrderOf, Earlier
    <3>5. s = t => r \notin writer'[s]
      BY <1>4, <2>9
    <3>6. \A n \in Nat : Queued(r, s, n)' => Earlier(r, s, n)'
      BY <1>2, <2>1, <2>3, <3>3, <3>4, <3>5 DEF OrderOf, Earlier, Due
    <3>7. ASSUME NEW i \in DOMAIN d, NEW j \in DOMAIN d, i < j, d[i][1] = s, d[j][1] = s
          PROVE  d[i][2] < d[j][2]
      <4>1. i \in 1..Len(b) /\ d[i] = b[i]
        BY <3>2, <3>7
      <4>2. CASE j \in 1..Len(b)
        BY <2>1, <3>2, <3>7, <4>1, <4>2 DEF OrderOf
      <4>3. CASE j = Len(b) + 1
        <5>1. s = t /\ d[j][2] = written[s]
          BY <3>2, <3>7, <4>3
        <5>2. b[i] \in Tracks \X Nat
          BY <1>4, <2>9, <3>2, <4>1
        <5>3. b[i] = <<s, b[i][2]>> /\ b[i][2] \in Nat
          BY <3>7, <4>1, <5>2
        <5>4. Queued(r, s, b[i][2])
          BY <3>2, <4>1, <5>3 DEF Queued
        <5> QED
          BY <3>4, <4>1, <5>1, <5>3, <5>4
      <4> QED
        BY <3>2, <4>2, <4>3
    <3>8. OrderOf(r, s)'
      BY <1>2, <2>1, <2>2, <2>3, <2>4, <2>5, <2>9, <3>3, <3>4, <3>6, <3>7 DEF OrderOf
    <3>9. r \in writer[s] => r \in writer'[s] \/ s = t
      BY <1>4
    <3>10. CompleteOf(r, s)'
      BY <1>2, <2>1, <2>2, <2>9, <3>3, <3>9 DEF CompleteOf
    <3> QED
      BY <3>8, <3>10
  <2> QED
    BY <1>3, <2>7, <2>8, <2>9
<1> QED
  BY <1>6, <1>7, <1>8, <1>9 DEF StreamInv, ArriveInv

(* What is pulled is the oldest of what is queued.                         *)
LEMMA PullKeeps ==
    ASSUME StreamInv, NEW q \in Readers, Str!Pull(q), Str!ConstantsAreRight, UNCHANGED onDatas
    PROVE  StreamInv'
<1>1. StreamTypes /\ LockInv /\ RunInv /\ ArriveInv
  BY DEF StreamInv
<1>2. /\ run[q] = "pulling" /\ owner[q] # "out" /\ owner[q] # "gone"
      /\ UNCHANGED <<onDatas, written, writer, inside, readers, closed, owner, joined, discarded>>
  BY <1>1 DEF Str!Pull, RunInv
<1>3. LockInv'
  BY <1>1, <1>2 DEF LockInv
<1>4. CASE buffer[q] = <<>>
  <2>1. run' = [run EXCEPT ![q] = "terminated"] /\ UNCHANGED <<unit, seen, buffer>>
    BY <1>4 DEF Str!Pull
  <2>2. StreamTypes' /\ RunInv'
    BY <1>1, <1>2, <2>1, Zenon DEF StreamTypes, RunInv
  <2>3. ArriveInv'
    BY <1>1, <1>2, <2>1, ArriveSame
  <2> QED
    BY <1>3, <2>2, <2>3 DEF StreamInv
<1>5. CASE buffer[q] # <<>>
  <2> DEFINE b == buffer[q]
             h == Head(b)
  <2>1. /\ unit' = [unit EXCEPT ![q] = <<h>>]
        /\ seen' = [seen EXCEPT ![q][h[1]] = Append(@, h[2])]
        /\ buffer' = [buffer EXCEPT ![q] = Tail(@)]
        /\ run' = [run EXCEPT ![q] = "calling"]
    BY <1>5 DEF Str!Pull
  <2>2. b \in Seq(Tracks \X Nat)
    BY <1>1 DEF StreamTypes
  <2>3. /\ Tail(b) \in Seq(Tracks \X Nat)
        /\ Len(b) \in Nat \ {0} /\ DOMAIN b = 1..Len(b)
        /\ Len(Tail(b)) = Len(b) - 1
        /\ DOMAIN Tail(b) = 1..(Len(b) - 1)
        /\ \A i \in 1..(Len(b) - 1) : Tail(b)[i] = b[i + 1]
        /\ h = b[1] /\ h \in Tracks \X Nat
    BY <1>5, <2>2, TailFacts
  <2>4. h[1] \in Tracks /\ h[2] \in Nat /\ h = <<h[1], h[2]>>
    BY <2>3
  <2> DEFINE t == h[1]
             x == h[2]
             s == seen[q][t]
  <2>5. s \in Seq(Nat)
    BY <1>1, <2>4 DEF StreamTypes
  <2>6. /\ Append(s, x) \in Seq(Nat)
        /\ DOMAIN Append(s, x) = 1..(Len(s) + 1)
        /\ DOMAIN s = 1..Len(s) /\ Len(s) \in Nat
        /\ \A i \in 1..Len(s) : Append(s, x)[i] = s[i]
        /\ Append(s, x)[Len(s) + 1] = x
    <3>1. x \in Nat
      BY <2>4
    <3> HIDE DEF b, h, t, x, s
    <3> QED
      BY <2>5, <3>1, AppendFacts
  <2>7. buffer'[q] = Tail(b) /\ \A r \in Readers : r # q => buffer'[r] = buffer[r]
    BY <1>1, <2>1 DEF StreamTypes
  <2>8. /\ seen'[q][t] = Append(s, x)
        /\ \A r \in Readers, o \in Tracks : r # q \/ o # t => seen'[r][o] = seen[r][o]
    BY <1>1, <2>1, <2>4, Zenon DEF StreamTypes
  <2> HIDE DEF b, h, t, x, s
  <2>9. StreamTypes'
    <3>1. buffer' \in [Readers -> Seq(Tracks \X Nat)]
      BY <1>1, <2>1, <2>3, Zenon DEF StreamTypes, b
    <3>2. Len(Tail(b)) <= WriteQueueSize
      <4>1. Len(b) <= WriteQueueSize
        BY <1>1 DEF StreamTypes, b
      <4> QED
        BY <2>3, <4>1 DEF Str!ConstantsAreRight
    <3>3. \A r \in Readers : Len(buffer'[r]) <= WriteQueueSize
      BY <1>1, <2>7, <3>2, Zenon DEF StreamTypes
    <3>4. seen' \in [Readers -> [Tracks -> Seq(Nat)]]
      BY <1>1, <2>1, <2>4, <2>6 DEF StreamTypes, t, x, s
    <3>5. unit' \in [Readers -> Seq(Tracks \X Nat)] 
      <4>1. <<h>> \in Seq(Tracks \X Nat)
        BY <2>3
      <4> QED
        BY <1>1, <2>1, <4>1, Zenon DEF StreamTypes
    <3> QED
      BY <1>1, <1>2, <2>1, <3>1, <3>3, <3>4, <3>5, Zenon DEF StreamTypes
  <2>10. RunInv'
    <3>1. \A r \in Readers : r # q => unit'[r] = unit[r] /\ run'[r] = run[r]
                                     /\ \A o \in Tracks : seen'[r][o] = seen[r][o]
      BY <1>1, <2>1, <2>8 DEF StreamTypes
    <3>2. run'[q] = "calling"
      BY <1>1, <2>1 DEF StreamTypes
    <3> QED
      BY <1>1, <1>2, <2>7, <3>1, <3>2 DEF RunInv
  <2>11. ASSUME NEW r \in Readers, NEW o \in Tracks
         PROVE  (OrderOf(r, o) /\ CompleteOf(r, o))'
    <3>1. OrderOf(r, o) /\ CompleteOf(r, o)
      BY <1>1 DEF ArriveInv
    <3>2. \A n \in Nat : /\ Due(r, o, n)' <=> Due(r, o, n)
                         /\ Earlier(r, o, n)' <=> Earlier(r, o, n)
      BY <1>2 DEF Due, Earlier
    <3>3. Due(r, o, written[o])' <=> Due(r, o, written[o])
      BY <1>2 DEF Due
    <3>4. CASE r # q
      <4>1. \A n \in Nat : /\ Given(r, o, n)' <=> Given(r, o, n)
                           /\ Queued(r, o, n)' <=> Queued(r, o, n)
        BY <2>7, <2>8, <3>4 DEF Given, Queued
      <4> QED
        BY <1>2, <2>7, <2>8, <3>1, <3>2, <3>3, <3>4, <4>1 DEF OrderOf, CompleteOf
    <3>5. CASE r = q
      <4> DEFINE d == buffer'[r]
      <4>1. /\ d = Tail(b) /\ buffer[r] = b
            /\ DOMAIN d = 1..(Len(b) - 1)
            /\ \A i \in DOMAIN d : d[i] = b[i + 1] /\ i + 1 \in DOMAIN b
        <5>1. d = Tail(b) /\ buffer[r] = b
          BY <2>7, <3>5 DEF b
        <5> HIDE DEF d
        <5> QED
          BY <2>3, <5>1
      <4> HIDE DEF d
      <4>2. \A n \in Nat : Queued(r, o, n) <=> Queued(r, o, n)' \/ (o = t /\ n = x)
        <5>1. \A i \in DOMAIN b : i = 1 \/ (i - 1 \in DOMAIN d /\ d[i - 1] = b[i])
          BY <2>3, <4>1
        <5>2. 1 \in DOMAIN b /\ b[1] = <<t, x>>
          BY <2>3, <2>4 DEF t, x
        <5>3. ASSUME NEW n \in Nat, Queued(r, o, n)
              PROVE  Queued(r, o, n)' \/ (o = t /\ n = x)
          <6>1. PICK i \in DOMAIN b : b[i] = <<o, n>>
            BY <4>1, <5>3 DEF Queued
          <6>2. CASE i = 1
            BY <5>2, <6>1, <6>2
          <6>3. CASE i - 1 \in DOMAIN d /\ d[i - 1] = b[i]
            BY <6>1, <6>3 DEF Queued, d
          <6> QED
            BY <5>1, <6>2, <6>3
        <5>4. ASSUME NEW n \in Nat, Queued(r, o, n)'
              PROVE  Queued(r, o, n)
          <6>1. PICK i \in DOMAIN d : d[i] = <<o, n>>
            BY <5>4 DEF Queued, d
          <6> QED
            BY <4>1, <6>1, Zenon DEF Queued
        <5>5. o = t => Queued(r, o, x)
          BY <4>1, <5>2 DEF Queued
        <5> QED
          BY <5>3, <5>4, <5>5
      <4>3. \A n \in Nat : Given(r, o, n)' <=> Given(r, o, n) \/ (o = t /\ n = x)
        <5>1. CASE o # t
          BY <2>8, <5>1 DEF Given
        <5>2. CASE o = t
          <6>1. seen'[r][o] = Append(s, x) /\ seen[r][o] = s
            BY <2>8, <3>5, <5>2 DEF s
          <6> QED
            BY <2>6, <5>2, <6>1 DEF Given
        <5> QED
          BY <5>1, <5>2
      <4>4. x \in Nat /\ (o = t => Queued(r, o, x))
        BY <2>4, <4>2 DEF x
      <4>5. \A m, n \in Nat : Given(r, o, m)' /\ Queued(r, o, n)' => m < n
        <5> SUFFICES ASSUME NEW m \in Nat, NEW n \in Nat, Given(r, o, m)', Queued(r, o, n)'
                     PROVE  m < n
          OBVIOUS
        <5>1. CASE Given(r, o, m)
          BY <3>1, <4>2, <5>1 DEF OrderOf
        <5>2. CASE o = t /\ m = x
          <6>1. PICK i \in DOMAIN d : d[i] = <<o, n>>
            BY DEF Queued, d
          <6>2. /\ 1 \in DOMAIN b /\ i + 1 \in DOMAIN b /\ 1 < i + 1
                /\ b[1] = <<o, m>> /\ b[i + 1] = <<o, n>>
            BY <2>3, <2>4, <4>1, <5>2, <6>1 DEF t, x
          <6>3. b[1][1] = o /\ b[i + 1][1] = o /\ b[1][2] = m /\ b[i + 1][2] = n
            BY <6>2
          <6> QED
            BY <3>1, <4>1, <6>2, <6>3 DEF OrderOf
        <5> QED
          BY <4>3, <5>1, <5>2
      <4>6. \A i, j \in DOMAIN seen'[r][o] : i < j => seen'[r][o][i] < seen'[r][o][j]
        <5>1. CASE o # t
          BY <2>8, <3>1, <5>1 DEF OrderOf
        <5>2. CASE o = t
          <6>1. seen'[r][o] = Append(s, x) /\ seen[r][o] = s
            BY <2>8, <3>5, <5>2 DEF s
          <6>2. \A i \in 1..Len(s) : s[i] \in Nat
            BY <2>5
          <6>3. \A i \in 1..Len(s) : s[i] < x
            BY <2>6, <3>1, <4>4, <5>2, <6>1, <6>2, Zenon DEF OrderOf, Given
          <6>4. \A i, j \in 1..Len(s) : i < j => s[i] < s[j]
            BY <2>6, <3>1, <6>1, Zenon DEF OrderOf
          <6> QED
            BY <2>6, <6>1, <6>3, <6>4
        <5> QED
          BY <5>1, <5>2
      <4>7. ASSUME NEW i \in DOMAIN d, NEW j \in DOMAIN d, i < j, d[i][1] = o, d[j][1] = o
            PROVE  d[i][2] < d[j][2]
        <5>1. /\ i + 1 \in DOMAIN b /\ j + 1 \in DOMAIN b /\ d[i] = b[i + 1] /\ d[j] = b[j + 1]
              /\ i + 1 < j + 1
          BY <4>1, <4>7, <2>3
        <5> QED
          BY <3>1, <4>1, <4>7, <5>1 DEF OrderOf
      <4>8. OrderOf(r, o)'
        BY <1>2, <3>1, <3>2, <3>3, <4>2, <4>3, <4>4, <4>5, <4>6, <4>7 DEF OrderOf, d
      <4>9. CompleteOf(r, o)'
        BY <1>2, <3>1, <3>2, <4>2, <4>3 DEF CompleteOf
      <4> QED
        BY <4>8, <4>9
    <3> QED
      BY <3>4, <3>5
  <2> QED
    BY <1>3, <2>9, <2>10, <2>11 DEF StreamInv, ArriveInv
<1> QED
  BY <1>4, <1>5

(* A reader that is added is owed what is written from then on, and starts *)
(* with nothing.                                                           *)
LEMMA AddKeeps ==
    ASSUME StreamInv, NEW q \in Readers, Str!AddReader(q), UNCHANGED onDatas
    PROVE  StreamInv'
<1>1. StreamTypes /\ LockInv /\ RunInv /\ ArriveInv
  BY DEF StreamInv
<1>2. /\ owner[q] = "out" /\ inside = {}
      /\ readers' = readers \union {q}
      /\ run' = [run EXCEPT ![q] = "pulling"]
      /\ owner' = [owner EXCEPT ![q] = "reading"]
      /\ joined' = [joined EXCEPT ![q] = written]
      /\ UNCHANGED <<onDatas, written, writer, inside, discarded, buffer, closed, unit, seen>>
  BY DEF Str!AddReader, Str!MayLock, Str!writeVars
<1>3. StreamTypes'
  BY <1>1, <1>2 DEF StreamTypes
<1>4. LockInv'
  BY <1>1, <1>2 DEF LockInv, StreamTypes
<1>5. RunInv'
  BY <1>1, <1>2 DEF RunInv, StreamTypes
<1>6. ASSUME NEW r \in Readers, NEW t \in Tracks
      PROVE  (OrderOf(r, t) /\ CompleteOf(r, t))'
  <2>1. OrderOf(r, t) /\ CompleteOf(r, t)
    BY <1>1 DEF ArriveInv
  <2>2. \A n \in Nat : /\ Given(r, t, n)' <=> Given(r, t, n)
                       /\ Queued(r, t, n)' <=> Queued(r, t, n)
    BY <1>2 DEF Given, Queued
  <2>3. writer[t] = {}
    BY <1>1, <1>2 DEF LockInv
  <2>4. CASE r # q
    <3>1. joined'[r] = joined[r] /\ owner'[r] = owner[r]
      BY <1>1, <1>2, <2>4 DEF StreamTypes
    <3>2. \A n \in Nat : /\ Due(r, t, n)' <=> Due(r, t, n)
                         /\ Earlier(r, t, n)' <=> Earlier(r, t, n)
      BY <1>2, <3>1 DEF Due, Earlier
    <3> QED
      BY <1>2, <2>1, <2>2, <2>3, <3>1, <3>2 DEF OrderOf, CompleteOf
  <2>5. CASE r = q
    <3>1. joined'[r] = written /\ written[t] \in Nat
      BY <1>1, <1>2, <2>5 DEF StreamTypes
    <3>2. buffer[r] = <<>> /\ seen[r][t] = <<>> /\ discarded[r] = {}
      BY <1>1, <1>2, <2>5 DEF RunInv
    <3>3. \A n \in Nat : ~Given(r, t, n) /\ ~Queued(r, t, n)
      BY <3>2 DEF Given, Queued
    <3>4. \A n \in Nat : ~Due(r, t, n)'
      BY <1>2, <3>1 DEF Due
    <3> QED
      BY <1>2, <2>2, <2>3, <3>1, <3>2, <3>3, <3>4 DEF OrderOf, CompleteOf
  <2> QED
    BY <2>4, <2>5
<1> QED
  BY <1>3, <1>4, <1>5, <1>6 DEF StreamInv, ArriveInv

(* RemoveReader may drop what is queued, of a reader that is owed nothing  *)
(* any more.                                                               *)
LEMMA RemoveKeeps ==
    ASSUME StreamInv, NEW q \in Readers, Str!RemoveReader(q), Str!ConstantsAreRight,
           UNCHANGED onDatas
    PROVE  StreamInv'
<1>1. StreamTypes /\ LockInv /\ RunInv /\ ArriveInv
  BY DEF StreamInv
<1>2. /\ owner[q] = "locking" /\ inside = {} /\ Str!Removing = {}
      /\ owner' = [owner EXCEPT ![q] = "stopping"]
      /\ closed' = closed \union {q}
      /\ UNCHANGED <<onDatas, written, writer, inside, discarded, readers, run, unit, seen, joined>>
  BY DEF Str!RemoveReader, Str!MayLock, Str!readVars
<1>3. buffer' = [buffer EXCEPT ![q] = <<>>] \/ buffer' = buffer
  BY DEF Str!RemoveReader
<1>4. \A r \in Readers : buffer'[r] = buffer[r] \/ (r = q /\ buffer'[r] = <<>>)
  BY <1>1, <1>3 DEF StreamTypes
<1>5. StreamTypes'
  <2>1. buffer' \in [Readers -> Seq(Tracks \X Nat)]
    <3>1. buffer \in [Readers -> Seq(Tracks \X Nat)] /\ <<>> \in Seq(Tracks \X Nat)
      BY <1>1 DEF StreamTypes
    <3> QED
      BY <1>3, <3>1, Zenon
  <2>2. \A r \in Readers : Len(buffer'[r]) <= WriteQueueSize
    BY <1>1, <1>4 DEF StreamTypes, Str!ConstantsAreRight
  <2> QED
    BY <1>1, <1>2, <2>1, <2>2, Zenon DEF StreamTypes
<1>6. LockInv'
  BY <1>1, <1>2 DEF LockInv, StreamTypes
<1>7. RunInv'
  BY <1>1, <1>2, <1>4 DEF RunInv, StreamTypes
<1>8. ASSUME NEW r \in Readers, NEW t \in Tracks
      PROVE  (OrderOf(r, t) /\ CompleteOf(r, t))'
  <2>1. OrderOf(r, t) /\ CompleteOf(r, t)
    BY <1>1 DEF ArriveInv
  <2>2. \A n \in Nat : /\ Given(r, t, n)' <=> Given(r, t, n)
                       /\ Due(r, t, n)' <=> Due(r, t, n)
                       /\ Earlier(r, t, n)' <=> Earlier(r, t, n)
    BY <1>2 DEF Given, Due, Earlier
  <2>3. Due(r, t, written[t])' <=> Due(r, t, written[t])
    BY <1>2 DEF Due
  <2>4. CASE buffer'[r] = buffer[r]
    <3>1. \A n \in Nat : Queued(r, t, n)' <=> Queued(r, t, n)
      BY <2>4 DEF Queued
    <3>2. owner'[r] = "reading" => owner[r] = "reading"
      BY <1>1, <1>2 DEF StreamTypes
    <3> QED
      BY <1>2, <2>1, <2>2, <2>3, <2>4, <3>1, <3>2 DEF OrderOf, CompleteOf
  <2>5. CASE r = q /\ buffer'[r] = <<>>
    <3>1. DOMAIN buffer'[r] = {} /\ \A n \in Nat : ~Queued(r, t, n)'
      BY <2>5 DEF Queued
    <3>2. owner'[r] # "reading"
      BY <1>1, <1>2, <2>5 DEF StreamTypes
    <3> QED
      BY <1>2, <2>1, <2>2, <2>3, <3>1, <3>2 DEF OrderOf, CompleteOf
  <2> QED
    BY <1>4, <2>4, <2>5
<1> QED
  BY <1>5, <1>6, <1>7, <1>8 DEF StreamInv, ArriveInv

(* The other steps leave the units where they are.                         *)
LEMMA OthersKeep ==
    ASSUME StreamInv, UNCHANGED onDatas,
           \/ \E t \in Tracks : Str!WriteReturns(t)
           \/ \E q \in Readers :
                 \/ Str!CallbackReturns(q) \/ Str!ReaderFails(q) \/ Str!OwnerLeaves(q)
                 \/ Str!RemoveReturns(q)
           \/ UNCHANGED Str!streamVars
    PROVE  StreamInv'
<1>1. StreamTypes /\ LockInv /\ RunInv /\ ArriveInv
  BY DEF StreamInv
<1>2. CASE \E t \in Tracks : Str!WriteReturns(t)
  <2>1. PICK t \in Tracks : Str!WriteReturns(t)
    BY <1>2
  <2>2. /\ writer[t] = {} /\ inside' = inside \ {t}
        /\ UNCHANGED <<onDatas, written, writer, readers, buffer, closed, run, unit, seen, owner,
                       joined, discarded>>
    BY <2>1 DEF Str!WriteReturns, Str!readVars
  <2>3. StreamTypes' /\ LockInv' /\ RunInv'
    BY <1>1, <2>2 DEF StreamTypes, LockInv, RunInv
  <2> QED
    BY <1>1, <2>2, <2>3, ArriveSame DEF StreamInv
<1>3. ASSUME NEW q \in Readers, Str!CallbackReturns(q)
      PROVE  StreamInv'
  <2>1. /\ run[q] = "calling"
        /\ \/ run' = [run EXCEPT ![q] = "pulling"]
           \/ run' = [run EXCEPT ![q] = "failed"]
        /\ unit' = [unit EXCEPT ![q] = <<>>]
        /\ UNCHANGED <<onDatas, written, writer, inside, readers, buffer, closed, owner, joined,
                       seen, discarded>>
    BY <1>3 DEF Str!CallbackReturns
  <2>2. StreamTypes'
    <3>1. unit' \in [Readers -> Seq(Tracks \X Nat)]
      <4>1. unit \in [Readers -> Seq(Tracks \X Nat)] /\ <<>> \in Seq(Tracks \X Nat)
        BY <1>1 DEF StreamTypes
      <4> QED
        BY <2>1, <4>1
    <3>2. run' \in [Readers -> {"none", "pulling", "calling", "failed", "terminated", "done"}]
      BY <1>1, <2>1, Zenon DEF StreamTypes
    <3> QED
      BY <1>1, <2>1, <3>1, <3>2, Zenon DEF StreamTypes
  <2>3. LockInv'
    BY <1>1, <2>1 DEF LockInv
  <2>4. RunInv'
    <3>1. unit'[q] = <<>> /\ \A r \in Readers : r # q => unit'[r] = unit[r] /\ run'[r] = run[r]
      BY <1>1, <2>1 DEF StreamTypes
    <3> QED
      BY <1>1, <2>1, <3>1 DEF RunInv
  <2> QED
    BY <1>1, <2>1, <2>2, <2>3, <2>4, ArriveSame DEF StreamInv
<1>4. ASSUME NEW q \in Readers, Str!ReaderFails(q) \/ Str!OwnerLeaves(q) \/ Str!RemoveReturns(q)
      PROVE  StreamInv'
  <2>1. /\ UNCHANGED <<onDatas, written, writer, inside, buffer, closed, unit, joined, seen,
                       discarded>>
        /\ \/ /\ owner[q] = "reading" /\ run[q] = "failed" /\ run' = [run EXCEPT ![q] = "done"]
              /\ owner' = [owner EXCEPT ![q] = "locking"] /\ readers' = readers
           \/ /\ owner[q] = "reading" /\ run' = run
              /\ owner' = [owner EXCEPT ![q] = "locking"] /\ readers' = readers
           \/ /\ owner[q] = "stopping" /\ run[q] \in {"failed", "terminated", "done"}
              /\ run' = [run EXCEPT ![q] = "done"]
              /\ owner' = [owner EXCEPT ![q] = "gone"] /\ readers' = readers \ {q}
    BY <1>4 DEF Str!ReaderFails, Str!OwnerLeaves, Str!RemoveReturns, Str!RunEnds, Str!Receive,
                Str!writeVars, Str!readVars
  <2>2. StreamTypes' /\ RunInv'
    <3>1. StreamTypes'
      BY <1>1, <2>1, Zenon DEF StreamTypes
    <3>2. /\ run[q] # "calling" \/ run'[q] = run[q]
          /\ owner'[q] # "out" /\ (owner'[q] = "gone" => run'[q] = "done")
          /\ \A r \in Readers : r # q => owner'[r] = owner[r] /\ run'[r] = run[r]
      BY <1>1, <2>1 DEF StreamTypes
    <3>3. RunInv'
      BY <1>1, <2>1, <3>2 DEF RunInv
    <3> QED
      BY <3>1, <3>3
  <2>3. LockInv'
    <3>1. owner[q] = "stopping" => \A t \in Tracks : writer[t] = {}
      BY <1>1 DEF LockInv
    <3> QED
      BY <1>1, <2>1, <3>1 DEF LockInv, StreamTypes
  <2>4. \A r \in Readers : owner'[r] = "reading" => owner[r] = "reading"
    BY <1>1, <2>1 DEF StreamTypes
  <2> QED
    BY <1>1, <2>1, <2>2, <2>3, <2>4, ArriveSame DEF StreamInv
<1>5. CASE UNCHANGED Str!streamVars
  <2>1. StreamTypes' /\ LockInv' /\ RunInv'
    BY <1>1, <1>5 DEF Str!streamVars, StreamTypes, LockInv, RunInv
  <2> QED
    BY <1>1, <1>5, <2>1, ArriveSame DEF StreamInv, Str!streamVars
<1> QED
  BY <1>2, <1>3, <1>4, <1>5

(* Every step keeps the locks, the goroutines and the order of units that  *)
(* what follows is about.                                                  *)
LEMMA StreamKeeps ==
    ASSUME Str!ConstantsAreRight, StreamInv, Str!Next \/ UNCHANGED Str!streamVars
    PROVE  StreamInv'
<1>1. CASE UNCHANGED Str!streamVars
  BY <1>1, OthersKeep DEF Str!streamVars
<1>2. CASE Str!Step /\ UNCHANGED onDatas
  BY <1>2, WriteKeeps, PushKeeps, PullKeeps, AddKeeps, RemoveKeeps, OthersKeep DEF Str!Step
<1> QED
  BY <1>1, <1>2 DEF Str!Next

(* When RemoveReader has returned, no callback runs or will run and nobody *)
(* pushes to the reader (stream/stream.go:173, reader.go:80-96).           *)
LEMMA RemovedStaysQuiet == ASSUME StreamInv PROVE Str!RemovedIsQuiet
  BY DEF StreamInv, LockInv, RunInv, Str!RemovedIsQuiet

(* What Owed is, unit by unit.                                             *)
LEMMA OwedFacts ==
    ASSUME Str!ConstantsAreRight, StreamTypes, NEW r \in Readers
    PROVE  /\ \A t \in Tracks, n \in Nat : <<t, n>> \in Str!Owed(r) <=> Due(r, t, n)
           /\ \A u \in Str!Owed(r) : u[1] \in Tracks /\ u[2] \in Nat /\ u = <<u[1], u[2]>>
<1>1. \A u \in Str!Units : u[1] \in Tracks /\ u[2] \in Nat /\ u = <<u[1], u[2]>>
  <2> SUFFICES ASSUME NEW u \in Str!Units
               PROVE  u[1] \in Tracks /\ u[2] \in Nat /\ u = <<u[1], u[2]>>
    OBVIOUS
  <2>1. PICK t \in Tracks : u \in {<<t, n>> : n \in 1..MaxUnits[t]}
    BY DEF Str!Units
  <2>2. PICK n \in 1..MaxUnits[t] : u = <<t, n>>
    BY <2>1
  <2> QED
    BY <2>2
<1>2. ASSUME NEW t \in Tracks, NEW n \in Nat, Due(r, t, n)
      PROVE  <<t, n>> \in Str!Units
  <2>1. n \in 1..MaxUnits[t]
    <3>1. /\ joined[r][t] \in Nat /\ written[t] \in Nat /\ MaxUnits[t] \in Nat
          /\ written[t] <= MaxUnits[t] /\ joined[r][t] < n /\ n <= written[t]
      BY <1>2 DEF StreamTypes, Str!ConstantsAreRight, Due
    <3> QED
      BY <3>1
  <2>2. <<t, n>> \in {<<t, k>> : k \in 1..MaxUnits[t]}
    BY <2>1
  <2> QED
    BY <2>2 DEF Str!Units
<1>3. ASSUME NEW t \in Tracks, NEW n \in Nat
      PROVE  <<t, n>> \in Str!Owed(r) <=> Due(r, t, n)
  BY <1>2 DEF Str!Owed, Due
<1> QED
  BY <1>1, <1>3 DEF Str!Owed

(* A reader gets each unit once and in order, from when it was added, and  *)
(* all of them but for those that it is counted to have discarded          *)
(* (stream/reader.go:108, stream_format.go).                               *)
LEMMA UnitsAllArrive ==
    ASSUME Str!ConstantsAreRight, StreamInv
    PROVE  Str!UnitsArrive
<1> DEFINE given(r) == UNION {{<<t, seen[r][t][i]>> : i \in DOMAIN seen[r][t]} : t \in Tracks}
<1>1. StreamTypes /\ ArriveInv
  BY DEF StreamInv
<1>2. ASSUME NEW r \in Readers
      PROVE  /\ Str!InOrder(seen[r])
             /\ given(r) \subseteq Str!Owed(r)
             /\ owner[r] = "reading" =>
                    Str!Owed(r) = given(r) \union Str!OnItsWay(r) \union discarded[r]
  <2>1. \A t \in Tracks : OrderOf(r, t) /\ CompleteOf(r, t)
    BY <1>1 DEF ArriveInv
  <2>2. Str!InOrder(seen[r])
    BY <2>1 DEF Str!InOrder, OrderOf
  <2>3. /\ \A t \in Tracks, n \in Nat : <<t, n>> \in Str!Owed(r) <=> Due(r, t, n)
        /\ \A u \in Str!Owed(r) : u[1] \in Tracks /\ u[2] \in Nat /\ u = <<u[1], u[2]>>
    BY <1>1, OwedFacts
  <2>4. ASSUME NEW u \in given(r)
        PROVE  u \in Str!Owed(r)
    <3>1. PICK t \in Tracks : u \in {<<t, seen[r][t][i]>> : i \in DOMAIN seen[r][t]}
      BY <2>4
    <3>2. PICK i \in DOMAIN seen[r][t] : u = <<t, seen[r][t][i]>>
      BY <3>1
    <3>3. seen[r][t] \in Seq(Nat)
      BY <1>1 DEF StreamTypes
    <3>4. seen[r][t][i] \in Nat
      BY <3>3
    <3>5. Due(r, t, seen[r][t][i])
      BY <2>1, <3>4 DEF OrderOf, Given, Earlier
    <3> QED
      BY <2>3, <3>2, <3>4, <3>5
  <2>5. ASSUME NEW u \in Str!OnItsWay(r)
        PROVE  u \in Str!Owed(r)
    <3>1. CASE u \in {buffer[r][i] : i \in DOMAIN buffer[r]}
      <4>1. PICK i \in DOMAIN buffer[r] : u = buffer[r][i]
        BY <3>1
      <4>2. buffer[r] \in Seq(Tracks \X Nat)
        BY <1>1 DEF StreamTypes
      <4>3. u \in Tracks \X Nat
        BY <4>1, <4>2
      <4>4. PICK t \in Tracks, n \in Nat : u = <<t, n>>
        BY <4>3
      <4>5. Due(r, t, n)
        BY <2>1, <4>1, <4>4, Zenon DEF OrderOf, Queued, Earlier
      <4> QED
        BY <2>3, <4>4, <4>5
    <3>2. CASE u \in {Str!Unit(t) : t \in {t \in inside : r \in writer[t]}}
      <4>1. PICK t \in inside : r \in writer[t] /\ u = <<t, written[t]>>
        BY <3>2 DEF Str!Unit
      <4>2. t \in Tracks /\ written[t] \in Nat
        BY <1>1 DEF StreamTypes
      <4> QED
        BY <2>1, <2>3, <4>1, <4>2 DEF OrderOf
    <3> QED
      BY <3>1, <3>2 DEF Str!OnItsWay
  <2>6. ASSUME NEW u \in discarded[r]
        PROVE  u \in Str!Owed(r)
    <3>1. u \in Tracks \X Nat
      BY <1>1 DEF StreamTypes
    <3>2. PICK t \in Tracks, n \in Nat : u = <<t, n>>
      BY <3>1
    <3> QED
      BY <2>1, <2>3, <3>2 DEF OrderOf
  <2>7. ASSUME owner[r] = "reading", NEW u \in Str!Owed(r)
        PROVE  u \in given(r) \union Str!OnItsWay(r) \union discarded[r]
    <3>1. PICK t \in Tracks, n \in Nat : u = <<t, n>>
      BY <2>3
    <3>2. \/ Given(r, t, n) \/ Queued(r, t, n) \/ <<t, n>> \in discarded[r]
          \/ r \in writer[t] /\ n = written[t]
      BY <2>1, <2>3, <2>7, <3>1 DEF CompleteOf
    <3>3. CASE Given(r, t, n)
      <4>1. PICK i \in DOMAIN seen[r][t] : seen[r][t][i] = n
        BY <3>3 DEF Given
      <4>2. u \in {<<t, seen[r][t][j]>> : j \in DOMAIN seen[r][t]}
        BY <3>1, <4>1
      <4> QED
        BY <4>2
    <3>4. CASE Queued(r, t, n)
      BY <3>1, <3>4 DEF Queued, Str!OnItsWay
    <3>5. CASE r \in writer[t] /\ n = written[t]
      <4>1. t \in inside
        BY <3>5 DEF StreamInv, LockInv
      <4> QED
        BY <3>1, <3>5, <4>1 DEF Str!OnItsWay, Str!Unit
    <3> QED
      BY <3>1, <3>2, <3>3, <3>4, <3>5
  <2> HIDE DEF given
  <2> QED
    BY <2>2, <2>4, <2>5, <2>6, <2>7
<1> QED
  BY <1>2 DEF Str!UnitsArrive

(* What is queued, what a callback was called with and what is counted as  *)
(* discarded are units.                                                    *)
UnitInv == \A r \in Readers : unit[r] = <<>> \/ \E u \in Str!Units : unit[r] = <<u>>

(* A unit is a track and a number.                                        *)
LEMMA UnitsHaveTypes ==
    ASSUME Str!ConstantsAreRight, StreamInv, NEW r \in Readers
    PROVE  /\ \A i \in DOMAIN buffer[r] : buffer[r][i] \in Str!Units
           /\ discarded[r] \subseteq Str!Units
<1>1. StreamTypes /\ \A t \in Tracks : OrderOf(r, t)
  BY DEF StreamInv, ArriveInv
<1>2. ASSUME NEW u \in Tracks \X Nat, Due(r, u[1], u[2]) PROVE u \in Str!Units
  <2>1. u = <<u[1], u[2]>> /\ u[1] \in Tracks /\ u[2] \in Nat
    OBVIOUS
  <2>2. <<u[1], u[2]>> \in Str!Owed(r)
    BY <1>1, <1>2, <2>1, OwedFacts
  <2> QED
    BY <2>1, <2>2 DEF Str!Owed
<1>3. ASSUME NEW i \in DOMAIN buffer[r] PROVE buffer[r][i] \in Str!Units
  <2>1. buffer[r] \in Seq(Tracks \X Nat)
    BY <1>1 DEF StreamTypes
  <2>2. buffer[r][i] \in Tracks \X Nat
    BY <1>3, <2>1
  <2> DEFINE u == buffer[r][i]
  <2>3. u = <<u[1], u[2]>> /\ u[1] \in Tracks /\ u[2] \in Nat
    BY <2>2
  <2>4. Queued(r, u[1], u[2])
    BY <1>3, <2>3 DEF Queued
  <2>5. Due(r, u[1], u[2])
    BY <1>1, <2>3, <2>4 DEF OrderOf, Earlier
  <2> QED
    BY <1>2, <2>2, <2>5
<1>4. ASSUME NEW u \in discarded[r] PROVE u \in Str!Units
  <2>1. u \in Tracks \X Nat
    BY <1>1, <1>4 DEF StreamTypes
  <2>2. u = <<u[1], u[2]>> /\ u[1] \in Tracks /\ u[2] \in Nat
    BY <2>1
  <2>3. Due(r, u[1], u[2])
    BY <1>1, <1>4, <2>2 DEF OrderOf
  <2> QED
    BY <1>2, <2>1, <2>3
<1> QED
  BY <1>3, <1>4

(* A callback is called with what was queued.                              *)
LEMMA UnitKeeps ==
    ASSUME Str!ConstantsAreRight, StreamInv, UnitInv, Str!Next \/ UNCHANGED Str!streamVars
    PROVE  UnitInv'
<1> SUFFICES ASSUME NEW r \in Readers
             PROVE  unit'[r] = <<>> \/ \E u \in Str!Units : unit'[r] = <<u>>
  BY DEF UnitInv, Str!Units
<1>1. unit \in [Readers -> Seq(Tracks \X Nat)]
  BY DEF StreamInv, StreamTypes
<1>2. ASSUME NEW q \in Readers, Str!Pull(q)
      PROVE  unit'[r] = <<>> \/ \E u \in Str!Units : unit'[r] = <<u>>
  <2>1. CASE unit' = unit
    BY <2>1 DEF UnitInv
  <2>2. CASE buffer[q] # <<>> /\ unit' = [unit EXCEPT ![q] = <<Head(buffer[q])>>]
    <3>1. buffer[q] \in Seq(Tracks \X Nat)
      BY DEF StreamInv, StreamTypes
    <3>2. Head(buffer[q]) = buffer[q][1] /\ 1 \in DOMAIN buffer[q]
      BY <2>2, <3>1, TailFacts
    <3>3. Head(buffer[q]) \in Str!Units
      BY <3>2, UnitsHaveTypes
    <3>4. r = q => unit'[r] = <<Head(buffer[q])>>
      BY <1>1, <2>2
    <3>5. r # q => unit'[r] = unit[r]
      BY <1>1, <2>2
    <3> QED
      BY <3>3, <3>4, <3>5 DEF UnitInv
  <2> QED
    BY <1>2, <2>1, <2>2 DEF Str!Pull
<1>3. ASSUME NEW q \in Readers, Str!CallbackReturns(q)
      PROVE  unit'[r] = <<>> \/ \E u \in Str!Units : unit'[r] = <<u>>
  <2>1. unit' = [unit EXCEPT ![q] = <<>>]
    BY <1>3 DEF Str!CallbackReturns
  <2>2. unit'[r] = <<>> \/ unit'[r] = unit[r]
    BY <1>1, <2>1
  <2> QED
    BY <2>2 DEF UnitInv
<1>4. CASE unit' = unit
  BY <1>4 DEF UnitInv
<1>5. CASE UNCHANGED Str!streamVars
  BY <1>4, <1>5 DEF Str!streamVars
<1>6. ASSUME Str!Step, unit' # unit
      PROVE  \E q \in Readers : Str!Pull(q) \/ Str!CallbackReturns(q)
  BY <1>6 DEF Str!Step, Str!WriteUnit, Str!WriteReturns, Str!Push, Str!AddReader,
              Str!ReaderFails, Str!OwnerLeaves, Str!RemoveReader, Str!RemoveReturns,
              Str!readVars
<1> QED
  BY <1>2, <1>3, <1>4, <1>5, <1>6 DEF Str!Next

(* The types of the stream.                                                *)
LEMMA StreamHasTypes ==
    ASSUME Str!ConstantsAreRight, StreamInv, UnitInv
    PROVE  Str!TypeOK
<1>1. StreamTypes /\ ArriveInv
  BY DEF StreamInv
<1>2. \A t \in Tracks : written[t] \in 0..MaxUnits[t]
  BY <1>1 DEF StreamTypes, Str!ConstantsAreRight
<1>3. ASSUME NEW r \in Readers
      PROVE  /\ buffer[r] \in Seq(Str!Units) /\ Len(buffer[r]) <= WriteQueueSize
             /\ unit[r] \in Seq(Str!Units) /\ Len(unit[r]) <= 1
             /\ discarded[r] \subseteq Str!Units
  <2>1. buffer[r] \in Seq(Tracks \X Nat) /\ Len(buffer[r]) <= WriteQueueSize
    BY <1>1 DEF StreamTypes
  <2>2. buffer[r] \in Seq(Str!Units)
    <3>1. \A i \in 1..Len(buffer[r]) : buffer[r][i] \in Str!Units
      BY <2>1, UnitsHaveTypes
    <3> QED
      BY <2>1, <3>1
  <2>3. unit[r] \in Seq(Str!Units) /\ Len(unit[r]) <= 1
    <3>1. CASE unit[r] = <<>>
      BY <3>1
    <3>2. CASE \E u \in Str!Units : unit[r] = <<u>>
      <4>1. PICK u \in Str!Units : unit[r] = <<u>>
        BY <3>2
      <4> QED
        BY <4>1
    <3> QED
      BY <3>1, <3>2 DEF UnitInv
  <2> QED
    BY <2>1, <2>2, <2>3, UnitsHaveTypes
<1>4. ASSUME NEW r \in Readers, NEW t \in Tracks PROVE joined[r][t] \in 0..written[t]
  <2>1. joined[r][t] \in Nat /\ written[t] \in Nat /\ joined[r][t] <= written[t]
    BY <1>1 DEF StreamTypes, ArriveInv, OrderOf
  <2> QED
    BY <2>1
<1> QED
  BY <1>1, <1>2, <1>3, <1>4 DEF StreamTypes, Str!TypeOK

-----------------------------------------------------------------------------
(* The forwarder.                                                          *)

(* A context that is done stays so, and only before that does a goroutine  *)
(* begin to dial: it is the one of the first stream, while that is there.  *)
BeforeStop ==
    ~ctxDone =>
        /\ streams \in 0..1 /\ path \in {"notReady", "ready"}
        /\ path = "notReady" => streams = 0
        /\ \A s \in Fwd!Streams : goes[s] # "none" => stream = s

(* Where a goroutine is from the time it dials until runInner has returned,*)
(* where it is a reader of its stream, and where it says it is connected.  *)
Live == {"dialing", "connected", "added", "reading", "failing", "finishing"}
Dials(s) == goes[s] \in Live
Reads == IF Fwd!IsSRT THEN {"reading"} ELSE {"added", "reading", "failing", "finishing"}
Shows == IF Fwd!IsSRT THEN {"connected", "reading", "failing", "finishing"} ELSE {"reading"}

(* All that a forwarder keeps. Whoever reads, or is connected, is the one  *)
(* that dials.                                                             *)
ForwardInv ==
    /\ Fwd!TypeOK
    /\ BeforeStop
    /\ starting \subseteq 1..streams
    /\ \A s \in Fwd!Streams : goes[s] # "none" => s <= streams
    /\ \A s \in Fwd!Streams :
          Dials(s) => /\ s = 1 /\ streams = 1 /\ stream = 1
                      /\ path \in {"ready", "waiting"}
    /\ reading = {s \in Fwd!Streams : goes[s] \in Reads}
    /\ connected <=> \E s \in Fwd!Streams : goes[s] \in Shows

(* It holds in the beginning.                                              *)
LEMMA ForwardInit == Fwd!Init => ForwardInv
<1> SUFFICES ASSUME Fwd!Init PROVE ForwardInv
  OBVIOUS
<1>1. goes \in [Fwd!Streams -> Fwd!States] /\ \A s \in Fwd!Streams : goes[s] = "none"
  BY DEF Fwd!Init, Fwd!States
<1>2. reading = {} /\ reading = {s \in Fwd!Streams : goes[s] \in Reads}
  BY <1>1 DEF Fwd!Init, Reads
<1>3. Fwd!TypeOK
  <2>1. closing \in BOOLEAN /\ ctxDone \in BOOLEAN /\ connected \in BOOLEAN /\ dead \in BOOLEAN
    BY Zenon DEF Fwd!Init
  <2>2. streams \in 0..MaxStreams /\ reconnects \in 0..MaxReconnects
    BY BoundsAssumption DEF Fwd!Init
  <2> QED
    BY <1>1, <2>1, <2>2 DEF Fwd!Init, Fwd!TypeOK
<1>4. connected <=> \E s \in Fwd!Streams : goes[s] \in Shows
  <2>1. ~\E s \in Fwd!Streams : goes[s] \in Shows
    BY <1>1 DEF Shows
  <2> QED
    BY <2>1, Zenon DEF Fwd!Init
<1>5. starting = {} /\ streams = 0 /\ path = "notReady"
  BY DEF Fwd!Init
<1> QED
  BY <1>1, <1>2, <1>3, <1>4, <1>5 DEF ForwardInv, BeforeStop, Dials, Live

(* Nobody else than a goroutine that is there dials, so that what it does  *)
(* is what is read and shown.                                              *)
LEMMA OneDials ==
    ASSUME ForwardInv, NEW s \in Fwd!Streams, goes[s] # "none"
    PROVE  /\ \A q \in Fwd!Streams : Dials(q) => q = s
           /\ reading = IF goes[s] \in Reads THEN {s} ELSE {}
           /\ connected <=> goes[s] \in Shows
<1>1. ASSUME NEW q \in Fwd!Streams, Dials(q) PROVE q = s
  BY <1>1, BoundsAssumption DEF ForwardInv, Fwd!Streams
<1>2. Reads \subseteq Live /\ Shows \subseteq Live
  BY DEF Reads, Shows, Live
<1>3. \A q \in Fwd!Streams : goes[q] \in Reads \union Shows => q = s
  BY <1>1, <1>2 DEF Dials
<1>4. reading = IF goes[s] \in Reads THEN {s} ELSE {}
  BY <1>3 DEF ForwardInv
<1>5. connected <=> goes[s] \in Shows
  <2>1. (\E q \in Fwd!Streams : goes[q] \in Shows) <=> goes[s] \in Shows
    BY <1>3
  <2> QED
    BY <2>1, Zenon DEF ForwardInv
<1> QED
  BY <1>1, <1>4, <1>5, Zenon

(* The path starts and stops the forwarder: nobody reads when Stop has     *)
(* waited for the goroutines, and none will.                               *)
LEMMA PathKeeps ==
    ASSUME ForwardInv,
           \/ Fwd!SetReady \/ Fwd!SetNotReady \/ Fwd!WaitReturns \/ Fwd!StopReturns
           \/ Fwd!PathCloses
    PROVE  ForwardInv'
<1>1. CASE Fwd!SetReady
  <2>1. \A s \in Fwd!Streams : ~Dials(s)
    BY <1>1 DEF Fwd!SetReady, ForwardInv
  <2> QED
    BY <1>1, <2>1, BoundsAssumption
       DEF Fwd!SetReady, ForwardInv, Fwd!TypeOK, BeforeStop, Dials, Fwd!Streams, Fwd!confVars,
           Fwd!fields, Reads, Shows, Fwd!IsSRT
<1>2. CASE Fwd!SetNotReady \/ Fwd!PathCloses
  <2>1. /\ path' = "waiting" /\ ctxDone' = TRUE /\ closing' \in BOOLEAN
        /\ UNCHANGED <<protocol, reconnect, streams, starting, stream, reader, connected,
                       reconnects, goes, told, reading, dead>>
    BY <1>2, Zenon DEF Fwd!SetNotReady, Fwd!PathCloses, Fwd!Stop, ForwardInv, Fwd!TypeOK,
                       Fwd!confVars
  <2>2. Fwd!TypeOK'
    BY <2>1 DEF ForwardInv, Fwd!TypeOK
  <2>3. BeforeStop'
    BY <2>1 DEF BeforeStop
  <2>4. Reads' = Reads /\ Shows' = Shows
    BY <2>1 DEF Reads, Shows, Fwd!IsSRT
  <2> QED
    BY <2>1, <2>2, <2>3, <2>4, Zenon DEF ForwardInv, Dials
<1>3. CASE Fwd!WaitReturns
  <2>1. \A s \in Fwd!Streams : ~Dials(s)
    BY <1>3 DEF Fwd!WaitReturns, Fwd!Gone, Dials, Live
  <2> QED
    BY <1>3, <2>1
       DEF Fwd!WaitReturns, ForwardInv, Fwd!TypeOK, BeforeStop, Dials, Fwd!confVars, Fwd!fields,
           Reads, Shows, Fwd!IsSRT
<1>4. CASE Fwd!StopReturns
  <2>1. \A s \in Fwd!Streams : ~Dials(s)
    BY <1>4 DEF Fwd!StopReturns, ForwardInv
  <2> QED
    BY <1>4, <2>1
       DEF Fwd!StopReturns, ForwardInv, Fwd!TypeOK, BeforeStop, Dials, Fwd!confVars, Reads, Shows,
           Fwd!IsSRT
<1> QED
  BY <1>1, <1>2, <1>3, <1>4

(* A goroutine that is made does not dial yet, nor does one that has been. *)
LEMMA StartKeeps ==
    ASSUME ForwardInv, NEW s \in Fwd!Streams, Fwd!Start(s)
    PROVE  ForwardInv'
<1>1. CASE stream # None
  BY <1>1 DEF Fwd!Start, ForwardInv, Fwd!TypeOK, BeforeStop, Dials, Fwd!confVars, Fwd!pathVars,
              Reads, Shows, Fwd!IsSRT
<1>2. CASE stream = None
  <2>1. \A q \in Fwd!Streams : ~Dials(q)
    BY <1>2, BoundsAssumption DEF ForwardInv, Fwd!Streams
  <2>2. s <= streams /\ streams \in Nat /\ s \in Nat
    BY DEF Fwd!Start, ForwardInv, Fwd!TypeOK, Fwd!Streams
  <2>3. ~ctxDone => \A q \in Fwd!Streams : goes[q] = "none"
    BY <1>2, BoundsAssumption DEF ForwardInv, BeforeStop, Fwd!Streams
  <2>4. /\ stream' = s /\ goes' = [goes EXCEPT ![s] = "top"] /\ starting' = starting \ {s}
        /\ UNCHANGED <<protocol, reconnect, path, closing, streams, ctxDone, reader, connected,
                       reconnects, told, reading, dead>>
    BY <1>2 DEF Fwd!Start, Fwd!confVars, Fwd!pathVars
  <2>5. goes' \in [Fwd!Streams -> Fwd!States] /\ goes \in [Fwd!Streams -> Fwd!States]
    BY <2>4 DEF ForwardInv, Fwd!TypeOK, Fwd!States
  <2>6. Fwd!TypeOK'
    BY <2>4, <2>5 DEF ForwardInv, Fwd!TypeOK
  <2>7. Reads' = Reads /\ Shows' = Shows /\ Reads \subseteq Live /\ Shows \subseteq Live
    BY <2>4 DEF Reads, Shows, Live, Fwd!IsSRT
  <2>8. \A q \in Fwd!Streams : goes[q] \notin Live /\ goes'[q] \notin Live
    BY <2>1, <2>4, <2>5 DEF Dials, Live
  <2>9. reading' = {q \in Fwd!Streams : goes'[q] \in Reads}
    BY <2>4, <2>7, <2>8 DEF ForwardInv
  <2>10. connected' <=> \E q \in Fwd!Streams : goes'[q] \in Shows
    BY <2>4, <2>7, <2>8, Zenon DEF ForwardInv
  <2>11. BeforeStop' /\ \A q \in Fwd!Streams : ~Dials(q)'
    BY <2>3, <2>4, <2>5, <2>8, Zenon DEF ForwardInv, BeforeStop, Dials
  <2>12. \A q \in Fwd!Streams : goes'[q] # "none" => q <= streams'
    BY <2>2, <2>4, <2>5 DEF ForwardInv
  <2>13. starting' \subseteq 1..streams'
    BY <2>4 DEF ForwardInv
  <2> QED
    BY <2>6, <2>7, <2>9, <2>10, <2>11, <2>12, <2>13, Zenon DEF ForwardInv
<1> QED
  BY <1>1, <1>2

(* What a goroutine does: it goes on, and the fields that it sets have     *)
(* values of their types.                                                  *)
Moves(s, state) ==
    /\ goes' = [goes EXCEPT ![s] = state]
    /\ state \in Fwd!States \ {"none"} /\ goes[s] \in Fwd!States \ {"none"}
    /\ UNCHANGED <<protocol, reconnect, path, closing, streams, starting, stream, ctxDone>>
    /\ reader' \in Fwd!Streams \union {None}
    /\ reconnects' \in 0..MaxReconnects
    /\ told' \subseteq Fwd!Streams
    /\ dead' \in BOOLEAN

(* It reads and shows what belongs to where it has got; where it dials it  *)
(* has done so before, or begins to before any Stop.                       *)
LEMMA MoveKeeps ==
    ASSUME ForwardInv, NEW s \in Fwd!Streams, NEW state, Moves(s, state),
           state \in Live => Dials(s) \/ (goes[s] = "top" /\ ~ctxDone),
           reading' = IF state \in Reads THEN {s} ELSE {},
           connected' \in BOOLEAN, connected' <=> state \in Shows
    PROVE  ForwardInv'
<1>1. goes \in [Fwd!Streams -> Fwd!States] /\ goes' \in [Fwd!Streams -> Fwd!States]
  BY DEF ForwardInv, Fwd!TypeOK, Moves
<1>2. (\A q \in Fwd!Streams : q # s => goes'[q] = goes[q]) /\ goes'[s] = state
  BY <1>1 DEF Moves
<1>3. \A q \in Fwd!Streams : Dials(q) => q = s
  BY OneDials DEF Moves
<1>4. Reads \subseteq Live /\ Shows \subseteq Live /\ Reads' = Reads /\ Shows' = Shows
  BY DEF Reads, Shows, Live, Moves, Fwd!IsSRT
<1>5. \A q \in Fwd!Streams : q # s => goes'[q] \notin Live
  BY <1>2, <1>3 DEF Dials
<1>6. state \in Live => s = 1 /\ streams = 1 /\ stream = 1 /\ path \in {"ready", "waiting"}
  <2>1. CASE Dials(s)
    BY <2>1 DEF ForwardInv
  <2>2. CASE goes[s] = "top" /\ ~ctxDone
    <3>1. s <= streams /\ stream = s /\ streams \in 0..1 /\ path \in {"notReady", "ready"}
          /\ (path = "notReady" => streams = 0)
      BY <2>2 DEF ForwardInv, BeforeStop
    <3>2. s \in Nat /\ 1 <= s
      BY BoundsAssumption DEF Fwd!Streams
    <3> QED
      BY <3>1, <3>2
  <2> QED
    BY <2>1, <2>2
<1>7. reading' = {q \in Fwd!Streams : goes'[q] \in Reads}
  BY <1>2, <1>4, <1>5
<1>8. connected' <=> \E q \in Fwd!Streams : goes'[q] \in Shows
  <2>1. state \in Shows <=> \E q \in Fwd!Streams : goes'[q] \in Shows
    BY <1>2, <1>4, <1>5
  <2> QED
    BY <2>1, Zenon
<1>9. Fwd!TypeOK'
  BY <1>1, <1>7 DEF ForwardInv, Fwd!TypeOK, Moves
<1>10. /\ BeforeStop' /\ starting' \subseteq 1..streams'
       /\ \A q \in Fwd!Streams : goes'[q] # "none" => q <= streams'
  BY <1>2 DEF ForwardInv, BeforeStop, Moves
<1>11. \A q \in Fwd!Streams : Dials(q)' =>
            q = 1 /\ streams' = 1 /\ stream' = 1 /\ path' \in {"ready", "waiting"}
  BY <1>2, <1>5, <1>6 DEF Dials, Moves
<1> QED
  BY <1>4, <1>7, <1>8, <1>9, <1>10, <1>11, Zenon DEF ForwardInv

(* One that stays where it is, when the process dies or looks at the reader.*)
LEMMA StayKeeps ==
    ASSUME ForwardInv,
           UNCHANGED <<protocol, reconnect, path, closing, streams, starting, stream, ctxDone,
                       goes, reader, connected, reconnects, reading>>,
           told' \subseteq Fwd!Streams, dead' \in BOOLEAN
    PROVE  ForwardInv'
  BY DEF ForwardInv, Fwd!TypeOK, BeforeStop, Dials, Reads, Shows, Fwd!IsSRT

(* The steps of a goroutine are of these kinds.                            *)
LEMMA GoroutineKeeps ==
    ASSUME ForwardInv, NEW s \in Fwd!Streams,
           \/ Fwd!Top(s) \/ Fwd!DialSucceeds(s) \/ Fwd!AddReader(s) \/ Fwd!ShowConnected(s)
           \/ Fwd!DialFails(s) \/ Fwd!FromStreamFails(s) \/ Fwd!HandleNil(s) \/ Fwd!ConnFails(s)
           \/ Fwd!ContextDone(s) \/ Fwd!RunInnerReturns(s) \/ Fwd!Failed(s) \/ Fwd!SleepEnds(s)
    PROVE  ForwardInv'
<1> USE DEF Fwd!At, Fwd!Goto, Fwd!Others, Fwd!confVars, Fwd!pathVars
<1>1. /\ goes[s] \in Fwd!States /\ reader \in Fwd!Streams \union {None}
      /\ stream \in Fwd!Streams \union {None} /\ told \subseteq Fwd!Streams
      /\ reconnects \in 0..MaxReconnects /\ ctxDone \in BOOLEAN /\ dead \in BOOLEAN
      /\ MaxReconnects \in Nat /\ reconnect \in BOOLEAN /\ connected \in BOOLEAN
  BY BoundsAssumption DEF ForwardInv, Fwd!TypeOK
<1>2. goes[s] # "none" => /\ reading = IF goes[s] \in Reads THEN {s} ELSE {}
                          /\ connected <=> goes[s] \in Shows
  BY OneDials, Zenon
<1>3. Dials(s) => s = 1 /\ stream = 1
  BY DEF ForwardInv
<1>4. CASE Fwd!Top(s)
  <2>1. goes[s] = "top" /\ UNCHANGED <<connected, reading>>
    BY <1>4 DEF Fwd!Top
  <2>2. reading = {} /\ connected = FALSE
    BY <1>1, <1>2, <2>1, Zenon DEF Reads, Shows
  <2>3. CASE goes' = goes
    <3>1. UNCHANGED <<goes, reader>> /\ dead' \in BOOLEAN
      <4>1. \A state : goes # [goes EXCEPT ![s] = state] \/ goes[s] = state
        BY DEF ForwardInv, Fwd!TypeOK
      <4> QED
        BY <1>1, <1>4, <2>1, <2>3, <4>1, Zenon DEF Fwd!Top, Fwd!IsSRT
    <3> QED
      BY <1>1, <1>4, <3>1, StayKeeps DEF Fwd!Top
  <2>4. CASE \E state \in {"ended", "refused"} : goes' = [goes EXCEPT ![s] = state]
    <3>1. PICK state \in {"ended", "refused"} : goes' = [goes EXCEPT ![s] = state]
      BY <2>4, Zenon
    <3>2. Moves(s, state)
      BY <1>1, <1>4, <2>1, <3>1, Zenon DEF Fwd!Top, Moves, Fwd!States
    <3>3. state \notin Live /\ state \notin Reads /\ state \notin Shows
      BY <3>1 DEF Live, Reads, Shows
    <3> QED
      BY <2>1, <2>2, <3>2, <3>3, MoveKeeps, Zenon
  <2>5. CASE goes' = [goes EXCEPT ![s] = "dialing"] /\ ~ctxDone
    <3>1. Moves(s, "dialing")
      BY <1>1, <1>4, <2>1, <2>5, Zenon DEF Fwd!Top, Moves, Fwd!States
    <3>2. "dialing" \notin Reads /\ "dialing" \notin Shows
      BY DEF Reads, Shows
    <3> QED
      BY <2>1, <2>2, <2>5, <3>1, <3>2, MoveKeeps, Zenon
  <2> QED
    BY <1>1, <1>4, <2>3, <2>4, <2>5 DEF Fwd!Top, Fwd!IsSRT
<1>5. CASE Fwd!DialSucceeds(s)
  <2>1. Moves(s, "connected") /\ Dials(s) /\ reading' = reading /\ connected' = TRUE
    BY <1>1, <1>5 DEF Fwd!DialSucceeds, Moves, Fwd!States, Dials, Live
  <2>2. reading = {} /\ "connected" \notin Reads /\ "connected" \in Shows
    BY <1>2, <1>5 DEF Fwd!DialSucceeds, Reads, Shows
  <2> QED
    BY <2>1, <2>2, MoveKeeps, Zenon
<1>6. CASE Fwd!AddReader(s)
  <2>1. Dials(s) /\ goes[s] # "none" /\ goes[s] \notin Reads /\ stream = s /\ stream # None
    BY <1>3, <1>6, BoundsAssumption
       DEF Fwd!AddReader, Dials, Live, Reads, Fwd!IsSRT, Fwd!Streams
  <2> DEFINE state == IF Fwd!IsSRT THEN "reading" ELSE "added"
  <2>2. /\ Moves(s, state)
        /\ reading' = reading \union {s} /\ connected' = connected
    BY <1>1, <1>6, <2>1 DEF Fwd!AddReader, Moves, Fwd!States
  <2>3. reading' = {s}
    BY <1>2, <2>1, <2>2
  <2>4. /\ state \in Reads
        /\ goes[s] \in Shows <=> state \in Shows
    BY <1>6 DEF Fwd!AddReader, Reads, Shows
  <2>5. connected' <=> state \in Shows
    BY <1>2, <2>1, <2>2, <2>4, Zenon
  <2>6. connected' \in BOOLEAN
    BY <1>1, <2>2
  <2> HIDE DEF state
  <2> QED
    BY <2>1, <2>2, <2>3, <2>4, <2>5, <2>6, MoveKeeps, Zenon
<1>7. CASE Fwd!ShowConnected(s)
  <2>1. Moves(s, "reading") /\ Dials(s) /\ reading' = reading /\ connected' = TRUE
    BY <1>1, <1>7 DEF Fwd!ShowConnected, Moves, Fwd!States, Dials, Live
  <2>2. ~Fwd!IsSRT
    BY <1>7 DEF Fwd!ShowConnected
  <2>3. reading = {s} /\ "reading" \in Reads /\ "reading" \in Shows
    BY <1>2, <1>7, <2>2 DEF Fwd!ShowConnected, Reads, Shows
  <2> QED
    BY <2>1, <2>3, MoveKeeps, Zenon
<1>8. CASE Fwd!DialFails(s)
  <2>1. Moves(s, "failed") /\ goes[s] \in {"dialing", "refused", "top"}
        /\ UNCHANGED <<reading, connected>>
    BY <1>1, <1>8 DEF Fwd!DialFails, Moves, Fwd!States
  <2>2. reading = {} /\ ~connected
    BY <1>2, <2>1 DEF Reads, Shows
  <2>3. "failed" \notin Live /\ "failed" \notin Reads /\ "failed" \notin Shows
    BY DEF Live, Reads, Shows
  <2>4. connected' \in BOOLEAN /\ (connected' <=> "failed" \in Shows)
    BY <1>1, <2>1, <2>2, <2>3, Zenon
  <2> QED
    BY <2>1, <2>2, <2>3, <2>4, MoveKeeps, Zenon
<1>9. CASE Fwd!FromStreamFails(s)
  <2>1. Moves(s, "failing") /\ Dials(s) /\ goes[s] = "connected"
        /\ UNCHANGED <<reading, connected>>
    BY <1>1, <1>9 DEF Fwd!FromStreamFails, Moves, Fwd!States, Dials, Live
  <2>2. Fwd!IsSRT
    BY <1>9 DEF Fwd!FromStreamFails
  <2>3. reading = {} /\ connected /\ "failing" \notin Reads /\ "failing" \in Shows
    BY <1>2, <2>1, <2>2 DEF Reads, Shows
  <2>4. connected' \in BOOLEAN /\ (connected' <=> "failing" \in Shows)
    BY <1>1, <2>1, <2>3, Zenon
  <2> QED
    BY <2>1, <2>3, <2>4, MoveKeeps, Zenon
<1>10. CASE Fwd!HandleNil(s)
  BY <1>1, <1>10, StayKeeps DEF Fwd!HandleNil
<1>11. CASE Fwd!ConnFails(s) \/ Fwd!ContextDone(s)
  <2>1. PICK state \in {"failing", "finishing"} : goes[s] = "reading" /\ Fwd!Leave(s, state)
    BY <1>11 DEF Fwd!ConnFails, Fwd!ContextDone
  <2>2. Moves(s, state) /\ Dials(s)
    BY <1>1, <2>1 DEF Fwd!Leave, Moves, Fwd!States, Dials, Live
  <2>3. reading = {s} /\ connected = TRUE
    BY <1>1, <1>2, <2>1, Zenon DEF Reads, Shows
  <2>4. CASE Fwd!IsSRT
    <3>1. reading' = {} /\ connected' = connected /\ state \notin Reads /\ state \in Shows
      BY <2>1, <2>3, <2>4 DEF Fwd!Leave, Fwd!RemoveReader, Reads, Shows
    <3> QED
      BY <2>2, <2>3, <3>1, MoveKeeps, Zenon
  <2>5. CASE ~Fwd!IsSRT
    <3>1. reading' = {s} /\ connected' = FALSE /\ state \in Reads /\ state \notin Shows
      BY <2>1, <2>3, <2>5 DEF Fwd!Leave, Fwd!Disconnect, Reads, Shows
    <3> QED
      BY <2>2, <3>1, MoveKeeps, Zenon
  <2> QED
    BY <2>4, <2>5
<1>12. CASE Fwd!RunInnerReturns(s)
  <2>1. PICK state \in {"failed", "top", "ended"} : goes' = [goes EXCEPT ![s] = state]
    BY <1>12 DEF Fwd!RunInnerReturns
  <2>2. Moves(s, state) /\ goes[s] \in {"failing", "finishing"}
    BY <1>1, <1>12, <2>1 DEF Fwd!RunInnerReturns, Moves, Fwd!States
  <2>3. state \notin Live /\ state \notin Reads /\ state \notin Shows
    BY DEF Live, Reads, Shows
  <2>4. CASE Fwd!IsSRT
    <3>1. reading = {}
      BY <1>2, <2>2, <2>4 DEF Reads
    <3>2. reading' = {} /\ connected' = FALSE
      BY <1>12, <2>4, <3>1 DEF Fwd!RunInnerReturns, Fwd!Disconnect
    <3> QED
      BY <2>2, <2>3, <3>2, MoveKeeps, Zenon
  <2>5. CASE ~Fwd!IsSRT
    <3>1. reading = {s} /\ connected = FALSE
      <4>1. reading = {s} /\ goes[s] \notin Shows
        BY <1>2, <2>2, <2>5 DEF Reads, Shows
      <4> QED
        BY <1>1, <1>2, <2>2, <4>1, Zenon
    <3>2. reading' = {} /\ connected' = FALSE
      BY <1>12, <2>5, <3>1 DEF Fwd!RunInnerReturns, Fwd!RemoveReader
    <3> QED
      BY <2>2, <2>3, <3>2, MoveKeeps, Zenon
  <2> QED
    BY <2>4, <2>5
<1>13. CASE Fwd!Failed(s)
  <2>1. PICK state \in {"ended", "sleeping"} : goes' = [goes EXCEPT ![s] = state]
    BY <1>1, <1>13 DEF Fwd!Failed
  <2>2. reconnects' \in 0..MaxReconnects
    BY <1>1, <1>13 DEF Fwd!Failed
  <2>3. Moves(s, state) /\ goes[s] = "failed" /\ reading' = reading /\ connected' = FALSE
    BY <1>1, <1>13, <2>1, <2>2 DEF Fwd!Failed, Moves, Fwd!States
  <2>4. reading = {} /\ state \notin Live /\ state \notin Reads /\ state \notin Shows
    BY <1>2, <2>3 DEF Live, Reads, Shows
  <2> QED
    BY <2>3, <2>4, MoveKeeps, Zenon
<1>14. CASE Fwd!SleepEnds(s)
  <2>1. PICK state \in {"top", "ended"} : goes' = [goes EXCEPT ![s] = state]
    BY <1>14 DEF Fwd!SleepEnds
  <2>2. reconnects' \in 0..MaxReconnects
    BY <1>1, <1>14 DEF Fwd!SleepEnds
  <2>3. Moves(s, state) /\ goes[s] = "sleeping" /\ UNCHANGED <<reading, connected>>
    BY <1>1, <1>14, <2>1, <2>2 DEF Fwd!SleepEnds, Moves, Fwd!States
  <2>4. reading = {} /\ goes[s] \notin Shows
        /\ state \notin Live /\ state \notin Reads /\ state \notin Shows
    BY <1>2, <2>3 DEF Live, Reads, Shows
  <2>5. connected' \in BOOLEAN /\ (connected' <=> state \in Shows)
    BY <1>1, <1>2, <2>3, <2>4, Zenon
  <2> QED
    BY <2>3, <2>4, <2>5, MoveKeeps, Zenon
<1> QED
  BY <1>4, <1>5, <1>6, <1>7, <1>8, <1>9, <1>10, <1>11, <1>12, <1>13, <1>14

(* No step of the forwarder breaks it.                                     *)
LEMMA ForwardKeeps == ASSUME ForwardInv, Fwd!Next PROVE ForwardInv'
  BY PathKeeps, StartKeeps, GoroutineKeeps DEF Fwd!Next

(* What is forwarded is the current stream.                                *)
LEMMA ForwardedIsCurrent == ASSUME ForwardInv PROVE Fwd!ForwardsCurrent
<1>1. \A s \in Fwd!Streams : Dials(s) => s = streams /\ path \in {"ready", "waiting"}
  BY DEF ForwardInv
<1>2. Reads \subseteq Live /\ Shows \subseteq Live
  BY DEF Reads, Shows, Live
<1>3. \A s \in Fwd!Streams :
          goes[s] \in Reads \union Shows => s = streams /\ path \in {"ready", "waiting"}
  BY <1>1, <1>2 DEF Dials
<1>4. reading \subseteq {streams} /\ (reading # {} => path \in {"ready", "waiting"})
  BY <1>3 DEF ForwardInv
<1>5. connected => path \in {"ready", "waiting"}
  BY <1>3, Zenon DEF ForwardInv
<1>6. CASE Fwd!IsSRT
  <2>1. Reads \subseteq Shows
    BY <1>6 DEF Reads, Shows
  <2>2. reading # {} => \E s \in Fwd!Streams : goes[s] \in Shows
    BY <2>1 DEF ForwardInv
  <2>3. reading # {} => connected
    BY <2>2, Zenon DEF ForwardInv
  <2> QED
    BY <1>4, <1>5, <1>6, <2>3, Zenon DEF Fwd!ForwardsCurrent
<1>7. CASE ~Fwd!IsSRT
  <2>1. Shows \subseteq Reads
    BY <1>7 DEF Reads, Shows
  <2>2. connected => \E s \in Fwd!Streams : goes[s] \in Shows
    BY Zenon DEF ForwardInv
  <2>3. (\E s \in Fwd!Streams : goes[s] \in Shows) => reading # {}
    BY <2>1 DEF ForwardInv
  <2> QED
    BY <1>4, <1>5, <1>7, <2>2, <2>3, Zenon DEF Fwd!ForwardsCurrent
<1> QED
  BY <1>6, <1>7

-----------------------------------------------------------------------------
(* The recorder. Hooks.                                                    *)

(* Hooks are a sequence of calls, each the first or the second of a file.  *)
IsSeq(h) == \E S : h \in Seq(S)
Created(n) == [hook |-> "create", name |-> n]
Completed(n) == [hook |-> "complete", name |-> n]

(* The j-th hook completes the file that the i-th has made.                *)
Completes(h, i, j) ==
    j = i + 1 /\ h[i].hook = "create" /\ h[j].hook = "complete" /\ h[i].name = h[j].name

(* Every second hook of a file follows its first one; every file is        *)
(* complete; every one is but, at most, the last.                          *)
Paired(h) == \A j \in DOMAIN h : h[j].hook = "complete" => \E i \in DOMAIN h : Completes(h, i, j)
AllDone(h) == \A i \in DOMAIN h : h[i].hook = "create" => \E j \in DOMAIN h : Completes(h, i, j)
LastOpen(h) ==
    \A i \in DOMAIN h : h[i].hook = "create" =>
        i = Len(h) \/ \E j \in DOMAIN h : Completes(h, i, j)

(* A hook more leaves those before it where they are.                      *)
LEMMA HookMore ==
    ASSUME NEW h, IsSeq(h), NEW x
    PROVE  /\ IsSeq(Append(h, x))
           /\ Len(h) \in Nat /\ DOMAIN h = 1..Len(h)
           /\ Len(Append(h, x)) = Len(h) + 1
           /\ DOMAIN Append(h, x) = 1..(Len(h) + 1)
           /\ \A i \in 1..Len(h) : Append(h, x)[i] = h[i]
           /\ Append(h, x)[Len(h) + 1] = x
<1>1. PICK S : h \in Seq(S)
  BY DEF IsSeq
<1> DEFINE T == S \union {x}
<1>2. h \in Seq(T)
  <2>1. DOMAIN h = 1..Len(h) /\ Len(h) \in Nat /\ \A i \in 1..Len(h) : h[i] \in T
    BY <1>1
  <2>2. h = [i \in 1..Len(h) |-> h[i]]
    BY <1>1
  <2> QED
    BY <2>1, <2>2
<1>3. Append(h, x) \in Seq(T)
  BY <1>2
<1> HIDE DEF T
<1>4. x \in T
  BY DEF T
<1> QED
  BY <1>2, <1>3, <1>4 DEF IsSeq

(* What completes what is not changed by it.                               *)
LEMMA CompletesMore ==
    ASSUME NEW h, IsSeq(h), NEW x, NEW i \in 1..Len(h), NEW j \in 1..Len(h)
    PROVE  Completes(Append(h, x), i, j) <=> Completes(h, i, j)
BY HookMore DEF Completes

(* A file is made when all before it are complete.                         *)
LEMMA HookCreates ==
    ASSUME NEW h, IsSeq(h), Paired(h), NEW n
    PROVE  LET g == Append(h, Created(n)) IN
           /\ Paired(g)
           /\ AllDone(h) => LastOpen(g)
<1> DEFINE g == Append(h, Created(n))
<1>1. /\ Len(h) \in Nat /\ DOMAIN h = 1..Len(h)
      /\ Len(g) = Len(h) + 1 /\ DOMAIN g = 1..(Len(h) + 1)
      /\ \A i \in 1..Len(h) : g[i] = h[i]
      /\ g[Len(h) + 1] = Created(n)
  BY HookMore
<1>2. \A i, j \in 1..Len(h) : Completes(g, i, j) <=> Completes(h, i, j)
  BY CompletesMore
<1>3. Created(n).hook = "create"
  BY DEF Created
<1> HIDE DEF g
<1>4. Paired(g)
  <2> SUFFICES ASSUME NEW j \in DOMAIN g, g[j].hook = "complete"
               PROVE  \E i \in DOMAIN g : Completes(g, i, j)
    BY DEF Paired
  <2>1. j \in 1..Len(h)
    BY <1>1, <1>3
  <2>2. PICK i \in DOMAIN h : Completes(h, i, j)
    BY <1>1, <2>1 DEF Paired
  <2> QED
    BY <1>1, <1>2, <2>1, <2>2
<1>5. ASSUME AllDone(h) PROVE LastOpen(g)
  <2> SUFFICES ASSUME NEW i \in DOMAIN g, g[i].hook = "create", i # Len(g)
               PROVE  \E j \in DOMAIN g : Completes(g, i, j)
    BY DEF LastOpen
  <2>1. i \in 1..Len(h)
    BY <1>1
  <2>2. PICK j \in DOMAIN h : Completes(h, i, j)
    BY <1>1, <1>5, <2>1 DEF AllDone
  <2> QED
    BY <1>1, <1>2, <2>1, <2>2
<1> QED
  BY <1>4, <1>5 DEF g

(* It is completed when it was made last.                                  *)
LEMMA HookCompletes ==
    ASSUME NEW h, IsSeq(h), Paired(h), NEW n, h # <<>>, h[Len(h)] = Created(n)
    PROVE  LET g == Append(h, Completed(n)) IN
           /\ Paired(g)
           /\ LastOpen(h) => AllDone(g)
<1> DEFINE g == Append(h, Completed(n))
<1>1. /\ Len(h) \in Nat /\ DOMAIN h = 1..Len(h)
      /\ Len(g) = Len(h) + 1 /\ DOMAIN g = 1..(Len(h) + 1)
      /\ \A i \in 1..Len(h) : g[i] = h[i]
      /\ g[Len(h) + 1] = Completed(n)
  BY HookMore
<1>2. \A i, j \in 1..Len(h) : Completes(g, i, j) <=> Completes(h, i, j)
  BY CompletesMore
<1>3. Completed(n).hook = "complete"
  BY DEF Completed
<1>4. Len(h) \in 1..Len(h)
  <2>1. PICK S : h \in Seq(S)
    BY DEF IsSeq
  <2>2. Len(h) # 0
    BY <2>1
  <2> QED
    BY <1>1, <2>2
<1> HIDE DEF g
<1>5. Completes(g, Len(h), Len(h) + 1)
  BY <1>1, <1>4 DEF Completes, Created, Completed
<1>6. Paired(g)
  <2> SUFFICES ASSUME NEW j \in DOMAIN g, g[j].hook = "complete"
               PROVE  \E i \in DOMAIN g : Completes(g, i, j)
    BY DEF Paired
  <2>1. CASE j \in 1..Len(h)
    <3>1. PICK i \in DOMAIN h : Completes(h, i, j)
      BY <1>1, <2>1 DEF Paired
    <3> QED
      BY <1>1, <1>2, <2>1, <3>1
  <2>2. CASE j = Len(h) + 1
    BY <1>1, <1>4, <1>5, <2>2
  <2> QED
    BY <1>1, <2>1, <2>2
<1>7. ASSUME LastOpen(h) PROVE AllDone(g)
  <2> SUFFICES ASSUME NEW i \in DOMAIN g, g[i].hook = "create"
               PROVE  \E j \in DOMAIN g : Completes(g, i, j)
    BY DEF AllDone
  <2>1. i \in 1..Len(h)
    BY <1>1, <1>3
  <2>2. CASE i = Len(h)
    BY <1>1, <1>5, <2>2
  <2>3. CASE i # Len(h)
    <3>1. PICK j \in DOMAIN h : Completes(h, i, j)
      BY <1>1, <1>7, <2>1, <2>3 DEF LastOpen
    <3> QED
      BY <1>1, <1>2, <2>1, <3>1
  <2> QED
    BY <2>2, <2>3
<1> QED
  BY <1>6, <1>7 DEF g

-----------------------------------------------------------------------------
(* What every step of a format keeps. A segment has a name, and its file a *)
(* state.                                                                  *)
IsSegment(s) == {"fi", "startNTP"} \subseteq DOMAIN s /\ s.fi \in {"none", "open", "closed"}
(* The name of the file of the segment of g.                               *)
Name(g) == Rec!Encode(g.seg.startNTP)

(* What the state of either format has.                                    *)
Fields(g) == {"seg", "hooks", "disk", "err"} \subseteq DOMAIN g /\ g.err \in BOOLEAN

(* An open file is the last that was made, and what is on the disk was     *)
(* made.                                                                   *)
Kept(g) ==
    /\ Fields(g)
    /\ IsSeq(g.hooks) /\ Paired(g.hooks)
    /\ g.seg = Rec!NoSegment \/ IsSegment(g.seg)
    /\ g.seg.fi = "open" => g.hooks # <<>> /\ g.hooks[Len(g.hooks)] = Created(Name(g))
    /\ \A n \in DOMAIN g.disk :
          n.zone = Zone /\ \E i \in DOMAIN g.hooks : g.hooks[i] = Created(n)

(* And as long as the disk does not fail: every file but an open one is    *)
(* complete.                                                               *)
Sound(g) ==
    /\ g.seg.fi # "closed"
    /\ IF g.seg.fi = "open" THEN LastOpen(g.hooks) ELSE AllDone(g.hooks)

(* A step that opens and closes nothing.                                   *)
Quiet(f0, g) ==
    /\ Fields(g)
    /\ g.hooks = f0.hooks /\ DOMAIN g.disk = DOMAIN f0.disk
    /\ IF f0.seg = Rec!NoSegment
       THEN g.seg = Rec!NoSegment
       ELSE IsSegment(g.seg) /\ g.seg.fi = f0.seg.fi /\ g.seg.startNTP = f0.seg.startNTP

(* The formats and the recorder mean the same by a name and by no segment. *)
LEMMA SameStore ==
    /\ \A n : Rec!FMP4!Encode(n) = Rec!Encode(n) /\ Rec!TS!Encode(n) = Rec!Encode(n)
    /\ Rec!FMP4!NoSegment = Rec!NoSegment /\ Rec!TS!NoSegment = Rec!NoSegment
BY DEF Rec!Encode, Rec!FMP4!Encode, Rec!TS!Encode, Rec!Hour, Rec!FMP4!Hour, Rec!TS!Hour,
       Rec!NoSegment, Rec!FMP4!NoSegment, Rec!TS!NoSegment

(* No segment has a state that no segment with a file has.                 *)
LEMMA SegmentFi ==
    /\ Rec!NoSegment.fi = "nil"
    /\ \A s : IsSegment(s) => s # Rec!NoSegment
BY DEF Rec!NoSegment, IsSegment

(* What is kept is kept by a step that opens and closes nothing.           *)
LEMMA QuietKeeps ==
    ASSUME NEW f0, NEW g, Kept(f0), Quiet(f0, g)
    PROVE  Kept(g) /\ (Sound(f0) => Sound(g))
<1>1. g.seg.fi = f0.seg.fi
  BY SegmentFi DEF Quiet
<1>2. f0.seg.fi = "open" => Name(g) = Name(f0)
  BY SegmentFi DEF Quiet, Name
<1>3. Sound(f0) => Sound(g)
  BY <1>1 DEF Sound, Quiet
<1>4. g.seg = Rec!NoSegment \/ IsSegment(g.seg)
  BY DEF Quiet
<1> QED
  BY <1>1, <1>2, <1>3, <1>4 DEF Kept, Quiet

(* A file is made for the segment.                                         *)
LEMMA FileIsMade ==
    ASSUME NEW f0, Kept(f0), IsSegment(f0.seg), f0.seg.fi = "none", NEW g, Fields(g),
           DOMAIN g.disk = DOMAIN f0.disk \union {Name(f0)},
           g.hooks = Append(f0.hooks, Created(Name(f0))),
           IsSegment(g.seg), g.seg.startNTP = f0.seg.startNTP, g.seg.fi # "closed"
    PROVE  Kept(g) /\ (Sound(f0) /\ g.seg.fi = "open" => Sound(g))
<1> DEFINE name == Name(f0)
<1>1. IsSeq(f0.hooks) /\ Paired(f0.hooks)
  BY DEF Kept
<1>2. /\ IsSeq(g.hooks) /\ Paired(g.hooks)
      /\ AllDone(f0.hooks) => LastOpen(g.hooks)
      /\ Len(g.hooks) = Len(f0.hooks) + 1 /\ DOMAIN g.hooks = 1..(Len(f0.hooks) + 1)
      /\ DOMAIN f0.hooks = 1..Len(f0.hooks) /\ Len(f0.hooks) \in Nat
      /\ \A i \in DOMAIN f0.hooks : g.hooks[i] = f0.hooks[i]
      /\ g.hooks[Len(g.hooks)] = Created(name)
  BY <1>1, HookMore, HookCreates
<1>3. \A i \in DOMAIN f0.hooks : i \in DOMAIN g.hooks
  BY <1>2
<1>4. Len(g.hooks) \in DOMAIN g.hooks /\ g.hooks # <<>>
  <2>1. \A h : Len(h) # 0 => h # <<>>
    OBVIOUS
  <2>2. Len(g.hooks) \in DOMAIN g.hooks /\ Len(g.hooks) # 0
    BY <1>2
  <2> QED
    BY <2>1, <2>2
<1>5. name.zone = Zone
  BY DEF Rec!Encode, Name
<1>6. Name(g) = name
  BY DEF Name
<1> HIDE DEF name
<1>7. \A m \in DOMAIN g.disk : m.zone = Zone /\ \E i \in DOMAIN g.hooks : g.hooks[i] = Created(m)
  BY <1>2, <1>3, <1>4, <1>5 DEF Kept, name
<1>8. Kept(g)
  BY <1>2, <1>4, <1>6, <1>7 DEF Kept
<1>9. Sound(f0) /\ g.seg.fi = "open" => Sound(g)
  BY <1>2 DEF Sound
<1> QED
  BY <1>8, <1>9

(* It is closed, and complete when it could be closed.                     *)
LEMMA FileIsClosed ==
    ASSUME NEW f0, Kept(f0), IsSegment(f0.seg), NEW ok, NEW g, Fields(g),
           DOMAIN g.disk = DOMAIN f0.disk,
           ok => f0.seg.fi = "open",
           g.hooks = IF ok THEN Append(f0.hooks, Completed(Name(f0))) ELSE f0.hooks,
           IsSegment(g.seg), g.seg.fi = "closed"
    PROVE  Kept(g) /\ (Sound(f0) /\ ok => AllDone(g.hooks))
<1>1. Fields(f0) /\ IsSeq(f0.hooks) /\ Paired(f0.hooks)
  BY DEF Kept
<1>2. CASE ~ok
  BY <1>1, <1>2 DEF Kept
<1>3. CASE ok
  <2>1. f0.hooks # <<>> /\ f0.hooks[Len(f0.hooks)] = Created(Name(f0))
    BY <1>3 DEF Kept
  <2>2. LET h == Append(f0.hooks, Completed(Name(f0))) IN
        /\ IsSeq(h) /\ Paired(h) /\ (LastOpen(f0.hooks) => AllDone(h))
        /\ \A i \in DOMAIN f0.hooks : i \in DOMAIN h /\ h[i] = f0.hooks[i]
    BY <1>1, <2>1, HookMore, HookCompletes
  <2>3. Kept(g)
    BY <1>1, <1>3, <2>2 DEF Kept
  <2>4. Sound(f0) => LastOpen(f0.hooks)
    BY <1>3 DEF Sound
  <2> QED
    BY <1>3, <2>2, <2>3, <2>4
<1> QED
  BY <1>2, <1>3

-----------------------------------------------------------------------------
(* Steps of the fMP4 format that are quiet.                                *)
LEMMA QuietFMP4 ==
    ASSUME NEW f0, Kept(f0), NEW t, NEW s, NEW x, NEW y
    PROVE  /\ Quiet(f0, f0)
           /\ Quiet(f0, Rec!FMP4!HoldBack(f0, t, s))
           /\ Quiet(f0, [f0 EXCEPT !.tracks[t] = x])
           /\ Quiet(f0, [f0 EXCEPT !.err = TRUE])
           /\ Quiet(f0, [f0 EXCEPT !.err = FALSE])
           /\ Quiet(f0, [f0 EXCEPT !.err = @ \/ y])
<1>1. Fields(f0) /\ (f0.seg = Rec!NoSegment \/ IsSegment(f0.seg))
  BY DEF Kept
<1>2. ASSUME NEW g, Fields(g), g.hooks = f0.hooks, g.disk = f0.disk, g.seg = f0.seg
      PROVE  Quiet(f0, g)
  BY <1>1, <1>2 DEF Quiet
<1>3. Quiet(f0, f0)
  BY <1>1, <1>2
<1>4. Quiet(f0, Rec!FMP4!HoldBack(f0, t, s))
  <2> DEFINE g == Rec!FMP4!HoldBack(f0, t, s)
  <2>1. Fields(g) /\ g.hooks = f0.hooks /\ g.disk = f0.disk /\ g.seg = f0.seg
    BY <1>1 DEF Rec!FMP4!HoldBack, Fields
  <2> QED
    BY <1>2, <2>1
<1>5. Quiet(f0, [f0 EXCEPT !.tracks[t] = x])
  <2> DEFINE g == [f0 EXCEPT !.tracks[t] = x]
  <2>1. Fields(g) /\ g.hooks = f0.hooks /\ g.disk = f0.disk /\ g.seg = f0.seg
    BY <1>1 DEF Fields
  <2> QED
    BY <1>2, <2>1, Zenon
<1>6. ASSUME NEW b \in BOOLEAN PROVE Quiet(f0, [f0 EXCEPT !.err = b])
  <2> DEFINE g == [f0 EXCEPT !.err = b]
  <2>1. Fields(g) /\ g.hooks = f0.hooks /\ g.disk = f0.disk /\ g.seg = f0.seg
    BY <1>1 DEF Fields
  <2> QED
    BY <1>2, <2>1, Zenon
<1>7. Quiet(f0, [f0 EXCEPT !.err = @ \/ y])
  <2>1. (f0.err \/ y) \in BOOLEAN
    OBVIOUS
  <2>2. Quiet(f0, [f0 EXCEPT !.err = f0.err \/ y])
    BY <1>6, <2>1, Zenon
  <2> QED
    BY <2>2
<1> QED
  BY <1>3, <1>4, <1>5, <1>6, <1>7, Zenon

(* A sample goes to a part of the segment.                                 *)
LEMMA QuietInSegment ==
    ASSUME NEW f0, Fields(f0), IsSegment(f0.seg), NEW t, NEW s, NEW d, NEW x
    PROVE  /\ Quiet(f0, [f0 EXCEPT !.seg.endDTS = x])
           /\ Quiet(f0, [f0 EXCEPT !.seg.part = x])
           /\ Quiet(f0, Rec!FMP4!OpenPart(f0, d))
           /\ Quiet(f0, Rec!FMP4!PartWrite(f0, t, s))
<1>1. f0.seg # Rec!NoSegment
  BY SegmentFi
<1>2. ASSUME NEW g, Fields(g), g.hooks = f0.hooks, g.disk = f0.disk, IsSegment(g.seg),
             g.seg.fi = f0.seg.fi, g.seg.startNTP = f0.seg.startNTP
      PROVE  Quiet(f0, g)
  BY <1>1, <1>2 DEF Quiet
<1>3. ASSUME NEW y PROVE Quiet(f0, [f0 EXCEPT !.seg.endDTS = y])
  <2> DEFINE g == [f0 EXCEPT !.seg.endDTS = y]
  <2>1. Fields(g) /\ g.hooks = f0.hooks /\ g.disk = f0.disk /\ g.seg = [f0.seg EXCEPT !.endDTS = y]
    BY DEF Fields
  <2>2. IsSegment(g.seg) /\ g.seg.fi = f0.seg.fi /\ g.seg.startNTP = f0.seg.startNTP
    BY <2>1 DEF IsSegment
  <2> QED
    BY <1>2, <2>1, <2>2, Zenon
<1>4. ASSUME NEW y PROVE Quiet(f0, [f0 EXCEPT !.seg.part = y])
  <2> DEFINE g == [f0 EXCEPT !.seg.part = y]
  <2>1. Fields(g) /\ g.hooks = f0.hooks /\ g.disk = f0.disk /\ g.seg = [f0.seg EXCEPT !.part = y]
    BY DEF Fields
  <2>2. IsSegment(g.seg) /\ g.seg.fi = f0.seg.fi /\ g.seg.startNTP = f0.seg.startNTP
    BY <2>1 DEF IsSegment
  <2> QED
    BY <1>2, <2>1, <2>2, Zenon
<1>5. Quiet(f0, f0) /\ Quiet(f0, [f0 EXCEPT !.err = TRUE])
  <2> DEFINE g == [f0 EXCEPT !.err = TRUE]
  <2>1. Fields(g) /\ g.hooks = f0.hooks /\ g.disk = f0.disk /\ g.seg = f0.seg
    BY DEF Fields
  <2> QED
    BY <1>2, <2>1, Zenon
<1>6. Quiet(f0, Rec!FMP4!OpenPart(f0, d))
  <2> DEFINE p == Rec!FMP4!NewPart(f0.seg, d)
             g == [f0 EXCEPT !.seg.part = p, !.seg.nextPart = @ + 1]
  <2>1. Fields(g) /\ g.hooks = f0.hooks /\ g.disk = f0.disk
        /\ g.seg = [f0.seg EXCEPT !.part = p, !.nextPart = @ + 1]
    BY DEF Fields
  <2>2. IsSegment(g.seg) /\ g.seg.fi = f0.seg.fi /\ g.seg.startNTP = f0.seg.startNTP
    BY <2>1, Zenon DEF IsSegment
  <2>3. Quiet(f0, g)
    BY <1>2, <2>1, <2>2, Zenon
  <2> QED
    BY <1>5, <2>3 DEF Rec!FMP4!OpenPart
<1>7. Quiet(f0, Rec!FMP4!PartWrite(f0, t, s))
  <2>1. PICK y : \/ Rec!FMP4!PartWrite(f0, t, s) = [f0 EXCEPT !.err = TRUE]
                 \/ Rec!FMP4!PartWrite(f0, t, s) = [f0 EXCEPT !.seg.part = y]
    BY Zenon DEF Rec!FMP4!PartWrite
  <2> QED
    BY <1>4, <1>5, <2>1, Zenon
<1> QED
  BY <1>3, <1>4, <1>6, <1>7

-----------------------------------------------------------------------------
(* Steps of the fMP4 format that make and complete files.                  *)
Keeps(f0, g) == Kept(g) /\ (Sound(f0) => Sound(g))

(* A new segment has no file yet.                                          *)
LEMMA NewSegmentFMP4 ==
    ASSUME NEW f0, Kept(f0), NEW d, NEW n
    PROVE  LET g == Rec!FMP4!NewSegment(f0, d, n) IN
           /\ Kept(g) /\ IsSegment(g.seg) /\ g.err = f0.err
           /\ AllDone(f0.hooks) => Sound(g)
<1> DEFINE g == Rec!FMP4!NewSegment(f0, d, n)
<1>1. /\ Fields(g) /\ g.hooks = f0.hooks /\ g.disk = f0.disk /\ g.err = f0.err
      /\ IsSegment(g.seg) /\ g.seg.fi = "none"
  BY DEF Kept, Fields, IsSegment, Rec!FMP4!NewSegment
<1> HIDE DEF g
<1>2. Kept(g) /\ (AllDone(f0.hooks) => Sound(g))
  BY <1>1 DEF Kept, Sound
<1> QED
  BY <1>1, <1>2 DEF g

(* The file is created, and open when its header could be written.         *)
LEMMA CreateFileKeeps ==
    ASSUME NEW f0, Kept(f0), IsSegment(f0.seg), f0.seg.fi = "none", NEW broken
    PROVE  LET g == Rec!FMP4!CreateFile(f0, broken) IN
           /\ Kept(g) /\ IsSegment(g.seg)
           /\ broken = {} => g.err = FALSE /\ g.seg.fi = "open" /\ (Sound(f0) => Sound(g))
<1> DEFINE g == Rec!FMP4!CreateFile(f0, broken)
           name == Rec!Encode(f0.seg.startNTP)
<1>1. CASE "create" \in broken
  <2>1. Quiet(f0, g)
    BY <1>1, QuietFMP4, Zenon DEF Rec!FMP4!CreateFile
  <2>2. IsSegment(g.seg)
    BY <2>1, SegmentFi DEF Quiet
  <2> QED
    BY <1>1, <2>1, <2>2, QuietKeeps
<1>2. CASE "create" \notin broken
  <2> DEFINE file == Rec!FMP4!writeInit(f0, "init" \notin broken)
  <2>1. /\ Fields(g)
        /\ g.disk = Rec!FMP4!Put(f0.disk, name, file)
        /\ g.hooks = Append(f0.hooks, Created(name))
        /\ g.err = ("init" \in broken)
        /\ g.seg = [f0.seg EXCEPT !.fi = IF "init" \in broken THEN "none" ELSE "open"]
    <3>1. Fields(f0)
      BY DEF Kept
    <3>2. Rec!FMP4!Encode(f0.seg.startNTP) = name
      BY SameStore
    <3> HIDE DEF name, file
    <3> QED
      BY <1>2, <3>1, <3>2 DEF Fields, Rec!FMP4!CreateFile, Created, file
  <2> HIDE DEF g, file
  <2>2. DOMAIN g.disk = DOMAIN f0.disk \union {Name(f0)}
    BY <2>1 DEF Rec!FMP4!Put, Name
  <2>3. /\ IsSegment(g.seg) /\ g.seg.startNTP = f0.seg.startNTP
        /\ g.seg.fi = IF "init" \in broken THEN "none" ELSE "open"
    BY <2>1 DEF IsSegment
  <2>4. Kept(g) /\ (Sound(f0) /\ g.seg.fi = "open" => Sound(g))
    BY <2>1, <2>2, <2>3, FileIsMade, Zenon DEF Name
  <2>5. ASSUME broken = {} PROVE g.err = FALSE /\ g.seg.fi = "open"
    <3>1. ("init" \in broken) = FALSE
      BY <2>5
    <3>2. g.err = FALSE
      BY <2>1, <3>1, Zenon
    <3> QED
      BY <2>3, <2>5, <3>2
  <2> QED
    BY <2>3, <2>4, <2>5, Zenon DEF g
<1> QED
  BY <1>1, <1>2, Zenon

(* A part is written to a file that is there already, or to nobody.        *)
LEMMA WritePartQuiet ==
    ASSUME NEW f0, Kept(f0), NEW broken
    PROVE  LET g == Rec!FMP4!WritePart(f0, broken) IN
           /\ Quiet(f0, g)
           /\ broken = {} /\ f0.err = FALSE /\ f0.seg.fi # "closed" => g.err = FALSE
<1> DEFINE g == Rec!FMP4!WritePart(f0, broken)
           name == Rec!Encode(f0.seg.startNTP)
           disk == Rec!FMP4!ChangeFile(f0.disk, name, LAMBDA file :
                      [file EXCEPT !.parts = Append(@, f0.seg.part.tracks)])
           stored == [f0 EXCEPT !.disk = disk]
<1>1. f0.err \in BOOLEAN /\ Fields(f0)
  BY DEF Kept, Fields
<1>2. Quiet(f0, f0) /\ Quiet(f0, [f0 EXCEPT !.err = TRUE])
  BY QuietFMP4, Zenon
<1>3. DOMAIN disk = DOMAIN f0.disk
  BY DEF Rec!FMP4!ChangeFile
<1> HIDE DEF disk
<1>4. Quiet(f0, stored) /\ stored.err = f0.err
  <2>1. Fields(stored) /\ stored.hooks = f0.hooks /\ stored.disk = disk /\ stored.seg = f0.seg
        /\ stored.err = f0.err
    BY <1>1 DEF Fields
  <2>2. f0.seg = Rec!NoSegment \/ IsSegment(f0.seg)
    BY DEF Kept
  <2> HIDE DEF stored
  <2> QED
    BY <1>3, <2>1, <2>2 DEF Quiet
<1>5. g = IF f0.err THEN f0
          ELSE IF "part" \in broken \/ f0.seg.fi = "closed" THEN [f0 EXCEPT !.err = TRUE]
          ELSE stored
  <2>1. Rec!FMP4!Encode(f0.seg.startNTP) = name
    BY SameStore
  <2> HIDE DEF name
  <2>2. CASE f0.err
    BY <2>2 DEF Rec!FMP4!WritePart
  <2>3. CASE ~f0.err /\ ("part" \in broken \/ f0.seg.fi = "closed")
    BY <2>3 DEF Rec!FMP4!WritePart
  <2>4. CASE ~f0.err /\ ~("part" \in broken \/ f0.seg.fi = "closed")
    BY <2>1, <2>4 DEF Rec!FMP4!WritePart, disk
  <2> QED
    BY <2>2, <2>3, <2>4
<1> HIDE DEF g, stored
<1> QED
  BY <1>1, <1>2, <1>4, <1>5 DEF g

(* As long as the disk works, and before any error.                        *)
Well(g, broken) == broken = {} /\ g.err = FALSE /\ Sound(g)

(* The part that ends is written, to a file that may have to be made.      *)
LEMMA CloseCurPartKeeps ==
    ASSUME NEW f0, Kept(f0), IsSegment(f0.seg), NEW broken
    PROVE  LET g == Rec!FMP4!closeCurPart(f0, broken) IN
           /\ Kept(g) /\ IsSegment(g.seg)
           /\ Well(f0, broken) => Well(g, broken)
<1> DEFINE made == IF f0.seg.fi = "none" THEN Rec!FMP4!CreateFile(f0, broken) ELSE f0
           g == Rec!FMP4!WritePart(made, broken)
<1>1. Kept(made) /\ IsSegment(made.seg) /\ (Well(f0, broken) => Well(made, broken))
  BY CreateFileKeeps, Zenon DEF Well
<1> HIDE DEF made
<1>2. Quiet(made, g) /\ (Well(made, broken) => g.err = FALSE)
  BY <1>1, WritePartQuiet, Zenon DEF Well, Sound
<1> HIDE DEF g
<1>3. Kept(g) /\ (Sound(made) => Sound(g))
  BY <1>1, <1>2, QuietKeeps
<1>4. IsSegment(g.seg)
  BY <1>1, <1>2, SegmentFi DEF Quiet
<1> QED
  BY <1>1, <1>2, <1>3, <1>4 DEF Well, g, made, Rec!FMP4!closeCurPart

(* A file that is closed is complete, unless the disk failed.              *)
LEMMA CloseFileKeeps ==
    ASSUME NEW f0, Kept(f0), IsSegment(f0.seg), NEW broken
    PROVE  LET g == Rec!FMP4!CloseFile(f0, broken) IN
           /\ Kept(g) /\ IsSegment(g.seg) /\ g.seg.fi # "open"
           /\ Well(f0, broken) => g.err = FALSE /\ AllDone(g.hooks)
<1> DEFINE g == Rec!FMP4!CloseFile(f0, broken)
           name == Rec!Encode(f0.seg.startNTP)
           duration == f0.seg.endDTS - f0.seg.startDTS
           noDuration == "duration" \in broken \/ f0.seg.fi = "closed"
           noClose == "close" \in broken \/ f0.seg.fi = "closed"
<1>1. CASE f0.seg.fi = "none"
  BY <1>1 DEF Rec!FMP4!CloseFile, Well, Sound
<1>2. CASE f0.seg.fi # "none"
  <2>1. Rec!FMP4!Encode(f0.seg.startNTP) = name
    BY SameStore
  <2>2. Fields(f0) /\ IsSeq(f0.hooks) /\ Paired(f0.hooks)
    BY DEF Kept
  <2>3. /\ Fields(g)
        /\ g.disk = IF noDuration THEN f0.disk
                    ELSE Rec!FMP4!writeDuration(f0.disk, name, duration)
        /\ g.hooks = IF noClose THEN f0.hooks ELSE Append(f0.hooks, Completed(name))
        /\ g.seg = [f0.seg EXCEPT !.fi = "closed"]
        /\ g.err = (f0.err \/ noDuration \/ noClose)
    <3> HIDE DEF name
    <3> QED
      BY <1>2, <2>1, <2>2, Zenon DEF Fields, Rec!FMP4!CloseFile, Completed
  <2> HIDE DEF g
  <2>4. IsSegment(g.seg) /\ g.seg.fi = "closed"
    BY <2>3 DEF IsSegment
  <2>5. DOMAIN g.disk = DOMAIN f0.disk
    BY <2>3 DEF Rec!FMP4!writeDuration, Rec!FMP4!ChangeFile
  <2>6. Kept(g) /\ (Sound(f0) /\ ~noClose => AllDone(g.hooks))
    BY <1>2, <2>2, <2>3, <2>4, <2>5, FileIsClosed DEF Name, IsSegment
  <2>7. ASSUME Well(f0, broken) PROVE g.err = FALSE /\ AllDone(g.hooks)
    <3>1. ~noDuration /\ ~noClose /\ f0.err = FALSE
      BY <2>7 DEF Well, Sound
    <3> QED
      BY <2>3, <2>6, <2>7, <3>1, Zenon DEF Well
  <2> QED
    BY <2>4, <2>6, <2>7, Zenon DEF g
<1> QED
  BY <1>1, <1>2, Zenon

(* The last part is written before.                                        *)
LEMMA SegmentCloseKeeps ==
    ASSUME NEW f0, Kept(f0), IsSegment(f0.seg), NEW broken
    PROVE  LET g == Rec!FMP4!SegmentClose(f0, broken) IN
           /\ Kept(g) /\ IsSegment(g.seg) /\ g.seg.fi # "open"
           /\ Well(f0, broken) => g.err = FALSE /\ AllDone(g.hooks)
<1> DEFINE parted == IF f0.seg.part # None THEN Rec!FMP4!closeCurPart(f0, broken) ELSE f0
<1>1. Kept(parted) /\ IsSegment(parted.seg) /\ (Well(f0, broken) => Well(parted, broken))
  BY CloseCurPartKeeps
<1> HIDE DEF parted
<1>2. LET g == Rec!FMP4!CloseFile(parted, broken) IN
      /\ Kept(g) /\ IsSegment(g.seg) /\ g.seg.fi # "open"
      /\ Well(parted, broken) => g.err = FALSE /\ AllDone(g.hooks)
  BY <1>1, CloseFileKeeps, Zenon
<1> QED
  BY <1>1, <1>2 DEF Rec!FMP4!SegmentClose, parted

(* A sample is written to the segment.                                     *)
LEMMA SegmentWriteKeeps ==
    ASSUME NEW f0, Kept(f0), IsSegment(f0.seg), NEW t, NEW s, NEW broken
    PROVE  LET g == Rec!FMP4!SegmentWrite(f0, t, s, broken) IN
           /\ Kept(g) /\ IsSegment(g.seg)
           /\ Well(f0, broken) => Sound(g)
<1> DEFINE dts == Rec!FMP4!Duration(s.dts, t)
           ended == [f0 EXCEPT !.seg.endDTS = Rec!FMP4!AtLeast(Rec!FMP4!EndOf(t, s), @)]
           parted == Rec!FMP4!closeCurPart(ended, broken)
           opened == IF f0.seg.part = None THEN Rec!FMP4!OpenPart(ended, dts)
                     ELSE IF Rec!FMP4!PartDur(f0.seg.part) < PartDuration THEN ended
                     ELSE Rec!FMP4!OpenPart([parted EXCEPT !.seg.part = None], dts)
           Fine(g) == Kept(g) /\ IsSegment(g.seg) /\ (Well(f0, broken) => Sound(g))
<1>1. ASSUME NEW g, NEW h, Fine(g), Quiet(g, h) PROVE Fine(h)
  <2>1. IsSegment(h.seg)
    BY <1>1, SegmentFi DEF Quiet
  <2> QED
    BY <1>1, <2>1, QuietKeeps
<1>2. ASSUME NEW g, Fine(g) PROVE Fields(g) /\ IsSegment(g.seg)
  BY <1>2 DEF Kept
<1>3. Fine(f0)
  BY DEF Well
<1>4. Fine(ended) /\ (Well(f0, broken) => Well(ended, broken))
  <2>1. Quiet(f0, ended)
    BY <1>2, <1>3, QuietInSegment, Zenon
  <2>2. ended.err = f0.err
    BY <1>2, <1>3 DEF Fields
  <2> HIDE DEF ended
  <2> QED
    BY <1>1, <1>3, <2>1, <2>2, Zenon DEF Well
<1> HIDE DEF ended
<1>5. Fine(parted)
  BY <1>4, CloseCurPartKeeps, Zenon DEF Well
<1> HIDE DEF parted
<1>6. Fine([parted EXCEPT !.seg.part = None])
  BY <1>1, <1>2, <1>5, QuietInSegment, Zenon
<1>7. ASSUME NEW g, Fine(g) PROVE Fine(Rec!FMP4!OpenPart(g, dts))
  BY <1>1, <1>2, <1>7, QuietInSegment, Zenon
<1> HIDE DEF Fine, dts
<1>8. Fine(opened)
  BY <1>4, <1>6, <1>7
<1> HIDE DEF opened
<1>9. Fine(Rec!FMP4!PartWrite(opened, t, s))
  BY <1>1, <1>2, <1>8, QuietInSegment, Zenon
<1>10. Rec!FMP4!SegmentWrite(f0, t, s, broken)
          = IF opened.err THEN opened ELSE Rec!FMP4!PartWrite(opened, t, s)
  BY DEF Rec!FMP4!SegmentWrite, opened, parted, ended, dts
<1>11. Fine(Rec!FMP4!SegmentWrite(f0, t, s, broken))
  BY <1>8, <1>9, <1>10
<1> QED
  BY <1>11 DEF Fine

(* The segment is closed and the next one begins.                          *)
LEMMA SwitchSegmentKeeps ==
    ASSUME NEW f0, Kept(f0), IsSegment(f0.seg), NEW broken
    PROVE  LET g == Rec!FMP4!SwitchSegment(f0, broken) IN
           Kept(g) /\ (Well(f0, broken) => Sound(g))
<1> DEFINE start == Rec!FMP4!nextSegmentStartingPos(f0.tracks)
           ended == Rec!FMP4!SegmentClose(f0, broken)
           g == IF ended.err THEN ended ELSE Rec!FMP4!NewSegment(ended, start.dts, start.ntp)
<1>1. Kept(ended) /\ (Well(f0, broken) => ended.err = FALSE /\ AllDone(ended.hooks))
  BY SegmentCloseKeeps, Zenon
<1> HIDE DEF start, ended
<1>2. Kept(g) /\ (Well(f0, broken) => Sound(g))
  BY <1>1, NewSegmentFMP4
<1>3. Rec!FMP4!SwitchSegment(f0, broken) = g
  BY DEF Rec!FMP4!SwitchSegment, ended, start
<1> QED
  BY <1>2, <1>3

(* A track writes a sample.                                                *)
LEMMA TrackWriteKeeps ==
    ASSUME NEW f0, Kept(f0), NEW t, NEW s, NEW broken
    PROVE  LET g == Rec!FMP4!TrackWrite(f0, t, s, broken) IN
           Kept(g) /\ (Well(f0, broken) => Sound(g))
<1> DEFINE prev == f0.tracks[t].next
           f1 == Rec!FMP4!HoldBack(f0, t, s)
           w == [prev EXCEPT !.dur = f1.tracks[t].next.dts - prev.dts]
           dts == Rec!FMP4!Duration(w.dts, t)
           f2 == IF f1.tracks[t].started THEN f1
                 ELSE [f1 EXCEPT !.tracks[t] =
                        [@ EXCEPT !.started = TRUE, !.startDTS = dts, !.startNTP = w.ntp]]
           f3 == IF f2.seg = Rec!FMP4!NoSegment THEN Rec!FMP4!NewSegment(f2, dts, w.ntp) ELSE f2
           f4 == Rec!FMP4!SegmentWrite(f3, t, w, broken)
           f5 == IF ~f4.err /\ Rec!FMP4!MayEndSegment(f4, t)
                 THEN Rec!FMP4!SwitchSegment(f4, broken) ELSE f4
           Fine(g) == Kept(g) /\ (Well(f0, broken) => Sound(g))
           Same(g) == g.err = f0.err /\ Fine(g)
<1>1. ASSUME NEW g, NEW h, Fine(g), Quiet(g, h) PROVE Fine(h)
  BY <1>1, QuietKeeps
<1>2. Same(f0)
  BY DEF Well
<1>3. Same(f1)
  <2>1. Quiet(f0, f1)
    BY QuietFMP4, Zenon
  <2>2. f1.err = f0.err
    BY DEF Rec!FMP4!HoldBack, Kept, Fields
  <2> HIDE DEF f1, Fine
  <2> QED
    BY <1>1, <1>2, <2>1, <2>2
<1> HIDE DEF f1, prev, w, dts
<1>4. Fine([f1 EXCEPT !.err = TRUE])
  BY <1>1, <1>3, QuietFMP4, Zenon
<1>5. Same(f2)
  <2> DEFINE x == [f1.tracks[t] EXCEPT !.started = TRUE, !.startDTS = dts, !.startNTP = w.ntp]
             h == [f1 EXCEPT !.tracks[t] = x]
  <2>1. Quiet(f1, h)
    BY <1>3, QuietFMP4, Zenon
  <2>2. h.err = f1.err
    BY <1>3 DEF Kept, Fields
  <2>3. f2 = IF f1.tracks[t].started THEN f1 ELSE h
    OBVIOUS
  <2> HIDE DEF Fine, f2, x, h
  <2> QED
    BY <1>1, <1>3, <2>1, <2>2, <2>3
<1> HIDE DEF f2
<1>6. Same(f3) /\ IsSegment(f3.seg)
  <2>1. Rec!FMP4!NoSegment = Rec!NoSegment
    BY SameStore
  <2>2. CASE f2.seg = Rec!NoSegment
    <3>1. Well(f0, broken) => AllDone(f2.hooks)
      BY <1>5, <2>2, SegmentFi DEF Sound
    <3> QED
      BY <1>5, <2>1, <2>2, <3>1, NewSegmentFMP4
  <2>3. CASE f2.seg # Rec!NoSegment
    BY <1>5, <2>1, <2>3 DEF Kept
  <2> QED
    BY <2>2, <2>3
<1> HIDE DEF f3
<1>7. Well(f0, broken) => Well(f3, broken)
  BY <1>6 DEF Well
<1>8. Fine(f4) /\ IsSegment(f4.seg)
  BY <1>6, <1>7, SegmentWriteKeeps
<1> HIDE DEF f4
<1>9. Fine(f5)
  <2>1. CASE ~f4.err
    <3>1. f4.err = FALSE
      BY <1>8, <2>1 DEF Kept, Fields
    <3>2. Well(f0, broken) => Well(f4, broken)
      BY <1>8, <3>1 DEF Well
    <3> QED
      BY <1>8, <3>2, SwitchSegmentKeeps
  <2>2. CASE f4.err
    BY <1>8, <2>2
  <2> QED
    BY <2>1, <2>2
<1> HIDE DEF f5, Fine
<1>10. Rec!FMP4!TrackWrite(f0, t, s, broken)
          = IF prev = None THEN f1
            ELSE IF Rec!FMP4!Drifts(f1.tracks[t], w, dts) THEN [f1 EXCEPT !.err = TRUE]
            ELSE IF dts < f3.seg.startDTS THEN f3
            ELSE f5
  BY DEF Rec!FMP4!TrackWrite, prev, f1, w, dts, f2, f3, f4, f5
<1>11. Fine(Rec!FMP4!TrackWrite(f0, t, s, broken))
  BY <1>3, <1>4, <1>6, <1>9, <1>10
<1> QED
  BY <1>11 DEF Fine

-----------------------------------------------------------------------------
(* All the samples of a unit. The numbers are well founded: a set of them  *)
(* that has 0, and with each number the next, has them all.                *)
LEMMA Least ==
    ASSUME NEW T \in SUBSET Nat, T # {}
    PROVE  \E n \in T : \A m \in T : n <= m
<1> DEFINE R == {ss \in Nat \X Nat : ss[1] < ss[2]}
<1>1. IsWellFoundedOn(R, Nat)
  BY NatLessThanWellFounded DEF OpToRel
<1>2. PICK n \in T : \A m \in T : <<m, n>> \notin R
  <2> HIDE DEF R
  <2> QED
    BY <1>1, WFMin, Zenon
<1>3. \A m \in T : ~(m < n)
  BY <1>2, Zenon
<1> QED
  BY <1>2, <1>3

(* So what holds of 0, and of the next of each, holds of all numbers.      *)
LEMMA UpTo ==
    ASSUME NEW T \in SUBSET Nat, 0 \in T, \A n \in T : n + 1 \in T
    PROVE  T = Nat
<1> SUFFICES ASSUME Nat \ T # {} PROVE FALSE
  BY Zenon
<1>1. PICK n \in Nat \ T : \A m \in Nat \ T : n <= m
  BY Least, Zenon
<1>2. n # 0 /\ n - 1 \in Nat
  BY <1>1
<1>3. n - 1 \in T
  BY <1>1, <1>2
<1>4. (n - 1) + 1 = n
  BY <1>1
<1> QED
  BY <1>1, <1>3, <1>4

(* The samples of a unit are written one after the other.                  *)
LEMMA WriteAllKeeps ==
    ASSUME NEW f0, Kept(f0), NEW t, NEW samples, Len(samples) \in Nat, NEW broken
    PROVE  LET g == Rec!FMP4!WriteAll(f0, t, samples, broken) IN
           Kept(g) /\ (Well(f0, broken) => Sound(g))
<1> DEFINE Step(g, k) == IF g.err THEN g ELSE Rec!FMP4!TrackWrite(g, t, samples[k], broken)
           Is(w, m) == w = [k \in 0..m |-> IF k = 0 THEN f0 ELSE Step(w[k - 1], k)]
           Fine(g) == Kept(g) /\ (Well(f0, broken) => Sound(g))
           n == Len(samples)
           all == CHOOSE w : Is(w, n)
<1>1. ASSUME NEW g, NEW k, Fine(g) PROVE Fine(Step(g, k))
  <2>1. CASE g.err
    BY <1>1, <2>1
  <2>2. CASE ~g.err
    <3>1. g.err = FALSE
      BY <1>1, <2>2 DEF Kept, Fields
    <3>2. Well(f0, broken) => Well(g, broken)
      BY <1>1, <3>1 DEF Well
    <3> QED
      BY <1>1, <2>2, <3>2, TrackWriteKeeps
  <2> QED
    BY <2>1, <2>2
<1>2. Rec!FMP4!WriteAll(f0, t, samples, broken) = all[n]
  BY DEF Rec!FMP4!WriteAll
<1>3. Fine(f0)
  BY DEF Well
<1> HIDE DEF Step, Fine
<1>4. \E w : Is(w, n)
  <2> DEFINE T == {m \in Nat : \E w : Is(w, m)}
  <2>1. 0 \in T
    <3>1. Is([k \in 0..0 |-> f0], 0)
      OBVIOUS
    <3> QED
      BY <3>1, Zenon
  <2>2. ASSUME NEW m \in T PROVE m + 1 \in T
    <3>1. m \in Nat
      OBVIOUS
    <3>2. PICK w : Is(w, m)
      BY <2>2
    <3> DEFINE v == [k \in 0..(m + 1) |-> IF k = m + 1 THEN Step(w[m], m + 1) ELSE w[k]]
    <3>3. ASSUME NEW k \in 0..(m + 1)
          PROVE  v[k] = IF k = 0 THEN f0 ELSE Step(v[k - 1], k)
      <4>1. CASE k = m + 1
        <5>1. k # 0 /\ k - 1 = m /\ m \in 0..(m + 1) /\ m # m + 1
          BY <3>1, <4>1
        <5>2. v[k] = Step(w[m], k) /\ v[m] = w[m]
          BY <4>1, <5>1
        <5> HIDE DEF v
        <5> QED
          BY <5>1, <5>2
      <4>2. CASE k \in 0..m
        <5>1. k # m + 1 /\ v[k] = w[k]
          BY <3>1, <4>2
        <5>2. w[k] = IF k = 0 THEN f0 ELSE Step(w[k - 1], k)
          BY <3>2, <4>2
        <5>3. k # 0 => k - 1 \in 0..(m + 1) /\ k - 1 # m + 1
          BY <3>1, <4>2
        <5>4. k # 0 => v[k - 1] = w[k - 1]
          BY <5>3
        <5> HIDE DEF v
        <5> QED
          BY <5>1, <5>2, <5>4
      <4> QED
        BY <3>1, <4>1, <4>2
    <3>4. Is(v, m + 1)
      <4>1. v = [k \in 0..(m + 1) |-> v[k]]
        OBVIOUS
      <4> HIDE DEF v
      <4> QED
        BY <3>3, <4>1, Zenon
    <3>5. m + 1 \in Nat
      BY <3>1
    <3> HIDE DEF v, Is
    <3> QED
      BY <3>4, <3>5
  <2> HIDE DEF T
  <2>3. T = Nat
    BY <2>1, <2>2, UpTo, Zenon DEF T
  <2> QED
    BY <2>3 DEF T
<1>5. Is(all, n)
  <2> HIDE DEF Is
  <2> QED
    BY <1>4
<1> HIDE DEF all
<1>6. \A k \in 0..n : Fine(all[k])
  <2> DEFINE T == {k \in Nat : k <= n => Fine(all[k])}
  <2>1. 0 \in T
    BY <1>3, <1>5
  <2>2. ASSUME NEW k \in T PROVE k + 1 \in T
    <3>1. k \in Nat
      OBVIOUS
    <3>2. ASSUME k + 1 <= n PROVE Fine(all[k + 1])
      <4>1. k <= n /\ k + 1 \in 0..n /\ k + 1 # 0 /\ (k + 1) - 1 = k
        BY <3>1, <3>2
      <4>2. Fine(all[k])
        BY <4>1
      <4>3. all[k + 1] = Step(all[k], k + 1)
        BY <1>5, <4>1
      <4> QED
        BY <1>1, <4>2, <4>3
    <3> QED
      BY <3>1, <3>2
  <2> HIDE DEF T
  <2>3. T = Nat
    BY <2>1, <2>2, UpTo, Zenon DEF T
  <2> QED
    BY <2>3 DEF T
<1>7. Fine(all[n])
  BY <1>6
<1> QED
  BY <1>2, <1>7 DEF Fine

(* The samples of a unit are finitely many, whatever its codec.            *)
Finite(out) == Len(out.samples) \in Nat

(* Of all the codecs that fMP4 can hold.                                   *)
LEMMA UnpackFinite ==
    ASSUME NEW codec, NEW t, NEW u, u.frames \in Nat \ {0}
    PROVE  Finite(Rec!FMP4!UnpackFMP4(codec, t, u))
<1> USE DEF Finite, Rec!FMP4!Writes, Rec!FMP4!Fails, Rec!FMP4!Skips, Rec!FMP4!One
<1>1. \A x : Finite(Rec!FMP4!Skips(x)) /\ Finite(Rec!FMP4!Fails(x))
  OBVIOUS
<1>2. \A x, d, b : Finite(Rec!FMP4!Writes(x, Rec!FMP4!One(u, d, b)))
  OBVIOUS
<1>3. \A r : \A n \in Nat : Len(Rec!FMP4!Frames(u, n, r)) \in Nat
  BY DEF Rec!FMP4!Frames
<1> DEFINE good == IF u.kind = "bad" THEN u.frames - 1 ELSE u.frames
<1>4. good \in Nat /\ u.frames \in Nat
  OBVIOUS
<1>5. Finite(Rec!FMP4!UnpackFrames(t, u))
  BY <1>3, <1>4 DEF Rec!FMP4!UnpackFrames
<1>6. Finite(Rec!FMP4!UnpackAC3(t, u))
  BY <1>3, <1>4 DEF Rec!FMP4!UnpackAC3
<1>7. Finite(Rec!FMP4!UnpackMPEG1Audio(t, u))
  BY <1>4 DEF Rec!FMP4!UnpackMPEG1Audio
<1> HIDE DEF Finite, Rec!FMP4!Writes, Rec!FMP4!Fails, Rec!FMP4!Skips, Rec!FMP4!One, good
<1>8. Finite(Rec!FMP4!UnpackAV1(t, u))
  BY <1>1, <1>2 DEF Rec!FMP4!UnpackAV1
<1>9. Finite(Rec!FMP4!UnpackVP9(t, u))
  BY <1>1, <1>8 DEF Rec!FMP4!UnpackVP9
<1>10. Finite(Rec!FMP4!UnpackH26x(t, u))
  BY <1>1, <1>2 DEF Rec!FMP4!UnpackH26x
<1>11. Finite(Rec!FMP4!UnpackMPEGVideo(t, u))
  BY <1>1, <1>2 DEF Rec!FMP4!UnpackMPEGVideo
<1>12. Finite(Rec!FMP4!UnpackMJPEG(t, u))
  BY <1>1, <1>2, Zenon DEF Rec!FMP4!UnpackMJPEG
<1>13. Finite(Rec!FMP4!UnpackSingle(t, u))
  BY <1>2, Zenon DEF Rec!FMP4!UnpackSingle
<1>14. Finite(Rec!FMP4!UnpackLATM(t, u))
  BY <1>1, <1>13 DEF Rec!FMP4!UnpackLATM
<1> QED
  BY <1>1, <1>5, <1>6, <1>7, <1>8, <1>9, <1>10, <1>11, <1>12, <1>13, <1>14
     DEF Rec!FMP4!UnpackFMP4

(* A unit is given to the format, and the format is closed.                *)
LEMMA OnDataFMP4 ==
    ASSUME NEW f0, Kept(f0), NEW t, NEW u, u.frames \in Nat \ {0}, NEW broken
    PROVE  LET g == Rec!FMP4!OnData(f0, t, u, broken) IN
           Kept(g) /\ (Well(f0, broken) => Sound(g))
<1> DEFINE out == Rec!FMP4!UnpackFMP4(f0.codecs[t], f0.tracks[t], u)
           begun == [f0 EXCEPT !.tracks[t] = out.track]
           stored == Rec!FMP4!WriteAll(begun, t, out.samples, broken)
           g == [stored EXCEPT !.err = @ \/ out.err]
<1>1. Len(out.samples) \in Nat
  BY UnpackFinite DEF Finite
<1>2. Kept(begun) /\ (Well(f0, broken) => Well(begun, broken))
  <2>1. Quiet(f0, begun)
    BY QuietFMP4, Zenon
  <2>2. begun.err = f0.err
    BY DEF Kept, Fields
  <2> HIDE DEF begun
  <2> QED
    BY <2>1, <2>2, QuietKeeps DEF Well
<1> HIDE DEF begun, out
<1>3. Kept(stored) /\ (Well(f0, broken) => Sound(stored))
  BY <1>1, <1>2, WriteAllKeeps
<1> HIDE DEF stored
<1>4. Quiet(stored, g)
  BY <1>3, QuietFMP4, Zenon
<1> HIDE DEF g
<1>5. Kept(g) /\ (Well(f0, broken) => Sound(g))
  BY <1>3, <1>4, QuietKeeps
<1>6. Rec!FMP4!OnData(f0, t, u, broken) = g
  BY DEF Rec!FMP4!OnData, g, stored, begun, out
<1> QED
  BY <1>5, <1>6

(* When a format is closed and the disk works, its last file is complete.  *)
LEMMA CloseFMP4 ==
    ASSUME NEW f0, Kept(f0)
    PROVE  LET g == Rec!FMP4!close(f0, {}) IN
           Kept(g) /\ (Sound(f0) => AllDone(g.hooks))
<1> DEFINE begun == [f0 EXCEPT !.err = FALSE]
<1>1. Rec!FMP4!NoSegment = Rec!NoSegment
  BY SameStore
<1>2. CASE f0.seg = Rec!NoSegment
  BY <1>1, <1>2, SegmentFi DEF Rec!FMP4!close, Sound
<1>3. CASE f0.seg # Rec!NoSegment
  <2>1. Quiet(f0, begun) /\ begun.err = FALSE
    BY QuietFMP4, Zenon DEF Kept, Fields
  <2> HIDE DEF begun
  <2>2. Kept(begun) /\ IsSegment(begun.seg) /\ (Sound(f0) => Well(begun, {}))
    BY <1>3, <2>1, QuietKeeps DEF Well, Quiet
  <2>3. LET g == Rec!FMP4!SegmentClose(begun, {}) IN
        Kept(g) /\ (Sound(f0) => AllDone(g.hooks))
    BY <2>2, SegmentCloseKeeps, Zenon
  <2> QED
    BY <1>1, <1>3, <2>3 DEF Rec!FMP4!close, begun
<1> QED
  BY <1>2, <1>3

-----------------------------------------------------------------------------
(* The MPEG-TS format, whose buffer may be stuck with an error.            *)
KeptTS(g) == Kept(g) /\ {"buf", "stuck"} \subseteq DOMAIN g /\ g.stuck \in BOOLEAN
SoundTS(g) == Sound(g) /\ g.stuck = FALSE
WellTS(g, broken) == Well(g, broken) /\ g.stuck = FALSE

(* A step that opens and closes nothing, and leaves the buffer unstuck.    *)
QuietTS(f0, g) ==
    /\ Quiet(f0, g)
    /\ {"buf", "stuck"} \subseteq DOMAIN g /\ g.stuck = f0.stuck

(* What is kept is kept by a step that opens and closes nothing.           *)
LEMMA QuietKeepsTS ==
    ASSUME NEW f0, NEW g, KeptTS(f0), QuietTS(f0, g)
    PROVE  KeptTS(g) /\ (SoundTS(f0) => SoundTS(g))
BY QuietKeeps DEF KeptTS, QuietTS, SoundTS

(* The steps that are quiet.                                               *)
LEMMA QuietStepsTS ==
    ASSUME NEW f0, KeptTS(f0), NEW t, NEW x, NEW e \in BOOLEAN
    PROVE  /\ QuietTS(f0, f0)
           /\ QuietTS(f0, [f0 EXCEPT !.tracks[t] = x])
           /\ QuietTS(f0, [f0 EXCEPT !.hasVideo = x])
           /\ QuietTS(f0, [f0 EXCEPT !.buf = x])
           /\ QuietTS(f0, [f0 EXCEPT !.err = e])
           /\ IsSegment(f0.seg) => /\ QuietTS(f0, [f0 EXCEPT !.seg.lastDTS = x])
                                   /\ QuietTS(f0, [f0 EXCEPT !.seg.lastFlush = x])
<1> DEFINE Fine(g) == Fields(g) /\ {"buf", "stuck"} \subseteq DOMAIN g
                      /\ g.hooks = f0.hooks /\ g.disk = f0.disk /\ g.stuck = f0.stuck
<1>1. Fine(f0) /\ (f0.seg = Rec!NoSegment \/ IsSegment(f0.seg))
  BY DEF KeptTS, Kept
<1>2. ASSUME NEW g, Fine(g), g.seg = f0.seg PROVE QuietTS(f0, g)
  BY <1>1, <1>2 DEF Quiet, QuietTS
<1>3. QuietTS(f0, f0)
  BY <1>1, <1>2
<1>4. QuietTS(f0, [f0 EXCEPT !.tracks[t] = x])
  <2>1. LET g == [f0 EXCEPT !.tracks[t] = x] IN Fine(g) /\ g.seg = f0.seg
    BY <1>1 DEF Fields
  <2> QED
    BY <1>2, <2>1, Zenon
<1>5. QuietTS(f0, [f0 EXCEPT !.hasVideo = x])
  <2>1. LET g == [f0 EXCEPT !.hasVideo = x] IN Fine(g) /\ g.seg = f0.seg
    BY <1>1 DEF Fields
  <2> QED
    BY <1>2, <2>1, Zenon
<1>6. QuietTS(f0, [f0 EXCEPT !.buf = x])
  <2>1. LET g == [f0 EXCEPT !.buf = x] IN Fine(g) /\ g.seg = f0.seg
    BY <1>1 DEF Fields
  <2> QED
    BY <1>2, <2>1, Zenon
<1>7. QuietTS(f0, [f0 EXCEPT !.err = e])
  <2>1. LET g == [f0 EXCEPT !.err = e] IN Fine(g) /\ g.seg = f0.seg
    BY <1>1 DEF Fields
  <2> QED
    BY <1>2, <2>1, Zenon
<1>8. ASSUME IsSegment(f0.seg), NEW g, Fine(g), IsSegment(g.seg),
             g.seg.fi = f0.seg.fi, g.seg.startNTP = f0.seg.startNTP
      PROVE  QuietTS(f0, g)
  BY <1>8, SegmentFi DEF Quiet, QuietTS
<1>9. ASSUME IsSegment(f0.seg) PROVE QuietTS(f0, [f0 EXCEPT !.seg.lastDTS = x])
  <2> DEFINE g == [f0 EXCEPT !.seg.lastDTS = x]
  <2>1. Fine(g) /\ g.seg = [f0.seg EXCEPT !.lastDTS = x]
    BY <1>1 DEF Fields
  <2>2. IsSegment(g.seg) /\ g.seg.fi = f0.seg.fi /\ g.seg.startNTP = f0.seg.startNTP
    BY <1>9, <2>1 DEF IsSegment
  <2> QED
    BY <1>8, <1>9, <2>1, <2>2, Zenon
<1>10. ASSUME IsSegment(f0.seg) PROVE QuietTS(f0, [f0 EXCEPT !.seg.lastFlush = x])
  <2> DEFINE g == [f0 EXCEPT !.seg.lastFlush = x]
  <2>1. Fine(g) /\ g.seg = [f0.seg EXCEPT !.lastFlush = x]
    BY <1>1 DEF Fields
  <2>2. IsSegment(g.seg) /\ g.seg.fi = f0.seg.fi /\ g.seg.startNTP = f0.seg.startNTP
    BY <1>10, <2>1 DEF IsSegment
  <2> QED
    BY <1>8, <1>10, <2>1, <2>2, Zenon
<1> QED
  BY <1>3, <1>4, <1>5, <1>6, <1>7, <1>9, <1>10

(* A new segment has no file yet.                                          *)
LEMMA NewSegmentTS ==
    ASSUME NEW f0, KeptTS(f0), NEW d, NEW n
    PROVE  LET g == Rec!TS!NewSegment(f0, d, n) IN
           /\ KeptTS(g) /\ IsSegment(g.seg) /\ g.err = f0.err /\ g.stuck = f0.stuck
           /\ AllDone(f0.hooks) => Sound(g)
<1> DEFINE g == Rec!TS!NewSegment(f0, d, n)
<1>1. /\ Fields(g) /\ g.hooks = f0.hooks /\ g.disk = f0.disk /\ g.err = f0.err
      /\ {"buf", "stuck"} \subseteq DOMAIN g /\ g.stuck = f0.stuck
      /\ IsSegment(g.seg) /\ g.seg.fi = "none"
  BY DEF KeptTS, Kept, Fields, IsSegment, Rec!TS!NewSegment
<1> HIDE DEF g
<1>2. Kept(g) /\ (AllDone(f0.hooks) => Sound(g))
  BY <1>1 DEF KeptTS, Kept, Sound
<1> QED
  BY <1>1, <1>2 DEF KeptTS, g

(* The buffer goes to the file, which is created by what comes first.      *)
LEMMA FlushKeeps ==
    ASSUME NEW f0, KeptTS(f0), IsSegment(f0.seg), NEW broken
    PROVE  LET g == Rec!TS!Flush(f0, broken) IN
           /\ KeptTS(g) /\ IsSegment(g.seg) /\ g.seg.startNTP = f0.seg.startNTP
           /\ WellTS(f0, broken) => WellTS(g, broken)
<1> DEFINE g == Rec!TS!Flush(f0, broken)
           name == Rec!TS!Encode(f0.seg.startNTP)
           creates == f0.seg.fi = "none"
           fails == \/ creates /\ "create" \in broken
                    \/ "part" \in broken
                    \/ f0.seg.fi = "closed"
           disk == Rec!TS!ChangeFile(IF creates THEN Rec!TS!Put(f0.disk, name, <<>>) ELSE f0.disk,
                       name, LAMBDA file : IF fails THEN file ELSE file \o f0.buf)
<1>1. name = Name(f0)
  BY SameStore DEF Name
<1>2. Fields(f0) /\ {"buf", "stuck"} \subseteq DOMAIN f0 /\ f0.stuck \in BOOLEAN
  BY DEF KeptTS, Kept
<1>3. f0.seg # Rec!NoSegment
  BY SegmentFi
<1>4. ASSUME NEW h, QuietTS(f0, h)
      PROVE  /\ KeptTS(h) /\ IsSegment(h.seg) /\ h.seg.startNTP = f0.seg.startNTP
             /\ SoundTS(f0) => SoundTS(h)
  BY <1>3, <1>4, QuietKeepsTS DEF QuietTS, Quiet
<1>5. CASE f0.stuck
  <2>1. g = [f0 EXCEPT !.err = TRUE]
    BY <1>5, Zenon DEF Rec!TS!Flush
  <2> HIDE DEF g
  <2>2. QuietTS(f0, g)
    BY <2>1, QuietStepsTS, Zenon
  <2> QED
    BY <1>4, <1>5, <2>2 DEF WellTS, g
<1>6. CASE ~f0.stuck /\ f0.buf = <<>>
  <2>1. g = f0
    BY <1>6, Zenon DEF Rec!TS!Flush
  <2> QED
    BY <2>1
<1>7. CASE ~f0.stuck /\ f0.buf # <<>> /\ creates /\ "create" \in broken
  <2>1. g = [f0 EXCEPT !.stuck = TRUE, !.err = TRUE]
    BY <1>7, Zenon DEF Rec!TS!Flush
  <2>2. Fields(g) /\ {"buf", "stuck"} \subseteq DOMAIN g /\ g.stuck = TRUE
        /\ g.hooks = f0.hooks /\ g.disk = f0.disk /\ g.seg = f0.seg
    BY <1>2, <2>1 DEF Fields
  <2> HIDE DEF g
  <2>3. Quiet(f0, g)
    BY <1>3, <2>2 DEF Quiet
  <2>4. Kept(g)
    BY <2>3, QuietKeeps DEF KeptTS
  <2> QED
    BY <1>7, <2>2, <2>4, Zenon DEF KeptTS, WellTS, Well, g
<1>8. CASE ~f0.stuck /\ f0.buf # <<>> /\ ~(creates /\ "create" \in broken)
  <2>1. /\ Fields(g) /\ {"buf", "stuck"} \subseteq DOMAIN g
        /\ g.hooks = IF creates THEN Append(f0.hooks, Created(name)) ELSE f0.hooks
        /\ g.disk = disk
        /\ g.seg = [f0.seg EXCEPT !.fi = IF creates THEN "open" ELSE @]
        /\ g.stuck = fails /\ g.err = fails
    <3> HIDE DEF name
    <3> QED
      BY <1>2, <1>8, Zenon DEF Fields, Rec!TS!Flush, Created, name
  <2>2. DOMAIN disk = IF creates THEN DOMAIN f0.disk \union {name} ELSE DOMAIN f0.disk
    BY DEF Rec!TS!ChangeFile, Rec!TS!Put
  <2> HIDE DEF disk, g
  <2>3. /\ IsSegment(g.seg) /\ g.seg.startNTP = f0.seg.startNTP
        /\ g.seg.fi = IF creates THEN "open" ELSE f0.seg.fi
    BY <2>1 DEF IsSegment
  <2>4. Kept(g) /\ (Sound(f0) => Sound(g))
    <3>1. CASE creates
      BY <1>1, <2>1, <2>2, <2>3, <3>1, FileIsMade, Zenon DEF KeptTS
    <3>2. CASE ~creates
      <4>1. Quiet(f0, g)
        BY <1>3, <2>1, <2>2, <2>3, <3>2 DEF Quiet
      <4> QED
        BY <4>1, QuietKeeps DEF KeptTS
    <3> QED
      BY <3>1, <3>2
  <2>5. g.stuck \in BOOLEAN
    BY <2>1
  <2>6. ASSUME WellTS(f0, broken) PROVE g.err = FALSE /\ g.stuck = FALSE
    <3>1. fails = FALSE
      BY <2>6 DEF WellTS, Well, Sound
    <3> QED
      BY <2>1, <3>1
  <2> QED
    BY <2>1, <2>3, <2>4, <2>5, <2>6, Zenon DEF KeptTS, WellTS, Well, g
<1> QED
  BY <1>5, <1>6, <1>7, <1>8

(* A segment is closed.                                                    *)
LEMMA SegmentCloseTS ==
    ASSUME NEW f0, KeptTS(f0), IsSegment(f0.seg), NEW broken
    PROVE  LET g == Rec!TS!SegmentClose(f0, broken) IN
           /\ KeptTS(g) /\ g.seg.fi # "open"
           /\ WellTS(f0, broken) => g.err = FALSE /\ g.stuck = FALSE /\ AllDone(g.hooks)
<1> DEFINE h == Rec!TS!Flush(f0, broken)
           g == Rec!TS!SegmentClose(f0, broken)
           noClose == "close" \in broken \/ h.seg.fi = "closed"
           name == Rec!TS!Encode(f0.seg.startNTP)
<1>1. /\ KeptTS(h) /\ IsSegment(h.seg) /\ h.seg.startNTP = f0.seg.startNTP
      /\ WellTS(f0, broken) => WellTS(h, broken)
  BY FlushKeeps
<1>2. name = Name(h)
  BY <1>1, SameStore DEF Name
<1>3. g = IF h.seg.fi = "none" THEN h
          ELSE [h EXCEPT !.hooks = IF noClose THEN @ ELSE Append(@, Completed(name)),
                         !.seg.fi = "closed", !.err = @ \/ noClose]
  BY DEF Rec!TS!SegmentClose, Completed
<1> HIDE DEF h, g, name
<1>4. CASE h.seg.fi = "none"
  BY <1>1, <1>3, <1>4 DEF WellTS, Well, Sound, g
<1>5. CASE h.seg.fi # "none"
  <2>1. /\ Fields(g) /\ {"buf", "stuck"} \subseteq DOMAIN g
        /\ g.hooks = IF ~noClose THEN Append(h.hooks, Completed(name)) ELSE h.hooks
        /\ g.disk = h.disk /\ g.stuck = h.stuck
        /\ g.seg = [h.seg EXCEPT !.fi = "closed"]
        /\ g.err = (h.err \/ noClose)
    BY <1>1, <1>3, <1>5 DEF KeptTS, Kept, Fields
  <2>2. IsSegment(g.seg) /\ g.seg.fi = "closed"
    BY <1>1, <2>1 DEF IsSegment
  <2>3. Kept(g) /\ (Sound(h) /\ ~noClose => AllDone(g.hooks))
    BY <1>1, <1>2, <1>5, <2>1, <2>2, FileIsClosed DEF KeptTS, IsSegment
  <2>4. ASSUME WellTS(f0, broken) PROVE g.err = FALSE /\ g.stuck = FALSE /\ AllDone(g.hooks)
    <3>1. ~noClose /\ h.err = FALSE /\ h.stuck = FALSE /\ Sound(h)
      BY <1>1, <2>4 DEF WellTS, Well, Sound
    <3> QED
      BY <2>1, <2>3, <3>1, Zenon
  <2> QED
    BY <1>1, <2>1, <2>2, <2>3, <2>4, Zenon DEF KeptTS, g
<1> QED
  BY <1>4, <1>5, Zenon

(* And the next one begins.                                                *)
LEMMA SwitchSegmentTS ==
    ASSUME NEW f0, KeptTS(f0), IsSegment(f0.seg), NEW s, NEW d, NEW broken
    PROVE  LET g == Rec!TS!SwitchSegment(f0, s, d, broken) IN
           /\ KeptTS(g) /\ (g.err = FALSE => IsSegment(g.seg))
           /\ WellTS(f0, broken) => WellTS(g, broken)
<1> DEFINE begun == [f0 EXCEPT !.seg.lastDTS = d]
           ended == Rec!TS!SegmentClose(begun, broken)
           g == IF ended.err THEN ended ELSE Rec!TS!NewSegment(ended, d, s.ntp)
<1>1. KeptTS(begun) /\ IsSegment(begun.seg) /\ (WellTS(f0, broken) => WellTS(begun, broken))
  <2>1. QuietTS(f0, begun)
    BY QuietStepsTS, Zenon
  <2>2. begun.err = f0.err
    BY DEF KeptTS, Kept, Fields
  <2> HIDE DEF begun
  <2>3. KeptTS(begun) /\ (SoundTS(f0) => SoundTS(begun))
    BY <2>1, QuietKeepsTS
  <2>4. IsSegment(begun.seg)
    BY <2>1, SegmentFi DEF QuietTS, Quiet
  <2> QED
    BY <2>2, <2>3, <2>4 DEF WellTS, Well, SoundTS
<1> HIDE DEF begun
<1>2. /\ KeptTS(ended)
      /\ WellTS(f0, broken) => ended.err = FALSE /\ ended.stuck = FALSE /\ AllDone(ended.hooks)
  BY <1>1, SegmentCloseTS, Zenon
<1> HIDE DEF ended
<1>3. LET h == Rec!TS!NewSegment(ended, d, s.ntp) IN
      /\ KeptTS(h) /\ IsSegment(h.seg) /\ h.err = ended.err /\ h.stuck = ended.stuck
      /\ AllDone(ended.hooks) => Sound(h)
  BY <1>2, NewSegmentTS
<1>4. KeptTS(g) /\ (g.err = FALSE => IsSegment(g.seg)) /\ (WellTS(f0, broken) => WellTS(g, broken))
  <2>1. CASE ended.err
    BY <1>2, <2>1 DEF WellTS, Well
  <2>2. CASE ~ended.err
    BY <1>2, <1>3, <2>2 DEF WellTS, Well
  <2> QED
    BY <2>1, <2>2, Zenon
<1>5. Rec!TS!SwitchSegment(f0, s, d, broken) = g
  BY DEF Rec!TS!SwitchSegment, ended, begun
<1> QED
  BY <1>4, <1>5

(* A unit goes to the buffer.                                              *)
LEMMA WriteUnitKeeps ==
    ASSUME NEW f0, KeptTS(f0), IsSegment(f0.seg), NEW t, NEW s, NEW broken
    PROVE  LET g == Rec!TS!WriteUnit(f0, t, s, broken) IN
           KeptTS(g) /\ (WellTS(f0, broken) => SoundTS(g))
<1> DEFINE flushed == IF Len(f0.buf) >= mpegtsBufferSize THEN Rec!TS!Flush(f0, broken) ELSE f0
           fuller == [flushed EXCEPT !.buf = Append(@, <<t, s.id>>)]
           failed == [flushed EXCEPT !.err = TRUE]
<1>1. KeptTS(flushed) /\ (WellTS(f0, broken) => SoundTS(flushed))
  BY FlushKeeps, Zenon DEF WellTS, Well, SoundTS
<1>2. QuietTS(flushed, fuller) /\ QuietTS(flushed, failed)
  <2> HIDE DEF flushed
  <2> QED
    BY <1>1, QuietStepsTS, Zenon
<1>3. Rec!TS!WriteUnit(f0, t, s, broken)
        = IF flushed.err \/ flushed.stuck THEN failed ELSE fuller
  BY DEF Rec!TS!WriteUnit
<1> HIDE DEF flushed, fuller, failed
<1> QED
  BY <1>1, <1>2, <1>3, QuietKeepsTS

(* A track writes a unit.                                                  *)
LEMMA TrackWriteTS ==
    ASSUME NEW f0, KeptTS(f0), NEW t, NEW s, NEW broken
    PROVE  LET g == Rec!TS!TrackWrite(f0, t, s, broken) IN
           KeptTS(g) /\ (WellTS(f0, broken) => SoundTS(g))
<1> DEFINE dts == Rec!TS!timestampToDuration(s.dts, Rec!TS!ClockRate(t))
           f1 == [f0 EXCEPT !.hasVideo = @ \/ Rec!TS!IsVideo(f0.codecs[t])]
           f2 == IF f1.tracks[t].started THEN f1
                 ELSE [f1 EXCEPT !.tracks[t] =
                        [@ EXCEPT !.started = TRUE, !.startDTS = dts, !.startNTP = s.ntp]]
           flushed == Rec!TS!Flush(f2, broken)
           parted == IF flushed.err THEN flushed ELSE [flushed EXCEPT !.seg.lastFlush = dts]
           f3 == IF f2.seg = Rec!TS!NoSegment THEN Rec!TS!NewSegment(f2, dts, s.ntp)
                 ELSE IF Rec!TS!MayEndSegment(f2, t, s, dts)
                      THEN Rec!TS!SwitchSegment(f2, s, dts, broken)
                 ELSE IF dts - f2.seg.lastFlush >= PartDuration THEN parted
                 ELSE f2
           moved == [f3 EXCEPT !.seg.lastDTS = dts]
           f4 == IF f3.err THEN f3 ELSE Rec!TS!WriteUnit(moved, t, s, broken)
           Fine(g) == KeptTS(g) /\ (WellTS(f0, broken) => WellTS(g, broken))
<1>1. ASSUME NEW g, NEW h, Fine(g), QuietTS(g, h), h.err = g.err PROVE Fine(h)
  <2>1. KeptTS(h) /\ (SoundTS(g) => SoundTS(h))
    BY <1>1, QuietKeepsTS
  <2> QED
    BY <1>1, <2>1 DEF WellTS, Well, SoundTS
<1>2. ASSUME NEW g, Fine(g) PROVE KeptTS(g) /\ Fields(g) /\ g.err \in BOOLEAN
  BY <1>2 DEF KeptTS, Kept, Fields
<1>3. Fine(f1)
  <2>1. QuietTS(f0, f1)
    BY QuietStepsTS, Zenon
  <2>2. f1.err = f0.err /\ Fine(f0)
    BY DEF KeptTS, Kept, Fields
  <2> HIDE DEF f1, Fine
  <2> QED
    BY <1>1, <2>1, <2>2
<1> HIDE DEF f1, dts
<1>4. Fine(f2)
  <2> DEFINE x == [f1.tracks[t] EXCEPT !.started = TRUE, !.startDTS = dts, !.startNTP = s.ntp]
             h == [f1 EXCEPT !.tracks[t] = x]
  <2>1. QuietTS(f1, h) /\ h.err = f1.err
    BY <1>2, <1>3, QuietStepsTS, Zenon DEF Fields
  <2>2. f2 = IF f1.tracks[t].started THEN f1 ELSE h
    OBVIOUS
  <2> HIDE DEF f2, x, h, Fine
  <2> QED
    BY <1>1, <1>3, <2>1, <2>2
<1> HIDE DEF f2
<1>5. ASSUME IsSegment(f2.seg) PROVE Fine(parted) /\ IsSegment(parted.seg)
  <2>1. Fine(flushed) /\ IsSegment(flushed.seg)
    BY <1>4, <1>5, FlushKeeps
  <2> HIDE DEF flushed
  <2> DEFINE h == [flushed EXCEPT !.seg.lastFlush = dts]
  <2>2. QuietTS(flushed, h)
    BY <1>2, <2>1, QuietStepsTS, Zenon
  <2>4. h.err = flushed.err
    BY <1>2, <2>1 DEF Fields
  <2> HIDE DEF h
  <2>3. IsSegment(h.seg)
    BY <2>1, <2>2, SegmentFi DEF QuietTS, Quiet
  <2>5. Fine(h)
    <3> HIDE DEF Fine
    <3> QED
      BY <1>1, <2>1, <2>2, <2>4
  <2> QED
    BY <2>1, <2>3, <2>5 DEF h
<1> HIDE DEF parted
<1>6. Fine(f3) /\ (f3.err = FALSE => IsSegment(f3.seg))
  <2>1. Rec!TS!NoSegment = Rec!NoSegment
    BY SameStore
  <2>2. CASE f2.seg = Rec!NoSegment
    <3>1. WellTS(f2, broken) => AllDone(f2.hooks)
      BY <2>2, SegmentFi DEF WellTS, Well, Sound
    <3>2. LET h == Rec!TS!NewSegment(f2, dts, s.ntp) IN
          Fine(h) /\ IsSegment(h.seg)
      BY <1>4, <3>1, NewSegmentTS DEF WellTS, Well
    <3> QED
      BY <2>1, <2>2, <3>2
  <2>3. CASE f2.seg # Rec!NoSegment
    <3>1. IsSegment(f2.seg)
      BY <1>4, <2>3 DEF KeptTS, Kept
    <3>2. LET h == Rec!TS!SwitchSegment(f2, s, dts, broken) IN
          Fine(h) /\ (h.err = FALSE => IsSegment(h.seg))
      BY <1>4, <3>1, SwitchSegmentTS, Zenon
    <3> HIDE DEF Fine
    <3> QED
      BY <1>4, <1>5, <2>1, <2>3, <3>1, <3>2
  <2> QED
    BY <2>2, <2>3, Zenon
<1> HIDE DEF f3
<1>7. KeptTS(f4) /\ (WellTS(f0, broken) => SoundTS(f4))
  <2>1. CASE f3.err
    BY <1>6, <2>1 DEF WellTS, Well, SoundTS
  <2>2. CASE ~f3.err
    <3>1. f3.err = FALSE
      BY <1>2, <1>6, <2>2
    <3>2. QuietTS(f3, moved)
      BY <1>6, <3>1, QuietStepsTS, Zenon
    <3>3. moved.err = f3.err
      BY <1>2, <1>6 DEF Fields
    <3> HIDE DEF moved
    <3>4. IsSegment(moved.seg)
      BY <1>6, <3>1, <3>2, SegmentFi DEF QuietTS, Quiet
    <3>5. Fine(moved)
      <4> HIDE DEF Fine
      <4> QED
        BY <1>1, <1>6, <3>2, <3>3
    <3> QED
      BY <2>2, <3>4, <3>5, WriteUnitKeeps
  <2> QED
    BY <2>1, <2>2
<1>8. QuietTS(f1, [f1 EXCEPT !.err = TRUE])
  BY <1>3, QuietStepsTS, Zenon
<1>9. LET h == [f1 EXCEPT !.err = TRUE] IN KeptTS(h) /\ (WellTS(f0, broken) => SoundTS(h))
  BY <1>3, <1>8, QuietKeepsTS, Zenon DEF WellTS, Well, SoundTS
<1> HIDE DEF f4, Fine
<1>10. Rec!TS!TrackWrite(f0, t, s, broken)
          = IF Rec!TS!Drifts(f1.tracks[t], s, dts) THEN [f1 EXCEPT !.err = TRUE] ELSE f4
  BY DEF Rec!TS!TrackWrite, f1, dts, f2, flushed, parted, f3, moved, f4
<1> QED
  BY <1>7, <1>9, <1>10

(* A unit is given to the format, and the format is closed.                *)
LEMMA OnDataTS ==
    ASSUME NEW f0, KeptTS(f0), NEW t, NEW u, NEW broken
    PROVE  LET g == Rec!TS!OnData(f0, t, u, broken) IN
           KeptTS(g) /\ (WellTS(f0, broken) => SoundTS(g))
<1> DEFINE out == Rec!TS!UnpackMPEGTS(f0.codecs[t], f0.tracks[t], u)
           begun == [f0 EXCEPT !.tracks[t] = out.track]
           failed == [begun EXCEPT !.err = TRUE]
           stored == Rec!TS!TrackWrite(begun, t, Head(out.samples), broken)
           Fine(g) == KeptTS(g) /\ (WellTS(f0, broken) => SoundTS(g))
<1>1. KeptTS(begun) /\ (WellTS(f0, broken) => WellTS(begun, broken))
  <2>1. QuietTS(f0, begun)
    BY QuietStepsTS, Zenon
  <2>2. begun.err = f0.err
    BY DEF KeptTS, Kept, Fields
  <2> HIDE DEF begun
  <2> QED
    BY <2>1, <2>2, QuietKeepsTS, Zenon DEF WellTS, Well, SoundTS
<1> HIDE DEF begun, out
<1>2. Fine(begun)
  BY <1>1 DEF WellTS, Well, SoundTS
<1>3. Fine(failed)
  <2>1. QuietTS(begun, failed)
    BY <1>1, QuietStepsTS, Zenon
  <2> HIDE DEF failed
  <2> QED
    BY <1>2, <2>1, QuietKeepsTS
<1>4. Fine(stored)
  BY <1>1, TrackWriteTS
<1> HIDE DEF failed, stored, Fine
<1>5. Rec!TS!OnData(f0, t, u, broken)
        = IF out.err THEN failed ELSE IF out.samples = <<>> THEN begun ELSE stored
  BY DEF Rec!TS!OnData, failed, stored, begun, out
<1> QED
  BY <1>2, <1>3, <1>4, <1>5 DEF Fine

(* When a format is closed and the disk works, its last file is complete.  *)
LEMMA CloseTS ==
    ASSUME NEW f0, KeptTS(f0)
    PROVE  LET g == Rec!TS!close(f0, {}) IN
           KeptTS(g) /\ (SoundTS(f0) => AllDone(g.hooks))
<1> DEFINE begun == [f0 EXCEPT !.err = FALSE]
<1>1. Rec!TS!NoSegment = Rec!NoSegment
  BY SameStore
<1>2. CASE f0.seg = Rec!NoSegment
  BY <1>1, <1>2, SegmentFi DEF Rec!TS!close, SoundTS, Sound
<1>3. CASE f0.seg # Rec!NoSegment
  <2>1. QuietTS(f0, begun) /\ begun.err = FALSE
    BY QuietStepsTS, Zenon DEF KeptTS, Kept, Fields
  <2> HIDE DEF begun
  <2>2. KeptTS(begun) /\ IsSegment(begun.seg) /\ (SoundTS(f0) => WellTS(begun, {}))
    BY <1>3, <2>1, QuietKeepsTS, Zenon DEF WellTS, Well, SoundTS, QuietTS, Quiet
  <2>3. LET g == Rec!TS!SegmentClose(begun, {}) IN
        KeptTS(g) /\ (SoundTS(f0) => AllDone(g.hooks))
    BY <2>2, SegmentCloseTS, Zenon
  <2> QED
    BY <1>1, <1>3, <2>3 DEF Rec!TS!close, begun
<1> QED
  BY <1>2, <1>3

-----------------------------------------------------------------------------
(* The recorder. What its format keeps, and what it keeps as long as the   *)
(* disk works.                                                             *)
FormatKept(g) == IF Rec!IsFMP4 THEN Kept(g) ELSE KeptTS(g)
FormatSound(g) == IF Rec!IsFMP4 THEN Sound(g) ELSE SoundTS(g)

(* An instance reads as long as there is no error; when it is done its     *)
(* files are complete, and until then all but the one it writes are, if    *)
(* neither the disk has failed nor the process has crashed.                *)
RecordInv ==
    /\ Rec!TypeOK
    /\ conf \in RecordConfs
    /\ FormatKept(f)
    /\ instance = "reading" /\ recorder # "crashed" => f.err = FALSE
    /\ instance = "skip" => f.seg = Rec!NoSegment
    /\ recorder = "pause" => instance = "done"
    /\ recorder = "crashed" => odd = "crash"
    /\ odd \notin {"fault", "crash"} =>
          IF instance = "done" THEN AllDone(f.hooks) ELSE FormatSound(f)

(* What happens to a unit on its way is one of the oddities, and the disk  *)
(* fails in one of them alone.                                             *)
LEMMA WaysAreOdd ==
    ASSUME Rec!TypeOK, NEW t, NEW way \in Rec!Ways(t)
    PROVE  /\ way.odd \in {"none", "unit", "fault", "clock", "crash"}
           /\ way.odd = "fault" \/ way.broken = {}
           /\ way.odd = odd \/ way.odd \in {"unit", "fault"}
<1> DEFINE strange == [Rec!Usual EXCEPT !.odd = "unit"]
           fault(op) == [Rec!Usual EXCEPT !.odd = "fault", !.broken = {op}]
           Odd(w) == w.odd = "unit" /\ w.broken = {}
<1>1. Rec!Usual.odd = odd /\ Rec!Usual.broken = {}
  BY DEF Rec!Usual
<1>2. /\ Odd([strange EXCEPT !.kind = "bad"]) /\ Odd([strange EXCEPT !.kind = "nil"])
      /\ Odd([strange EXCEPT !.lost = TRUE]) /\ Odd([strange EXCEPT !.reorder = TRUE])
  BY DEF Rec!Usual
<1>3. ASSUME NEW op PROVE fault(op).odd = "fault"
  BY DEF Rec!Usual
<1>4. \/ way = Rec!Usual
      \/ way \in {[strange EXCEPT !.kind = "bad"], [strange EXCEPT !.kind = "nil"],
                  [strange EXCEPT !.lost = TRUE], [strange EXCEPT !.reorder = TRUE]}
      \/ \E op : way = fault(op)
  BY Zenon DEF Rec!Ways, Rec!Strange
<1>5. odd \in {"none", "unit", "fault", "clock", "crash"}
  BY DEF Rec!TypeOK
<1> HIDE DEF strange, fault, Odd
<1>6. CASE way = Rec!Usual
  BY <1>1, <1>5, <1>6
<1>7. CASE way \in {[strange EXCEPT !.kind = "bad"], [strange EXCEPT !.kind = "nil"],
                    [strange EXCEPT !.lost = TRUE], [strange EXCEPT !.reorder = TRUE]}
  <2>1. Odd(way)
    BY <1>2, <1>7, Zenon
  <2> QED
    BY <2>1 DEF Odd
<1>8. CASE \E op : way = fault(op)
  BY <1>3, <1>8
<1> QED
  BY <1>4, <1>6, <1>7, <1>8

(* The control of the recorder keeps its types, whatever the formats do.   *)
LEMMA RecordTypes ==
    ASSUME Rec!TypeOK, Rec!Next
    PROVE  Rec!TypeOK'
<1>1. ASSUME NEW t, Rec!Deliver(t) PROVE Rec!TypeOK'
  <2>1. PICK way \in Rec!Ways(t) : odd' = way.odd
    BY <1>1 DEF Rec!Deliver
  <2> QED
    BY <1>1, <2>1, WaysAreOdd DEF Rec!Deliver, Rec!TypeOK
<1>2. CASE Rec!RestartPauseEnds \/ Rec!Reboot
  <2>1. streams' \in 1..MaxInstances
    BY <1>2, BoundsAssumption DEF Rec!RestartPauseEnds, Rec!Reboot, Rec!NewInstance, Rec!TypeOK
  <2> QED
    BY <1>2, <2>1, Zenon
       DEF Rec!RestartPauseEnds, Rec!Reboot, Rec!NewInstance, Rec!First, Rec!TypeOK
<1>3. CASE Rec!ClockSteps \/ Rec!InstanceEnds \/ Rec!InstanceDone \/ Rec!Terminated
           \/ Rec!Close \/ Rec!Crash \/ Rec!Clean
  BY <1>3, Zenon DEF Rec!ClockSteps, Rec!InstanceEnds, Rec!InstanceDone, Rec!Terminated, Rec!Close,
              Rec!Crash, Rec!Clean, Rec!TypeOK
<1> QED
  BY <1>1, <1>2, <1>3 DEF Rec!Next

(* A unit is written by the format, which then has an error or goes on.    *)
LEMMA UnitIsWritten ==
    ASSUME RecordInv, NEW t, NEW k, NEW b, NEW broken
    PROVE  LET g == Rec!Record(t, Rec!Unit(t, k, b), broken) IN
           /\ FormatKept(g) /\ g.err \in BOOLEAN
           /\ broken = {} /\ f.err = FALSE /\ FormatSound(f) => FormatSound(g)
<1> DEFINE u == Rec!Unit(t, k, b)
           g == Rec!Record(t, u, broken)
<1>1. u.frames \in Nat \ {0}
  BY RecordAssumption DEF RecordInv, Rec!Unit
<1> DEFINE Written == /\ FormatKept(g) /\ g.err \in BOOLEAN
                      /\ broken = {} /\ f.err = FALSE /\ FormatSound(f) => FormatSound(g)
<1> HIDE DEF u
<1>2. ASSUME Rec!IsFMP4 PROVE Written
  <2>1. g = Rec!FMP4!OnData(f, t, u, broken)
    BY <1>2 DEF Rec!Record
  <2>2. Kept(f)
    BY <1>2 DEF RecordInv, FormatKept
  <2> HIDE DEF g
  <2>3. Kept(g) /\ (Well(f, broken) => Sound(g))
    BY <1>1, <2>1, <2>2, OnDataFMP4
  <2>4. g.err \in BOOLEAN
    BY <2>3 DEF Kept, Fields
  <2> QED
    BY <1>2, <2>3, <2>4 DEF FormatKept, FormatSound, Well
<1>3. ASSUME ~Rec!IsFMP4 PROVE Written
  <2>1. g = Rec!TS!OnData(f, t, u, broken)
    BY <1>3 DEF Rec!Record
  <2>2. KeptTS(f)
    BY <1>3 DEF RecordInv, FormatKept
  <2> HIDE DEF g
  <2>3. KeptTS(g) /\ (WellTS(f, broken) => SoundTS(g))
    BY <2>1, <2>2, OnDataTS
  <2>4. g.err \in BOOLEAN
    BY <2>3 DEF KeptTS, Kept, Fields
  <2> QED
    BY <1>3, <2>3, <2>4 DEF FormatKept, FormatSound, WellTS, Well, SoundTS
<1>4. Written
  BY <1>2, <1>3, Zenon
<1> QED
  BY <1>4 DEF u

(* A new format has no segment, and leaves the files to what they are.     *)
LEMMA FormatBegins ==
    ASSUME NEW n, NEW disk, NEW hooks, IsSeq(hooks), Paired(hooks),
           \A m \in DOMAIN disk : m.zone = Zone /\ \E i \in DOMAIN hooks : hooks[i] = Created(m)
    PROVE  LET g == Rec!Format(conf, n, disk, hooks) IN
           /\ FormatKept(g) /\ g.seg = Rec!NoSegment /\ g.err = FALSE
           /\ AllDone(hooks) => FormatSound(g)
<1> DEFINE g == Rec!Format(conf, n, disk, hooks)
<1>1. Rec!FMP4!NoSegment = Rec!NoSegment /\ Rec!TS!NoSegment = Rec!NoSegment
  BY SameStore
<1>2. /\ Fields(g) /\ g.seg = Rec!NoSegment /\ g.err = FALSE
      /\ g.hooks = hooks /\ g.disk = disk
      /\ ~Rec!IsFMP4 => {"buf", "stuck"} \subseteq DOMAIN g /\ g.stuck = FALSE
  BY <1>1 DEF Rec!Format, Rec!FMP4!initialize, Rec!TS!initialize, Fields, Rec!IsFMP4
<1> HIDE DEF g
<1>3. Kept(g) /\ (AllDone(hooks) => Sound(g))
  BY <1>2, SegmentFi DEF Kept, Sound
<1> QED
  BY <1>2, <1>3, Zenon DEF KeptTS, SoundTS, FormatKept, FormatSound, g

(* Every step of the recorder keeps the invariant.                         *)
LEMMA RecordKeeps ==
    ASSUME RecordInv, Rec!Next
    PROVE  RecordInv'
<1>1. Rec!TypeOK'
  BY RecordTypes DEF RecordInv
<1>2. conf' = conf /\ conf' \in RecordConfs
  BY Zenon DEF RecordInv, Rec!Next, Rec!Deliver, Rec!ClockSteps, Rec!InstanceEnds, Rec!InstanceDone,
         Rec!Terminated, Rec!RestartPauseEnds, Rec!NewInstance, Rec!Close, Rec!Crash, Rec!Reboot,
         Rec!Clean
<1>3. Rec!IsFMP4' = Rec!IsFMP4
  BY <1>2 DEF Rec!IsFMP4
<1>4. ASSUME NEW t, Rec!Deliver(t) PROVE RecordInv'
  <2>1. PICK way \in Rec!Ways(t) :
          /\ odd' = way.odd
          /\ f' = Rec!Record(t, Rec!Unit(t, way.kind, way.reorder), way.broken)
    BY <1>4 DEF Rec!Deliver
  <2>2. /\ instance = "reading" /\ recorder # "crashed" /\ recorder' = recorder
        /\ instance' = IF f'.err THEN "failed" ELSE "reading"
    BY <1>4 DEF Rec!Deliver, Rec!Arrives
  <2>3. f.err = FALSE /\ recorder # "pause"
    BY <2>2 DEF RecordInv
  <2>4. /\ FormatKept(f') /\ f'.err \in BOOLEAN
        /\ way.broken = {} /\ FormatSound(f) => FormatSound(f')
    BY <2>1, <2>3, UnitIsWritten, Zenon
  <2>5. /\ way.odd = "fault" \/ way.broken = {}
        /\ way.odd = odd \/ way.odd \in {"unit", "fault"}
    BY WaysAreOdd DEF RecordInv
  <2>6. odd' \notin {"fault", "crash"} => FormatSound(f')
    <3>1. way.odd = "unit" => odd \notin {"fault", "crash"}
      <4>1. odd # "none" => way.odd = odd
        BY DEF Rec!Ways, Rec!Usual
      <4> QED
        BY <4>1
    <3> QED
      BY <2>1, <2>2, <2>4, <2>5, <3>1 DEF RecordInv
  <2> QED
    BY <1>1, <1>2, <1>3, <2>2, <2>3, <2>4, <2>6 DEF RecordInv, FormatKept, FormatSound
<1>5. CASE Rec!ClockSteps \/ Rec!InstanceDone \/ Rec!Terminated \/ Rec!Close
  <2>1. f' = f /\ instance' = instance
    BY <1>5 DEF Rec!ClockSteps, Rec!InstanceDone, Rec!Terminated, Rec!Close
  <2>2. /\ recorder' # "crashed" \/ recorder' = recorder
        /\ recorder' = "pause" => instance = "done" \/ recorder = "pause"
        /\ recorder = "crashed" => recorder' = "crashed"
        /\ odd' = odd \/ (odd = "none" /\ odd' = "clock")
    BY <1>5 DEF Rec!ClockSteps, Rec!InstanceDone, Rec!Terminated, Rec!Close
  <2> QED
    BY <1>1, <1>2, <1>3, <2>1, <2>2 DEF RecordInv, FormatKept, FormatSound
<1>6. CASE Rec!InstanceEnds
  <2>1. /\ instance' = "done" /\ recorder' = recorder /\ recorder # "crashed" /\ odd' = odd
        /\ instance \in {"failed", "reading", "skip"}
        /\ f' = IF instance = "skip" THEN f
                ELSE IF Rec!IsFMP4 THEN Rec!FMP4!close(f, {}) ELSE Rec!TS!close(f, {})
    BY <1>6 DEF Rec!InstanceEnds, Rec!MustEnd
  <2>2. FormatKept(f') /\ (FormatSound(f) => AllDone(f'.hooks))
    <3>1. CASE instance = "skip"
      BY <2>1, <3>1, SegmentFi DEF RecordInv, FormatKept, FormatSound, Sound, SoundTS
    <3>2. CASE instance # "skip" /\ Rec!IsFMP4
      BY <2>1, <3>2, CloseFMP4 DEF RecordInv, FormatKept, FormatSound
    <3>3. CASE instance # "skip" /\ ~Rec!IsFMP4
      BY <2>1, <3>3, CloseTS DEF RecordInv, FormatKept, FormatSound
    <3> QED
      BY <3>1, <3>2, <3>3
  <2> QED
    BY <1>1, <1>2, <1>3, <2>1, <2>2 DEF RecordInv, FormatKept
<1>7. CASE Rec!RestartPauseEnds \/ Rec!Reboot
  <2>1. /\ recorder' = "watch" /\ odd' = odd /\ instance' \in {"reading", "skip"}
        /\ f' = Rec!Format(conf, streams', f.disk, f.hooks)
    BY <1>7 DEF Rec!RestartPauseEnds, Rec!Reboot, Rec!NewInstance, Rec!First
  <2>2. odd \notin {"fault", "crash"} => AllDone(f.hooks)
    BY <1>7 DEF Rec!RestartPauseEnds, Rec!Reboot, RecordInv
  <2>3. Kept(f)
    BY DEF RecordInv, FormatKept, KeptTS
  <2>4. /\ FormatKept(f') /\ f'.seg = Rec!NoSegment /\ f'.err = FALSE
        /\ AllDone(f.hooks) => FormatSound(f')
    <3>1. IsSeq(f.hooks) /\ Paired(f.hooks)
          /\ \A m \in DOMAIN f.disk :
                m.zone = Zone /\ \E i \in DOMAIN f.hooks : f.hooks[i] = Created(m)
      BY <2>3 DEF Kept
    <3>2. PICK n : f' = Rec!Format(conf, n, f.disk, f.hooks)
      BY <2>1
    <3>3. LET g == Rec!Format(conf, n, f.disk, f.hooks) IN
          /\ FormatKept(g) /\ g.seg = Rec!NoSegment /\ g.err = FALSE
          /\ AllDone(f.hooks) => FormatSound(g)
      BY <3>1, FormatBegins, Zenon
    <3> QED
      BY <3>2, <3>3
  <2> QED
    BY <1>1, <1>2, <1>3, <2>1, <2>2, <2>4 DEF RecordInv, FormatKept, FormatSound
<1>8. CASE Rec!Crash
  <2>1. recorder' = "crashed" /\ odd' = "crash" /\ instance' = instance
    BY <1>8 DEF Rec!Crash
  <2>2. CASE f' = f
    BY <1>1, <1>2, <1>3, <2>1, <2>2 DEF RecordInv, FormatKept
  <2>3. CASE f' # f
    <3>1. PICK t, after : /\ f' = Rec!Record(t, Rec!Unit(t, "good", FALSE), after)
                          /\ instance = "reading"
      BY <1>8, <2>3, Zenon DEF Rec!Crash, Rec!Arrives
    <3>2. FormatKept(f')
      BY <3>1, UnitIsWritten, Zenon
    <3> QED
      BY <1>1, <1>2, <1>3, <2>1, <3>1, <3>2, Zenon DEF RecordInv, FormatKept
  <2> QED
    BY <2>2, <2>3
<1>9. CASE Rec!Clean
  <2>1. /\ f' = [f EXCEPT !.disk = [n \in DOMAIN @ \ Rec!Expired |-> @[n]]]
        /\ UNCHANGED <<recorder, instance, odd>>
    BY <1>9 DEF Rec!Clean
  <2>2. Kept(f)
    BY DEF RecordInv, FormatKept, KeptTS
  <2>3. /\ Fields(f') /\ f'.hooks = f.hooks /\ f'.seg = f.seg /\ f'.err = f.err
        /\ f'.disk = [n \in DOMAIN f.disk \ Rec!Expired |-> f.disk[n]]
        /\ DOMAIN f' = DOMAIN f /\ ("stuck" \in DOMAIN f => f'.stuck = f.stuck)
    BY <2>1, <2>2 DEF Kept, Fields
  <2>4. Kept(f') /\ (Sound(f) => Sound(f'))
    BY <2>2, <2>3 DEF Kept, Sound, Name
  <2>5. FormatKept(f') /\ (FormatSound(f) => FormatSound(f'))
    BY <2>3, <2>4 DEF RecordInv, FormatKept, FormatSound, KeptTS, SoundTS
  <2> QED
    BY <1>1, <1>2, <1>3, <2>1, <2>3, <2>5 DEF RecordInv, FormatKept, FormatSound
<1> QED
  BY <1>4, <1>5, <1>6, <1>7, <1>8, <1>9 DEF Rec!Next

(* A recorder begins without a file.                                       *)
LEMMA RecordInit == ASSUME Rec!Init PROVE RecordInv
<1>1. terminate \in BOOLEAN /\ told \in BOOLEAN /\ instance \in {"skip", "reading"}
  BY Zenon DEF Rec!Init, Rec!First
<1>2. streams \in 1..MaxInstances
  BY BoundsAssumption DEF Rec!Init
<1>3. Rec!TypeOK
  BY <1>1, <1>2 DEF Rec!Init, Rec!TypeOK
<1>4. IsSeq(<<>>) /\ Paired(<<>>) /\ AllDone(<<>>)
  <2>1. \A S : <<>> \in Seq(S)
    OBVIOUS
  <2> QED
    BY <2>1 DEF IsSeq, Paired, AllDone
<1>5. FormatKept(f) /\ FormatSound(f) /\ f.seg = Rec!NoSegment /\ f.err = FALSE
  <2>1. f = Rec!Format(conf, 1, <<>>, <<>>)
    BY DEF Rec!Init
  <2>2. \A m \in DOMAIN <<>> : m.zone = Zone /\ \E i \in DOMAIN <<>> : <<>>[i] = Created(m)
    OBVIOUS
  <2> QED
    BY <1>4, <2>1, <2>2, FormatBegins, Zenon
<1> QED
  BY <1>1, <1>3, <1>5 DEF Rec!Init, RecordInv

(* The property, of every state in which the invariant holds.              *)
LEMMA HooksFollow == ASSUME RecordInv PROVE Rec!HooksFollowFiles
<1>1. Kept(f)
  BY DEF RecordInv, FormatKept, KeptTS
<1>2. \A i, j : Rec!Completes(i, j) <=> Completes(f.hooks, i, j)
  BY DEF Rec!Completes, Completes
<1>3. instance = "done" /\ odd \notin {"fault", "crash"} => AllDone(f.hooks)
  BY DEF RecordInv
<1> QED
  BY <1>1, <1>2, <1>3 DEF Rec!HooksFollowFiles, Kept, Paired, AllDone, Created

-----------------------------------------------------------------------------
(* All of them.                                                            *)

(* Whichever part it is keeps its own invariant.                           *)
MediaInv ==
    /\ kind = "record" => RecordInv
    /\ kind = "stream" => StreamInv /\ UnitInv
    /\ kind = "forward" => ForwardInv

(* A behaviour stays with the part that it began with.                     *)
LEMMA MediaStep ==
    ASSUME MediaInv, [Next]_vars
    PROVE  MediaInv'
<1>1. CASE IsRecord /\ Rec!Next
  BY <1>1, RecordKeeps DEF IsRecord, MediaInv
<1>2. CASE IsStream /\ Str!Next
  BY <1>2, StreamAssumption, StreamKeeps, UnitKeeps DEF IsStream, MediaInv
<1>3. CASE IsForward /\ Fwd!Next
  BY <1>3, ForwardKeeps DEF IsForward, MediaInv
<1>4. CASE UNCHANGED vars
  <2>1. kind' = kind /\ UNCHANGED Str!streamVars
    BY <1>4 DEF vars, streamVars, Str!streamVars
  <2>2. RecordInv => RecordInv'
    <3>1. Rec!TypeOK => Rec!TypeOK'
      BY <1>4 DEF vars, recordVars, Rec!TypeOK
    <3>2. UNCHANGED <<conf, recorder, instance, f, odd>>
      BY <1>4 DEF vars, recordVars
    <3>3. Rec!IsFMP4' = Rec!IsFMP4
      BY <3>2 DEF Rec!IsFMP4
    <3> QED
      BY <3>1, <3>2, <3>3 DEF RecordInv, FormatKept, FormatSound
  <2>3. ForwardInv => ForwardInv'
    BY <1>4 DEF vars, forwardVars, ForwardInv, Fwd!TypeOK, BeforeStop, Dials, Reads, Shows,
                Fwd!IsSRT
  <2> QED
    BY <2>1, <2>2, <2>3, StreamAssumption, StreamKeeps, UnitKeeps DEF MediaInv
<1> QED
  BY <1>1, <1>2, <1>3, <1>4 DEF Next

(* It holds of every reachable state.                                      *)
LEMMA MediaAlways == Spec => []MediaInv
<1>1. Init => MediaInv
  <2>1. ASSUME Str!Init PROVE UnitInv
    BY <2>1 DEF Str!Init, UnitInv
  <2> QED
    BY <2>1, StreamAssumption, StreamInit, ForwardInit, RecordInit DEF Init, MediaInv
<1> QED
  BY <1>1, MediaStep, PTL DEF Spec

(* The types, for any recordings, readers, tracks and sizes of queues.     *)
THEOREM TypeCorrect == Spec => []TypeOK
<1>1. MediaInv => TypeOK
  BY StreamAssumption, StreamHasTypes DEF MediaInv, TypeOK, ForwardInv, RecordInv
<1> QED
  BY <1>1, MediaAlways, PTL

(* Nothing of a stream is lost on its way to a reader but what is counted, *)
(* a reader that was removed is left alone, and no forwarder reads a       *)
(* stream that is not the current one, or is connected for it, or still    *)
(* when the path has closed it (stream/reader.go:80-117,                   *)
(* forwarder/srt_forwarder.go:44-110).                                     *)
THEOREM DeliveryAlwaysRight == Spec => []DeliveryIsRight
<1>1. MediaInv => DeliveryIsRight
  BY StreamAssumption, UnitsAllArrive, RemovedStaysQuiet, ForwardedIsCurrent
     DEF MediaInv, DeliveryIsRight
<1> QED
  BY <1>1, MediaAlways, PTL

(* The hooks of a recording tell of its files: the second one of a file    *)
(* follows its first one at once, none is without its first one and, when  *)
(* a recorder has ended and neither the disk has failed nor the process    *)
(* has crashed, none is without its second one                             *)
(* (recorder/format_fmp4_segment.go:84-134).                               *)
THEOREM FilesAlwaysComplete == Spec => []FilesAreComplete
<1>1. MediaInv => FilesAreComplete
  BY HooksFollow DEF MediaInv, FilesAreComplete
<1> QED
  BY <1>1, MediaAlways, PTL
-----------------------------------------------------------------------------
(* The promise of the stream. What is on the way to a reader, who is in    *)
(* the stream and whose callback runs, as Promise has them.                *)
Way(r) == Str!Waiting(r) \union Str!Pushed(r)
(* The same of all readers, the state of every reader in the promise and    *)
(* the readers whose callbacks run.                                         *)
Ways == [r \in Readers |-> Way(r)]
States == [r \in Readers |-> Str!Status(r)]
Calls == {r \in Readers : run[r] = "calling"}

(* A reader is in the stream of the promise until RemoveReader has begun.  *)
LEMMA StateFacts ==
    ASSUME StreamInv, NEW r \in Readers
    PROVE  /\ States[r] = "out" <=> owner[r] = "out"
           /\ States[r] = "in" <=> owner[r] \in {"reading", "locking"}
           /\ States[r] = "leaving" <=> owner[r] = "stopping"
           /\ States[r] = "gone" <=> owner[r] = "gone"
<1>1. owner[r] \in {"out", "reading", "locking", "stopping", "gone"}
  BY DEF StreamInv, StreamTypes
<1> QED
  BY <1>1 DEF States, Str!Status

(* What is on the way to a reader is queued or being written.              *)
Waits ==
    \A r \in Readers :
        /\ Way(r) \subseteq Tracks \X Nat
        /\ \A t \in Tracks, n \in Nat :
              <<t, n>> \in Way(r) <=> \/ owner[r] # "gone" /\ Queued(r, t, n)
                                      \/ r \in writer[t] /\ n = written[t]

LEMMA WayFacts == StreamInv => Waits
<1> SUFFICES ASSUME StreamInv, NEW r \in Readers
             PROVE  /\ Way(r) \subseteq Tracks \X Nat
                    /\ \A t \in Tracks, n \in Nat :
                          <<t, n>> \in Way(r) <=> \/ owner[r] # "gone" /\ Queued(r, t, n)
                                                  \/ r \in writer[t] /\ n = written[t]
  BY DEF Waits
<1>1. buffer[r] \in Seq(Tracks \X Nat) /\ written \in [Tracks -> Nat]
  BY DEF StreamInv, StreamTypes
<1>2. \A i \in DOMAIN buffer[r] : buffer[r][i] \in Tracks \X Nat
  BY <1>1
<1>3. Str!Waiting(r) \subseteq Tracks \X Nat /\ Str!Pushed(r) \subseteq Tracks \X Nat
  BY <1>1, <1>2 DEF Str!Waiting, Str!Pushed, Str!Unit
<1>4. ASSUME NEW t \in Tracks, NEW n \in Nat
      PROVE  /\ <<t, n>> \in Str!Waiting(r) <=> owner[r] # "gone" /\ Queued(r, t, n)
             /\ <<t, n>> \in Str!Pushed(r) <=> r \in writer[t] /\ n = written[t]
  <2>1. <<t, n>> \in Str!Waiting(r) <=> owner[r] # "gone" /\ Queued(r, t, n)
    BY DEF Str!Waiting, Queued
  <2>2. <<t, n>> \in Str!Pushed(r) <=> r \in writer[t] /\ n = written[t]
    BY DEF Str!Pushed, Str!Unit
  <2> QED
    BY <2>1, <2>2
<1> QED
  BY <1>3, <1>4 DEF Way

(* A step that changes nothing of that is none of the promise.             *)
LEMMA NoStep ==
    ASSUME UNCHANGED <<onDatas, written, seen, discarded, owner>>,
           \A r \in Readers : run[r] = "calling" <=> run'[r] = "calling",
           \A r \in Readers : Way(r)' = Way(r)
    PROVE  UNCHANGED Str!Promise!vars
<1>1. States' = States /\ Calls' = Calls /\ Ways' = Ways
  BY DEF States, Str!Status, Calls, Ways
<1> QED
  BY <1>1 DEF Str!Promise!vars, States, Calls, Ways, Way

(* A unit on its way may be delivered or lost.                             *)
LEMMA UnitSteps ==
    ASSUME NEW r \in Readers, NEW u \in Ways[r], Str!Promise!Deliver(r, u) \/ Str!Promise!Lose(r, u)
    PROVE  Str!Promise!Next
BY DEF Str!Promise!Next, Ways, Way

(* Sets of units are equal if they have the same members.                  *)
LEMMA SameUnits ==
    ASSUME NEW A \in SUBSET (Tracks \X Nat), NEW B \in SUBSET (Tracks \X Nat),
           \A t \in Tracks, n \in Nat : <<t, n>> \in A <=> <<t, n>> \in B
    PROVE  A = B
  OBVIOUS

(* A unit that is written is on its way to everybody who wants it.         *)
LEMMA WriteIsPromised ==
    ASSUME StreamInv, StreamInv', NEW t \in Tracks, Str!WriteUnit(t), UNCHANGED onDatas
    PROVE  Str!Promise!Next
<1>1. StreamTypes /\ LockInv
  BY DEF StreamInv
<1>2. /\ Str!Removing = {} /\ t \notin inside
      /\ written' = [written EXCEPT ![t] = @ + 1]
      /\ writer' = [writer EXCEPT ![t] = {r \in readers : t \in onDatas[r]}]
      /\ UNCHANGED <<buffer, run, seen, owner, discarded>>
  BY DEF Str!WriteUnit, Str!MayRLock, Str!readVars
<1>3. /\ written[t] \in Nat /\ written'[t] = written[t] + 1 /\ writer[t] = {}
      /\ writer'[t] = {r \in readers : t \in onDatas[r]}
      /\ \A s \in Tracks : s # t => written'[s] = written[s] /\ writer'[s] = writer[s]
  BY <1>1, <1>2 DEF StreamTypes, LockInv
<1>4. UNCHANGED <<States, Calls>>
  BY <1>2 DEF States, Str!Status, Calls
<1>5. Waits /\ Waits'
  BY WayFacts, PTL
<1> DEFINE new == <<t, written[t] + 1>>
           now(r) == IF States[r] = "in" /\ t \in onDatas[r]
                     THEN Ways[r] \union {new} ELSE Ways[r]
<1>6. ASSUME NEW r \in Readers PROVE Way(r)' = now(r)
  <2>1. States[r] = "in" <=> r \in readers
    BY <1>1, <1>2, StateFacts DEF LockInv, Str!Removing
  <2>2. Ways[r] = Way(r) /\ new \in Tracks \X Nat
    BY <1>3 DEF Ways
  <2>3. Way(r) \subseteq Tracks \X Nat /\ Way(r)' \subseteq Tracks \X Nat
    BY <1>5 DEF Waits
  <2>4. ASSUME NEW s \in Tracks, NEW n \in Nat
        PROVE  <<s, n>> \in Way(r)' <=> <<s, n>> \in now(r)
    <3>1. <<s, n>> \in Way(r)' <=> \/ owner[r] # "gone" /\ Queued(r, s, n)
                                   \/ r \in writer'[s] /\ n = written'[s]
      <4>1. Queued(r, s, n)' <=> Queued(r, s, n)
        BY <1>2 DEF Queued
      <4> QED
        BY <1>2, <1>5, <4>1 DEF Waits
    <3>2. <<s, n>> \in Way(r) <=> \/ owner[r] # "gone" /\ Queued(r, s, n)
                                  \/ r \in writer[s] /\ n = written[s]
      BY <1>5 DEF Waits
    <3>3. <<s, n>> = new <=> s = t /\ n = written[t] + 1
      BY PairFacts
    <3> QED
      BY <1>3, <2>1, <2>2, <3>1, <3>2, <3>3
  <2> HIDE DEF now
  <2>5. now(r) \subseteq Tracks \X Nat
    BY <2>2, <2>3 DEF now
  <2> QED
    BY <2>3, <2>4, <2>5, SameUnits
<1>7. Ways' = [r \in Readers |-> now(r)]
  BY <1>6 DEF Ways
<1>8. Str!Promise!Write(t)
  BY <1>2, <1>4, <1>7 DEF Str!Promise!Write, States, Calls, Ways, Way
<1> QED
  BY <1>8 DEF Str!Promise!Next

(* Who is not concerned by a step has the same on its way.                 *)
LEMMA WayStays ==
    ASSUME Waits, Waits', NEW r \in Readers, UNCHANGED <<owner, written>>, buffer'[r] = buffer[r],
           \A t \in Tracks : r \in writer'[t] <=> r \in writer[t]
    PROVE  Way(r)' = Way(r)
<1>1. Way(r) \subseteq Tracks \X Nat /\ Way(r)' \subseteq Tracks \X Nat
  BY DEF Waits
<1>2. ASSUME NEW t \in Tracks, NEW n \in Nat
      PROVE  <<t, n>> \in Way(r)' <=> <<t, n>> \in Way(r)
  <2>1. Queued(r, t, n)' <=> Queued(r, t, n)
    BY DEF Queued
  <2> QED
    BY <2>1 DEF Waits
<1> QED
  BY <1>1, <1>2, SameUnits

(* A queue that is full holds as many different units as it has places.    *)
LEMMA FullQueue ==
    ASSUME StreamInv, NEW r \in Readers, owner[r] # "gone", Len(buffer[r]) = WriteQueueSize
    PROVE  \E others \in [1..WriteQueueSize -> Str!Waiting(r)] :
              \A i, j \in 1..WriteQueueSize : others[i] = others[j] => i = j
<1> DEFINE b == buffer[r]
           units == [i \in 1..WriteQueueSize |-> b[i]]
<1>1. b \in Seq(Tracks \X Nat) /\ DOMAIN b = 1..WriteQueueSize /\ WriteQueueSize \in Nat
  BY DEF StreamInv, StreamTypes
<1>2. units \in [1..WriteQueueSize -> Str!Waiting(r)]
  BY <1>1, Zenon DEF Str!Waiting
<1>3. ASSUME NEW i \in 1..WriteQueueSize, NEW j \in 1..WriteQueueSize, b[i] = b[j] PROVE i = j
  <2> DEFINE t == b[i][1]
  <2>1. /\ t \in Tracks /\ b[i][1] = t /\ b[j][1] = t
        /\ b[i][2] \in Nat /\ b[j][2] = b[i][2]
    BY <1>1, <1>3
  <2>2. OrderOf(r, t)
    BY <2>1 DEF StreamInv, ArriveInv
  <2>3. \A k, l \in DOMAIN b : k < l /\ b[k][1] = t /\ b[l][1] = t => b[k][2] < b[l][2]
    BY <2>2 DEF OrderOf
  <2> HIDE DEF t, b
  <2>4. ~(i < j) /\ ~(j < i)
    BY <1>1, <2>1, <2>3
  <2> QED
    BY <1>1, <2>4
<1> HIDE DEF b
<1>4. \A i, j \in 1..WriteQueueSize : units[i] = units[j] => i = j
  BY <1>3
<1> QED
  BY <1>2, <1>4, Zenon

(* A unit is queued, which is on its way as before, or the newest one is   *)
(* lost because the queue is full.                                         *)
LEMMA PushIsPromised ==
    ASSUME StreamInv, StreamInv', NEW t \in Tracks, NEW q \in Readers, Str!Push(t, q),
           UNCHANGED onDatas
    PROVE  Str!Promise!Next \/ UNCHANGED Str!Promise!vars
<1> DEFINE u == <<t, written[t]>>
<1>1. StreamTypes /\ LockInv /\ ArriveInv /\ Waits /\ Waits'
  BY WayFacts, PTL DEF StreamInv
<1>2. /\ q \in writer[t] /\ writer' = [writer EXCEPT ![t] = @ \ {q}]
      /\ UNCHANGED <<written, run, seen, owner>>
  BY DEF Str!Push, Str!readVars
<1>3. /\ written[t] \in Nat /\ buffer[q] \in Seq(Tracks \X Nat) /\ u \in Tracks \X Nat
      /\ writer'[t] = writer[t] \ {q}
      /\ \A s \in Tracks : s # t => writer'[s] = writer[s]
  BY <1>1, <1>2 DEF StreamTypes
<1>4. owner[q] # "gone"
  BY <1>1, <1>2 DEF LockInv
<1>5. \A r \in Readers \ {q}, s \in Tracks : r \in writer'[s] <=> r \in writer[s]
  BY <1>3
<1>6. CASE Str!Fits(q)
  <2>1. buffer' = [buffer EXCEPT ![q] = Append(@, u)] /\ discarded' = discarded
    BY <1>6 DEF Str!Push, Str!Unit
  <2>2. ASSUME NEW r \in Readers \ {q} PROVE Way(r)' = Way(r)
    BY <1>1, <1>2, <1>5, <2>1, WayStays DEF StreamTypes
  <2>3. Way(q)' = Way(q)
    <3>1. Way(q) \subseteq Tracks \X Nat /\ Way(q)' \subseteq Tracks \X Nat
      BY <1>1 DEF Waits
    <3>2. buffer'[q] = Append(buffer[q], u)
      BY <1>1, <2>1 DEF StreamTypes
    <3>3. ASSUME NEW s \in Tracks, NEW n \in Nat
          PROVE  <<s, n>> \in Way(q)' <=> <<s, n>> \in Way(q)
      <4>1. Queued(q, s, n)' <=> Queued(q, s, n) \/ (s = t /\ n = written[t])
        <5> DEFINE b == buffer[q]
                   c == Append(b, u)
        <5>1. /\ Len(b) \in Nat /\ DOMAIN b = 1..Len(b) /\ DOMAIN c = 1..(Len(b) + 1)
              /\ c[Len(b) + 1] = u /\ \A i \in 1..Len(b) : c[i] = b[i]
          BY <1>3, AppendFacts
        <5>2. <<s, n>> = u <=> s = t /\ n = written[t]
          BY PairFacts
        <5> HIDE DEF c, u
        <5>3. (\E i \in DOMAIN c : c[i] = <<s, n>>)
              <=> (\E i \in DOMAIN b : b[i] = <<s, n>>) \/ <<s, n>> = u
          <6>1. Len(b) + 1 \in DOMAIN c
            BY <5>1
          <6>2. \A i \in DOMAIN b : i \in DOMAIN c /\ c[i] = b[i]
            BY <5>1
          <6>3. \A i \in DOMAIN c : i \in DOMAIN b \/ i = Len(b) + 1
            BY <5>1
          <6> QED
            BY <5>1, <6>1, <6>2, <6>3, Zenon
        <5> QED
          BY <3>2, <5>2, <5>3, Zenon DEF Queued, c, u
      <4>2. <<s, n>> \in Way(q)' <=> \/ owner'[q] # "gone" /\ Queued(q, s, n)'
                                     \/ q \in writer'[s] /\ n = written'[s]
        BY <1>1 DEF Waits
      <4>3. <<s, n>> \in Way(q) <=> \/ owner[q] # "gone" /\ Queued(q, s, n)
                                    \/ q \in writer[s] /\ n = written[s]
        BY <1>1 DEF Waits
      <4>4. q \in writer[s] <=> q \in writer'[s] \/ s = t
        BY <1>2, <1>3
      <4> QED
        BY <1>2, <1>3, <1>4, <4>1, <4>2, <4>3, <4>4
    <3> QED
      BY <3>1, <3>3, SameUnits, Zenon
  <2> QED
    BY <1>2, <2>1, <2>2, <2>3, NoStep
<1>7. CASE ~Str!Fits(q)
  <2>1. buffer' = buffer /\ discarded' = [discarded EXCEPT ![q] = @ \union {u}]
    BY <1>7 DEF Str!Push, Str!Unit
  <2>2. ASSUME NEW r \in Readers \ {q} PROVE Way(r)' = Way(r)
    BY <1>1, <1>2, <1>5, <2>1, WayStays
  <2>3. ~Queued(q, t, written[t])
    BY <1>1, <1>2, <1>3 DEF ArriveInv, OrderOf, Earlier
  <2>4. Way(q)' = Way(q) \ {u}
    <3>1. Way(q) \ {u} \subseteq Tracks \X Nat /\ Way(q)' \subseteq Tracks \X Nat
      BY <1>1 DEF Waits
    <3>2. ASSUME NEW s \in Tracks, NEW n \in Nat
          PROVE  <<s, n>> \in Way(q)' <=> <<s, n>> \in Way(q) \ {u}
      <4>1. Queued(q, s, n)' <=> Queued(q, s, n)
        BY <2>1 DEF Queued
      <4>2. <<s, n>> \in Way(q)' <=> \/ owner'[q] # "gone" /\ Queued(q, s, n)'
                                     \/ q \in writer'[s] /\ n = written'[s]
        BY <1>1 DEF Waits
      <4>3. <<s, n>> \in Way(q) <=> \/ owner[q] # "gone" /\ Queued(q, s, n)
                                    \/ q \in writer[s] /\ n = written[s]
        BY <1>1 DEF Waits
      <4>4. q \in writer'[s] <=> q \in writer[s] /\ s # t
        BY <1>3
      <4>5. <<s, n>> = u <=> s = t /\ n = written[t]
        BY PairFacts
      <4> QED
        BY <1>2, <1>4, <2>3, <4>1, <4>2, <4>3, <4>4, <4>5
    <3> QED
      BY <3>1, <3>2, SameUnits
  <2>5. u \in Way(q)
    BY <1>1, <1>2, <1>3 DEF Waits
  <2>6. \A v \in Way(q) : v[1] = t => v[2] <= written[t]
    <3> SUFFICES ASSUME NEW n \in Nat, <<t, n>> \in Way(q) PROVE n <= written[t]
      BY <1>1 DEF Waits
    <3>1. Queued(q, t, n) \/ n = written[t]
      BY <1>1 DEF Waits
    <3>2. Queued(q, t, n) => n < written[t]
      BY <1>1, <1>2 DEF ArriveInv, OrderOf, Earlier
    <3> QED
      BY <1>3, <3>1, <3>2
  <2>7. \E others \in [1..WriteQueueSize -> Way(q) \ {u}] :
            \A i, j \in 1..WriteQueueSize : others[i] = others[j] => i = j
    <3>1. Len(buffer[q]) = WriteQueueSize
      BY <1>1, <1>3, <1>7, StreamAssumption DEF StreamTypes, Str!Fits, Str!ConstantsAreRight
    <3>2. u \notin Str!Waiting(q)
      BY <1>4, <2>3 DEF Str!Waiting, Queued
    <3>3. Str!Waiting(q) \subseteq Way(q) \ {u}
      BY <3>2 DEF Way
    <3>4. PICK others \in [1..WriteQueueSize -> Str!Waiting(q)] :
              \A i, j \in 1..WriteQueueSize : others[i] = others[j] => i = j
      BY <1>4, <3>1, FullQueue
    <3>5. others \in [1..WriteQueueSize -> Way(q) \ {u}]
      BY <3>3
    <3> QED
      BY <3>4, <3>5, Zenon
  <2>8. States' = States /\ Calls' = Calls
    BY <1>2 DEF States, Str!Status, Calls
  <2>9. Ways' = [Ways EXCEPT ![q] = @ \ {u}]
    BY <2>2, <2>4, Zenon DEF Ways
  <2>10. Ways[q] = Way(q)
    BY DEF Ways
  <2>11. u[1] = t /\ u[2] = written[t]
    OBVIOUS
  <2> HIDE DEF u
  <2>12. Str!Promise!Lose(q, u)
    BY <1>2, <2>1, <2>5, <2>6, <2>7, <2>8, <2>9, <2>10, <2>11, Zenon
       DEF Str!Promise!Lose, Str!Promise!Last, Str!Promise!IsFull, States, Calls, Ways, Way
  <2> QED
    BY <2>5, <2>10, <2>12 DEF Str!Promise!Next, Ways, Way
<1> QED
  BY <1>6, <1>7

(* What is pulled is the first of its track that is on its way.            *)
LEMMA PullIsPromised ==
    ASSUME StreamInv, StreamInv', NEW q \in Readers, Str!Pull(q), UNCHANGED onDatas
    PROVE  Str!Promise!Next \/ UNCHANGED Str!Promise!vars
<1>1. StreamTypes /\ LockInv /\ RunInv /\ ArriveInv /\ Waits /\ Waits'
  BY WayFacts, PTL DEF StreamInv
<1>2. /\ run[q] = "pulling" /\ UNCHANGED <<onDatas, written, writer, owner, discarded>>
  BY DEF Str!Pull
<1>3. owner[q] # "gone"
  BY <1>1, <1>2 DEF RunInv
<1>4. CASE buffer[q] = <<>>
  <2>1. run' = [run EXCEPT ![q] = "terminated"] /\ UNCHANGED <<seen, buffer>>
    BY <1>4 DEF Str!Pull
  <2>2. \A r \in Readers : run[r] = "calling" <=> run'[r] = "calling"
    BY <1>1, <1>2, <2>1 DEF StreamTypes
  <2>3. \A r \in Readers : Way(r)' = Way(r)
    BY <1>1, <1>2, <2>1, WayStays
  <2> QED
    BY <1>2, <2>1, <2>2, <2>3, NoStep
<1>5. CASE buffer[q] # <<>>
  <2> DEFINE b == buffer[q]
  <2>0. PICK u : u = Head(b)
    OBVIOUS
  <2>1. /\ seen' = [seen EXCEPT ![q][u[1]] = Append(@, u[2])]
        /\ buffer' = [buffer EXCEPT ![q] = Tail(@)]
        /\ run' = [run EXCEPT ![q] = "calling"]
    BY <1>5, <2>0 DEF Str!Pull
  <2>2. b \in Seq(Tracks \X Nat)
    BY <1>1 DEF StreamTypes
  <2>3. /\ Len(b) \in Nat \ {0} /\ DOMAIN b = 1..Len(b)
        /\ DOMAIN Tail(b) = 1..(Len(b) - 1)
        /\ \A i \in 1..(Len(b) - 1) : Tail(b)[i] = b[i + 1]
        /\ u = b[1] /\ u \in Tracks \X Nat
    BY <1>5, <2>0, <2>2, TailFacts
  <2>4. buffer'[q] = Tail(b)
    BY <1>1, <2>1 DEF StreamTypes
  <2>5. u[1] \in Tracks /\ u[2] \in Nat /\ u = <<u[1], u[2]>>
    BY <2>3
  <2> DEFINE t == u[1]
  <2>6. OrderOf(q, t)
    BY <1>1, <2>5 DEF ArriveInv
  <2>7. Queued(q, t, u[2])
    BY <2>3, <2>5 DEF Queued
  <2>8. Earlier(q, t, u[2])
    BY <2>5, <2>6, <2>7 DEF OrderOf
  <2>9. \A n \in Nat : Queued(q, t, n) => u[2] <= n
    <3> SUFFICES ASSUME NEW n \in Nat, NEW i \in DOMAIN b, b[i] = <<t, n>> PROVE u[2] <= n
      BY DEF Queued
    <3>0. b[i][1] = t /\ b[i][2] = n
      OBVIOUS
    <3>1. i = 1 \/ 1 < i
      BY <2>3
    <3>2. 1 < i => b[1][2] < b[i][2]
      BY <2>3, <2>6, <3>0 DEF OrderOf
    <3> QED
      BY <2>3, <2>5, <3>0, <3>1, <3>2
  <2>10. \A v \in Way(q) : v[1] = t => u[2] <= v[2]
    <3> SUFFICES ASSUME NEW n \in Nat, <<t, n>> \in Way(q) PROVE u[2] <= n
      BY <1>1 DEF Waits
    <3>1. Queued(q, t, n) \/ (q \in writer[t] /\ n = written[t])
      BY <1>1, <2>5 DEF Waits
    <3>2. q \in writer[t] => u[2] < written[t]
      BY <2>8 DEF Earlier
    <3>3. written[t] \in Nat
      BY <1>1, <2>5 DEF StreamTypes
    <3> QED
      BY <2>5, <2>9, <3>1, <3>2, <3>3
  <2>11. u \in Way(q)
    <3>1. <<t, u[2]>> \in Way(q) <=> \/ owner[q] # "gone" /\ Queued(q, t, u[2])
                                     \/ q \in writer[t] /\ u[2] = written[t]
      BY <1>1, <2>5 DEF Waits
    <3>2. <<t, u[2]>> \in Way(q)
      BY <1>3, <2>7, <3>1
    <3> QED
      BY <2>5, <3>2
  <2>12. ASSUME NEW r \in Readers \ {q} PROVE Way(r)' = Way(r)
    <3>1. buffer'[r] = buffer[r]
      BY <1>1, <2>1 DEF StreamTypes
    <3> QED
      BY <1>1, <1>2, <3>1, WayStays
  <2>13. Way(q)' = Way(q) \ {u}
    <3>1. Way(q) \ {u} \subseteq Tracks \X Nat /\ Way(q)' \subseteq Tracks \X Nat
      BY <1>1 DEF Waits
    <3>2. ASSUME NEW s \in Tracks, NEW n \in Nat
          PROVE  <<s, n>> \in Way(q)' <=> <<s, n>> \in Way(q) \ {u}
      <4>1. <<s, n>> \in Way(q)' <=> \/ owner'[q] # "gone" /\ Queued(q, s, n)'
                                     \/ q \in writer'[s] /\ n = written'[s]
        BY <1>1 DEF Waits
      <4>2. <<s, n>> \in Way(q) <=> \/ owner[q] # "gone" /\ Queued(q, s, n)
                                    \/ q \in writer[s] /\ n = written[s]
        BY <1>1 DEF Waits
      <4>3. Queued(q, s, n) <=> Queued(q, s, n)' \/ <<s, n>> = u
        <5>1. \A i \in DOMAIN Tail(b) : i + 1 \in DOMAIN b /\ Tail(b)[i] = b[i + 1]
          BY <2>3
        <5>2. \A i \in DOMAIN b : i = 1 \/ (i - 1 \in DOMAIN Tail(b) /\ b[i] = Tail(b)[i - 1])
          BY <2>3
        <5>3. 1 \in DOMAIN b /\ b[1] = u
          BY <2>3
        <5> QED
          BY <2>4, <5>1, <5>2, <5>3, Zenon DEF Queued
      <4>4. <<s, n>> = u => ~Queued(q, s, n)'
        <5> SUFFICES ASSUME NEW i \in DOMAIN Tail(b), Tail(b)[i] = u PROVE FALSE
          BY <2>4 DEF Queued
        <5>1. i + 1 \in DOMAIN b /\ 1 \in DOMAIN b /\ 1 < i + 1 /\ b[i + 1] = u /\ b[1] = u
          BY <2>3
        <5>2. b[1][2] < b[i + 1][2]
          BY <2>6, <5>1 DEF OrderOf
        <5> QED
          BY <2>5, <5>1, <5>2
      <4>5. <<s, n>> = u => ~(q \in writer[s] /\ n = written[s])
        BY <2>5, <2>8 DEF Earlier
      <4> QED
        BY <1>2, <1>3, <4>1, <4>2, <4>3, <4>4, <4>5
    <3> QED
      BY <3>1, <3>2, SameUnits
  <2>14. States' = States /\ Calls' = Calls \union {q} /\ q \notin Calls
    <3>1. States' = States
      BY <1>2 DEF States, Str!Status
    <3>2. Calls' = Calls \union {q} /\ q \notin Calls
      BY <1>1, <1>2, <2>1 DEF Calls, StreamTypes
    <3> QED
      BY <3>1, <3>2
  <2>15. Ways' = [Ways EXCEPT ![q] = @ \ {u}] /\ Ways[q] = Way(q)
    BY <2>12, <2>13, Zenon DEF Ways
  <2>16. Str!Promise!Deliver(q, u)
    BY <1>2, <2>1, <2>10, <2>11, <2>14, <2>15
       DEF Str!Promise!Deliver, Str!Promise!First, States, Calls, Ways, Way
  <2>17. u \in Ways[q]
    BY <2>11, <2>15
  <2>18. Str!Promise!Next
    BY <2>16, <2>17, UnitSteps
  <2> QED
    BY <2>18
<1> QED
  BY <1>4, <1>5

(* Readers come and go as they do in the promise, and callbacks return.    *)
LEMMA OthersArePromised ==
    ASSUME StreamInv, StreamInv', NEW q \in Readers, UNCHANGED onDatas,
           \/ Str!CallbackReturns(q) \/ Str!AddReader(q) \/ Str!ReaderFails(q)
           \/ Str!OwnerLeaves(q) \/ Str!RemoveReader(q) \/ Str!RemoveReturns(q)
    PROVE  Str!Promise!Next \/ UNCHANGED Str!Promise!vars
<1>1. StreamTypes /\ LockInv /\ RunInv /\ Waits /\ Waits'
  BY WayFacts, PTL DEF StreamInv
<1>2. UNCHANGED <<written, writer, seen, discarded>>
  BY DEF Str!CallbackReturns, Str!AddReader, Str!ReaderFails, Str!OwnerLeaves,
         Str!RemoveReader, Str!RemoveReturns, Str!writeVars, Str!readVars
<1>3. ASSUME NEW r \in Readers, owner'[r] = owner[r] \/ (owner[r] # "gone" /\ owner'[r] # "gone"),
             buffer'[r] = buffer[r]
      PROVE  Way(r)' = Way(r)
  BY <1>2, <1>3 DEF Way, Str!Waiting, Str!Pushed, Str!Unit
<1>4. CASE Str!CallbackReturns(q)
  <2>1. /\ run[q] = "calling" /\ UNCHANGED <<owner, buffer>>
        /\ \E s \in {"pulling", "failed"} : run' = [run EXCEPT ![q] = s]
    BY <1>4 DEF Str!CallbackReturns
  <2>2. States' = States /\ Calls' = Calls \ {q} /\ q \in Calls
    <3>1. States' = States
      BY <2>1 DEF States, Str!Status
    <3>2. Calls' = Calls \ {q} /\ q \in Calls
      BY <1>1, <2>1 DEF Calls, StreamTypes
    <3> QED
      BY <3>1, <3>2
  <2>3. Ways' = Ways
    BY <1>3, <2>1 DEF Ways
  <2>4. Str!Promise!Return(q)
    BY <1>2, <2>2, <2>3 DEF Str!Promise!Return, States, Calls, Ways, Way
  <2> QED
    BY <2>4 DEF Str!Promise!Next
<1>5. CASE Str!AddReader(q)
  <2>1. /\ owner[q] = "out" /\ owner' = [owner EXCEPT ![q] = "reading"]
        /\ run' = [run EXCEPT ![q] = "pulling"] /\ UNCHANGED buffer
    BY <1>5 DEF Str!AddReader, Str!writeVars
  <2>2. Calls' = Calls
    BY <1>1, <2>1 DEF Calls, StreamTypes, RunInv
  <2>3. Ways' = Ways
    BY <1>1, <1>3, <2>1 DEF Ways, StreamTypes
  <2>4. States[q] = "out" /\ States' = [States EXCEPT ![q] = "in"]
    BY <1>1, <2>1, Zenon DEF States, Str!Status, StreamTypes
  <2>5. Str!Promise!Join(q)
    BY <1>2, <2>2, <2>3, <2>4 DEF Str!Promise!Join, Str!Promise!Become, States, Calls, Ways, Way
  <2> QED
    BY <2>5 DEF Str!Promise!Next
<1>6. CASE Str!ReaderFails(q) \/ Str!OwnerLeaves(q)
  <2>1. /\ owner[q] = "reading" /\ owner' = [owner EXCEPT ![q] = "locking"] /\ UNCHANGED buffer
        /\ run' = run \/ (run[q] = "failed" /\ run' = [run EXCEPT ![q] = "done"])
    BY <1>6 DEF Str!ReaderFails, Str!OwnerLeaves, Str!Receive, Str!writeVars, Str!readVars
  <2>2. Calls' = Calls
    BY <1>1, <2>1 DEF Calls, StreamTypes
  <2>3. Ways' = Ways
    BY <1>1, <1>3, <2>1 DEF Ways, StreamTypes
  <2>4. States' = States
    BY <1>1, <2>1 DEF States, Str!Status, StreamTypes
  <2> QED
    BY <1>2, <2>2, <2>3, <2>4 DEF Str!Promise!vars, States, Calls, Ways, Way
<1>7. CASE Str!RemoveReader(q)
  <2>1. /\ owner[q] = "locking" /\ inside = {} /\ owner' = [owner EXCEPT ![q] = "stopping"]
        /\ run' = run
        /\ buffer' = buffer \/ buffer' = [buffer EXCEPT ![q] = <<>>]
    BY <1>7 DEF Str!RemoveReader, Str!MayLock, Str!readVars
  <2>2. Calls' = Calls
    BY <2>1 DEF Calls
  <2>3. States[q] = "in" /\ States' = [States EXCEPT ![q] = "leaving"]
    BY <1>1, <2>1, Zenon DEF States, Str!Status, StreamTypes
  <2>4. Ways' = Ways \/ Ways' = [Ways EXCEPT ![q] = {}]
    <3>1. CASE buffer' = buffer
      BY <1>1, <1>3, <2>1, <3>1 DEF Ways, StreamTypes
    <3>2. CASE buffer' = [buffer EXCEPT ![q] = <<>>]
      <4>1. \A r \in Readers \ {q} : Way(r)' = Way(r)
        BY <1>1, <1>3, <2>1, <3>2 DEF StreamTypes
      <4>2. Way(q)' = {}
        BY <1>1, <1>2, <2>1, <3>2 DEF LockInv, StreamTypes, Way, Str!Waiting, Str!Pushed
      <4> QED
        BY <4>1, <4>2, Zenon DEF Ways
    <3> QED
      BY <2>1, <3>1, <3>2
  <2>5. Str!Promise!Leave(q)
    BY <1>2, <2>2, <2>3, <2>4 DEF Str!Promise!Leave, Str!Promise!Become, States, Calls, Ways, Way
  <2> QED
    BY <2>5 DEF Str!Promise!Next
<1>8. CASE Str!RemoveReturns(q)
  <2>1. /\ owner[q] = "stopping" /\ owner' = [owner EXCEPT ![q] = "gone"]
        /\ run[q] \in {"failed", "terminated", "done"} /\ run' = [run EXCEPT ![q] = "done"]
        /\ UNCHANGED buffer
    BY <1>8 DEF Str!RemoveReturns, Str!Receive, Str!RunEnds, Str!writeVars
  <2>2. Calls' = Calls /\ q \notin Calls
    BY <1>1, <2>1 DEF Calls, StreamTypes
  <2>3. States[q] = "leaving" /\ States' = [States EXCEPT ![q] = "gone"]
    BY <1>1, <2>1, Zenon DEF States, Str!Status, StreamTypes
  <2>4. Ways' = [Ways EXCEPT ![q] = {}]
    <3>1. \A r \in Readers \ {q} : Way(r)' = Way(r)
      BY <1>1, <1>3, <2>1 DEF StreamTypes
    <3>2. Way(q)' = {}
      BY <1>1, <1>2, <2>1, Zenon DEF LockInv, StreamTypes, Way, Str!Waiting, Str!Pushed
    <3> QED
      BY <3>1, <3>2, Zenon DEF Ways
  <2>5. Str!Promise!Removed(q)
    BY <1>2, <2>2, <2>3, <2>4
       DEF Str!Promise!Removed, Str!Promise!Become, States, Calls, Ways, Way
  <2> QED
    BY <2>5 DEF Str!Promise!Next
<1> QED
  BY <1>4, <1>5, <1>6, <1>7, <1>8

(* The promise begins as the stream does.                                  *)
LEMMA PromiseInit == ASSUME Str!Init PROVE Str!Promise!Init
<1>1. onDatas \in [Readers -> SUBSET Tracks]
  BY StreamAssumption DEF Str!ConstantsAreRight, Str!Init
<1>2. States = [r \in Readers |-> "out"] /\ Calls = {}
  BY DEF Str!Init, States, Str!Status, Calls
<1>3. ASSUME NEW r \in Readers PROVE Way(r) = {}
  BY DEF Str!Init, Way, Str!Waiting, Str!Pushed
<1>4. Ways = [r \in Readers |-> {}]
  BY <1>3 DEF Ways
<1> QED
  BY <1>1, <1>2, <1>4 DEF Str!Promise!Init, Str!Init, States, Calls, Ways, Way

(* Every step of a stream is one of the promise, or none.                  *)
LEMMA StreamIsPromised ==
    ASSUME StreamInv, StreamInv', Str!Next \/ UNCHANGED Str!streamVars
    PROVE  Str!Promise!Next \/ UNCHANGED Str!Promise!vars
<1>1. CASE UNCHANGED Str!streamVars
  <2>1. UNCHANGED <<onDatas, written, writer, buffer, run, owner, seen, discarded>>
    BY <1>1 DEF Str!streamVars
  <2>2. Waits /\ Waits'
    BY WayFacts, PTL
  <2>3. \A r \in Readers : Way(r)' = Way(r)
    BY <2>1, <2>2, WayStays
  <2> QED
    BY <2>1, <2>3, NoStep
<1>2. ASSUME NEW t \in Tracks, Str!WriteReturns(t), UNCHANGED onDatas
      PROVE  UNCHANGED Str!Promise!vars
  <2>1. UNCHANGED <<onDatas, written, writer, buffer, run, owner, seen, discarded>>
    BY <1>2 DEF Str!WriteReturns, Str!readVars
  <2>2. Waits /\ Waits'
    BY WayFacts, PTL
  <2>3. \A r \in Readers : Way(r)' = Way(r)
    BY <2>1, <2>2, WayStays
  <2> QED
    BY <2>1, <2>3, NoStep
<1>3. CASE Str!Step /\ UNCHANGED onDatas
  BY <1>2, <1>3, WriteIsPromised, PushIsPromised, PullIsPromised, OthersArePromised DEF Str!Step
<1> QED
  BY <1>1, <1>3 DEF Str!Next

(* A stream does what it promises its readers: what is written is on its   *)
(* way to each of them, arrives in order and one at a time, and is lost    *)
(* only if it is the newest and a queue is full; a reader that was removed *)
(* is left alone (stream/stream.go:151-215, stream/reader.go:61-113).      *)
THEOREM StreamKeepsPromise == Spec => KeepsPromise
<1>1. Init => (kind = "stream" => Str!Promise!Init)
  BY PromiseInit DEF Init
<1>2. ASSUME MediaInv, MediaInv', [Next]_vars
      PROVE  [kind = "stream" => Str!Promise!Next \/ UNCHANGED Str!Promise!vars]_vars
  <2> SUFFICES ASSUME kind = "stream"
               PROVE  Str!Promise!Next \/ UNCHANGED Str!Promise!vars
    OBVIOUS
  <2>1. kind' = kind /\ (Str!Next \/ UNCHANGED Str!streamVars)
    BY <1>2 DEF Next, IsRecord, IsStream, IsForward, vars, streamVars, Str!streamVars
  <2>2. StreamInv /\ StreamInv'
    BY <1>2, <2>1 DEF MediaInv
  <2> QED
    BY <2>1, <2>2, StreamIsPromised
<1> QED
  BY <1>1, <1>2, MediaAlways, PTL DEF Spec, KeepsPromise
=============================================================================
