------------------------------- MODULE Stream -------------------------------
(***************************************************************************)
(* A stream and its readers. The source writes units of its tracks, each   *)
(* of them in a goroutine of its own, under the read lock of the stream;   *)
(* readers are added and removed under the write lock. Each reader has a   *)
(* ring buffer and a goroutine that calls back with what it pulls; its     *)
(* owner, a session of a server or a recorder, reads the error of that     *)
(* goroutine, or removes the reader before. A unit is <<track, number>>.   *)
(*                                                                         *)
(* Bounds: MaxUnits in a track. Callbacks are taken to return; the ring    *)
(* buffer and sync.RWMutex, in which a Lock that waits goes before any new *)
(* RLock, are external.                                                    *)
(***************************************************************************)
EXTENDS Integers, Sequences, FiniteSets

CONSTANTS
    Readers, Tracks, WriteQueueSize,
    Formats,   \* what readers may have registered callbacks for: a set of onDatas
    MaxUnits   \* [Tracks -> Nat]

(* What the theorems need of the constants.                                *)
ConstantsAreRight ==
    /\ WriteQueueSize \in Nat
    /\ MaxUnits \in [Tracks -> Nat]
    /\ Formats \subseteq [Readers -> SUBSET Tracks]

VARIABLES
    onDatas,   \* [Readers -> SUBSET Tracks]
    written,   \* [Tracks -> Nat]: units of each track
    writer,    \* [Tracks -> set of readers]: whom WriteUnit has not pushed its unit to yet
    inside,    \* tracks whose writer has the read lock
    readers,   \* Stream.readers and streamFormat.onDatas
    buffer,    \* [Readers -> Seq(units)]: Reader.buffer
    closed,    \* readers whose buffer is closed
    run,       \* [Readers -> state of Reader.run]
    unit,      \* [Readers -> Seq(units)]: what the callback was called with, at most one
    owner,     \* [Readers -> state of the owner of the reader]
    joined,    \* [Readers -> [Tracks -> units written before]]
    seen,      \* [Readers -> [Tracks -> Seq(Nat)]]: units handed to the callback
    discarded  \* [Readers -> set of units]: discardedFrames

streamVars == <<onDatas, written, writer, inside, readers, buffer, closed, run, unit, owner, joined,
                seen, discarded>>

Init ==
    /\ onDatas \in Formats
    /\ written = [t \in Tracks |-> 0]
    /\ writer = [t \in Tracks |-> {}] /\ inside = {}
    /\ readers = {} /\ closed = {}
    /\ buffer = [r \in Readers |-> <<>>]
    /\ run = [r \in Readers |-> "none"]
    /\ unit = [r \in Readers |-> <<>>]
    /\ owner = [r \in Readers |-> "out"]
    /\ joined = [r \in Readers |-> [t \in Tracks |-> 0]]
    /\ seen = [r \in Readers |-> [t \in Tracks |-> <<>>]]
    /\ discarded = [r \in Readers |-> {}]

(* The lock. RemoveReader keeps it while it waits.                         *)
Removing == {r \in Readers : owner[r] = "stopping"}
Announced == {r \in Readers : owner[r] = "locking"}
MayLock_WhileWriting == Removing = {}

MayLock == inside = {} /\ Removing = {}
MayRLock == Removing = {} /\ Announced = {}

writeVars == <<written, writer, inside, discarded, buffer>>
readVars == <<run, unit, seen>>

-----------------------------------------------------------------------------
(* The source.                                                             *)
Unit(t) == <<t, written[t]>>

(* WriteUnit, WriteRTPPacket: a unit that cannot be processed is counted   *)
(* and goes to nobody; the others are numbered.                            *)
WriteUnit(t) ==
    /\ MayRLock /\ t \notin inside
    /\ written[t] < MaxUnits[t]
    /\ inside' = inside \union {t}
    /\ written' = [written EXCEPT ![t] = @ + 1]
    /\ writer' = [writer EXCEPT ![t] = {r \in readers : t \in onDatas[r]}]
    /\ UNCHANGED <<readers, buffer, closed, readVars, owner, joined, discarded>>

Fits_OneMore(r) == Len(buffer[r]) <= WriteQueueSize

Fits(r) == Len(buffer[r]) < WriteQueueSize
(* Reader.push, for the readers in the order of a map.                     *)
Push(t, r) ==
    /\ t \in inside /\ r \in writer[t]
    /\ writer' = [writer EXCEPT ![t] = @ \ {r}]
    /\ IF Fits(r)
       THEN /\ buffer' = [buffer EXCEPT ![r] = Append(@, Unit(t))]
            /\ UNCHANGED discarded
       ELSE /\ discarded' = [discarded EXCEPT ![r] = @ \union {Unit(t)}]
            /\ UNCHANGED buffer
    /\ UNCHANGED <<written, inside, readers, closed, readVars, owner, joined>>

WriteReturns(t) ==
    /\ t \in inside /\ writer[t] = {}
    /\ inside' = inside \ {t}
    /\ UNCHANGED <<written, writer, readers, buffer, closed, readVars, owner, joined, discarded>>

-----------------------------------------------------------------------------
(* The goroutine of the reader. It is pulling, calling, offering its error *)
(* on the channel (failed, terminated), or done.                           *)
Pull(r) ==
    /\ run[r] = "pulling"
    /\ IF buffer[r] # <<>>
       THEN /\ unit' = [unit EXCEPT ![r] = <<Head(buffer[r])>>]
            /\ seen' = [seen EXCEPT ![r][Head(buffer[r])[1]] = Append(@, Head(buffer[r])[2])]
            /\ buffer' = [buffer EXCEPT ![r] = Tail(@)]
            /\ run' = [run EXCEPT ![r] = "calling"]
       ELSE /\ r \in closed
            /\ run' = [run EXCEPT ![r] = "terminated"]
            /\ UNCHANGED <<unit, seen, buffer>>
    /\ UNCHANGED <<written, writer, inside, readers, closed, owner, joined, discarded>>

CallbackReturns(r) ==
    /\ run[r] = "calling"
    /\ run' \in {[run EXCEPT ![r] = s] : s \in {"pulling", "failed"}}
    /\ unit' = [unit EXCEPT ![r] = <<>>]
    /\ UNCHANGED <<written, writer, inside, readers, buffer, closed, owner, joined, seen,
                   discarded>>

-----------------------------------------------------------------------------
(* The owner.                                                              *)
AddReader(r) ==
    /\ owner[r] = "out" /\ MayLock
    /\ readers' = readers \union {r}
    /\ run' = [run EXCEPT ![r] = "pulling"]
    /\ owner' = [owner EXCEPT ![r] = "reading"]
    /\ joined' = [joined EXCEPT ![r] = written]
    /\ UNCHANGED <<writeVars, closed, unit, seen>>

(* A select between Reader.Error and the reasons of the owner.             *)
Receive(r) == run' = [run EXCEPT ![r] = "done"]
ReaderFails(r) ==
    /\ owner[r] = "reading" /\ run[r] = "failed"
    /\ Receive(r)
    /\ owner' = [owner EXCEPT ![r] = "locking"]
    /\ UNCHANGED <<writeVars, readers, closed, unit, joined, seen>>

OwnerLeaves(r) ==
    /\ owner[r] = "reading"
    /\ owner' = [owner EXCEPT ![r] = "locking"]
    /\ UNCHANGED <<writeVars, readers, closed, readVars, joined>>

(* RemoveReader: Reader.stop closes the buffer and waits for the error, or *)
(* for the channel to be closed. What was in the buffer may be called back *)
(* with.                                                                   *)
RemoveReader(r) ==
    /\ owner[r] = "locking" /\ MayLock
    /\ owner' = [owner EXCEPT ![r] = "stopping"]
    /\ closed' = closed \union {r}
    /\ \/ buffer' = [buffer EXCEPT ![r] = <<>>]
       \/ UNCHANGED buffer
    /\ UNCHANGED <<written, writer, inside, discarded, readers, readVars, joined>>

RunEnds_Closed(r) == r \in closed

RunEnds(r) == run[r] \in {"failed", "terminated", "done"}
RemoveReturns(r) ==
    /\ owner[r] = "stopping"
    /\ RunEnds(r)
    /\ Receive(r)
    /\ owner' = [owner EXCEPT ![r] = "gone"]
    /\ readers' = readers \ {r}
    /\ UNCHANGED <<writeVars, closed, unit, joined, seen>>

Step ==
    \/ \E t \in Tracks : WriteUnit(t) \/ WriteReturns(t) \/ \E r \in Readers : Push(t, r)
    \/ \E r \in Readers :
        \/ Pull(r) \/ CallbackReturns(r)
        \/ AddReader(r) \/ ReaderFails(r) \/ OwnerLeaves(r) \/ RemoveReader(r) \/ RemoveReturns(r)

Next == Step /\ UNCHANGED onDatas

-----------------------------------------------------------------------------
Units == UNION {{<<t, n>> : n \in 1..MaxUnits[t]} : t \in Tracks}
TypeOK ==
    /\ \A t \in Tracks : written[t] \in 0..MaxUnits[t]
    /\ writer \in [Tracks -> SUBSET Readers] /\ inside \subseteq Tracks
    /\ readers \subseteq Readers /\ closed \subseteq Readers
    /\ \A r \in Readers :
        /\ buffer[r] \in Seq(Units) /\ Len(buffer[r]) <= WriteQueueSize
        /\ unit[r] \in Seq(Units) /\ Len(unit[r]) <= 1
        /\ discarded[r] \subseteq Units
    /\ run \in [Readers -> {"none", "pulling", "calling", "failed", "terminated", "done"}]
    /\ owner \in [Readers -> {"out", "reading", "locking", "stopping", "gone"}]
    /\ \A r \in Readers, t \in Tracks : joined[r][t] \in 0..written[t]

(* What a reader is given: each unit once, those of a track in order, and  *)
(* none from before it was added; what is not given is on its way, or was  *)
(* discarded by a full queue, or the reader has ended.                     *)
InOrder(s) == \A t \in Tracks : \A i, j \in DOMAIN s[t] : i < j => s[t][i] < s[t][j]
Owed(r) == {u \in Units : u[1] \in onDatas[r] /\ joined[r][u[1]] < u[2] /\ u[2] <= written[u[1]]}
OnItsWay(r) ==
    {buffer[r][i] : i \in DOMAIN buffer[r]} \union {Unit(t) : t \in {t \in inside : r \in writer[t]}}
UnitsArrive ==
    \A r \in Readers :
        LET given == UNION {{<<t, seen[r][t][i]>> : i \in DOMAIN seen[r][t]} : t \in Tracks} IN
        /\ InOrder(seen[r])
        /\ given \subseteq Owed(r)
        /\ owner[r] = "reading" => Owed(r) = given \union OnItsWay(r) \union discarded[r]

(* When RemoveReader has returned the callback is not running and never    *)
(* will be, and nobody pushes to the reader: the owner may free what the   *)
(* callback uses.                                                          *)
RemovedIsQuiet ==
    \A r \in Readers : owner[r] = "gone" =>
        /\ run[r] = "done" /\ unit[r] = <<>>
        /\ r \notin readers
        /\ \A t \in Tracks : r \notin writer[t]

(* What is on its way to a reader is queued or about to be, and once it is *)
(* removed nothing is. From when RemoveReader has the lock it is leaving.  *)
Waiting(r) == IF owner[r] = "gone" THEN {} ELSE {buffer[r][i] : i \in DOMAIN buffer[r]}
Pushed(r) == {Unit(t) : t \in {t \in Tracks : r \in writer[t]}}
Status(r) ==
    CASE owner[r] = "out" -> "out"
      [] owner[r] \in {"reading", "locking"} -> "in"
      [] owner[r] = "stopping" -> "leaving"
      [] owner[r] = "gone" -> "gone"

Promise == INSTANCE StreamPromise WITH
    QueueSize <- WriteQueueSize,
    formats <- onDatas,
    status <- [r \in Readers |-> Status(r)],
    pending <- [r \in Readers |-> Waiting(r) \union Pushed(r)],
    calling <- {r \in Readers : run[r] = "calling"},
    lost <- discarded

IsLeaving(r) == owner[r] \in {"locking", "stopping"}
=============================================================================
