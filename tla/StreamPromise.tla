---------------------------- MODULE StreamPromise ----------------------------
(***************************************************************************)
(* What a stream promises its readers, whatever goes on in its queues and  *)
(* goroutines: a unit is on its way to every reader of its track that is   *)
(* in the stream when it is written; the units of a track arrive in order, *)
(* one at a time; one may be lost, but only the newest and only when as    *)
(* many as a queue can hold are on their way besides; and whoever has been *)
(* removed is left alone.                                                  *)
(***************************************************************************)
EXTENDS Naturals, Sequences

CONSTANTS Readers, Tracks, QueueSize

VARIABLES
    formats,    \* [Readers -> SUBSET Tracks]: the tracks that each reader wants
    written,    \* [Tracks -> Nat]
    status,     \* "out", "in", "leaving" or "gone", for each reader
    pending,    \* units on their way to each reader
    calling,    \* readers whose callback is running
    seen,       \* [Readers -> [Tracks -> Seq(Nat)]]
    lost        \* units that each reader has not got

vars == <<formats, written, status, pending, calling, seen, lost>>

Init ==
    /\ formats \in [Readers -> SUBSET Tracks]
    /\ written = [t \in Tracks |-> 0]
    /\ status = [r \in Readers |-> "out"]
    /\ pending = [r \in Readers |-> {}]
    /\ calling = {}
    /\ seen = [r \in Readers |-> [t \in Tracks |-> <<>>]]
    /\ lost = [r \in Readers |-> {}]

Write(t) ==
    /\ written' = [written EXCEPT ![t] = @ + 1]
    /\ pending' = [r \in Readers |->
           IF status[r] = "in" /\ t \in formats[r]
           THEN pending[r] \union {<<t, written[t] + 1>>} ELSE pending[r]]
    /\ UNCHANGED <<formats, status, calling, seen, lost>>

(* A unit of r is the first, or the last, of its track; with it more are   *)
(* on their way than a queue can hold.                                     *)
First(r, u) == \A v \in pending[r] : v[1] = u[1] => u[2] <= v[2]
Last(r, u) == \A v \in pending[r] : v[1] = u[1] => v[2] <= u[2]
IsFull(r, u) ==
    \E others \in [1..QueueSize -> pending[r] \ {u}] :
        \A i, j \in 1..QueueSize : others[i] = others[j] => i = j

Deliver(r, u) ==
    /\ r \notin calling
    /\ u \in pending[r] /\ First(r, u)
    /\ calling' = calling \union {r}
    /\ pending' = [pending EXCEPT ![r] = @ \ {u}]
    /\ seen' = [seen EXCEPT ![r][u[1]] = Append(@, u[2])]
    /\ UNCHANGED <<formats, written, status, lost>>

Return(r) ==
    /\ r \in calling
    /\ calling' = calling \ {r}
    /\ UNCHANGED <<formats, written, status, pending, seen, lost>>

Lose(r, u) ==
    /\ u \in pending[r] /\ Last(r, u) /\ IsFull(r, u)
    /\ pending' = [pending EXCEPT ![r] = @ \ {u}]
    /\ lost' = [lost EXCEPT ![r] = @ \union {u}]
    /\ UNCHANGED <<formats, written, status, calling, seen>>

-----------------------------------------------------------------------------
(* A reader comes, is about to be removed, and has been removed; what is   *)
(* on its way may be dropped when it is about to go.                       *)
Become(r, from, to) ==
    /\ status[r] = from
    /\ status' = [status EXCEPT ![r] = to]
    /\ UNCHANGED <<formats, written, calling, seen, lost>>

Join(r) == Become(r, "out", "in") /\ UNCHANGED pending

Leave(r) ==
    /\ Become(r, "in", "leaving")
    /\ pending' = [pending EXCEPT ![r] = {}] \/ UNCHANGED pending

Removed(r) ==
    /\ r \notin calling
    /\ Become(r, "leaving", "gone")
    /\ pending' = [pending EXCEPT ![r] = {}]

Next ==
    \/ \E t \in Tracks : Write(t)
    \/ \E r \in Readers :
        \/ Join(r) \/ Leave(r) \/ Removed(r) \/ Return(r)
        \/ \E u \in pending[r] : Deliver(r, u) \/ Lose(r, u)

Spec == Init /\ [][Next]_vars
=============================================================================
