----------------------------- MODULE PathPromise -----------------------------
(***************************************************************************)
(* What a path promises its readers, whatever provides its media and       *)
(* however that is configured: who asks is answered or waits for media,    *)
(* who reads reads from one and the same source, and is told to close      *)
(* before that source is gone or replaced.                                 *)
(***************************************************************************)
CONSTANTS Sources, Readers, None

VARIABLES
    media,      \* where the media comes from, or None
    status      \* "idle", "held", "reading" or "closing", for each reader

vars == <<media, status>>

Init == media = None /\ status = [r \in Readers |-> "idle"]

Become(r, from, to) ==
    /\ status[r] \in from
    /\ status' = [status EXCEPT ![r] = to]
    /\ UNCHANGED media

Ask(r)   == media = None /\ Become(r, {"idle"}, "held")
Join(r)  == media # None /\ Become(r, {"idle"}, "reading")
Leave(r) == Become(r, {"reading", "closing"}, "idle")

(* Everyone on hold is answered, some of them with an error.               *)
Appear(s) ==
    /\ media = None
    /\ media' = s
    /\ \E accepted \in SUBSET Readers :
          status' = [r \in Readers |->
              IF status[r] # "held" THEN status[r]
              ELSE IF r \in accepted THEN "reading" ELSE "idle"]

KickAll == status' = [r \in Readers |-> IF status[r] = "reading" THEN "closing" ELSE status[r]]

Vanish == media # None /\ media' = None /\ KickAll

Replace(s) == media \notin {None, s} /\ media' = s /\ KickAll

GiveUp ==
    /\ media = None
    /\ status' = [r \in Readers |-> IF status[r] = "held" THEN "idle" ELSE status[r]]
    /\ UNCHANGED media

Next ==
    \/ \E r \in Readers : Ask(r) \/ Join(r) \/ Leave(r)
    \/ \E s \in Sources : Appear(s) \/ Replace(s)
    \/ Vanish
    \/ GiveUp

Spec == Init /\ [][Next]_vars
=============================================================================
