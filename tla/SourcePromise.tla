---------------------------- MODULE SourcePromise ----------------------------
(***************************************************************************)
(* What the handler of a static source promises its path: the order of the *)
(* events in which the path sees it come and go.                           *)
(***************************************************************************)
VARIABLE view

Init == view \in {"off", "connecting"}

Started  == view = "off" /\ view' = "connecting"
Ready    == view = "connecting" /\ view' = "ready"
NotReady == view = "ready" /\ view' \in {"connecting", "off"}
Stopped  == view # "off" /\ view' = "off"

Next == Started \/ Ready \/ NotReady \/ Stopped

Spec == Init /\ [][Next]_view
=============================================================================
