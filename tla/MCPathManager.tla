--------------------------- MODULE MCPathManager ---------------------------
(* Small instances of PathManager: two names, one of which the             *)
(* configuration may give an entry of its own.                             *)
EXTENDS PathManager, TLC

CONSTANTS a, b

Plain(u) == [fixed |-> "publisher", updatable |-> u]
Static(f) == [fixed |-> f, updatable |-> 1]

(* all_others alone; with a setting changed that a running path takes      *)
(* over, and an entry for a that says the same; with a source for a; and   *)
(* with another one, in a configuration that has nothing for b.            *)
ManagerConfs ==
    {AllOthers :> Plain(1),
     AllOthers :> Plain(2) @@ a :> Plain(2),
     AllOthers :> Plain(1) @@ a :> Static("static"),
     a :> Static("otherStatic")}

(* A path with a source is removed and comes back.                         *)
SimulcastConfs ==
    {AllOthers :> Plain(1), AllOthers :> Plain(1) @@ a :> Static("static")}
=============================================================================
