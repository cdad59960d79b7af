------------------------------ MODULE PathSide ------------------------------
(***************************************************************************)
(* What a server deals with when its clients publish to a path or read     *)
(* from it: the path manager with one path behind it                       *)
(* (core/path_manager.go, core/path.go), as far as a client can tell.      *)
(* Path.tla has the path in full; each module of a server has this one,    *)
(* with the goroutines of its clients, and shows that they behave as       *)
(* Path.tla takes for granted.                                             *)
(***************************************************************************)
EXTENDS Naturals

CONSTANTS
    Clients,    \* connections or sessions of the server
    None        \* no client

VARIABLES
    readers,    \* path.readers
    held,       \* authors of path.readerAddRequestsOnHold
    publisher,  \* path.source
    conf        \* the configuration of the path: it has one version or the other

sideVars == <<readers, held, publisher, conf>>

SideInit ==
    /\ readers = {}
    /\ held = {}
    /\ publisher = None
    /\ conf = 1

(* doAddReader: a stream is there, and room for one more reader; this is   *)
(* also how a request that was on hold is answered.                        *)
AdmitReader(c) ==
    /\ readers' = readers \cup {c}
    /\ held' = held \ {c}
    /\ UNCHANGED <<publisher, conf>>

Served == readers \cup ({publisher} \ {None})

(* doAddReader: an on-demand source or publisher is awaited.               *)
HoldReader(c) ==
    /\ Served = {}
    /\ held' = held \cup {c}
    /\ UNCHANGED <<readers, publisher, conf>>

(* No stream, no permission, no room, or no source in time.                *)
RefuseReader(c) ==
    /\ held' = held \ {c}
    /\ UNCHANGED <<readers, publisher, conf>>

(* doRemoveReader: a reader that is not there any more is no error.        *)
RemoveReader(c) ==
    /\ readers' = readers \ {c}
    /\ UNCHANGED <<held, publisher, conf>>

(* Whom doAddPublisher closes: the publisher it overrides and, since the   *)
(* stream is a new one, every reader.                                      *)
Displaced == IF publisher = None THEN {} ELSE {publisher} \cup readers

(* doAddPublisher.                                                         *)
AdmitPublisher(c) ==
    /\ publisher' = c
    /\ readers' = IF publisher = None THEN readers ELSE {}
    /\ UNCHANGED <<held, conf>>

(* Whom doRemovePublisher closes.                                          *)
LeftBehind(c) == IF publisher = c THEN readers ELSE {}

(* doRemovePublisher: one that has been overridden takes nothing with it.  *)
RemovePublisher(c) ==
    /\ publisher' = IF publisher = c THEN None ELSE publisher
    /\ readers' = readers \ LeftBehind(c)
    /\ UNCHANGED <<held, conf>>

(* The path ends its stream, because of a source, a timer, a reload or its *)
(* own end, and closes whom it has; who is on hold gets an answer.         *)
EndStream ==
    /\ Served # {}
    /\ readers' = {}
    /\ publisher' = None
    /\ UNCHANGED <<held, conf>>

(* ReloadPathConfs.                                                        *)
ChangeConf ==
    /\ conf' = 3 - conf
    /\ UNCHANGED <<readers, held, publisher>>

SideTypeOK ==
    /\ readers \subseteq Clients
    /\ held \subseteq Clients
    /\ publisher \in Clients \cup {None}
    /\ conf \in {1, 2}
=============================================================================
