---------------------------- MODULE PathManager ----------------------------
(***************************************************************************)
(* The path manager (internal/core/path_manager.go): the goroutine that    *)
(* creates paths on request, gives them the configuration they match, and  *)
(* destroys them when a reload takes it away.  Each path is a goroutine of *)
(* its own that tells the manager when it becomes ready, stops being so,   *)
(* and ends; manager and paths block on one another.                       *)
(*                                                                         *)
(* Channels are unbuffered: a send and its receive are one step.  Of a     *)
(* path there is what the manager can tell: Path has the rest.             *)
(***************************************************************************)
EXTENDS Naturals, FiniteSets

CONSTANTS
    Names,          \* path names
    Paths,          \* identities for the path objects that exist at a time
    Publishers,
    Readers,
    ConfMaps,       \* the contents of "paths" that the configuration may have
    Simulcasts,     \* names of the paths whose source reads from other paths
    PatientCore     \* whether reloads are so far apart that each has reached
                    \* the paths before the next begins

None == "none"
AllOthers == "all_others"

(* A configuration is named after its path, or all_others, a regular       *)
(* expression.  What it holds is split in what a running path can take     *)
(* over and what it cannot; of the latter only the kind of source counts.  *)
Entry(m, n) == [name |-> n, fixed |-> m[n].fixed, updatable |-> m[n].updatable]
IsRegexp(c) == c.name = AllOthers
HasSource(c) == c.fixed \in {"static", "otherStatic"}

ASSUME ConfMapsAssumption ==
    \A m \in ConfMaps : DOMAIN m \subseteq Names \cup {AllOthers}

ASSUME NamesAssumption == AllOthers \notin Names /\ None \notin Paths \cup Names

ASSUME ParametersAssumption ==
    /\ Simulcasts \subseteq Names
    /\ PatientCore \in BOOLEAN
    /\ Publishers \cap Readers = {}

Clients == Publishers \cup Readers

VARIABLES
    pm,         \* the manager: "serving", "reloading", "waiting" for a path it
                \* destroys, or "done"
    pathConfs,  \* pm.pathConfs
    newPaths,   \* the configuration being applied
    todo,       \* names whose path the reload has still to look at
    waitedFor,  \* the path that the manager waits for
    paths,      \* pm.paths: the object of each name, or None
    ready,      \* the ready flag of pm.paths, for each name
    confName,   \* the confName of pm.paths, for each name
    hlsServer,  \* pm.hlsServer # nil
    hlsReady,   \* the paths that the HLS server takes to be ready
    pa,         \* the path objects
    reloads,    \* goroutines that carry a configuration to a path
    client,     \* what each client is doing, and with which path
    asking      \* paths whose source waits for an answer of the manager

managerVars == <<pm, pathConfs, newPaths, todo, waitedFor>>
mapVars == <<paths, ready, confName>>
vars == <<managerVars, mapVars, hlsServer, hlsReady, pa, reloads, client, asking>>

(* What the goroutine of a path is doing: "running" takes requests; in     *)
(* "tellReady", "tellNotReady" and "closePath" it waits for the manager.   *)
Doing == {"none", "running", "tellReady", "tellNotReady", "closePath", "teardown", "ended"}

NoConf == [name |-> None, fixed |-> None, updatable |-> 0]
Unused == [doing |-> "none", name |-> None, conf |-> NoConf, live |-> FALSE, done |-> FALSE]

-----------------------------------------------------------------------------
Matches(m, n) == n \in DOMAIN m \/ AllOthers \in DOMAIN m

FindPathConf(m, n) == IF n \in DOMAIN m THEN Entry(m, n) ELSE Entry(m, AllOthers)

CanBeUpdated(old, new) == old.fixed = new.fixed

(* A path that a regular expression made ends with the last of its users.  *)
In(p) == {c \in Clients : client[c] = [at |-> "in", path |-> p]}

ShouldClose(c, users) == IsRegexp(c) /\ ~HasSource(c) /\ users = {}

Do(p, doing) == pa' = [pa EXCEPT ![p].doing = doing]

(* Back to the select of the path, past the shouldClose() test.            *)
Resume(p, users) ==
    Do(p, IF ShouldClose(pa[p].conf, users) THEN "closePath" ELSE "running")

(* Assignments of path objects that are not in use, base, to the names.    *)
Assignments(base, names) ==
    {object \in [names -> Paths] :
        /\ \A n \in names : base[object[n]].doing = "none"
        /\ \A n, o \in names : object[n] = object[o] => n = o}

WithNew(base, m, object) ==
    [p \in Paths |->
        IF \E n \in DOMAIN object : object[n] = p
        THEN LET n == CHOOSE n \in DOMAIN object : object[n] = p IN
             [doing |-> "running", name |-> n, conf |-> FindPathConf(m, n),
              live |-> FALSE, done |-> FALSE]
        ELSE base[p]]

(* createPath, in place of whatever the names have.                        *)
CreatePaths(m, names) ==
    \E object \in Assignments(pa, names) :
        /\ pa' = WithNew(pa, m, object)
        /\ paths' = [n \in Names |-> IF n \in names THEN object[n] ELSE paths[n]]
        /\ ready' = [n \in Names |-> n \notin names /\ ready[n]]
        /\ confName' = [n \in Names |-> IF n \in names THEN FindPathConf(m, n).name
                                        ELSE confName[n]]

RemovePath(n) ==
    /\ paths' = [paths EXCEPT ![n] = None]
    /\ ready' = [ready EXCEPT ![n] = FALSE]
    /\ confName' = [confName EXCEPT ![n] = None]

-----------------------------------------------------------------------------
(* Static paths, those of no regular expression, are there from the start. *)
StaticNames(m) == DOMAIN m \ {AllOthers}

Init ==
    /\ pathConfs \in ConfMaps
    /\ newPaths = pathConfs
    /\ pm = "serving"
    /\ todo = {} /\ waitedFor = None
    /\ LET unused == [p \in Paths |-> Unused] IN
       \E object \in Assignments(unused, StaticNames(pathConfs)) :
          /\ pa = WithNew(unused, pathConfs, object)
          /\ paths = [n \in Names |-> IF n \in DOMAIN object THEN object[n] ELSE None]
    /\ ready = [n \in Names |-> FALSE]
    /\ confName = [n \in Names |-> IF n \in StaticNames(pathConfs) THEN n ELSE None]
    /\ hlsServer = FALSE /\ hlsReady = {}
    /\ reloads = {}
    /\ client = [c \in Clients |-> [at |-> "idle", path |-> None]]
    /\ asking = {}

-----------------------------------------------------------------------------
(* Requests that the manager routes to a path.                             *)

(* doAddReader, doAddPublisher and doDescribe, authenticated: the path is  *)
(* created if there is none.                                               *)
Route(c, n) ==
    /\ pm = "serving"
    /\ client[c].at = "idle"
    /\ Matches(pathConfs, n)
    /\ IF paths[n] = None
       THEN CreatePaths(pathConfs, {n})
       ELSE UNCHANGED <<mapVars, pa>>
    /\ client' = [client EXCEPT ![c] = [at |-> "routed", path |-> paths'[n]]]
    /\ UNCHANGED <<managerVars, hlsServer, hlsReady, reloads, asking>>

(* addReader, addPublisher: the path is gone meanwhile.                    *)
Terminated(c) ==
    /\ client[c].at = "routed"
    /\ pa[client[c].path].done
    /\ client' = [client EXCEPT ![c] = [at |-> "idle", path |-> None]]
    /\ UNCHANGED <<managerVars, mapVars, hlsServer, hlsReady, pa, reloads, asking>>

PublisherEnters(c) ==
    /\ c \in Publishers
    /\ client[c].at = "routed"
    /\ LET p == client[c].path IN
       /\ pa[p].doing = "running"
       /\ ~pa[p].live /\ ~HasSource(pa[p].conf)
       /\ client' = [client EXCEPT ![c].at = "in"]
       /\ pa' = [pa EXCEPT ![p].live = TRUE, ![p].doing = "tellReady"]
    /\ UNCHANGED <<managerVars, mapVars, hlsServer, hlsReady, reloads, asking>>

ReaderEnters(c) ==
    /\ c \in Readers
    /\ client[c].at = "routed"
    /\ LET p == client[c].path IN
       /\ pa[p].doing = "running"
       /\ pa[p].live
       /\ client' = [client EXCEPT ![c].at = "in"]
       /\ Resume(p, In(p) \cup {c})
    /\ UNCHANGED <<managerVars, mapVars, hlsServer, hlsReady, reloads, asking>>

(* Someone publishes already, or nobody does.  No shouldClose() follows    *)
(* the refusal of a publisher.                                             *)
Refused(c) ==
    /\ client[c].at = "routed"
    /\ LET p == client[c].path IN
       /\ pa[p].doing = "running"
       /\ client' = [client EXCEPT ![c] = [at |-> "idle", path |-> None]]
       /\ \/ c \in Publishers /\ (pa[p].live \/ HasSource(pa[p].conf)) /\ UNCHANGED pa
          \/ c \in Readers /\ ~pa[p].live /\ Resume(p, In(p))
    /\ UNCHANGED <<managerVars, mapVars, hlsServer, hlsReady, reloads, asking>>

ReaderLeaves(c) ==
    /\ c \in Readers
    /\ client[c].at = "in"
    /\ LET p == client[c].path IN
       /\ pa[p].doing = "running"
       /\ client' = [client EXCEPT ![c] = [at |-> "idle", path |-> None]]
       /\ Resume(p, In(p) \ {c})
    /\ UNCHANGED <<managerVars, mapVars, hlsServer, hlsReady, reloads, asking>>

(* The manager is told before the readers are sent away.                   *)
PublisherLeaves(c) ==
    /\ c \in Publishers
    /\ client[c].at = "in"
    /\ LET p == client[c].path IN
       /\ pa[p].doing = "running"
       /\ client' = [client EXCEPT ![c] = [at |-> "idle", path |-> None]]
       /\ pa' = [pa EXCEPT ![p].live = FALSE, ![p].doing = "tellNotReady"]
    /\ UNCHANGED <<managerVars, mapVars, hlsServer, hlsReady, reloads, asking>>

(* The static source of the path comes and goes.                           *)
SourceReady(p) ==
    /\ pa[p].doing = "running"
    /\ HasSource(pa[p].conf) /\ ~pa[p].live
    /\ p \notin asking
    /\ pa' = [pa EXCEPT ![p].live = TRUE, ![p].doing = "tellReady"]
    /\ UNCHANGED <<managerVars, mapVars, hlsServer, hlsReady, reloads, client, asking>>

SourceNotReady(p) ==
    /\ pa[p].doing = "running"
    /\ HasSource(pa[p].conf) /\ pa[p].live
    /\ pa' = [pa EXCEPT ![p].live = FALSE, ![p].doing = "tellNotReady"]
    /\ UNCHANGED <<managerVars, mapVars, hlsServer, hlsReady, reloads, client, asking>>

(* A source that reads from other paths asks the manager for them; nothing *)
(* but the answer, or the end of the manager, gets it out of that call.    *)
SourceAsks(p) ==
    /\ pa[p].doing # "none"
    /\ pa[p].name \in Simulcasts
    /\ HasSource(pa[p].conf) /\ ~pa[p].live
    /\ asking' = asking \cup {p}
    /\ UNCHANGED <<managerVars, mapVars, hlsServer, hlsReady, pa, reloads, client>>

SourceIsAnswered(p) ==
    /\ p \in asking
    /\ pm \in {"serving", "done"}
    /\ asking' = asking \ {p}
    /\ UNCHANGED <<managerVars, mapVars, hlsServer, hlsReady, pa, reloads, client>>

-----------------------------------------------------------------------------
(* What paths tell the manager.                                            *)

Kick(p) ==
    client' = [c \in Clients |-> IF c \in In(p) THEN [at |-> "idle", path |-> None]
                                 ELSE client[c]]

(* The path goes on once it has told the manager, or has given up.         *)
GoOn(p) ==
    IF pa[p].doing = "tellNotReady"
    THEN Kick(p) /\ Resume(p, {})
    ELSE Resume(p, In(p)) /\ UNCHANGED client

TellReady_ImpatientPath(p) ==
    /\ pa[p].doing \in {"tellReady", "tellNotReady"}
    /\ GoOn(p)
    /\ UNCHANGED <<managerVars, mapVars, hlsServer, hlsReady, reloads, asking>>

IsCurrent(p) == paths[pa[p].name] = p

(* pathReady and doPathReady; pathNotReady and doPathNotReady.             *)
TellReady(p) ==
    /\ pm = "serving"
    /\ pa[p].doing \in {"tellReady", "tellNotReady"}
    /\ IF IsCurrent(p)
       THEN /\ ready' = [ready EXCEPT ![pa[p].name] = pa[p].live]
            /\ hlsReady' = IF ~hlsServer THEN hlsReady
                           ELSE IF pa[p].live THEN hlsReady \cup {p} ELSE hlsReady \ {p}
       ELSE UNCHANGED <<ready, hlsReady>>
    /\ GoOn(p)
    /\ UNCHANGED <<managerVars, paths, confName, hlsServer, reloads, asking>>

(* The context of the path is done: the manager may be waiting for it.     *)
GiveUpTelling(p) ==
    /\ pa[p].doing \in {"tellReady", "tellNotReady"}
    /\ pa[p].done
    /\ GoOn(p)
    /\ UNCHANGED <<managerVars, mapVars, hlsServer, hlsReady, reloads, asking>>

(* closePath and doClosePath.                                              *)
TellClosed(p) ==
    /\ pm = "serving"
    /\ pa[p].doing = "closePath"
    /\ IF IsCurrent(p) THEN RemovePath(pa[p].name) ELSE UNCHANGED mapVars
    /\ pa' = [pa EXCEPT ![p].doing = "teardown", ![p].done = TRUE]
    /\ UNCHANGED <<managerVars, hlsServer, hlsReady, reloads, client, asking>>

GiveUpClosing_ManagerOnly(p) ==
    /\ pa[p].doing = "closePath"
    /\ pm = "done"
    /\ pa' = [pa EXCEPT ![p].doing = "teardown", ![p].done = TRUE]
    /\ UNCHANGED <<managerVars, mapVars, hlsServer, hlsReady, reloads, client, asking>>

GiveUpClosing(p) ==
    /\ pa[p].doing = "closePath"
    /\ pa[p].done
    /\ Do(p, "teardown")
    /\ UNCHANGED <<managerVars, mapVars, hlsServer, hlsReady, reloads, client, asking>>

(* The select of the path finds its context done.                          *)
SeeContextDone(p) ==
    /\ pa[p].doing = "running"
    /\ pa[p].done
    /\ Do(p, "closePath")
    /\ UNCHANGED <<managerVars, mapVars, hlsServer, hlsReady, reloads, client, asking>>

(* The end of run: users are sent away, and the source is stopped, which   *)
(* takes until it returns.  The context being done, nothing more is told   *)
(* to a manager that waits.                                                *)
Teardown(p) ==
    /\ pa[p].doing = "teardown"
    /\ p \notin asking
    /\ pa' = [pa EXCEPT ![p].doing = "ended", ![p].live = FALSE]
    /\ Kick(p)
    /\ UNCHANGED <<managerVars, mapVars, hlsServer, hlsReady, reloads, asking>>

(* An object nobody refers to is forgotten.                                *)
Forget(p) ==
    /\ pa[p].doing = "ended"
    /\ waitedFor # p
    /\ \A n \in Names : paths[n] # p
    /\ \A c \in Clients : client[c].path # p
    /\ pa' = [pa EXCEPT ![p] = Unused]
    /\ hlsReady' = hlsReady \ {p}
    /\ reloads' = {g \in reloads : g.path # p}
    /\ UNCHANGED <<managerVars, mapVars, hlsServer, client, asking>>

-----------------------------------------------------------------------------
(* Reload of the configuration.                                            *)

ReloadPathConfs(m) ==
    /\ pm = "serving"
    /\ m # pathConfs
    /\ PatientCore => reloads = {}
    /\ newPaths' = m
    /\ pm' = "reloading"
    /\ todo' = {n \in Names : paths[n] # None}
    /\ UNCHANGED <<pathConfs, waitedFor, mapVars, hlsServer, hlsReady, pa, reloads,
                   client, asking>>

(* The configuration a path had by the record of the manager.              *)
OldConf(n) == Entry(pathConfs, confName[n])

Disappears(n) == ~Matches(newPaths, n)
Recreated(n) == Matches(newPaths, n) /\ ~CanBeUpdated(OldConf(n), FindPathConf(newPaths, n))
Updated(n) ==
    /\ Matches(newPaths, n)
    /\ CanBeUpdated(OldConf(n), FindPathConf(newPaths, n))
    /\ OldConf(n) # FindPathConf(newPaths, n)

Visit(n) ==
    /\ pm = "reloading"
    /\ n \in todo
    /\ todo' = todo \ {n}
    /\ UNCHANGED <<pathConfs, newPaths, hlsServer, hlsReady, client, asking>>

KeepPath(n) ==
    /\ Visit(n)
    /\ ~Disappears(n) /\ ~Recreated(n) /\ ~Updated(n)
    /\ UNCHANGED <<pm, waitedFor, mapVars, pa, reloads>>

(* The path gets the new configuration from a goroutine of its own.        *)
UpdatePath(n) ==
    /\ Visit(n)
    /\ Updated(n)
    /\ LET c == FindPathConf(newPaths, n) IN
       /\ confName' = [confName EXCEPT ![n] = c.name]
       /\ reloads' = reloads \cup {[path |-> paths[n], conf |-> c]}
    /\ UNCHANGED <<pm, waitedFor, paths, ready, pa>>

RemoveAndClosePath_NotAwaited(n) ==
    /\ Visit(n)
    /\ Disappears(n) \/ Recreated(n)
    /\ RemovePath(n)
    /\ pa' = [pa EXCEPT ![paths[n]].done = TRUE]
    /\ UNCHANGED <<pm, waitedFor, reloads>>

RemoveAndClosePath(n) ==
    /\ Visit(n)
    /\ Disappears(n) \/ Recreated(n)
    /\ RemovePath(n)
    /\ pa' = [pa EXCEPT ![paths[n]].done = TRUE]
    /\ pm' = "waiting"
    /\ waitedFor' = paths[n]
    /\ UNCHANGED reloads

(* path.wait() returns.                                                    *)
PathEnded ==
    /\ pm = "waiting"
    /\ pa[waitedFor].doing = "ended"
    /\ pm' = "reloading"
    /\ waitedFor' = None
    /\ UNCHANGED <<pathConfs, newPaths, todo, mapVars, hlsServer, hlsReady, pa, reloads,
                   client, asking>>

(* Every path has been looked at: the missing static ones are created.     *)
FinishReload ==
    /\ pm = "reloading"
    /\ todo = {}
    /\ pathConfs' = newPaths
    /\ CreatePaths(newPaths, {n \in StaticNames(newPaths) : paths[n] = None})
    /\ pm' = "serving"
    /\ UNCHANGED <<newPaths, todo, waitedFor, hlsServer, hlsReady, reloads, client, asking>>

(* path.reloadConf and doReloadConf.                                       *)
TakeReload(g) ==
    /\ g \in reloads
    /\ pa[g.path].doing = "running"
    /\ reloads' = reloads \ {g}
    /\ pa' = [pa EXCEPT ![g.path].conf = g.conf]
    /\ UNCHANGED <<managerVars, mapVars, hlsServer, hlsReady, client, asking>>

GiveUpReload(g) ==
    /\ g \in reloads
    /\ pa[g.path].done
    /\ reloads' = reloads \ {g}
    /\ UNCHANGED <<managerVars, mapVars, hlsServer, hlsReady, pa, client, asking>>

-----------------------------------------------------------------------------
SetHLSServer_NamesForPaths(set) ==
    /\ pm = "serving"
    /\ hlsServer' = set
    /\ hlsReady' = IF set THEN {n \in Names : ready[n]} ELSE {}
    /\ UNCHANGED <<managerVars, mapVars, pa, reloads, client, asking>>

(* doSetHLSServer: a new server is told which paths are ready.             *)
SetHLSServer(set) ==
    /\ pm = "serving"
    /\ hlsServer' = set
    /\ hlsReady' = IF set THEN {paths[n] : n \in {o \in Names : ready[o]}} ELSE {}
    /\ UNCHANGED <<managerVars, mapVars, pa, reloads, client, asking>>

(* close: the contexts of the paths are derived from that of the manager.  *)
Close ==
    /\ pm = "serving"
    /\ pm' = "done"
    /\ pa' = [p \in Paths |-> IF pa[p].doing = "none" THEN pa[p]
                              ELSE [pa[p] EXCEPT !.done = TRUE]]
    /\ UNCHANGED <<pathConfs, newPaths, todo, waitedFor, mapVars, hlsServer, hlsReady,
                   reloads, client, asking>>

-----------------------------------------------------------------------------
Reloading ==
    \/ \E n \in Names : KeepPath(n) \/ UpdatePath(n) \/ RemoveAndClosePath(n)
    \/ PathEnded
    \/ FinishReload

(* What a path does without anyone's asking once its context is done.      *)
Ending(p) == GiveUpTelling(p) \/ GiveUpClosing(p) \/ SeeContextDone(p) \/ Teardown(p)

Next ==
    \/ \E c \in Clients :
          \/ \E n \in Names : Route(c, n)
          \/ Terminated(c) \/ PublisherEnters(c) \/ ReaderEnters(c) \/ Refused(c)
          \/ ReaderLeaves(c) \/ PublisherLeaves(c)
    \/ \E p \in Paths :
          \/ SourceReady(p) \/ SourceNotReady(p) \/ SourceAsks(p) \/ SourceIsAnswered(p)
          \/ TellReady(p) \/ TellClosed(p) \/ Ending(p) \/ Forget(p)
    \/ \E m \in ConfMaps : ReloadPathConfs(m)
    \/ Reloading
    \/ \E g \in reloads : TakeReload(g) \/ GiveUpReload(g)
    \/ \E set \in BOOLEAN : SetHLSServer(set)
    \/ Close

Spec == Init /\ [][Next]_vars

(* Goroutines that can go on do, and a select serves each case that keeps  *)
(* coming up.                                                              *)
Fairness ==
    /\ WF_vars(Reloading)
    /\ \A p \in Paths :
          /\ WF_vars(GiveUpTelling(p) \/ GiveUpClosing(p))
          /\ SF_vars(SeeContextDone(p))
          /\ SF_vars(Teardown(p))
          /\ SF_vars(TellReady(p) \/ TellClosed(p))
          /\ SF_vars(SourceIsAnswered(p))
          /\ WF_vars(Forget(p))
    /\ \A c \in Clients : WF_vars(Terminated(c))

FairSpec == Spec /\ Fairness

-----------------------------------------------------------------------------
(* Properties.                                                             *)

(* Every variable holds a value of its kind.                               *)
TypeOK ==
    /\ pm \in {"serving", "reloading", "waiting", "done"}
    /\ pathConfs \in ConfMaps /\ newPaths \in ConfMaps
    /\ todo \subseteq Names
    /\ waitedFor \in Paths \cup {None}
    /\ paths \in [Names -> Paths \cup {None}]
    /\ ready \in [Names -> BOOLEAN]
    /\ confName \in [Names -> Names \cup {AllOthers, None}]
    /\ hlsServer \in BOOLEAN
    /\ hlsReady \subseteq Paths
    /\ \A p \in Paths :
          /\ pa[p].doing \in Doing
          /\ pa[p].name \in Names \cup {None}
          /\ pa[p].live \in BOOLEAN /\ pa[p].done \in BOOLEAN
    /\ \A g \in reloads : g.path \in Paths
    /\ \A c \in Clients :
          /\ client[c].at \in {"idle", "routed", "in"}
          /\ client[c].path \in Paths \cup {None}
    /\ asking \subseteq Paths

(* A path that still serves anyone is the one the manager has under its    *)
(* name: a publisher and a reader of one name never end up in two paths    *)
(* (path_manager.go:336-409, 431-462).                                     *)
ServingIsCurrent ==
    \A p \in Paths :
        pa[p].doing \notin {"none", "teardown", "ended"} /\ ~pa[p].done => IsCurrent(p)

(* A source is never started for a name while the source of an earlier     *)
(* path of that name has not returned: they would contend for camera,      *)
(* socket or file (path_manager.go:269-273, "avoid conflicts between       *)
(* sources").                                                              *)
SourcesDoNotConflict ==
    \A p, q \in Paths :
        /\ pa[p].doing \notin {"none", "ended"} /\ pa[q].doing \notin {"none", "ended"}
        /\ pa[p].name = pa[q].name
        /\ HasSource(pa[p].conf) /\ HasSource(pa[q].conf)
        => p = q

(* What the manager says of a path is so, but for the moment in which the  *)
(* path is telling it otherwise: the two block on one another, and either  *)
(* may be ending (path_manager.go:296-318, 472-488).                       *)
ReadyIsTrue ==
    \A n \in Names :
        paths[n] # None /\ pa[paths[n]].doing = "running" /\ ~pa[paths[n]].done
            => ready[n] = pa[paths[n]].live

(* The HLS server has been told of the ready paths, and of no other that   *)
(* still exists, whenever it was set (path_manager.go:275-318).            *)
HLSKnowsReady ==
    hlsServer =>
        \A n \in Names : paths[n] # None => (ready[n] <=> paths[n] \in hlsReady)

(* Once every goroutine of a reload is through, each path goes by the      *)
(* configuration that its name has in the last one                         *)
(* (path_manager.go:204-267).                                              *)
ConfFollows ==
    pm = "serving" =>
        \A n \in Names :
            /\ paths[n] # None
            /\ \A g \in reloads : g.path # paths[n]
            => Matches(pathConfs, n) /\ pa[paths[n]].conf = FindPathConf(pathConfs, n)

(* Manager, paths and HLS server are of one mind about which paths there   *)
(* are, what they serve and by which configuration.                        *)
ManagerKnows == ServingIsCurrent /\ ReadyIsTrue /\ HLSKnowsReady /\ ConfFollows

(* A reload or the end of the server waits for a path, which may itself be *)
(* waiting for the manager (path_manager.go:269-273, 472-497).             *)
IsBlocked ==
    \/ pm \in {"reloading", "waiting"}
    \/ pm = "done" /\ \E p \in Paths : pa[p].doing \notin {"none", "ended"}

-----------------------------------------------------------------------------
(* "this avoids: ... deadlocks caused by <-done inside stop()"             *)
(* (path.go:938-940): the manager's wait for a path ends, whatever the     *)
(* source of that path is doing.                                           *)
PathWaitEnds == pm = "waiting" ~> pm # "waiting"
=============================================================================
