---------------------------- MODULE ConfWatcher ----------------------------
(***************************************************************************)
(* The watcher of the configuration file (confwatcher/confwatcher.go) and  *)
(* the core that it signals (core/core.go:222-266). The file is external:  *)
(* it is written, in one part or two, replaced, removed, or is a link that *)
(* is turned; a change of it queues an event, in any case one on the       *)
(* parent directory.                                                       *)
(***************************************************************************)
EXTENDS Integers, Sequences

CONSTANTS
    MinInterval,       \* minInterval, in ticks of the clock
    MaxTime,
    MaxChanges         \* changes of the file

VARIABLES
    time,
    link,              \* the file is a link
    target,            \* what its path is resolved to, or Missing
    written, whole,    \* version of the content, and whether all of it is there
    changedAt,         \* when it was changed last
    events,            \* of the directory: [own |-> it names the file, op]
    watcher, lastCalled, current, previous,          \* run, with its local variables
    terminate,
    core, loaded       \* the core, and the version that it uses

fileVars == <<link, target, written, whole, changedAt>>
watcherVars == <<watcher, lastCalled, current, previous>>
coreVars == <<terminate, core, loaded>>
vars == <<time, fileVars, events, watcherVars, coreVars>>

Long == -100           \* a time long ago
Missing == 0

Init ==
    /\ time = 0 /\ link \in BOOLEAN /\ target = 1
    /\ written = 1 /\ whole = TRUE /\ changedAt = Long
    /\ events = <<>>
    /\ watcher = "select" /\ lastCalled = Long /\ current = 1 /\ previous = 1
    /\ terminate = FALSE /\ core = "select" /\ loaded = 1

-----------------------------------------------------------------------------
(* The file.                                                               *)
Change(where, isWhole, own, op) ==
    /\ target' = where /\ whole' = isWhole
    /\ changedAt' = time
    /\ events' = Append(events, [own |-> own, op |-> op])
    /\ UNCHANGED <<time, link, watcherVars, coreVars>>
NewVersion == written < MaxChanges /\ written' = written + 1

Write == ~link /\ target # Missing /\ whole /\ NewVersion /\ Change(target, TRUE, TRUE, "write")
BeginWrite == ~link /\ target # Missing /\ whole /\ NewVersion /\ Change(target, FALSE, TRUE, "write")
EndWrite == ~whole /\ UNCHANGED written /\ Change(target, TRUE, TRUE, "write")
(* Another file is renamed to this one, or a new one is created.           *)
Replace == ~link /\ whole /\ NewVersion /\ Change(1, TRUE, TRUE, "create")
Remove == ~link /\ target # Missing /\ whole /\ UNCHANGED written /\ Change(Missing, TRUE, TRUE, "remove")
(* A directory that the path goes through is turned to one it did not have *)
(* before; one that it had has the content it had.                         *)
Relink == link /\ NewVersion /\ Change(written + 1, TRUE, FALSE, "create")

Tick == time < MaxTime /\ time' = time + 1 /\ UNCHANGED <<fileVars, events, watcherVars, coreVars>>

-----------------------------------------------------------------------------
(* run.                                                                    *)
(* The event is about the file, and tells that it has a new content.       *)
IsChange(e) == e.own /\ e.op \in {"write", "create"}

Event ==
    /\ watcher = "select" /\ events # <<>>
    /\ events' = Tail(events)
    /\ CASE time - lastCalled < MinInterval -> UNCHANGED watcherVars
         [] time - lastCalled >= MinInterval /\ target = Missing ->
                previous' = Missing /\ UNCHANGED <<watcher, lastCalled, current>>
         [] time - lastCalled >= MinInterval /\ target # Missing ->
                IF target # previous \/ IsChange(Head(events))
                THEN watcher' = "sleep" /\ current' = target /\ UNCHANGED <<lastCalled, previous>>
                ELSE UNCHANGED watcherVars
    /\ UNCHANGED <<time, fileVars, coreVars>>

(* The sleep that lets the writer complete its job: it may or may not.     *)
SleepEnds ==
    /\ watcher = "sleep"
    /\ watcher' = "signal" /\ previous' = current /\ lastCalled' = time
    /\ UNCHANGED <<time, fileVars, events, current, coreVars>>

(* The system drops events, say.                                           *)
Error ==
    /\ watcher = "select"
    /\ watcher' = "closed"
    /\ UNCHANGED <<time, fileVars, events, lastCalled, current, previous, coreVars>>

Terminated ==
    /\ terminate /\ watcher \in {"select", "signal"}
    /\ watcher' = "closed"
    /\ UNCHANGED <<time, fileVars, events, lastCalled, current, previous, coreVars>>

-----------------------------------------------------------------------------
(* The core.                                                               *)

(* The channel: a signal, or closed, when it can be received from for      *)
(* ever.                                                                   *)
Signal ==
    /\ core = "select"
    /\ \/ watcher = "signal" /\ watcher' = "select"
       \/ watcher = "closed" /\ UNCHANGED watcher
    /\ core' = "load"
    /\ UNCHANGED <<time, fileVars, events, lastCalled, current, previous, terminate, loaded>>

(* conf.Load and reloadConf. A file that is missing stops the core; part   *)
(* of one may be a valid one (which is loaded as 0) or not.                *)
Load ==
    /\ core = "load"
    /\ \/ target # Missing /\ core' = "reload" /\ loaded' = IF whole THEN written ELSE 0
       \/ (target = Missing \/ ~whole) /\ core' = "stop" /\ UNCHANGED loaded
    /\ UNCHANGED <<time, fileVars, events, watcherVars, terminate>>
Reloaded ==
    /\ core = "reload" /\ core' = "select"
    /\ UNCHANGED <<time, fileVars, events, watcherVars, terminate, loaded>>

Interrupt ==
    /\ core = "select" /\ core' = "stop"
    /\ UNCHANGED <<time, fileVars, events, watcherVars, terminate, loaded>>

(* closeResources: ConfWatcher.Close.                                      *)
Close ==
    /\ core = "stop" /\ core' = "closing" /\ terminate' = TRUE
    /\ UNCHANGED <<time, fileVars, events, watcherVars, loaded>>
CloseReturns ==
    /\ core = "closing" /\ watcher = "closed" /\ core' = "closed"
    /\ UNCHANGED <<time, fileVars, events, watcherVars, terminate, loaded>>

Goes == Event \/ SleepEnds \/ Terminated \/ Load \/ Reloaded \/ Close \/ CloseReturns
        \/ (watcher = "signal" /\ Signal)

Next ==
    \/ Write \/ BeginWrite \/ EndWrite \/ Replace \/ Remove \/ Relink \/ Tick
    \/ Goes \/ Signal \/ Error \/ Interrupt

-----------------------------------------------------------------------------
TypeOK ==
    /\ time \in 0..MaxTime /\ {link, whole, terminate} \subseteq BOOLEAN
    /\ {target, current, previous} \subseteq 0..MaxChanges
    /\ written \in 1..MaxChanges /\ loaded \in 0..MaxChanges
    /\ {changedAt, lastCalled} \subseteq {Long} \union 0..time
    /\ watcher \in {"select", "sleep", "signal", "closed"}
    /\ core \in {"select", "load", "reload", "stop", "closing", "closed"}

(* A change is applied, however the file was changed: when there is        *)
(* nothing left to do and the core does not use what is in the file, the   *)
(* last change came less than minInterval after the last signal, and is    *)
(* lost (docs/2-usage/04-configuration.md:17, confwatcher.go:79-105).      *)
ChangesAreSeen ==
    /\ events = <<>> /\ watcher = "select" /\ core = "select"
    /\ target # Missing /\ whole /\ loaded # written
    => changedAt - lastCalled < MinInterval

(* What is on its way arrives, and Close returns.                          *)
IsPending == watcher \in {"sleep", "signal"} \/ core \in {"load", "reload", "stop", "closing"}
=============================================================================
