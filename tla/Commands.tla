------------------------------ MODULE Commands ------------------------------
(***************************************************************************)
(* External commands (externalcmd/cmd.go, cmd_unix.go, pool.go) and the    *)
(* hooks that start them (hooks/): what a hook starts it closes when it is *)
(* over, and may then start another command, of which nobody keeps the     *)
(* handle. Commands are external: they exit when they want.                *)
(***************************************************************************)
EXTENDS Integers, Sequences

CONSTANT MaxRounds     \* how often the event of the hook happens

VARIABLES
    hook,              \* which one
    command, onEnd,    \* its command (none, once or with restart), and if there is one at the end
    active,            \* the index in cmds of its command, or 0; or that the hook is off
    rounds,
    cmds,              \* those created: [state, restart, terminate, onEnd]
    wg, pool           \* the pool, with its counter

vars == <<hook, command, onEnd, active, rounds, cmds, wg, pool>>
hookVars == <<hook, command, onEnd, active, rounds>>

Off == -1

Init ==
    /\ hook \in {"OnConnect", "OnDemand", "OnInit", "OnRead", "OnReady"}
    /\ command \in {"none", "once", "restart"}
    /\ onEnd \in BOOLEAN
    /\ active = Off /\ rounds = 0
    /\ cmds = <<>> /\ wg = 0 /\ pool = "open"

-----------------------------------------------------------------------------
Cmd(restart, end) == [state |-> "new", restart |-> restart, terminate |-> FALSE, onEnd |-> end]

NewCmd_Uncounted(cs, c) == cmds' = Append(cs, c) /\ UNCHANGED wg
(* The command is counted before its goroutine is started.                 *)
NewCmd(cs, c) == cmds' = Append(cs, c) /\ wg' = wg + 1

(* What each hook does at the beginning.                                   *)
Begin ==
    /\ active = Off /\ rounds < MaxRounds /\ pool = "open"
    /\ rounds' = rounds + 1
    /\ IF command = "none"
       THEN active' = 0 /\ UNCHANGED <<cmds, wg>>
       ELSE active' = Len(cmds) + 1 /\ NewCmd(cmds, Cmd(command = "restart", FALSE))
    /\ UNCHANGED <<hook, command, onEnd, pool>>

(* And in the function that it returns. Cmd.Close does not wait.           *)
Closed == IF active = 0 THEN cmds ELSE [cmds EXCEPT ![active].terminate = TRUE]
End(hasEnd) ==
    /\ active # Off
    /\ active' = Off
    /\ IF hasEnd THEN NewCmd(Closed, Cmd(FALSE, TRUE)) ELSE cmds' = Closed /\ UNCHANGED wg
    /\ UNCHANGED <<hook, command, onEnd, rounds, pool>>

OnConnect == hook = "OnConnect" /\ (Begin \/ End(onEnd))
OnDemand == hook = "OnDemand" /\ (Begin \/ End(onEnd))
OnInit == hook = "OnInit" /\ (Begin \/ End(FALSE))
OnRead == hook = "OnRead" /\ (Begin \/ End(onEnd))
OnReady == hook = "OnReady" /\ (Begin \/ End(onEnd))

-----------------------------------------------------------------------------
(* Cmd.run, with runOSSpecific.                                            *)
In(c, state) == cmds[c].state = state
Goto(c, state) == cmds' = [cmds EXCEPT ![c].state = state] /\ UNCHANGED <<hookVars, wg, pool>>
Returns(c) ==
    /\ cmds' = [cmds EXCEPT ![c].state = "done"]
    /\ wg' = wg - 1
    /\ UNCHANGED <<hookVars, pool>>

StartProcess(c) == In(c, "new") /\ (Goto(c, "running") \/ Goto(c, "failed"))
ProcessExits(c) == In(c, "running") /\ Goto(c, "exited")
Kill(c) == In(c, "running") /\ cmds[c].terminate /\ Goto(c, "killed")
(* Wait returns after SIGINT, which any process of the group may ignore.   *)
KilledExits(c) == In(c, "killed") /\ Returns(c)

(* The exit code is always 0: without restart only an error of Start is    *)
(* reported. With it there is a pause, which is over at once when the      *)
(* command was closed before.                                              *)
AfterExit(c) ==
    /\ In(c, "exited") \/ In(c, "failed")
    /\ IF cmds[c].restart /\ ~cmds[c].terminate THEN Goto(c, "pause") ELSE Returns(c)
Restart(c) == In(c, "pause") /\ Goto(c, "new")
PauseTerminated(c) == In(c, "pause") /\ cmds[c].terminate /\ Returns(c)

(* Core.closeResources, after all that has hooks was closed.               *)
ClosePool ==
    /\ pool = "open" /\ active = Off /\ pool' = "waiting"
    /\ UNCHANGED <<hookVars, cmds, wg>>
PoolReturns ==
    /\ pool = "waiting" /\ wg = 0 /\ pool' = "closed"
    /\ UNCHANGED <<hookVars, cmds, wg>>

(* What must go on. A command that was closed has SIGINT; others may run   *)
(* as long as they want, which those at the end of a hook are supposed not *)
(* to do.                                                                  *)
Goes(c) ==
    /\ cmds[c].terminate \/ cmds[c].onEnd
    /\ \/ StartProcess(c) \/ Kill(c) \/ KilledExits(c) \/ AfterExit(c) \/ PauseTerminated(c)
       \/ cmds[c].onEnd /\ ProcessExits(c)

Next ==
    \/ OnConnect \/ OnDemand \/ OnInit \/ OnRead \/ OnReady
    \/ \E c \in 1..Len(cmds) :
          \/ StartProcess(c) \/ ProcessExits(c) \/ Kill(c) \/ KilledExits(c) \/ AfterExit(c)
          \/ Restart(c) \/ PauseTerminated(c)
    \/ ClosePool \/ PoolReturns

-----------------------------------------------------------------------------
States == {"new", "running", "exited", "failed", "killed", "pause", "done"}
TypeOK ==
    /\ active \in Off..Len(cmds) /\ rounds \in 0..MaxRounds
    /\ \A c \in 1..Len(cmds) :
          /\ cmds[c].state \in States
          /\ {cmds[c].restart, cmds[c].terminate, cmds[c].onEnd} \subseteq BOOLEAN
    /\ wg \in 0..Len(cmds) /\ pool \in {"open", "waiting", "closed"}

(* When the pool is closed no process is left, and at any time at most one *)
(* command that the hook keeps alive (core.go:1018,                        *)
(* externalcmd/pool.go:16-19).                                             *)
PoolIsQuiet ==
    /\ pool = "closed" => \A c \in 1..Len(cmds) : In(c, "done")
    /\ \A c \in 1..Len(cmds) :
          ~In(c, "done") /\ cmds[c].restart /\ ~cmds[c].terminate => c = active

(* Commands that were closed end, and so does the pool when it waits.      *)
IsClosing == pool = "waiting" \/ \E c \in 1..Len(cmds) : cmds[c].terminate /\ ~In(c, "done")
=============================================================================
