------------------------- MODULE StaticSourceProofs -------------------------
(***************************************************************************)
(* What the handler of a static source guarantees, for any number of runs   *)
(* and of reloads.  The inductive invariant says, of every place that the   *)
(* goroutines of path and handler can be in, which call of Run there is.    *)
(***************************************************************************)
EXTENDS StaticSource, TLAPS

(* The handler has one run, but for the pause after a failure.              *)
HasRun == loop # "off" /\ ~recreating

LoopInv ==
    /\ \A r \in Runs : Alive(r) <=> HasRun /\ r = current
    /\ HasRun => current \in Runs
    /\ loop \in {"setReady", "setNotReady", "ending"} => ~recreating
    /\ loop \in {"setReady", "setNotReady"} => asking = current
    /\ \A r \in Runs : run[r] = "asked" <=> loop = "setReady" /\ asking = r
    /\ \A r \in Runs : run[r] = "told" <=> loop = "setNotReady" /\ asking = r
    /\ loop # "ending" => \A r \in Runs : Alive(r) => r \notin cancelled

PathInv ==
    /\ path \in {"serving", "closed"} =>
          IF view = "off" THEN loop = "off" ELSE ~ctxDone /\ loop \notin {"off", "ending"}
    /\ path \in {"stopping", "closing"} => view = "off" /\ ctxDone
    /\ path = "gone" => view = "off" /\ loop = "off"

Streams(r) == run[r] \in {"streaming", "setNotReady", "told"}

ViewInv ==
    path = "serving" /\ view # "off" => (view = "ready" <=> \E r \in Runs : Streams(r))

IInv == TypeOK /\ LoopInv /\ PathInv /\ ViewInv

-----------------------------------------------------------------------------
(* Contexts that end change neither kind nor configuration of a carrier.    *)
LEMMA OverCarriers ==
    ASSUME NEW carriers \in SUBSET Carriers PROVE Over(carriers) \in SUBSET Carriers
  BY MaxConfAssumption DEF Over, Carriers

LEMMA NewCarrier ==
    ASSUME NEW n \in 0..MaxConf PROVE [conf |-> n, over |-> FALSE] \in Carriers
  BY DEF Carriers

LEMMA CarriedConf == ASSUME NEW c \in Carriers PROVE c.conf \in 0..MaxConf
  BY DEF Carriers

(* At first nobody carries a configuration, and a source that is not on      *)
(* demand has one run.                                                      *)
LEMMA InitInv == Init => IInv
<1> SUFFICES ASSUME Init PROVE IInv
  OBVIOUS
<1>1. TypeOK
  <2>1. 0 \in 0..MaxConf
    BY MaxConfAssumption
  <2>2. runConf \in [Runs -> 0..MaxConf] /\ pathConf \in 0..MaxConf /\ handlerConf \in 0..MaxConf
    BY <2>1 DEF Init
  <2>3. run \in [Runs -> RunStates] /\ current \in Runs \cup {None}
    BY DEF Init, RunStates
  <2> QED
    BY <2>2, <2>3 DEF Init, TypeOK
<1>2. LoopInv
  BY NoneAssumption DEF Init, LoopInv, HasRun, Alive
<1>3. PathInv /\ ViewInv
  BY DEF Init, PathInv, ViewInv, Streams
<1> QED
  BY <1>1, <1>2, <1>3 DEF IInv

(* Every step keeps the types.                                              *)
LEMMA TypeStep == ASSUME IInv, [Next]_vars PROVE TypeOK'
<1> USE MaxConfAssumption DEF TypeOK, IInv, Become, RunStates, pathVars, loopVars, confVars
<1>1. ASSUME NEW r \in Runs, Start(r) PROVE TypeOK'
  BY <1>1 DEF Start, Recreate
<1>2. ASSUME Stop \/ CloseSource PROVE TypeOK'
  BY <1>2, OverCarriers DEF Stop, CloseSource, CancelCtx
<1>3. ASSUME StopReturns \/ ClosePath PROVE TypeOK'
  BY <1>3 DEF StopReturns, ClosePath
<1>4. ASSUME ReloadConf PROVE TypeOK'
  <2>1. pathConf + 1 \in 0..MaxConf
    BY <1>4 DEF ReloadConf
  <2>2. [conf |-> pathConf + 1, over |-> FALSE] \in Carriers
    BY <2>1, NewCarrier
  <2> QED
    BY <1>4, <2>1, <2>2 DEF ReloadConf
<1>5. ASSUME AcceptSetReady \/ GiveUpHandingOver PROVE TypeOK'
  BY <1>5 DEF AcceptSetReady, GiveUpHandingOver
<1>6. ASSUME AcceptSetNotReady PROVE TypeOK'
  BY <1>6, OverCarriers DEF AcceptSetNotReady, CancelCtx
<1>7. ASSUME NEW r \in Runs, TakeSetReady(r) \/ TakeSetNotReady(r) PROVE TypeOK'
  BY <1>7 DEF TakeSetReady, TakeSetNotReady
<1>8. ASSUME NEW r \in Runs, RunFailed(r) PROVE TypeOK'
  <2>1. current \in Runs
    BY <1>8 DEF RunFailed, LoopInv, HasRun, Alive
  <2> QED
    BY <1>8, <2>1, OverCarriers DEF RunFailed
<1>9. ASSUME NEW r \in Runs, RecreateTimer(r) PROVE TypeOK'
  BY <1>9 DEF RecreateTimer, Recreate
<1>10. ASSUME NEW c \in Carriers, TakeConf(c) PROVE TypeOK'
  <2>1. c.conf \in 0..MaxConf /\ [conf |-> c.conf, over |-> FALSE] \in Carriers
    BY NewCarrier, CarriedConf
  <2> QED
    BY <1>10, <2>1 DEF TakeConf
<1>11. ASSUME End PROVE TypeOK'
  <2>1. recreating \/ current \in Runs
    BY <1>11 DEF End, LoopInv, HasRun
  <2> QED
    BY <1>11, <2>1, OverCarriers DEF End
<1>12. ASSUME NEW r \in Runs, RunEnded(r) PROVE TypeOK'
  BY <1>12 DEF RunEnded
<1>13. ASSUME NEW r \in Runs, Instance(r) PROVE TypeOK'
  BY <1>13 DEF Instance, RunStarts, RunConnects, RunFails, RunStopsStreaming, NotHeard, Move
<1>14. ASSUME NEW c \in Carriers, NEW r \in Runs, RunTakesConf(r, c) PROVE TypeOK'
  BY <1>14, CarriedConf DEF RunTakesConf
<1>15. ASSUME NEW c \in Carriers, CarrierEnds(c) PROVE TypeOK'
  BY <1>15 DEF CarrierEnds
<1>16. CASE UNCHANGED vars
  BY <1>16 DEF vars
<1> QED
  BY <1>1, <1>2, <1>3, <1>4, <1>5, <1>6, <1>7, <1>8, <1>9, <1>10, <1>11, <1>12, <1>13,
     <1>14, <1>15, <1>16 DEF Next, Path, HandingOver, Loop

(* The run that the handler has is the only one, and the one it speaks for. *)
LEMMA LoopStep == ASSUME IInv, [Next]_vars PROVE LoopInv'
<1> USE NoneAssumption DEF TypeOK, IInv, LoopInv, HasRun, Alive, Become, pathVars, loopVars, confVars
<1>1. ASSUME NEW r \in Runs, Start(r) PROVE LoopInv'
  BY <1>1 DEF Start, Recreate, PathInv
<1>2. ASSUME Stop \/ CloseSource \/ StopReturns \/ ClosePath \/ ReloadConf PROVE LoopInv'
  BY <1>2 DEF Stop, CloseSource, StopReturns, ClosePath, ReloadConf
<1>3. ASSUME HandingOver PROVE LoopInv'
  <2>1. asking = current /\ current \in Runs
    BY <1>3 DEF HandingOver, AcceptSetReady, AcceptSetNotReady, GiveUpHandingOver
  <2> QED
    BY <1>3, <2>1 DEF HandingOver, AcceptSetReady, AcceptSetNotReady, GiveUpHandingOver
<1>4. ASSUME NEW r \in Runs, TakeSetReady(r) \/ TakeSetNotReady(r) PROVE LoopInv'
  BY <1>4 DEF TakeSetReady, TakeSetNotReady
<1>5. ASSUME NEW r \in Runs, RunFailed(r) PROVE LoopInv'
  BY <1>5 DEF RunFailed
<1>6. ASSUME NEW r \in Runs, RecreateTimer(r) PROVE LoopInv'
  BY <1>6 DEF RecreateTimer, Recreate
<1>7. ASSUME End PROVE LoopInv'
  BY <1>7 DEF End
<1>8. ASSUME NEW r \in Runs, RunEnded(r) PROVE LoopInv'
  BY <1>8 DEF RunEnded
<1>9. ASSUME NEW r \in Runs, Instance(r) PROVE LoopInv'
  BY <1>9 DEF Instance, RunStarts, RunConnects, RunFails, RunStopsStreaming, NotHeard, Move
<1>10. ASSUME NEW c \in Carriers,
              TakeConf(c) \/ CarrierEnds(c) \/ (\E r \in Runs : RunTakesConf(r, c))
       PROVE LoopInv'
  BY <1>10 DEF TakeConf, CarrierEnds, RunTakesConf
<1>11. CASE UNCHANGED vars
  BY <1>11 DEF vars
<1> QED
  BY <1>1, <1>2, <1>3, <1>4, <1>5, <1>6, <1>7, <1>8, <1>9, <1>10, <1>11 DEF Next, Path, Loop

(* The path waits for a handler whose context is done, and has none left     *)
(* behind when it goes on.                                                  *)
LEMMA PathStep == ASSUME IInv, [Next]_vars PROVE PathInv'
<1> USE DEF TypeOK, IInv, PathInv, pathVars, loopVars, confVars
<1>1. ASSUME Path PROVE PathInv'
  BY <1>1 DEF Path, Stop, StopReturns, ClosePath, CloseSource, CancelCtx, ReloadConf, Start, Recreate
<1>2. ASSUME HandingOver PROVE PathInv'
  BY <1>2 DEF HandingOver, AcceptSetReady, AcceptSetNotReady, GiveUpHandingOver, CancelCtx
<1>3. ASSUME End PROVE PathInv'
  BY <1>3 DEF End
<1>4. ASSUME NEW r \in Runs, Loop(r) PROVE PathInv'
  BY <1>4 DEF Loop, RunFailed, RecreateTimer, Recreate, RunEnded, TakeSetReady, TakeSetNotReady
<1>5. ASSUME NEW r \in Runs, Instance(r) PROVE PathInv'
  BY <1>5 DEF Instance, RunStarts, RunConnects, RunFails, RunStopsStreaming, NotHeard, Move
<1>6. ASSUME NEW c \in Carriers,
             TakeConf(c) \/ CarrierEnds(c) \/ (\E r \in Runs : RunTakesConf(r, c))
      PROVE PathInv'
  BY <1>6 DEF TakeConf, CarrierEnds, RunTakesConf
<1>7. CASE UNCHANGED vars
  BY <1>7 DEF vars
<1> QED
  BY <1>1, <1>2, <1>3, <1>4, <1>5, <1>6, <1>7 DEF Next

(* What the path believes of its source changes with what the source does.  *)
LEMMA ViewStep == ASSUME IInv, [Next]_vars PROVE ViewInv'
<1> USE NoneAssumption DEF TypeOK, IInv, LoopInv, HasRun, Alive, ViewInv, Streams, Become, pathVars, loopVars, confVars
<1>1. ASSUME NEW r \in Runs, Start(r) PROVE ViewInv'
  BY <1>1 DEF Start, Recreate, PathInv
<1>2. ASSUME Stop \/ CloseSource \/ StopReturns \/ ClosePath \/ ReloadConf PROVE ViewInv'
  BY <1>2 DEF Stop, CloseSource, StopReturns, ClosePath, ReloadConf, CancelCtx, PathInv
<1>3. ASSUME HandingOver PROVE ViewInv'
  <2>1. asking = current /\ current \in Runs
    BY <1>3 DEF HandingOver, AcceptSetReady, AcceptSetNotReady, GiveUpHandingOver
  <2>2. CASE AcceptSetReady
    BY <2>1, <2>2 DEF AcceptSetReady
  <2>3. CASE AcceptSetNotReady
    BY <2>1, <2>3 DEF AcceptSetNotReady, CancelCtx
  <2>4. CASE GiveUpHandingOver
    BY <2>1, <2>4 DEF GiveUpHandingOver, PathInv
  <2> QED
    BY <1>3, <2>2, <2>3, <2>4 DEF HandingOver
<1>4. ASSUME NEW r \in Runs, TakeSetReady(r) \/ TakeSetNotReady(r) PROVE ViewInv'
  BY <1>4 DEF TakeSetReady, TakeSetNotReady
<1>5. ASSUME NEW r \in Runs, RunFailed(r) PROVE ViewInv'
  BY <1>5 DEF RunFailed
<1>6. ASSUME NEW r \in Runs, RecreateTimer(r) PROVE ViewInv'
  BY <1>6 DEF RecreateTimer, Recreate
<1>7. ASSUME End PROVE ViewInv'
  BY <1>7 DEF End
<1>8. ASSUME NEW r \in Runs, RunEnded(r) PROVE ViewInv'
  BY <1>8 DEF RunEnded, PathInv
<1>9. ASSUME NEW r \in Runs, RunStarts(r) \/ RunConnects(r) \/ RunFails(r) PROVE ViewInv'
  BY <1>9 DEF RunStarts, RunConnects, RunFails, Move
<1>10. ASSUME NEW r \in Runs, RunStopsStreaming(r) PROVE ViewInv'
  BY <1>10 DEF RunStopsStreaming, Move
<1>11. ASSUME NEW r \in Runs, NotHeard(r) PROVE ViewInv'
  BY <1>11 DEF NotHeard, Move, PathInv
<1>12. ASSUME NEW c \in Carriers,
              TakeConf(c) \/ CarrierEnds(c) \/ (\E r \in Runs : RunTakesConf(r, c))
       PROVE ViewInv'
  BY <1>12 DEF TakeConf, CarrierEnds, RunTakesConf
<1>13. CASE UNCHANGED vars
  BY <1>13 DEF vars
<1> QED
  BY <1>1, <1>2, <1>3, <1>4, <1>5, <1>6, <1>7, <1>8, <1>9, <1>10, <1>11, <1>12, <1>13
  DEF Next, Path, Loop, Instance

(* The inductive invariant, for any number of runs and reloads.             *)
THEOREM InvAlways == Spec => []IInv
<1>1. IInv /\ [Next]_vars => IInv'
  BY TypeStep, LoopStep, PathStep, ViewStep DEF IInv
<1> QED
  BY InitInv, <1>1, PTL DEF Spec

-----------------------------------------------------------------------------
(* Every variable of the handler keeps to its kind (handler.go:185-303).    *)
THEOREM TypeCorrect == Spec => []TypeOK
<1>1. IInv => TypeOK
  BY DEF IInv
<1> QED
  BY <1>1, InvAlways, PTL

(* Whatever fails, is retried, stopped or started again, the instance is     *)
(* never run twice at once (handler.go:237-303), and when Stop returns       *)
(* nothing of the source is left (handler.go:217-230).                       *)
THEOREM RunsNeverOverlap == Spec => []RunsNeverMeet
<1>1. IInv => RunsNeverMeet
  <2> SUFFICES ASSUME IInv PROVE OneRun /\ StoppedIsQuiet
    BY DEF RunsNeverMeet
  <2>1. OneRun
    BY DEF IInv, LoopInv, OneRun
  <2>2. StoppedIsQuiet
    BY DEF IInv, LoopInv, HasRun, PathInv, StoppedIsQuiet
  <2> QED
    BY <2>1, <2>2
<1> QED
  BY <1>1, InvAlways, PTL

(* The path takes its source to be ready exactly while it streams           *)
(* (handler.go:327-352).                                                    *)
THEOREM ReadyWhileStreaming == Spec => []ReadyMeansStreaming
<1>1. IInv => ReadyMeansStreaming
  BY DEF IInv, LoopInv, PathInv, ViewInv, Streams, Alive, ReadyMeansStreaming
<1> QED
  BY <1>1, InvAlways, PTL

(* The path sees its source start, become ready and stop in this order, and  *)
(* hears nothing of a source that it stopped (path.go:929-966).             *)
THEOREM HandlerKeepsPromise == Spec => KeepsPromise
<1>1. Init => Promise!Init
  BY DEF Init, Promise!Init
<1>2. IInv /\ [Next]_vars => [Promise!Next]_view
  <2> SUFFICES ASSUME IInv, [Next]_vars PROVE [Promise!Next]_view
    OBVIOUS
  <2> USE DEF IInv, TypeOK, PathInv, Promise!Next, Promise!Started, Promise!Ready,
              Promise!NotReady, Promise!Stopped, pathVars
  <2>1. ASSUME Path PROVE [Promise!Next]_view
    BY <2>1 DEF Path, Stop, StopReturns, ClosePath, CloseSource, CancelCtx, ReloadConf, Start
  <2>2. ASSUME HandingOver PROVE [Promise!Next]_view
    BY <2>2 DEF HandingOver, AcceptSetReady, AcceptSetNotReady, GiveUpHandingOver, CancelCtx
  <2>3. ASSUME End PROVE [Promise!Next]_view
    BY <2>3 DEF End
  <2>4. ASSUME NEW r \in Runs, Loop(r) \/ Instance(r) PROVE [Promise!Next]_view
    BY <2>4 DEF Loop, RunFailed, RecreateTimer, RunEnded, TakeSetReady, TakeSetNotReady,
                Instance, RunStarts, RunConnects, RunFails, RunStopsStreaming, NotHeard, Move
  <2>5. ASSUME NEW c \in Carriers,
               TakeConf(c) \/ CarrierEnds(c) \/ (\E r \in Runs : RunTakesConf(r, c))
        PROVE [Promise!Next]_view
    BY <2>5 DEF TakeConf, CarrierEnds, RunTakesConf
  <2>6. CASE UNCHANGED vars
    BY <2>6 DEF vars
  <2> QED
    BY <2>1, <2>2, <2>3, <2>4, <2>5, <2>6 DEF Next
<1> QED
  BY <1>1, <1>2, InvAlways, PTL DEF Spec, KeepsPromise, Promise!Spec
=============================================================================
