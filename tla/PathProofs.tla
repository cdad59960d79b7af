----------------------------- MODULE PathProofs -----------------------------
(* Theorems about Path, for every set of clients and configurations.       *)
EXTENDS Path, TLAPS

USE DEF None, Handlers

-----------------------------------------------------------------------------
(* Type correctness.                                                       *)

(* Starting a source on demand, or not having to, keeps the types.          *)
LEMMA DemandSourceType ==
    ASSUME TypeOK, DemandSource
    PROVE  /\ source' \in Publishers \cup Handlers \cup {"none", "redirect"}
           /\ onUnDemandHook' \in BOOLEAN
           /\ onDemandStaticSourceState' \in DemandStates
           /\ onDemandPublisherState' \in DemandStates
           /\ origNodeStaticSourceState' \in DemandStates
           /\ timers' \subseteq Timers
           /\ handler' \in [Handlers -> {"off", "connecting", "ready"}]
  BY DEF TypeOK, DemandSource, OnDemandStaticSourceStart, OnDemandPublisherStart,
         OrigNodeStaticSourceStart, demandVars, DemandStates, Timers

(* Stopping any of the sources on demand keeps the types.                   *)
LEMMA SourceStopType ==
    ASSUME TypeOK,
           OnDemandStaticSourceStop \/ OnDemandPublisherStop \/ OrigNodeStaticSourceStop
    PROVE  /\ source' \in Publishers \cup Handlers \cup {"none", "redirect"}
           /\ onUnDemandHook' \in BOOLEAN
           /\ onDemandStaticSourceState' \in DemandStates
           /\ onDemandPublisherState' \in DemandStates
           /\ origNodeStaticSourceState' \in DemandStates
           /\ timers' \subseteq Timers
           /\ handler' \in [Handlers -> {"off", "connecting", "ready"}]
  BY DEF TypeOK, OnDemandStaticSourceStop, OnDemandPublisherStop,
         OrigNodeStaticSourceStop, DemandStates, Timers

(* Losing the stream keeps the types.                                       *)
LEMMA SetNotReadyType ==
    ASSUME TypeOK, SetNotReady
    PROVE  /\ stream' \in {"none", "live", "broken"}
           /\ recorder' = None
           /\ onNotReadyHook' \in {"nil", "armed", "fired"}
           /\ forwarders' \in {"none", "idle", "running", "stopped"}
           /\ readers' \subseteq Readers
           /\ rdrs' \in [Readers -> {"idle", "held", "reading", "closing"}]
  BY DEF TypeOK, SetNotReady

(* Gaining the stream keeps the types.                                      *)
LEMMA StreamIsUpType ==
    ASSUME TypeOK, NEW present \in SUBSET Readers, StreamIsUp(present)
    PROVE  /\ stream' = "live"
           /\ recorder' = IF conf.record THEN conf.recordPath ELSE None
           /\ onNotReadyHook' = "armed"
           /\ readers' \subseteq Readers
           /\ describeRequestsOnHold' \subseteq Describers
           /\ readerAddRequestsOnHold' \in Seq(Readers)
           /\ rdrs' \in [Readers -> {"idle", "held", "reading", "closing"}]
  BY DEF TypeOK, StreamIsUp, StreamUp, Admitted

(* The closing test of a handler leaves the path open or closing.           *)
LEMMA CheckType == ASSUME CheckShouldClose PROVE phase' \in {"run", "teardown"}
  BY DEF CheckShouldClose

(* Every variable keeps holding a value of its kind, whatever the path is   *)
(* asked (path.go).                                                         *)
THEOREM TypeCorrect == Spec => []TypeOK
<1>1. Init => TypeOK
  <2> SUFFICES ASSUME Init PROVE TypeOK
    OBVIOUS
  <2>1. source \in {"none", "redirect", "static"}
    BY ConfsAssumption DEF Init, ConfOK
  <2>2. handler \in [Handlers -> {"off", "connecting", "ready"}]
    BY DEF Init
  <2>3. readerAddRequestsOnHold \in Seq(Readers)
    BY DEF Init
  <2> QED
    BY <2>1, <2>2, <2>3 DEF Init, TypeOK, DemandStates, Timers
<1>2. TypeOK /\ [Next]_vars => TypeOK'
  <2> SUFFICES ASSUME TypeOK, [Next]_vars PROVE TypeOK'
    OBVIOUS
  <2>1. ASSUME NEW d \in Describers, Describe(d) PROVE TypeOK'
    <3>1. /\ conf' = conf /\ stream' = stream /\ onNotReadyHook' = onNotReadyHook
          /\ recorder' = recorder /\ forwarders' = forwarders /\ pubs' = pubs
          /\ readers' = readers /\ rdrs' = rdrs
          /\ readerAddRequestsOnHold' = readerAddRequestsOnHold
          /\ describeRequestsOnHold' \subseteq Describers
          /\ phase' \in {"run", "teardown"}
          /\ DemandSource \/ UNCHANGED <<source, demandVars>>
      BY <2>1, CheckType DEF TypeOK, Describe
    <3>2. CASE DemandSource
      BY <3>1, <3>2, DemandSourceType DEF TypeOK
    <3>3. CASE UNCHANGED <<source, demandVars>>
      BY <3>1, <3>3 DEF TypeOK, demandVars
    <3> QED
      BY <3>1, <3>2, <3>3
  <2>2. ASSUME NEW r \in Readers, AdmitReader(r) PROVE TypeOK'
    <3>1. rdrs' \in [Readers -> {"idle", "held", "reading", "closing"}]
      BY <2>2 DEF TypeOK, AdmitReader
    <3>2. /\ onDemandStaticSourceState' \in DemandStates
          /\ onDemandPublisherState' \in DemandStates
          /\ origNodeStaticSourceState' \in DemandStates
          /\ timers' \subseteq Timers
      BY <2>2 DEF TypeOK, AdmitReader, DemandStates, Timers
    <3>3. readers' \subseteq Readers
      BY <2>2 DEF TypeOK, AdmitReader
    <3> QED
      BY <2>2, <3>1, <3>2, <3>3, CheckType DEF TypeOK, AdmitReader, sourceVars
  <2>3. ASSUME NEW r \in Readers, HoldReader(r) PROVE TypeOK'
    <3>1. readerAddRequestsOnHold' \in Seq(Readers)
      BY <2>3 DEF TypeOK, HoldReader
    <3>2. rdrs' \in [Readers -> {"idle", "held", "reading", "closing"}]
      BY <2>3 DEF TypeOK, HoldReader
    <3>3. DemandSource /\ phase' \in {"run", "teardown"}
      BY <2>3, CheckType DEF HoldReader
    <3> QED
      BY <2>3, <3>1, <3>2, <3>3, DemandSourceType DEF TypeOK, HoldReader
  <2>4. ASSUME NEW r \in Readers, RefuseReader(r) PROVE TypeOK'
    BY <2>4, CheckType DEF TypeOK, RefuseReader, sourceVars, clientVars, demandVars
  <2>5. ASSUME NEW r \in Readers, RemoveReader(r) PROVE TypeOK'
    <3>1. rdrs' \in [Readers -> {"idle", "held", "reading", "closing"}]
      BY <2>5 DEF TypeOK, RemoveReader
    <3>2. /\ onDemandStaticSourceState' \in DemandStates
          /\ onDemandPublisherState' \in DemandStates
          /\ origNodeStaticSourceState' \in DemandStates
          /\ timers' \subseteq Timers
      BY <2>5 DEF TypeOK, RemoveReader, DemandStates, Timers
    <3>3. readers' \subseteq Readers
      BY <2>5 DEF TypeOK, RemoveReader
    <3> QED
      BY <2>5, <3>1, <3>2, <3>3 DEF TypeOK, RemoveReader, sourceVars
  <2>6. ASSUME NEW r \in Readers, ReaderGone(r) PROVE TypeOK'
    BY <2>6 DEF TypeOK, ReaderGone, sourceVars, demandVars
  <2>7. ASSUME NEW p \in Publishers, AddPublisher(p) PROVE TypeOK'
    <3>1. ReadersLeft \in SUBSET Readers
      BY DEF TypeOK, ReadersLeft
    <3>2. /\ phase' = phase
          /\ source' \in Publishers
          /\ conf' = conf
          /\ forwarders' \in {"none", "idle", "running", "stopped"}
          /\ pubs' \in [Publishers -> {"idle", "publishing", "closing"}]
      BY <2>7 DEF TypeOK, AddPublisher, StartForwarders
    <3>3. /\ onUnDemandHook' \in BOOLEAN
          /\ onDemandStaticSourceState' \in DemandStates
          /\ onDemandPublisherState' \in DemandStates
          /\ origNodeStaticSourceState' \in DemandStates
          /\ timers' \subseteq Timers
          /\ handler' \in [Handlers -> {"off", "connecting", "ready"}]
      BY <2>7 DEF TypeOK, AddPublisher, WantedState, WantedTimers, DemandStates, Timers
    <3>4. StreamIsUp(ReadersLeft)
      BY <2>7 DEF AddPublisher
    <3> QED
      BY <3>1, <3>2, <3>3, <3>4, StreamIsUpType DEF TypeOK
  <2>8. ASSUME NEW p \in Publishers, AddPublisherFails(p) PROVE TypeOK'
    BY <2>8 DEF TypeOK, AddPublisherFails, ReadersLeft, demandVars
  <2>9. ASSUME NEW p \in Publishers, AddPublisherCrashes(p) PROVE TypeOK'
    BY <2>9 DEF TypeOK, AddPublisherCrashes, Crash, sourceVars, clientVars, demandVars
  <2>10. ASSUME NEW p \in Publishers, RemovePublisher(p) PROVE TypeOK'
    BY <2>10, SetNotReadyType, CheckType DEF TypeOK, RemovePublisher, demandVars
  <2>11. ASSUME NEW p \in Publishers, PublisherGone(p) PROVE TypeOK'
    BY <2>11 DEF TypeOK, PublisherGone, clientVars, demandVars
  <2>12. ASSUME NEW h \in Handlers, SourceStaticSetReady(h) PROVE TypeOK'
    <3>1. readers \in SUBSET Readers
      BY DEF TypeOK
    <3>2. /\ phase' = phase /\ source' = source /\ conf' = conf /\ pubs' = pubs
          /\ forwarders' \in {"none", "idle", "running", "stopped"}
          /\ onUnDemandHook' \in BOOLEAN
          /\ onDemandStaticSourceState' \in DemandStates
          /\ onDemandPublisherState' \in DemandStates
          /\ origNodeStaticSourceState' \in DemandStates
          /\ timers' \subseteq Timers
          /\ handler' \in [Handlers -> {"off", "connecting", "ready"}]
      BY <2>12 DEF TypeOK, SourceStaticSetReady, StartForwarders, WantedState,
                   WantedTimers, DemandStates, Timers
    <3>3. StreamIsUp(readers)
      BY <2>12 DEF SourceStaticSetReady
    <3> QED
      BY <3>1, <3>2, <3>3, StreamIsUpType DEF TypeOK
  <2>13. ASSUME NEW h \in Handlers, SourceStaticSetReadyFails(h) PROVE TypeOK'
    BY <2>13 DEF TypeOK, SourceStaticSetReadyFails, clientVars, demandVars
  <2>14. ASSUME NEW h \in Handlers, SourceStaticSetNotReady(h) PROVE TypeOK'
    <3>1. /\ conf' = conf /\ pubs' = pubs
          /\ describeRequestsOnHold' = describeRequestsOnHold
          /\ readerAddRequestsOnHold' = readerAddRequestsOnHold
          /\ SetNotReady
          /\ phase' \in {"run", "teardown"}
      BY <2>14, CheckType DEF SourceStaticSetNotReady
    <3>2. /\ source' \in Publishers \cup Handlers \cup {"none", "redirect"}
          /\ onUnDemandHook' \in BOOLEAN
          /\ onDemandStaticSourceState' \in DemandStates
          /\ onDemandPublisherState' \in DemandStates
          /\ origNodeStaticSourceState' \in DemandStates
          /\ timers' \subseteq Timers
          /\ handler' \in [Handlers -> {"off", "connecting", "ready"}]
      <4>1. CASE OnDemandStaticSourceStop \/ OrigNodeStaticSourceStop
        BY <4>1, SourceStopType
      <4>2. CASE ~(OnDemandStaticSourceStop \/ OrigNodeStaticSourceStop)
        BY <2>14, <4>2 DEF TypeOK, SourceStaticSetNotReady
      <4> QED
        BY <4>1, <4>2
    <3> QED
      BY <3>1, <3>2, SetNotReadyType DEF TypeOK
  <2>15. CASE OnDemandStaticSourceReadyTimer
    BY <2>15, SourceStopType, CheckType
       DEF TypeOK, OnDemandStaticSourceReadyTimer, RejectOnHold
  <2>16. CASE OnDemandStaticSourceCloseTimer
    BY <2>16, SetNotReadyType, SourceStopType, CheckType
       DEF TypeOK, OnDemandStaticSourceCloseTimer
  <2>17. CASE OnDemandPublisherReadyTimer
    BY <2>17, SourceStopType, CheckType
       DEF TypeOK, OnDemandPublisherReadyTimer, RejectOnHold
  <2>18. CASE OnDemandPublisherCloseTimer
    BY <2>18, SourceStopType DEF TypeOK, OnDemandPublisherCloseTimer, clientVars
  <2>19. CASE OrigNodeStaticSourceReadyTimer
    BY <2>19, SourceStopType, CheckType DEF TypeOK, OrigNodeStaticSourceReadyTimer
  <2>20. CASE OrigNodeStaticSourceCloseTimer
    BY <2>20, SourceStopType, CheckType
       DEF TypeOK, OrigNodeStaticSourceCloseTimer, clientVars
  <2>21. ASSUME NEW c \in Confs, ReloadConf(c) PROVE TypeOK'
    BY <2>21 DEF TypeOK, ReloadConf, clientVars, demandVars
  <2>22. CASE Terminate
    BY <2>22 DEF TypeOK, Terminate, sourceVars, clientVars, demandVars
  <2>23. CASE Teardown
    <3>1. CASE Crash
      BY <3>1 DEF TypeOK, Crash, sourceVars, clientVars, demandVars
    <3>2. CASE ~Crash
      <4>1. /\ rdrs' \in [Readers -> {"idle", "held", "reading", "closing"}]
            /\ pubs' \in [Publishers -> {"idle", "publishing", "closing"}]
            /\ handler' \in [Handlers -> {"off", "connecting", "ready"}]
        BY <2>23, <3>2 DEF TypeOK, Teardown, CloseSource
      <4>2. /\ readers' = IF stream = None THEN readers ELSE {}
            /\ readerAddRequestsOnHold' = <<>>
            /\ describeRequestsOnHold' = {}
            /\ timers' = timers \cap {"origReady", "origClose"}
            /\ onUnDemandHook' = FALSE
            /\ forwarders' \in {"none", "stopped"}
        BY <2>23, <3>2 DEF Teardown
      <4>3. \/ stream' = None /\ recorder' = None /\ onNotReadyHook' = "fired"
            \/ UNCHANGED <<stream, recorder, onNotReadyHook>>
        BY <2>23, <3>2 DEF Teardown
      <4> QED
        <5>1. /\ phase' = "done"
              /\ UNCHANGED <<conf, source, onDemandStaticSourceState,
                             onDemandPublisherState, origNodeStaticSourceState>>
          BY <2>23, <3>2 DEF Teardown
        <5>2. readerAddRequestsOnHold' \in Seq(Readers)
          BY <4>2
        <5>3. readers' \subseteq Readers
          BY <4>2 DEF TypeOK
        <5>4. timers' \subseteq Timers
          BY <4>2 DEF TypeOK
        <5>5. recorder' = None \/ \E c \in Confs : recorder' = c.recordPath
          BY <4>3 DEF TypeOK
        <5> QED
          BY <4>1, <4>2, <4>3, <5>1, <5>2, <5>3, <5>4, <5>5 DEF TypeOK
    <3> QED
      BY <3>1, <3>2
  <2>24. CASE UNCHANGED vars
    BY <2>24 DEF TypeOK, vars, sourceVars, clientVars, demandVars
  <2> QED
    BY <2>1, <2>2, <2>3, <2>4, <2>5, <2>6, <2>7, <2>8, <2>9, <2>10, <2>11, <2>12,
       <2>13, <2>14, <2>15, <2>16, <2>17, <2>18, <2>19, <2>20, <2>21, <2>22, <2>23, <2>24
       DEF Next, RegularNext, SpecialNext
<1> QED
  BY <1>1, <1>2, PTL DEF Spec

-----------------------------------------------------------------------------
(* The path and its readers agree.                                         *)

(* Whoever is admitted from the queue was in it.                            *)
LEMMA AdmittedHeld ==
    ASSUME NEW present PROVE Admitted(readerAddRequestsOnHold, present) \subseteq Held
  BY DEF Admitted, Held

(* Losing the stream removes every reader on both sides.                    *)
LEMMA SetNotReadyAgrees ==
    ASSUME TypeOK, ReadersAgree, SetNotReady,
           UNCHANGED readerAddRequestsOnHold
    PROVE  ReadersAgree'
  BY DEF TypeOK, ReadersAgree, SetNotReady, Held

(* Sending an error to everyone on hold leaves nobody on hold.              *)
LEMMA RejectAgrees ==
    ASSUME TypeOK, ReadersAgree,
           readerAddRequestsOnHold' = <<>>,
           rdrs' = [r \in Readers |-> IF r \in Held THEN "idle" ELSE rdrs[r]],
           UNCHANGED <<stream, readers>>
    PROVE  ReadersAgree'
  BY DEF TypeOK, ReadersAgree, Held

(* When the stream comes up each one on hold reads or is turned away.       *)
LEMMA StreamIsUpAgrees ==
    ASSUME TypeOK, ReadersAgree, StreamIsUp(readers) \/ StreamIsUp({})
    PROVE  ReadersAgree'
<1> DEFINE A(present) == Admitted(readerAddRequestsOnHold, present)
<1>1. PICK present \in {readers, {}} : StreamIsUp(present)
  OBVIOUS
<1>2. A(present) \subseteq Held /\ present \subseteq readers
  BY AdmittedHeld
<1>3. /\ stream' = "live"
      /\ readers' = present \cup A(present)
      /\ readerAddRequestsOnHold' = <<>>
      /\ rdrs' = [r \in Readers |->
                   IF r \in A(present) THEN "reading"
                   ELSE IF r \in Held THEN "idle"
                   ELSE IF r \in readers \ present THEN "closing" ELSE rdrs[r]]
  BY <1>1 DEF StreamIsUp, StreamUp
<1> HIDE DEF A
<1>4. Held' = {}
  BY <1>3 DEF Held
<1>5. ASSUME NEW r \in Readers
      PROVE  (rdrs'[r] = "reading" <=> r \in readers') /\ rdrs'[r] # "held"
  <2>1. CASE r \in A(present)
    BY <1>2, <1>3, <2>1
  <2>2. CASE r \in Held \ A(present)
    BY <1>2, <1>3, <2>2 DEF ReadersAgree
  <2>3. CASE r \notin Held /\ r \in readers \ present
    BY <1>2, <1>3, <2>3
  <2>4. CASE r \notin Held /\ r \notin readers \ present
    BY <1>2, <1>3, <2>4 DEF ReadersAgree
  <2> QED
    BY <2>1, <2>2, <2>3, <2>4
<1> QED
  BY <1>3, <1>4, <1>5 DEF ReadersAgree

(* Every step keeps the path and its readers in agreement.                  *)
LEMMA ReadersAgreeStep ==
    ASSUME TypeOK, ReadersAgree, [Next]_vars
    PROVE  ReadersAgree'
<1>1. CASE UNCHANGED <<stream, readers, readerAddRequestsOnHold, rdrs>>
  BY <1>1 DEF ReadersAgree, Held
<1>2. ASSUME NEW d \in Describers, Describe(d) PROVE ReadersAgree'
  BY <1>1, <1>2 DEF Describe
<1>3. ASSUME NEW r \in Readers, AdmitReader(r) PROVE ReadersAgree'
  <2>1. /\ rdrs[r] = "idle" /\ stream # None
        /\ readers' = readers \cup {r}
        /\ rdrs' = [rdrs EXCEPT ![r] = "reading"]
        /\ UNCHANGED <<stream, readerAddRequestsOnHold>>
    BY <1>3 DEF AdmitReader, sourceVars
  <2> QED
    BY <2>1 DEF TypeOK, ReadersAgree, Held
<1>4. ASSUME NEW r \in Readers, HoldReader(r) PROVE ReadersAgree'
  <2>1. /\ rdrs[r] = "idle"
        /\ readerAddRequestsOnHold' = Append(readerAddRequestsOnHold, r)
        /\ rdrs' = [rdrs EXCEPT ![r] = "held"]
        /\ UNCHANGED <<stream, readers>>
    BY <1>4 DEF HoldReader
  <2>2. Held' = Held \cup {r} /\ r \notin Held
    BY <2>1 DEF TypeOK, ReadersAgree, Held
  <2>3. ASSUME NEW i \in DOMAIN readerAddRequestsOnHold', NEW j \in DOMAIN readerAddRequestsOnHold',
               readerAddRequestsOnHold'[i] = readerAddRequestsOnHold'[j]
        PROVE  i = j
    BY <2>1, <2>2, <2>3 DEF TypeOK, ReadersAgree, Held
  <2> QED
    BY <2>1, <2>2, <2>3 DEF TypeOK, ReadersAgree
<1>5. ASSUME NEW r \in Readers, RefuseReader(r) PROVE ReadersAgree'
  BY <1>1, <1>5 DEF RefuseReader, sourceVars, clientVars
<1>6. ASSUME NEW r \in Readers, RemoveReader(r) PROVE ReadersAgree'
  <2>1. /\ rdrs[r] \in {"reading", "closing"}
        /\ rdrs' = [rdrs EXCEPT ![r] = "idle"]
        /\ readers' = readers \ {r}
        /\ UNCHANGED <<stream, readerAddRequestsOnHold>>
    BY <1>6 DEF RemoveReader, sourceVars
  <2> QED
    BY <2>1 DEF TypeOK, ReadersAgree, Held
<1>7. ASSUME NEW r \in Readers, ReaderGone(r) PROVE ReadersAgree'
  BY <1>7 DEF ReaderGone, TypeOK, ReadersAgree, Held, sourceVars
<1>8. ASSUME NEW p \in Publishers, AddPublisher(p) PROVE ReadersAgree'
  BY <1>8, StreamIsUpAgrees DEF AddPublisher, ReadersLeft
<1>9. ASSUME NEW p \in Publishers, AddPublisherFails(p) PROVE ReadersAgree'
  BY <1>9 DEF AddPublisherFails, ReadersLeft, TypeOK, ReadersAgree, Held
<1>10. ASSUME NEW p \in Publishers, AddPublisherCrashes(p) PROVE ReadersAgree'
  BY <1>1, <1>10 DEF AddPublisherCrashes, Crash, sourceVars, clientVars
<1>11. ASSUME NEW p \in Publishers, RemovePublisher(p) PROVE ReadersAgree'
  BY <1>1, <1>11, SetNotReadyAgrees DEF RemovePublisher
<1>12. ASSUME NEW p \in Publishers, PublisherGone(p) PROVE ReadersAgree'
  BY <1>1, <1>12 DEF PublisherGone, clientVars
<1>13. ASSUME NEW h \in Handlers, SourceStaticSetReady(h) PROVE ReadersAgree'
  BY <1>13, StreamIsUpAgrees DEF SourceStaticSetReady
<1>14. ASSUME NEW h \in Handlers, SourceStaticSetReadyFails(h) PROVE ReadersAgree'
  BY <1>14 DEF SourceStaticSetReadyFails, clientVars, ReadersAgree, Held
<1>15. ASSUME NEW h \in Handlers, SourceStaticSetNotReady(h) PROVE ReadersAgree'
  BY <1>15, SetNotReadyAgrees DEF SourceStaticSetNotReady
<1>16. CASE OnDemandStaticSourceReadyTimer
  BY <1>16, RejectAgrees DEF OnDemandStaticSourceReadyTimer, RejectOnHold
<1>17. CASE OnDemandStaticSourceCloseTimer
  BY <1>17, SetNotReadyAgrees DEF OnDemandStaticSourceCloseTimer
<1>18. CASE OnDemandPublisherReadyTimer
  BY <1>18, RejectAgrees DEF OnDemandPublisherReadyTimer, RejectOnHold
<1>19. CASE OnDemandPublisherCloseTimer
  BY <1>1, <1>19 DEF OnDemandPublisherCloseTimer, clientVars
<1>20. CASE OrigNodeStaticSourceReadyTimer
  BY <1>20, RejectAgrees DEF OrigNodeStaticSourceReadyTimer
<1>21. CASE OrigNodeStaticSourceCloseTimer
  BY <1>1, <1>21 DEF OrigNodeStaticSourceCloseTimer, clientVars
<1>22. ASSUME NEW c \in Confs, ReloadConf(c) PROVE ReadersAgree'
  BY <1>1, <1>22 DEF ReloadConf, clientVars
<1>23. CASE Terminate
  BY <1>1, <1>23 DEF Terminate, sourceVars, clientVars
<1>24. CASE Teardown
  <2>1. CASE Crash
    BY <1>1, <2>1 DEF Crash, sourceVars, clientVars
  <2>2. CASE ~Crash
    <3>1. /\ readerAddRequestsOnHold' = <<>>
          /\ readers' = IF stream = None THEN readers ELSE {}
          /\ rdrs' = [r \in Readers |->
                        IF r \in Held THEN "idle"
                        ELSE IF stream # None /\ r \in readers THEN "closing" ELSE rdrs[r]]
          /\ stream' = None
      BY <1>24, <2>2 DEF Teardown
    <3> QED
      BY <3>1 DEF TypeOK, ReadersAgree, Held
  <2> QED
    BY <2>1, <2>2
<1>25. CASE UNCHANGED vars
  BY <1>1, <1>25 DEF vars, sourceVars, clientVars
<1> QED
  BY <1>2, <1>3, <1>4, <1>5, <1>6, <1>7, <1>8, <1>9, <1>10, <1>11, <1>12, <1>13, <1>14,
     <1>15, <1>16, <1>17, <1>18, <1>19, <1>20, <1>21, <1>22, <1>23, <1>24, <1>25
     DEF Next, RegularNext, SpecialNext

(* Path and readers agree on who reads and who waits, and nobody reads from *)
(* a path without a stream (path.go:807-831, 888-922): it is inductive      *)
(* given the types.                                                         *)
THEOREM ReadersAlwaysAgree == Spec => []ReadersAgree
<1>1. Init => ReadersAgree
  BY DEF Init, ReadersAgree, Held
<1>2. TypeOK /\ ReadersAgree /\ [Next]_vars => ReadersAgree'
  BY ReadersAgreeStep
<1> QED
  BY <1>1, <1>2, TypeCorrect, PTL DEF Spec

-----------------------------------------------------------------------------
(* Demand: states, timers, handlers and the source of the path.            *)

(* The strengthening that makes TimersFollowStates and SourcesFollowDemand  *)
(* inductive: which states belong to which configuration, what the source   *)
(* is, and that a handler that is connecting is awaited.                    *)
DemandBody ==
    /\ onDemandStaticSourceState # "initial" => HasOnDemandStaticSource(conf)
    /\ onDemandPublisherState # "initial" => HasOnDemandPublisher(conf)
    /\ origNodeStaticSourceState # "initial" => HasOrigNode(conf) /\ ~HasOnDemandPublisher(conf)
    /\ conf.source = "static" <=> source = "static"
    /\ conf.source = "redirect" <=> source = "redirect"
    /\ handler["static"] # "off" <=>
          HasStaticSource(conf) /\ (conf.sourceOnDemand => onDemandStaticSourceState # "initial")
    /\ handler["orig"] # "off" <=> origNodeStaticSourceState # "initial"
    /\ source = "orig" <=> origNodeStaticSourceState # "initial"
    /\ HasOnDemandStaticSource(conf) =>
          (handler["static"] = "connecting" <=> onDemandStaticSourceState = "waitingReady")
    /\ handler["orig"] = "connecting" <=> origNodeStaticSourceState = "waitingReady"
    /\ onUnDemandHook <=> onDemandPublisherState # "initial"
    /\ "staticReady" \in timers <=> onDemandStaticSourceState = "waitingReady"
    /\ "staticClose" \in timers <=> onDemandStaticSourceState = "closing"
    /\ "publisherReady" \in timers <=> onDemandPublisherState = "waitingReady"
    /\ "publisherClose" \in timers <=> onDemandPublisherState = "closing"
    /\ "origReady" \in timers <=> origNodeStaticSourceState = "waitingReady"
    /\ "origClose" \in timers <=> origNodeStaticSourceState = "closing"

DemandInv == phase \in {"run", "teardown"} => DemandBody

(* Whoever publishes is the source, and then the stream is up.              *)
PublisherInv ==
    phase \in {"run", "teardown"} =>
        /\ \A p \in Publishers : pubs[p] = "publishing" <=> source = p
        /\ source \in Publishers => stream = "live"

(* The configuration in force is one that validate accepts.                 *)
LEMMA ConfIsOK == ASSUME TypeOK PROVE conf \in Confs /\ ConfOK(conf)
  BY ConfsAssumption DEF TypeOK

(* Starting a source keeps the demand consistent.                           *)
LEMMA DemandSourceKeeps ==
    ASSUME TypeOK, DemandBody, DemandSource, conf' = conf
    PROVE  DemandBody'
<1>1. ConfOK(conf)
  BY ConfIsOK
<1>2. CASE StaticSourceWaits /\ OnDemandStaticSourceStart
  BY <1>1, <1>2 DEF TypeOK, DemandBody, OnDemandStaticSourceStart, StaticSourceWaits,
     HasStaticSource, HasOnDemandStaticSource, HasOnDemandPublisher, HasOrigNode, ConfOK
<1>3. CASE PublisherWaits /\ OnDemandPublisherStart
  BY <1>1, <1>3 DEF TypeOK, DemandBody, OnDemandPublisherStart, PublisherWaits,
     HasStaticSource, HasOnDemandStaticSource, HasOnDemandPublisher, HasOrigNode, ConfOK
<1>4. CASE OrigNodeWaits /\ OrigNodeStaticSourceStart
  BY <1>1, <1>4 DEF TypeOK, DemandBody, OrigNodeStaticSourceStart, OrigNodeWaits,
     HasStaticSource, HasOnDemandStaticSource, HasOnDemandPublisher, HasOrigNode, ConfOK
<1>5. CASE UNCHANGED <<source, demandVars>>
  BY <1>5 DEF DemandBody, demandVars,
     HasStaticSource, HasOnDemandStaticSource, HasOnDemandPublisher, HasOrigNode
<1> QED
  BY <1>2, <1>3, <1>4, <1>5 DEF DemandSource

(* Stopping a source keeps the demand consistent.                           *)
LEMMA SourceStopKeeps ==
    ASSUME TypeOK, DemandBody, conf' = conf,
           \/ HasOnDemandStaticSource(conf) /\ OnDemandStaticSourceStop
           \/ HasOnDemandPublisher(conf) /\ OnDemandPublisherStop
           \/ HasOrigNode(conf) /\ OrigNodeStaticSourceStop
    PROVE  DemandBody'
<1>1. ConfOK(conf)
  BY ConfIsOK
<1>2. CASE HasOnDemandStaticSource(conf) /\ OnDemandStaticSourceStop
  BY <1>1, <1>2 DEF TypeOK, DemandBody, OnDemandStaticSourceStop,
     HasStaticSource, HasOnDemandStaticSource, HasOnDemandPublisher, HasOrigNode, ConfOK
<1>3. CASE HasOnDemandPublisher(conf) /\ OnDemandPublisherStop
  BY <1>1, <1>3 DEF TypeOK, DemandBody, OnDemandPublisherStop,
     HasStaticSource, HasOnDemandStaticSource, HasOnDemandPublisher, HasOrigNode, ConfOK
<1>4. CASE HasOrigNode(conf) /\ OrigNodeStaticSourceStop
  BY <1>1, <1>4 DEF TypeOK, DemandBody, OrigNodeStaticSourceStop,
     HasStaticSource, HasOnDemandStaticSource, HasOnDemandPublisher, HasOrigNode, ConfOK
<1> QED
  BY <1>2, <1>3, <1>4

(* Every step keeps the demand consistent.                                  *)
LEMMA DemandStep ==
    ASSUME TypeOK, DemandInv, [Next]_vars
    PROVE  DemandInv'
<1> SUFFICES ASSUME phase' \in {"run", "teardown"} PROVE DemandBody'
  BY DEF DemandInv
<1> USE DEF HasStaticSource, HasOnDemandStaticSource, HasOnDemandPublisher, HasOrigNode
<1>1. CASE UNCHANGED <<phase, conf, source, demandVars>>
  BY <1>1 DEF DemandInv, DemandBody, demandVars
<1>2. ASSUME NEW d \in Describers, Describe(d) PROVE DemandBody'
  <2>1. DemandBody /\ conf' = conf /\ (DemandSource \/ UNCHANGED <<source, demandVars>>)
    BY <1>2 DEF Describe, DemandInv
  <2> QED
    BY <2>1, DemandSourceKeeps DEF DemandBody, demandVars
<1>3. ASSUME NEW r \in Readers, AdmitReader(r) PROVE DemandBody'
  BY <1>3 DEF TypeOK, AdmitReader, DemandInv, DemandBody, sourceVars
<1>4. ASSUME NEW r \in Readers, HoldReader(r) PROVE DemandBody'
  BY <1>4, DemandSourceKeeps DEF HoldReader, DemandInv
<1>5. ASSUME NEW r \in Readers, RefuseReader(r) PROVE DemandBody'
  BY <1>5 DEF RefuseReader, DemandInv, DemandBody, sourceVars, demandVars
<1>6. ASSUME NEW r \in Readers, RemoveReader(r) PROVE DemandBody'
  BY <1>6 DEF TypeOK, RemoveReader, DemandInv, DemandBody, sourceVars
<1>7. ASSUME NEW r \in Readers, ReaderGone(r) PROVE DemandBody'
  BY <1>7 DEF ReaderGone
<1>8. ASSUME NEW p \in Publishers, AddPublisher(p) PROVE DemandBody'
  <2>1. /\ DemandBody
        /\ source' = p /\ source \notin Handlers /\ conf.source = "publisher"
        /\ UNCHANGED <<conf, onDemandStaticSourceState, origNodeStaticSourceState,
                       handler, onUnDemandHook>>
    BY <1>8 DEF AddPublisher, MayPublish, DemandInv
  <2>2. CASE ~(HasOnDemandPublisher(conf) /\ onDemandPublisherState # "initial")
    <3>1. UNCHANGED <<onDemandPublisherState, timers>>
      BY <1>8, <2>2 DEF AddPublisher
    <3> QED
      BY <2>1, <3>1, ClientsAssumption DEF DemandBody
  <2>3. CASE HasOnDemandPublisher(conf) /\ onDemandPublisherState # "initial"
    <3>1. PICK wanted \in BOOLEAN :
             /\ onDemandPublisherState' = WantedState(wanted)
             /\ timers' = WantedTimers(timers, "publisherReady", "publisherClose", wanted)
      BY <1>8, <2>3 DEF AddPublisher
    <3> QED
      BY <2>1, <2>3, <3>1, ClientsAssumption DEF DemandBody, WantedState, WantedTimers
  <2> QED
    BY <2>2, <2>3
<1>9. ASSUME NEW p \in Publishers, AddPublisherFails(p) PROVE DemandBody'
  BY <1>9, ClientsAssumption DEF AddPublisherFails, MayPublish, DemandInv, DemandBody, demandVars
<1>10. ASSUME NEW p \in Publishers, AddPublisherCrashes(p) PROVE DemandBody'
  BY <1>10 DEF AddPublisherCrashes, Crash
<1>11. ASSUME NEW p \in Publishers, RemovePublisher(p) PROVE DemandBody'
  BY <1>11, ClientsAssumption DEF RemovePublisher, DemandInv, DemandBody, demandVars
<1>12. ASSUME NEW p \in Publishers, PublisherGone(p) PROVE DemandBody'
  BY <1>12 DEF PublisherGone
<1>13. ASSUME NEW h \in Handlers, SourceStaticSetReady(h) PROVE DemandBody'
  <2>1. /\ DemandBody
        /\ handler[h] = "connecting"
        /\ handler' = [handler EXCEPT ![h] = "ready"]
        /\ UNCHANGED <<conf, source, onDemandPublisherState, onUnDemandHook>>
    BY <1>13 DEF SourceStaticSetReady, DemandInv
  <2>2. CASE HasOnDemandStaticSource(conf)
    <3>1. PICK wanted \in BOOLEAN :
             /\ onDemandStaticSourceState' = WantedState(wanted)
             /\ timers' = WantedTimers(timers, "staticReady", "staticClose", wanted)
             /\ UNCHANGED origNodeStaticSourceState
      BY <1>13, <2>2 DEF SourceStaticSetReady
    <3>2. h = "static"
      BY <2>1, <2>2, ConfIsOK DEF DemandBody, ConfOK
    <3> QED
      BY <2>1, <2>2, <3>1, <3>2, ConfIsOK
         DEF TypeOK, DemandBody, ConfOK, WantedState, WantedTimers
  <2>3. CASE ~HasOnDemandStaticSource(conf) /\ HasOrigNode(conf)
    <3>1. /\ origNodeStaticSourceState' = "ready"
          /\ timers' = timers \ {"origReady"}
          /\ UNCHANGED onDemandStaticSourceState
      BY <1>13, <2>3 DEF SourceStaticSetReady
    <3>2. h = "orig"
      BY <2>1, <2>3, ConfIsOK DEF DemandBody, ConfOK
    <3> QED
      BY <2>1, <2>3, <3>1, <3>2, ConfIsOK DEF TypeOK, DemandBody, ConfOK
  <2>4. CASE ~HasOnDemandStaticSource(conf) /\ ~HasOrigNode(conf)
    <3>1. UNCHANGED <<onDemandStaticSourceState, origNodeStaticSourceState, timers>>
      BY <1>13, <2>4 DEF SourceStaticSetReady
    <3>2. h = "static"
      BY <2>1, <2>4 DEF DemandBody
    <3> QED
      BY <2>1, <2>4, <3>1, <3>2 DEF TypeOK, DemandBody
  <2> QED
    BY <2>2, <2>3, <2>4
<1>14. ASSUME NEW h \in Handlers, SourceStaticSetReadyFails(h) PROVE DemandBody'
  BY <1>14 DEF SourceStaticSetReadyFails, DemandInv, DemandBody, demandVars
<1>15. ASSUME NEW h \in Handlers, SourceStaticSetNotReady(h) PROVE DemandBody'
  <2>1. DemandBody /\ conf' = conf /\ handler[h] = "ready"
    BY <1>15 DEF SourceStaticSetNotReady, DemandInv
  <2>2. CASE HasOnDemandStaticSource(conf) /\ OnDemandStaticSourceStop
    BY <2>1, <2>2, SourceStopKeeps
  <2>3. CASE HasOrigNode(conf) /\ OrigNodeStaticSourceStop
    BY <2>1, <2>3, SourceStopKeeps
  <2>4. CASE /\ ~HasOnDemandStaticSource(conf) /\ ~HasOrigNode(conf)
             /\ handler' = [handler EXCEPT ![h] = "connecting"]
             /\ UNCHANGED <<source, onDemandStaticSourceState, onDemandPublisherState,
                            origNodeStaticSourceState, timers, onUnDemandHook>>
    BY <2>1, <2>4 DEF TypeOK, DemandBody
  <2> QED
    BY <1>15, <2>2, <2>3, <2>4 DEF SourceStaticSetNotReady
<1>16. CASE OnDemandStaticSourceReadyTimer
  BY <1>16, SourceStopKeeps DEF OnDemandStaticSourceReadyTimer, DemandInv, DemandBody
<1>17. CASE OnDemandStaticSourceCloseTimer
  BY <1>17, SourceStopKeeps DEF OnDemandStaticSourceCloseTimer, DemandInv, DemandBody
<1>18. CASE OnDemandPublisherReadyTimer
  BY <1>18, SourceStopKeeps DEF OnDemandPublisherReadyTimer, DemandInv, DemandBody
<1>19. CASE OnDemandPublisherCloseTimer
  BY <1>19, SourceStopKeeps DEF OnDemandPublisherCloseTimer, DemandInv, DemandBody
<1>20. CASE OrigNodeStaticSourceReadyTimer
  BY <1>20, SourceStopKeeps DEF OrigNodeStaticSourceReadyTimer, DemandInv, DemandBody
<1>21. CASE OrigNodeStaticSourceCloseTimer
  BY <1>21, SourceStopKeeps DEF OrigNodeStaticSourceCloseTimer, DemandInv, DemandBody
<1>22. ASSUME NEW c \in Confs, ReloadConf(c) PROVE DemandBody'
  BY <1>22 DEF ReloadConf, CanBeUpdated, ConfFields, DemandInv, DemandBody, demandVars
<1>23. CASE Terminate
  BY <1>23 DEF Terminate, DemandInv, DemandBody, sourceVars, demandVars
<1>24. CASE Teardown
  BY <1>24 DEF Teardown, Crash
<1>25. CASE UNCHANGED vars
  BY <1>1, <1>25 DEF vars, sourceVars
<1> QED
  BY <1>2, <1>3, <1>4, <1>5, <1>6, <1>7, <1>8, <1>9, <1>10, <1>11, <1>12, <1>13, <1>14,
     <1>15, <1>16, <1>17, <1>18, <1>19, <1>20, <1>21, <1>22, <1>23, <1>24, <1>25
     DEF Next, RegularNext, SpecialNext

(* A new path asks for nothing.                                             *)
LEMMA DemandInit == Init => DemandInv
  BY ConfsAssumption
     DEF Init, DemandInv, DemandBody, ConfOK, HasStaticSource, HasOnDemandStaticSource,
         HasOnDemandPublisher, HasOrigNode

(* The demand for sources, their timers, their handlers and the source of   *)
(* the path stay together as DemandBody says (path.go:693-752, 1033-1101).  *)
THEOREM DemandAlways == Spec => []DemandInv
<1>1. TypeOK /\ DemandInv /\ [Next]_vars => DemandInv'
  BY DemandStep
<1> QED
  BY <1>1, DemandInit, TypeCorrect, PTL DEF Spec

(* No timer of an earlier cycle is left to fire into a later one: the armed *)
(* timers are those of the states (path.go:693-752, 1079-1101).             *)
THEOREM TimersAlwaysFollow == Spec => []TimersFollowStates
<1>1. DemandInv => TimersFollowStates
  BY DEF DemandInv, DemandBody, TimersFollowStates
<1> QED
  BY <1>1, DemandAlways, PTL

(* Sources run exactly when they are wanted, so that Handler.Start, Stop    *)
(* and the hook of runOnDemand never panic (staticsources/handler.go:195).  *)
THEOREM SourcesAlwaysFollow == Spec => []SourcesFollowDemand
<1>1. DemandInv => SourcesFollowDemand
  BY DEF DemandInv, DemandBody, SourcesFollowDemand, HasStaticSource, HasOnDemandStaticSource
<1> QED
  BY <1>1, DemandAlways, PTL

-----------------------------------------------------------------------------
(* Publishers.                                                             *)

(* Every step keeps the path and its publishers in agreement.               *)
LEMMA PublisherStep ==
    ASSUME TypeOK, DemandInv, PublisherInv, [Next]_vars
    PROVE  PublisherInv'
<1> SUFFICES ASSUME phase' \in {"run", "teardown"} PROVE PublisherInv'
  BY DEF PublisherInv
<1>1. CASE phase \in {"run", "teardown"} /\ UNCHANGED <<source, stream, pubs>>
  BY <1>1 DEF PublisherInv
<1>2. ASSUME phase \in {"run", "teardown"}, UNCHANGED pubs,
             source' \notin Publishers, source \notin Publishers
      PROVE  PublisherInv'
  BY <1>2 DEF PublisherInv
<1>3. ASSUME NEW d \in Describers, Describe(d) PROVE PublisherInv'
  <2>1. CASE UNCHANGED source
    BY <1>1, <1>3, <2>1 DEF Describe
  <2>2. CASE ~UNCHANGED source
    <3>1. DemandSource /\ stream = None /\ phase = "run" /\ UNCHANGED pubs
      BY <1>3, <2>2 DEF Describe, demandVars
    <3>2. source' = "orig"
      BY <2>2, <3>1 DEF DemandSource, OnDemandStaticSourceStart, OnDemandPublisherStart,
                        OrigNodeStaticSourceStart
    <3> QED
      BY <1>2, <3>1, <3>2, ClientsAssumption DEF PublisherInv
  <2> QED
    BY <2>1, <2>2
<1>4. ASSUME NEW r \in Readers, AdmitReader(r) PROVE PublisherInv'
  BY <1>1, <1>4 DEF AdmitReader, sourceVars
<1>5. ASSUME NEW r \in Readers, HoldReader(r) PROVE PublisherInv'
  <2>1. DemandSource /\ stream = None /\ phase = "run" /\ UNCHANGED <<stream, pubs>>
    BY <1>5 DEF HoldReader
  <2>2. CASE UNCHANGED source
    BY <1>1, <2>1, <2>2
  <2>3. CASE ~UNCHANGED source
    <3>1. source' = "orig"
      BY <2>1, <2>3 DEF DemandSource, OnDemandStaticSourceStart, OnDemandPublisherStart,
                        OrigNodeStaticSourceStart
    <3> QED
      BY <1>2, <2>1, <3>1, ClientsAssumption DEF PublisherInv
  <2> QED
    BY <2>2, <2>3
<1>6. ASSUME NEW r \in Readers, RefuseReader(r) PROVE PublisherInv'
  BY <1>1, <1>6 DEF RefuseReader, sourceVars
<1>7. ASSUME NEW r \in Readers, RemoveReader(r) PROVE PublisherInv'
  BY <1>1, <1>7 DEF RemoveReader, sourceVars
<1>8. ASSUME NEW r \in Readers, ReaderGone(r) PROVE PublisherInv'
  BY <1>8 DEF ReaderGone
<1>9. ASSUME NEW p \in Publishers, AddPublisher(p) PROVE PublisherInv'
  <2>1. /\ phase = "run" /\ pubs[p] = "idle"
        /\ source' = p /\ stream' = "live"
        /\ pubs' = [q \in Publishers |-> IF q = p THEN "publishing"
                                         ELSE IF q = source THEN "closing" ELSE pubs[q]]
    BY <1>9 DEF AddPublisher, MayPublish, StreamIsUp, StreamUp
  <2> QED
    BY <2>1 DEF PublisherInv
<1>10. ASSUME NEW p \in Publishers, AddPublisherFails(p) PROVE PublisherInv'
  <2>1. /\ phase = "run" /\ source' = None
        /\ pubs' = [q \in Publishers |-> IF q = source THEN "closing" ELSE pubs[q]]
    BY <1>10 DEF AddPublisherFails, MayPublish
  <2> QED
    BY <2>1, ClientsAssumption DEF PublisherInv
<1>11. ASSUME NEW p \in Publishers, AddPublisherCrashes(p) PROVE PublisherInv'
  BY <1>11 DEF AddPublisherCrashes, Crash
<1>12. ASSUME NEW p \in Publishers, RemovePublisher(p) PROVE PublisherInv'
  <2>1. /\ phase = "run" /\ pubs' = [pubs EXCEPT ![p] = "idle"]
        /\ IF source = p THEN source' = None ELSE UNCHANGED <<source, stream>>
    BY <1>12 DEF RemovePublisher
  <2> QED
    BY <2>1, ClientsAssumption DEF TypeOK, PublisherInv
<1>13. ASSUME NEW p \in Publishers, PublisherGone(p) PROVE PublisherInv'
  BY <1>13 DEF PublisherGone
<1>14. ASSUME NEW h \in Handlers, SourceStaticSetReady(h) PROVE PublisherInv'
  BY <1>14 DEF SourceStaticSetReady, StreamIsUp, StreamUp, PublisherInv
<1>15. ASSUME NEW h \in Handlers, handler[h] # "off", phase = "run"
       PROVE  source \in Handlers /\ source \notin Publishers
  BY <1>15, ClientsAssumption DEF DemandInv, DemandBody, HasStaticSource
<1>16. ASSUME NEW h \in Handlers, SourceStaticSetReadyFails(h) PROVE PublisherInv'
  BY <1>2, <1>15, <1>16 DEF SourceStaticSetReadyFails
<1>17. ASSUME NEW h \in Handlers, SourceStaticSetNotReady(h) PROVE PublisherInv'
  <2>1. /\ phase = "run" /\ handler[h] = "ready" /\ UNCHANGED pubs
        /\ source' = source \/ source' = None
    BY <1>17 DEF SourceStaticSetNotReady, OnDemandStaticSourceStop, OrigNodeStaticSourceStop
  <2> QED
    BY <1>2, <1>15, <2>1, ClientsAssumption
<1>18. CASE OnDemandStaticSourceReadyTimer
  BY <1>1, <1>18 DEF OnDemandStaticSourceReadyTimer, OnDemandStaticSourceStop
<1>19. CASE OnDemandStaticSourceCloseTimer
  <2>1. source = "static"
    BY <1>19 DEF OnDemandStaticSourceCloseTimer, DemandInv, DemandBody, HasStaticSource,
                 HasOnDemandStaticSource
  <2> QED
    BY <1>2, <1>19, <2>1, ClientsAssumption
       DEF OnDemandStaticSourceCloseTimer, OnDemandStaticSourceStop
<1>20. CASE OnDemandPublisherReadyTimer
  BY <1>1, <1>20 DEF OnDemandPublisherReadyTimer, OnDemandPublisherStop
<1>21. CASE OnDemandPublisherCloseTimer
  BY <1>1, <1>21 DEF OnDemandPublisherCloseTimer, OnDemandPublisherStop
<1>22. CASE OrigNodeStaticSourceReadyTimer \/ OrigNodeStaticSourceCloseTimer
  <2>1. phase = "run" /\ source = "orig" /\ source' = None /\ UNCHANGED pubs
    BY <1>22 DEF OrigNodeStaticSourceReadyTimer, OrigNodeStaticSourceCloseTimer,
                 OrigNodeStaticSourceStop, DemandInv, DemandBody
  <2> QED
    BY <1>2, <2>1, ClientsAssumption
<1>23. ASSUME NEW c \in Confs, ReloadConf(c) PROVE PublisherInv'
  BY <1>1, <1>23 DEF ReloadConf
<1>24. CASE Terminate
  BY <1>1, <1>24 DEF Terminate, sourceVars
<1>25. CASE Teardown
  BY <1>25 DEF Teardown, Crash
<1>26. CASE UNCHANGED vars
  BY <1>1, <1>26 DEF vars, sourceVars
<1> QED
  BY <1>3, <1>4, <1>5, <1>6, <1>7, <1>8, <1>9, <1>10, <1>11, <1>12, <1>13, <1>14,
     <1>16, <1>17, <1>18, <1>19, <1>20, <1>21, <1>22, <1>23, <1>24, <1>25, <1>26
     DEF Next, RegularNext, SpecialNext

(* Who publishes by its own account is who the path takes for its source    *)
(* (path.go:502-554).                                                       *)
THEOREM PublisherAlways == Spec => []PublisherInv
<1>1. Init => PublisherInv
  BY ConfsAssumption, ClientsAssumption DEF Init, PublisherInv, ConfOK
<1>2. TypeOK /\ DemandInv /\ PublisherInv /\ [Next]_vars => PublisherInv'
  BY PublisherStep
<1> QED
  BY <1>1, <1>2, TypeCorrect, DemandAlways, PTL DEF Spec

(* A publisher that was not told to close is the one source and has a live  *)
(* stream, whoever else comes, goes or is late (path.go:502-554).           *)
THEOREM PublishersAlwaysAgree == Spec => []PublishersAgree
<1>1. PublisherInv => PublishersAgree
  BY DEF PublisherInv, PublishersAgree
<1> QED
  BY <1>1, PublisherAlways, PTL

-----------------------------------------------------------------------------
(* Whoever waits.                                                          *)

(* Every step leaves nobody on hold while the stream is there.              *)
LEMMA HeldStep ==
    ASSUME HeldMeansNotReady, [Next]_vars PROVE HeldMeansNotReady'
<1>1. CASE UNCHANGED <<stream, describeRequestsOnHold, readerAddRequestsOnHold>>
  BY <1>1 DEF HeldMeansNotReady
<1>2. CASE describeRequestsOnHold' = {} /\ readerAddRequestsOnHold' = <<>>
  BY <1>2 DEF HeldMeansNotReady
<1>3. CASE stream' # "live"
  BY <1>3 DEF HeldMeansNotReady
<1>4. ASSUME NEW d \in Describers, Describe(d) PROVE HeldMeansNotReady'
  BY <1>1, <1>3, <1>4 DEF Describe
<1>5. ASSUME NEW r \in Readers,
             \/ AdmitReader(r) \/ HoldReader(r) \/ RefuseReader(r)
             \/ RemoveReader(r) \/ ReaderGone(r)
      PROVE HeldMeansNotReady'
  BY <1>1, <1>3, <1>5 DEF AdmitReader, HoldReader, RefuseReader, RemoveReader, ReaderGone,
                          sourceVars, clientVars
<1>6. ASSUME NEW p \in Publishers,
             \/ AddPublisher(p) \/ AddPublisherFails(p) \/ AddPublisherCrashes(p)
             \/ RemovePublisher(p) \/ PublisherGone(p)
      PROVE HeldMeansNotReady'
  BY <1>1, <1>2, <1>3, <1>6
     DEF AddPublisher, StreamIsUp, StreamUp, AddPublisherFails, AddPublisherCrashes, Crash,
         RemovePublisher, SetNotReady, PublisherGone, sourceVars, clientVars
<1>7. ASSUME NEW h \in Handlers,
             \/ SourceStaticSetReady(h) \/ SourceStaticSetReadyFails(h)
             \/ SourceStaticSetNotReady(h)
      PROVE HeldMeansNotReady'
  BY <1>2, <1>3, <1>7 DEF SourceStaticSetReady, StreamIsUp, StreamUp, SourceStaticSetReadyFails,
                          SourceStaticSetNotReady, SetNotReady
<1>8. CASE TimerFires
  BY <1>1, <1>2, <1>3, <1>8
     DEF TimerFires, OnDemandStaticSourceReadyTimer, OnDemandStaticSourceCloseTimer,
         OnDemandPublisherReadyTimer, OnDemandPublisherCloseTimer,
         OrigNodeStaticSourceReadyTimer, OrigNodeStaticSourceCloseTimer,
         RejectOnHold, SetNotReady, clientVars, HeldMeansNotReady
<1>9. ASSUME NEW c \in Confs, ReloadConf(c) PROVE HeldMeansNotReady'
  BY <1>1, <1>9 DEF ReloadConf, clientVars
<1>10. CASE Terminate
  BY <1>1, <1>10 DEF Terminate, sourceVars, clientVars
<1>11. CASE Teardown
  BY <1>1, <1>2, <1>11 DEF Teardown, Crash, sourceVars, clientVars
<1>12. CASE UNCHANGED vars
  BY <1>1, <1>12 DEF vars, sourceVars, clientVars
<1> QED
  BY <1>4, <1>5, <1>6, <1>7, <1>8, <1>9, <1>10, <1>11, <1>12
     DEF Next, RegularNext, SpecialNext, TimerFires

(* While the stream is there nobody is on hold (path.go:793-805).           *)
THEOREM NobodyHeldWhileReady == Spec => []HeldMeansNotReady
<1>1. Init => HeldMeansNotReady
  BY DEF Init, HeldMeansNotReady
<1>2. HeldMeansNotReady /\ [Next]_vars => HeldMeansNotReady'
  BY HeldStep
<1> QED
  BY <1>1, <1>2, PTL DEF Spec

(* Nothing is recorded without a stream.                                    *)
RecorderNeedsStream == stream = None => recorder = None

(* Nothing is recorded without a stream.                                    *)
LEMMA RecorderNeedsStreamAlways == Spec => []RecorderNeedsStream
<1>1. Init => RecorderNeedsStream
  BY DEF Init, RecorderNeedsStream
<1>2. ASSUME RecorderNeedsStream, [Next]_vars PROVE RecorderNeedsStream'
  <2>1. CASE UNCHANGED <<stream, recorder>>
    BY <1>2, <2>1 DEF RecorderNeedsStream
  <2>2. CASE recorder' = None \/ stream' # None
    BY <2>2 DEF RecorderNeedsStream
  <2>3. ASSUME NEW d \in Describers, Describe(d) PROVE RecorderNeedsStream'
    BY <2>1, <2>3 DEF Describe
  <2>4. ASSUME NEW r \in Readers,
               \/ AdmitReader(r) \/ HoldReader(r) \/ RefuseReader(r)
               \/ RemoveReader(r) \/ ReaderGone(r)
        PROVE RecorderNeedsStream'
    BY <2>1, <2>4 DEF AdmitReader, HoldReader, RefuseReader, RemoveReader, ReaderGone,
                      sourceVars
  <2>5. ASSUME NEW p \in Publishers,
               \/ AddPublisher(p) \/ AddPublisherFails(p) \/ AddPublisherCrashes(p)
               \/ RemovePublisher(p) \/ PublisherGone(p)
        PROVE RecorderNeedsStream'
    BY <2>1, <2>2, <2>5
       DEF AddPublisher, StreamIsUp, StreamUp, AddPublisherFails, AddPublisherCrashes, Crash,
           RemovePublisher, SetNotReady, PublisherGone, sourceVars
  <2>6. ASSUME NEW h \in Handlers,
               \/ SourceStaticSetReady(h) \/ SourceStaticSetReadyFails(h)
               \/ SourceStaticSetNotReady(h)
        PROVE RecorderNeedsStream'
    BY <2>2, <2>6 DEF SourceStaticSetReady, StreamIsUp, StreamUp, SourceStaticSetReadyFails,
                      SourceStaticSetNotReady, SetNotReady
  <2>7. CASE TimerFires
    BY <2>1, <2>2, <2>7
       DEF TimerFires, OnDemandStaticSourceReadyTimer, OnDemandStaticSourceCloseTimer,
           OnDemandPublisherReadyTimer, OnDemandPublisherCloseTimer,
           OrigNodeStaticSourceReadyTimer, OrigNodeStaticSourceCloseTimer, SetNotReady
  <2>8. ASSUME NEW c \in Confs, ReloadConf(c) PROVE RecorderNeedsStream'
    BY <1>2, <2>8 DEF ReloadConf, RecorderNeedsStream
  <2>9. CASE Terminate
    BY <2>1, <2>9 DEF Terminate, sourceVars
  <2>10. CASE Teardown
    BY <2>1, <2>2, <2>10 DEF Teardown, Crash, sourceVars
  <2>11. CASE UNCHANGED vars
    BY <2>1, <2>11 DEF vars, sourceVars
  <2> QED
    BY <1>2, <2>3, <2>4, <2>5, <2>6, <2>7, <2>8, <2>9, <2>10, <2>11
       DEF Next, RegularNext, SpecialNext, TimerFires
<1> QED
  BY <1>1, <1>2, PTL DEF Spec

(* A destroyed path leaves nobody waiting or reading, and nothing running   *)
(* (path.go:222-267).                                                       *)
THEOREM DoneAlwaysClean == Spec => []DoneIsClean
<1>1. Init => DoneIsClean
  BY DEF Init, DoneIsClean
<1>2. ASSUME TypeOK, ReadersAgree, DemandInv, PublisherInv, RecorderNeedsStream, DoneIsClean,
             [Next]_vars
      PROVE  DoneIsClean'
  <2> USE <1>2
  <2>1. CASE UNCHANGED vars
    <3>1. UNCHANGED <<phase, rdrs, pubs, describeRequestsOnHold, handler, stream, recorder,
                      onUnDemandHook, forwarders>>
      BY <2>1 DEF vars, sourceVars, clientVars, demandVars
    <3> QED
      BY <3>1 DEF DoneIsClean
  <2>2. ASSUME NEW r \in Readers, ReaderGone(r) PROVE DoneIsClean'
    <3>1. /\ UNCHANGED <<phase, pubs, describeRequestsOnHold, handler, stream, recorder,
                         onUnDemandHook, forwarders>>
          /\ rdrs' = [rdrs EXCEPT ![r] = "idle"]
      BY <2>2 DEF ReaderGone, sourceVars, demandVars
    <3> QED
      BY <3>1 DEF TypeOK, DoneIsClean
  <2>3. ASSUME NEW p \in Publishers, PublisherGone(p) PROVE DoneIsClean'
    <3>1. /\ UNCHANGED <<phase, rdrs, describeRequestsOnHold, handler, stream, recorder,
                         onUnDemandHook, forwarders>>
          /\ pubs' = [pubs EXCEPT ![p] = "idle"]
      BY <2>3 DEF PublisherGone, clientVars, demandVars
    <3> QED
      BY <3>1 DEF TypeOK, DoneIsClean
  <2>4. CASE Teardown
    <3>1. CASE phase' # "done"
      BY <3>1 DEF DoneIsClean
    <3>2. CASE phase' = "done"
      <4>1. ~Crash /\ phase = "teardown" /\ DemandBody
        BY <2>4, <3>2 DEF Crash, Teardown, DemandInv
      <4>2. /\ rdrs' = [r \in Readers |->
                          IF r \in Held THEN "idle"
                          ELSE IF stream # None /\ r \in readers THEN "closing" ELSE rdrs[r]]
            /\ pubs' = [p \in Publishers |-> IF p = source THEN "closing" ELSE pubs[p]]
            /\ handler' = [h \in Handlers |->
                 IF /\ source = h
                    /\ ~conf.sourceOnDemand \/ onDemandStaticSourceState # "initial"
                 THEN "off" ELSE handler[h]]
            /\ describeRequestsOnHold' = {}
            /\ onUnDemandHook' = FALSE
            /\ forwarders' # "running"
        BY <2>4, <4>1 DEF Teardown, CloseSource
      <4>3. stream' = None /\ (stream # None => recorder' = None)
                          /\ (stream = None => recorder' = recorder)
        BY <2>4, <4>1 DEF Teardown
      <4>4. ASSUME NEW r \in Readers PROVE rdrs'[r] \in {"idle", "closing"}
        BY <4>2, ConfIsOK DEF TypeOK, ReadersAgree
      <4>5. ASSUME NEW p \in Publishers PROVE pubs'[p] # "publishing"
        BY <4>1, <4>2 DEF PublisherInv
      <4>6. ASSUME NEW h \in Handlers PROVE handler'[h] = "off"
        BY <4>1, <4>2, ConfIsOK
           DEF DemandBody, ConfOK, HasStaticSource, HasOnDemandStaticSource, HasOrigNode
      <4> QED
        BY <3>2, <4>2, <4>3, <4>4, <4>5, <4>6 DEF DoneIsClean, RecorderNeedsStream
    <3> QED
      BY <3>1, <3>2
  <2>5. CASE phase' # "done"
    BY <2>5 DEF DoneIsClean
  <2>6. phase' = "done" =>
           \/ UNCHANGED vars \/ Teardown
           \/ \E r \in Readers : ReaderGone(r)
           \/ \E p \in Publishers : PublisherGone(p)
    BY DEF Next, RegularNext, SpecialNext, Describe, AdmitReader, HoldReader, RefuseReader,
           RemoveReader,
           AddPublisher, AddPublisherFails, AddPublisherCrashes, MayPublish, RemovePublisher,
           SourceStaticSetReady, SourceStaticSetReadyFails, SourceStaticSetNotReady,
           OnDemandStaticSourceReadyTimer, OnDemandStaticSourceCloseTimer,
           OnDemandPublisherReadyTimer, OnDemandPublisherCloseTimer,
           OrigNodeStaticSourceReadyTimer, OrigNodeStaticSourceCloseTimer,
           ReloadConf, Terminate, CheckShouldClose, Crash
  <2> QED
    BY <2>1, <2>2, <2>3, <2>4, <2>5, <2>6
<1> QED
  BY <1>1, <1>2, TypeCorrect, ReadersAlwaysAgree, DemandAlways, PublisherAlways,
     RecorderNeedsStreamAlways, PTL DEF Spec
-----------------------------------------------------------------------------
(* The path and its clients are always of one mind, whatever is configured,  *)
(* however many clients there are and whether or not Initialize fails        *)
(* (path.go:502-610, 793-831).                                              *)
THEOREM ClientsAlwaysAgree == Spec => []ClientsAgree
<1>1. ReadersAgree /\ PublishersAgree /\ HeldMeansNotReady => ClientsAgree
  BY DEF ClientsAgree
<1> QED
  BY <1>1, ReadersAlwaysAgree, PublishersAlwaysAgree, NobodyHeldWhileReady, PTL

(* Timers, handlers and commands always follow the state of demand: both     *)
(* parts are read off the inductive invariant DemandInv (path.go:693-752).   *)
THEOREM DemandAlwaysAgrees == Spec => []DemandAgrees
<1>1. TimersFollowStates /\ SourcesFollowDemand => DemandAgrees
  BY DEF DemandAgrees
<1> QED
  BY <1>1, TimersAlwaysFollow, SourcesAlwaysFollow, PTL
-----------------------------------------------------------------------------
(* What Path guarantees when stream.Initialize does not fail: no reader is  *)
(* ever cut off by a close timer, recording follows the configuration, and  *)
(* the path implements PathPromise.                                         *)

(* How the stream, its source, its handler and its recorder go together.    *)
StreamBody ==
    /\ stream # "broken"
    /\ stream = "live" => onNotReadyHook = "armed"
    /\ \A h \in Handlers : handler[h] = "connecting" => stream = None
    /\ HasStaticSource(conf) /\ handler["static"] = "off" => stream = None
    /\ stream = "live" /\ source = None => HasOrigNode(conf) /\ ~HasOnDemandPublisher(conf)
    /\ stream = "live" /\ conf.record => recorder = conf.recordPath
    /\ stream = "live" /\ ~conf.record => recorder = None
    /\ stream = None => recorder = None

UnusedBody ==
    onDemandStaticSourceState = "closing" \/ onDemandPublisherState = "closing" => readers = {}

StreamInv == phase \in {"run", "teardown"} => StreamBody
UnusedInv == phase \in {"run", "teardown"} => UnusedBody

-----------------------------------------------------------------------------
(* Starting a source does not touch the stream.                             *)
LEMMA DemandSourceStream ==
    ASSUME TypeOK, DemandBody, StreamBody, DemandSource, stream = None,
           UNCHANGED <<conf, stream, recorder, onNotReadyHook>>
    PROVE  StreamBody'
  BY ConfIsOK DEF StreamBody

(* Losing the stream leaves nothing of it.                                  *)
LEMMA SetNotReadyStream ==
    ASSUME SetNotReady PROVE StreamBody'
  BY DEF SetNotReady, StreamBody

(* Every step keeps the stream and what hangs on it together.               *)
LEMMA StreamStep ==
    ASSUME InitializeMayFail = FALSE,
           TypeOK, DemandInv, PublisherInv, StreamInv, [Next]_vars
    PROVE  StreamInv'
<1> SUFFICES ASSUME phase' \in {"run", "teardown"} PROVE StreamBody'
  BY DEF StreamInv
<1>1. CASE UNCHANGED <<phase, conf, source, stream, onNotReadyHook, recorder, handler>>
  BY <1>1 DEF StreamInv, StreamBody
<1>2. ASSUME NEW d \in Describers, Describe(d) PROVE StreamBody'
  <2>1. CASE DemandSource /\ stream = None
    BY <1>2, <2>1, DemandSourceStream DEF Describe, DemandInv, StreamInv
  <2>2. CASE UNCHANGED <<source, demandVars>>
    BY <1>2, <2>2 DEF Describe, demandVars, StreamInv, StreamBody
  <2> QED
    BY <1>2, <2>1, <2>2 DEF Describe
<1>3. ASSUME NEW r \in Readers, AdmitReader(r) \/ RefuseReader(r) \/ RemoveReader(r)
      PROVE StreamBody'
  BY <1>3 DEF AdmitReader, RefuseReader, RemoveReader, sourceVars, demandVars,
              StreamInv, StreamBody
<1>4. ASSUME NEW r \in Readers, HoldReader(r) PROVE StreamBody'
  BY <1>4, DemandSourceStream DEF HoldReader, DemandInv, StreamInv
<1>5. ASSUME NEW r \in Readers, ReaderGone(r) PROVE StreamBody'
  BY <1>5 DEF ReaderGone
<1>6. ASSUME NEW p \in Publishers, AddPublisher(p) PROVE StreamBody'
  <2>1. /\ phase = "run" /\ conf.source = "publisher" /\ source \notin Handlers
        /\ source' = p /\ UNCHANGED <<conf, handler>>
        /\ stream' = "live" /\ onNotReadyHook' = "armed"
        /\ recorder' = IF conf.record THEN conf.recordPath ELSE None
    BY <1>6 DEF AddPublisher, MayPublish, StreamIsUp, StreamUp
  <2>2. \A h \in Handlers : handler[h] = "off"
    BY <2>1 DEF DemandInv, DemandBody, HasStaticSource
  <2> QED
    BY <2>1, <2>2, ClientsAssumption DEF StreamBody, HasStaticSource
<1>7. ASSUME NEW p \in Publishers,
             AddPublisherFails(p) \/ AddPublisherCrashes(p) \/ PublisherGone(p)
      PROVE StreamBody'
  BY <1>7 DEF AddPublisherFails, AddPublisherCrashes, Crash, PublisherGone
<1>8. ASSUME NEW p \in Publishers, RemovePublisher(p) PROVE StreamBody'
  <2>1. CASE source = p
    BY <1>8, <2>1, SetNotReadyStream DEF RemovePublisher
  <2>2. CASE source # p
    BY <1>8, <2>2 DEF RemovePublisher, demandVars, StreamInv, StreamBody
  <2> QED
    BY <2>1, <2>2
<1>9. ASSUME NEW h \in Handlers, SourceStaticSetReady(h) PROVE StreamBody'
  <2>1. /\ phase = "run" /\ handler[h] = "connecting"
        /\ handler' = [handler EXCEPT ![h] = "ready"]
        /\ UNCHANGED <<conf, source>>
        /\ stream' = "live" /\ onNotReadyHook' = "armed"
        /\ recorder' = IF conf.record THEN conf.recordPath ELSE None
    BY <1>9 DEF SourceStaticSetReady, StreamIsUp, StreamUp
  <2>2. DemandBody /\ ConfOK(conf)
    BY <2>1, ConfIsOK DEF DemandInv
  <2>3. \A g \in Handlers : g # h => handler[g] = "off"
    BY <2>1, <2>2 DEF DemandBody, ConfOK, HasStaticSource, HasOrigNode
  <2>4. source # None
    BY <2>1, <2>2 DEF DemandBody, HasStaticSource
  <2>5. HasStaticSource(conf) => h = "static"
    BY <2>1, <2>2 DEF DemandBody, ConfOK, HasStaticSource, HasOrigNode
  <2> QED
    BY <2>1, <2>3, <2>4, <2>5 DEF TypeOK, StreamBody, HasStaticSource
<1>10. ASSUME NEW h \in Handlers,
              SourceStaticSetReadyFails(h) \/ SourceStaticSetNotReady(h)
       PROVE StreamBody'
  BY <1>10, SetNotReadyStream DEF SourceStaticSetReadyFails, SourceStaticSetNotReady
<1>11. CASE OnDemandStaticSourceReadyTimer
  <2>1. stream = None /\ UNCHANGED <<conf, source, stream, recorder, onNotReadyHook>>
    BY <1>11 DEF OnDemandStaticSourceReadyTimer, OnDemandStaticSourceStop, DemandInv,
                 DemandBody, StreamInv, StreamBody
  <2> QED
    BY <1>11, <2>1 DEF OnDemandStaticSourceReadyTimer, StreamInv, StreamBody
<1>12. CASE OnDemandStaticSourceCloseTimer
  BY <1>12, SetNotReadyStream DEF OnDemandStaticSourceCloseTimer
<1>13. CASE OnDemandPublisherReadyTimer \/ OnDemandPublisherCloseTimer
  BY <1>13 DEF OnDemandPublisherReadyTimer, OnDemandPublisherCloseTimer,
               OnDemandPublisherStop, StreamInv, StreamBody
<1>14. CASE OrigNodeStaticSourceReadyTimer \/ OrigNodeStaticSourceCloseTimer
  <2>1. /\ DemandBody /\ StreamBody
        /\ origNodeStaticSourceState # "initial"
        /\ handler' = [handler EXCEPT !["orig"] = "off"]
        /\ UNCHANGED <<conf, stream, recorder, onNotReadyHook>>
    BY <1>14 DEF OrigNodeStaticSourceReadyTimer, OrigNodeStaticSourceCloseTimer,
                 OrigNodeStaticSourceStop, DemandInv, DemandBody, StreamInv
  <2> QED
    BY <2>1, ConfIsOK
       DEF TypeOK, DemandBody, StreamBody, ConfOK, HasStaticSource, HasOrigNode
<1>15. ASSUME NEW c \in Confs, ReloadConf(c) PROVE StreamBody'
  <2>1. /\ StreamBody /\ conf' = c /\ ConfOK(c) /\ ConfOK(conf)
        /\ c.source = conf.source /\ c.origNode = conf.origNode
        /\ c.runOnDemand = conf.runOnDemand
        /\ UNCHANGED <<source, stream, onNotReadyHook, handler>>
    BY <1>15, ConfIsOK, ConfsAssumption
       DEF ReloadConf, CanBeUpdated, ConfFields, StreamInv, demandVars
  <2>2. recorder' = IF stream = "live" /\ c.record THEN c.recordPath ELSE None
    <3> DEFINE kept == IF <<c.record, c.recordPath>> # <<conf.record, conf.recordPath>>
                       THEN None ELSE recorder
    <3>1. recorder' = IF c.record /\ stream # None /\ kept = None THEN c.recordPath ELSE kept
      BY <1>15 DEF ReloadConf
    <3>2. kept = None \/ (kept = recorder /\ c.record = conf.record
                                         /\ c.recordPath = conf.recordPath)
      OBVIOUS
    <3> HIDE DEF kept
    <3>3. CASE stream = None
      BY <2>1, <3>1, <3>2, <3>3 DEF StreamBody
    <3>4. stream = None \/ stream = "live"
      BY <2>1 DEF TypeOK, StreamBody
    <3>5. c.record \in BOOLEAN /\ conf.record \in BOOLEAN
      BY <2>1 DEF ConfOK, ConfFields
    <3>6. CASE stream = "live" /\ c.record = TRUE
      BY <2>1, <3>1, <3>2, <3>6 DEF StreamBody
    <3>7. CASE stream = "live" /\ c.record = FALSE
      <4>1. kept = None
        BY <2>1, <3>2, <3>7 DEF StreamBody
      <4> QED
        BY <3>1, <3>7, <4>1
    <3> QED
      BY <3>3, <3>4, <3>5, <3>6, <3>7
  <2> QED
    BY <2>1, <2>2 DEF StreamBody, HasStaticSource, HasOrigNode, HasOnDemandPublisher
<1>16. CASE Terminate
  BY <1>16 DEF Terminate, sourceVars, demandVars, StreamInv, StreamBody
<1>17. CASE Teardown
  BY <1>17 DEF Teardown, Crash
<1>18. CASE UNCHANGED vars
  BY <1>1, <1>18 DEF vars, sourceVars, demandVars
<1> QED
  BY <1>2, <1>3, <1>4, <1>5, <1>6, <1>7, <1>8, <1>9, <1>10, <1>11, <1>12, <1>13, <1>14,
     <1>15, <1>16, <1>17, <1>18 DEF Next, RegularNext, SpecialNext

(* The stream, its source, its hook and its recorder stay together as       *)
(* StreamBody says, as long as Initialize succeeds (path.go:754-831).       *)
THEOREM StreamAlways == ASSUME InitializeMayFail = FALSE PROVE Spec => []StreamInv
<1>1. Init => StreamInv
  BY ConfsAssumption DEF Init, StreamInv, StreamBody
<1>2. TypeOK /\ DemandInv /\ PublisherInv /\ StreamInv /\ [Next]_vars => StreamInv'
  BY StreamStep
<1> QED
  BY <1>1, <1>2, TypeCorrect, DemandAlways, PublisherAlways, PTL DEF Spec

(* Recording follows the configuration in force, over any sequence of       *)
(* reloads and of streams (path.go:396-421, 770-772, 822-825).              *)
THEOREM RecorderAlwaysFollows ==
    ASSUME InitializeMayFail = FALSE PROVE Spec => []RecorderFollowsConf
<1>1. TypeOK /\ StreamInv => RecorderFollowsConf
  BY DEF TypeOK, StreamInv, StreamBody, RecorderFollowsConf
<1> QED
  BY <1>1, StreamAlways, TypeCorrect, PTL

-----------------------------------------------------------------------------
(* A close timer only runs while nobody reads.                              *)

(* No step lets a reader in while the source stays closing.                 *)
LEMMA UnusedStep ==
    ASSUME InitializeMayFail = FALSE,
           TypeOK, ReadersAgree, DemandInv, PublisherInv, StreamInv, UnusedInv, [Next]_vars
    PROVE  UnusedInv'
<1> SUFFICES ASSUME phase' \in {"run", "teardown"} PROVE UnusedBody'
  BY DEF UnusedInv
<1>1. CASE /\ phase \in {"run", "teardown"}
           /\ UNCHANGED <<onDemandStaticSourceState, onDemandPublisherState, readers>>
  BY <1>1 DEF UnusedInv, UnusedBody
<1>2. CASE readers' = {}
  BY <1>2 DEF UnusedBody
<1>3. ASSUME NEW d \in Describers, Describe(d) PROVE UnusedBody'
  BY <1>3 DEF Describe, DemandSource, OnDemandStaticSourceStart, OnDemandPublisherStart,
              OrigNodeStaticSourceStart, demandVars, UnusedInv, UnusedBody
<1>4. ASSUME NEW r \in Readers, AdmitReader(r) PROVE UnusedBody'
  <2>1. /\ DemandBody /\ ConfOK(conf)
        /\ ~(HasOnDemandStaticSource(conf) /\ HasOnDemandPublisher(conf))
    BY <1>4, ConfIsOK DEF AdmitReader, DemandInv, ConfOK, HasStaticSource,
                          HasOnDemandStaticSource, HasOnDemandPublisher
  <2>2. onDemandStaticSourceState' # "closing" /\ onDemandPublisherState' # "closing"
    BY <1>4, <2>1 DEF AdmitReader, DemandBody
  <2> QED
    BY <2>2 DEF UnusedBody
<1>5. ASSUME NEW r \in Readers, HoldReader(r) PROVE UnusedBody'
  BY <1>5 DEF HoldReader, DemandSource, OnDemandStaticSourceStart, OnDemandPublisherStart,
              OrigNodeStaticSourceStart, demandVars, UnusedInv, UnusedBody
<1>6. ASSUME NEW r \in Readers, RefuseReader(r) PROVE UnusedBody'
  BY <1>1, <1>6 DEF RefuseReader, clientVars, demandVars
<1>7. ASSUME NEW r \in Readers, RemoveReader(r) PROVE UnusedBody'
  BY <1>7 DEF RemoveReader, UnusedInv, UnusedBody
<1>8. ASSUME NEW r \in Readers, ReaderGone(r) PROVE UnusedBody'
  BY <1>8 DEF ReaderGone
<1>9. ASSUME NEW p \in Publishers, AddPublisher(p) PROVE UnusedBody'
  <2>1. /\ DemandBody /\ StreamBody /\ ConfOK(conf)
        /\ conf.source = "publisher"
        /\ source \notin Handlers
        /\ UNCHANGED onDemandStaticSourceState
    BY <1>9, ConfIsOK DEF AddPublisher, MayPublish, DemandInv, StreamInv
  <2>2. onDemandStaticSourceState = "initial"
    BY <2>1 DEF DemandBody, HasStaticSource, HasOnDemandStaticSource
  <2>3. CASE ~(HasOnDemandPublisher(conf) /\ onDemandPublisherState # "initial")
    <3>1. onDemandPublisherState' = "initial"
      BY <1>9, <2>1, <2>3 DEF AddPublisher, DemandBody
    <3> QED
      BY <2>1, <2>2, <3>1 DEF UnusedBody
  <2>4. CASE HasOnDemandPublisher(conf) /\ onDemandPublisherState # "initial"
    <3>1. ReadersLeft = {}
      <4>1. CASE stream = None
        BY <4>1 DEF ReadersLeft, ReadersAgree
      <4>2. CASE stream # None
        BY <2>1, <2>4, <4>2 DEF TypeOK, ReadersLeft, StreamBody
      <4> QED
        BY <4>1, <4>2
    <3>2. onDemandPublisherState' = WantedState(readers' # {})
      BY <1>9, <2>4, <3>1 DEF AddPublisher
    <3> QED
      BY <2>1, <2>2, <3>2 DEF WantedState, UnusedBody
  <2> QED
    BY <2>3, <2>4
<1>10. ASSUME NEW p \in Publishers,
              AddPublisherFails(p) \/ AddPublisherCrashes(p) \/ PublisherGone(p)
       PROVE UnusedBody'
  BY <1>10 DEF AddPublisherFails, AddPublisherCrashes, Crash, PublisherGone
<1>11. ASSUME NEW p \in Publishers, RemovePublisher(p) PROVE UnusedBody'
  BY <1>1, <1>2, <1>11 DEF RemovePublisher, SetNotReady, demandVars
<1>12. ASSUME NEW h \in Handlers, SourceStaticSetReady(h) PROVE UnusedBody'
  <2>1. /\ DemandBody /\ StreamBody /\ ConfOK(conf)
        /\ handler[h] = "connecting"
        /\ UNCHANGED onDemandPublisherState
    BY <1>12, ConfIsOK DEF SourceStaticSetReady, DemandInv, StreamInv
  <2>2. onDemandPublisherState = "initial"
    BY <2>1 DEF DemandBody, ConfOK, HasStaticSource, HasOnDemandPublisher
  <2>3. CASE HasOnDemandStaticSource(conf)
    <3>1. readers = {}
      BY <2>1 DEF StreamBody, ReadersAgree
    <3>2. onDemandStaticSourceState' = WantedState(readers' # {})
      BY <1>12, <2>3, <3>1 DEF SourceStaticSetReady
    <3> QED
      BY <2>1, <2>2, <3>2 DEF WantedState, UnusedBody
  <2>4. CASE ~HasOnDemandStaticSource(conf)
    <3>1. onDemandStaticSourceState' = onDemandStaticSourceState
      BY <1>12, <2>4 DEF SourceStaticSetReady
    <3> QED
      BY <2>1, <2>2, <2>4, <3>1 DEF DemandBody, UnusedBody
  <2> QED
    BY <2>3, <2>4
<1>13. ASSUME NEW h \in Handlers,
              SourceStaticSetReadyFails(h) \/ SourceStaticSetNotReady(h)
       PROVE UnusedBody'
  BY <1>2, <1>13 DEF SourceStaticSetReadyFails, SourceStaticSetNotReady, SetNotReady
<1>14. CASE TimerFires
  BY <1>14 DEF TimerFires, OnDemandStaticSourceReadyTimer, OnDemandStaticSourceCloseTimer,
       OnDemandPublisherReadyTimer, OnDemandPublisherCloseTimer,
       OrigNodeStaticSourceReadyTimer, OrigNodeStaticSourceCloseTimer,
       OnDemandStaticSourceStop, OnDemandPublisherStop, OrigNodeStaticSourceStop,
       SetNotReady, clientVars, UnusedInv, UnusedBody
<1>15. ASSUME NEW c \in Confs, ReloadConf(c) PROVE UnusedBody'
  BY <1>1, <1>15 DEF ReloadConf, clientVars, demandVars
<1>16. CASE Terminate
  BY <1>1, <1>16 DEF Terminate, clientVars, demandVars
<1>17. CASE Teardown
  BY <1>17 DEF Teardown, Crash
<1>18. CASE UNCHANGED vars
  BY <1>1, <1>18 DEF vars, clientVars, demandVars
<1> QED
  BY <1>3, <1>4, <1>5, <1>6, <1>7, <1>8, <1>9, <1>10, <1>11, <1>12, <1>13, <1>14,
     <1>15, <1>16, <1>17, <1>18 DEF Next, RegularNext, SpecialNext, TimerFires

(* A close timer never takes the stream from a reader: it only runs while   *)
(* nobody reads (path.go:595-609, 904-916).                                 *)
THEOREM ClosingAlwaysUnused ==
    ASSUME InitializeMayFail = FALSE PROVE Spec => []ClosingMeansUnused
<1>1. Init => UnusedInv
  BY DEF Init, UnusedInv, UnusedBody
<1>2. /\ TypeOK /\ ReadersAgree /\ DemandInv /\ PublisherInv /\ StreamInv
      /\ UnusedInv /\ [Next]_vars
      => UnusedInv'
  BY UnusedStep
<1>3. UnusedInv => ClosingMeansUnused
  BY DEF UnusedInv, UnusedBody, ClosingMeansUnused
<1> QED
  BY <1>1, <1>2, <1>3, TypeCorrect, ReadersAlwaysAgree, DemandAlways, PublisherAlways,
     StreamAlways, PTL DEF Spec

-----------------------------------------------------------------------------
(* No sequence of requests, events and timers kills the process, as long as *)
(* overriding and an origin node are not configured together                *)
(* (path.go:222-267, 517-526).                                              *)
THEOREM NeverPanics ==
    ASSUME InitializeMayFail = FALSE,
           \A c \in Confs : ~(c.origNode /\ c.overridePublisher)
    PROVE  Spec => []NoPanic
<1>1. Init => NoPanic
  BY DEF Init, NoPanic
<1>2. ASSUME TypeOK, DemandInv, StreamInv, NoPanic, [Next]_vars PROVE NoPanic'
  <2>1. ASSUME NEW p \in Publishers PROVE ~AddPublisherCrashes(p)
    <3> SUFFICES ASSUME AddPublisherCrashes(p) PROVE FALSE
      OBVIOUS
    <3>1. DemandBody /\ conf \in Confs /\ conf.source = "publisher" /\ conf.overridePublisher
      BY <1>2, ConfIsOK DEF AddPublisherCrashes, MayPublish, DemandInv
    <3>2. source = "orig"
      BY <3>1 DEF AddPublisherCrashes, DemandBody
    <3> QED
      BY <3>1, <3>2 DEF DemandBody, HasOrigNode
  <2>2. ASSUME Teardown PROVE phase' # "panic"
    <3>1. ~(stream # None /\ NotReadyHookDies)
      BY <1>2, <2>2 DEF Teardown, StreamInv, StreamBody, TypeOK, NotReadyHookDies
    <3> QED
      BY <2>2, <3>1 DEF Teardown
  <2> QED
    BY <1>2, <2>1, <2>2
       DEF NoPanic, Next, RegularNext, SpecialNext, Describe, AdmitReader, HoldReader,
           RefuseReader,
           RemoveReader, ReaderGone, AddPublisher, AddPublisherFails, RemovePublisher,
           PublisherGone, SourceStaticSetReady, SourceStaticSetReadyFails,
           SourceStaticSetNotReady,
           OnDemandStaticSourceReadyTimer, OnDemandStaticSourceCloseTimer,
           OnDemandPublisherReadyTimer, OnDemandPublisherCloseTimer,
           OrigNodeStaticSourceReadyTimer, OrigNodeStaticSourceCloseTimer,
           ReloadConf, Terminate, CheckShouldClose, vars
<1> QED
  BY <1>1, <1>2, TypeCorrect, DemandAlways, StreamAlways, PTL DEF Spec

-----------------------------------------------------------------------------
(* A path made by a regular expression goes away with the last thing that   *)
(* used it.                                                                 *)

(* The path loses its last use and stays.                                   *)
Forgotten == ~ShouldClose /\ ShouldClose' /\ conf' = conf /\ phase' = "run"

(* A handler that ends with the test never leaves such a path.              *)
LEMMA CheckedCloses == ASSUME CheckShouldClose PROVE ~Forgotten
  BY DEF CheckShouldClose, Forgotten

(* The steps after which the test is not made do not take the last use of a *)
(* path away: a reader that leaves has a stream and so a source, or         *)
(* somebody owns the stream now; no other step leaves the path running.     *)
LEMMA NeverForgotten ==
    ASSUME InitializeMayFail = FALSE, \A c \in Confs : c.regexp => ~c.origNode,
           TypeOK, ReadersAgree, DemandInv, PublisherInv, StreamInv, Next
    PROVE  ~Forgotten
<1>1. ASSUME NEW r \in Readers, RemoveReader(r), Forgotten PROVE FALSE
  <2>1. source = None /\ conf.regexp /\ phase = "run" /\ conf \in Confs
    BY <1>1 DEF Forgotten, ShouldClose, RemoveReader, sourceVars, TypeOK
  <2>2. origNodeStaticSourceState = "initial"
    BY <1>1 DEF Forgotten, ShouldClose, RemoveReader
  <2>3. readers # {}
    BY <1>1, <2>1, <2>2 DEF Forgotten, ShouldClose, RemoveReader
  <2>4. stream = "live"
    BY <2>1, <2>3 DEF ReadersAgree, StreamInv, StreamBody, TypeOK, None
  <2> QED
    BY <2>1, <2>4 DEF StreamInv, StreamBody, HasOrigNode
<1>2. ASSUME NEW p \in Publishers, AddPublisher(p), Forgotten PROVE FALSE
  BY <1>2, ClientsAssumption DEF AddPublisher, Forgotten, ShouldClose, None
<1>3. ASSUME NEW h \in Handlers, SourceStaticSetReady(h), Forgotten PROVE FALSE
  <2>1. DemandBody /\ handler[h] # "off" /\ source = None
    BY <1>3 DEF SourceStaticSetReady, Forgotten, ShouldClose, DemandInv
  <2> QED
    BY <2>1 DEF DemandBody, Handlers, HasStaticSource, None
<1>4. ASSUME OnDemandPublisherCloseTimer, Forgotten PROVE FALSE
  BY <1>4 DEF OnDemandPublisherCloseTimer, OnDemandPublisherStop, Forgotten, ShouldClose,
              clientVars
<1>5. ASSUME RegularNext, Forgotten PROVE FALSE
  BY <1>1, <1>2, <1>3, <1>4, <1>5, CheckedCloses
     DEF RegularNext, Describe, AdmitReader, HoldReader, RefuseReader, ReaderGone,
         RemovePublisher, PublisherGone, SourceStaticSetNotReady,
         OnDemandStaticSourceReadyTimer, OnDemandStaticSourceCloseTimer,
         OnDemandPublisherReadyTimer, ReloadConf, Terminate, Teardown, Crash, Forgotten
<1>6. ASSUME SpecialNext, Forgotten PROVE FALSE
  BY <1>6, CheckedCloses
     DEF SpecialNext, AddPublisherFails, AddPublisherCrashes, SourceStaticSetReadyFails,
         OrigNodeStaticSourceReadyTimer, OrigNodeStaticSourceCloseTimer, Crash, Forgotten
<1> QED
  BY <1>5, <1>6 DEF Next

(* A path made by a regular expression is closed by the step that takes its *)
(* last reader, request or source away: the handlers that do not ask        *)
(* shouldClose() never leave it without one, unless it has an origin node,  *)
(* which may go before its readers (path.go:269-357, 684-691).              *)
THEOREM IdleAlwaysCloses ==
    ASSUME InitializeMayFail = FALSE, \A c \in Confs : c.regexp => ~c.origNode
    PROVE  Spec => IdlePathCloses
<1> DEFINE Holds == TypeOK /\ ReadersAgree /\ DemandInv /\ PublisherInv /\ StreamInv
           Closes == ~ShouldClose /\ ShouldClose' /\ conf' = conf => phase' # "run"
<1>1. Holds /\ [Next]_vars => [Closes]_vars
  BY NeverForgotten DEF Forgotten
<1>2. Spec => []Holds
  BY TypeCorrect, ReadersAlwaysAgree, DemandAlways, PublisherAlways, StreamAlways, PTL
<1> QED
  BY <1>1, <1>2, PTL DEF Spec, IdlePathCloses

-----------------------------------------------------------------------------
(* Path implements PathPromise.                                            *)

Media == IF stream = "live" THEN source ELSE None

(* What the refinement needs to know of a state.                            *)
PromiseInv ==
    /\ TypeOK /\ ReadersAgree /\ DemandInv /\ PublisherInv /\ HeldMeansNotReady /\ StreamInv

(* How the state of Path reads through the refinement mapping.              *)
LEMMA MediaFacts ==
    ASSUME PromiseInv, phase \in {"run", "teardown"},
           \A c \in Confs : ~c.origNode
    PROVE  /\ Media = None <=> stream = None
           /\ stream = "live" => Held = {}
           /\ readers = {r \in Readers : rdrs[r] = "reading"}
           /\ Held = {r \in Readers : rdrs[r] = "held"}
           /\ stream = None => readers = {}
<1>1. Held \subseteq Readers
  BY DEF PromiseInv, TypeOK, Held
<1>2. stream \in {"none", "live"} /\ (stream = "live" => source # None)
  BY DEF PromiseInv, TypeOK, StreamInv, StreamBody, HasOrigNode
<1> QED
  BY <1>1, <1>2 DEF PromiseInv, TypeOK, ReadersAgree, HeldMeansNotReady, Held, Media

(* SetNotReady on a live stream is Vanish.                                  *)
LEMMA VanishStep ==
    ASSUME PromiseInv, phase = "run", SetNotReady, stream = "live",
           \A c \in Confs : ~c.origNode
    PROVE  Promise!Next
<1>1. Media # None /\ Media' = None
  BY MediaFacts DEF SetNotReady, Media
<1>2. rdrs' = [r \in Readers |-> IF rdrs[r] = "reading" THEN "closing" ELSE rdrs[r]]
  BY MediaFacts DEF SetNotReady
<1> QED
  BY <1>1, <1>2 DEF Promise!Next, Promise!Vanish, Promise!KickAll, Media

(* Answering everyone on hold with an error is GiveUp, or nothing.          *)
LEMMA GiveUpStep ==
    ASSUME PromiseInv, phase \in {"run", "teardown"},
           rdrs' = [r \in Readers |-> IF r \in Held THEN "idle" ELSE rdrs[r]],
           UNCHANGED Media,
           \A c \in Confs : ~c.origNode
    PROVE  [Promise!Next]_Promise!vars
<1>1. CASE stream = None
  <2>1. rdrs' = [r \in Readers |-> IF rdrs[r] = "held" THEN "idle" ELSE rdrs[r]]
    BY MediaFacts
  <2> QED
    BY <1>1, <2>1, MediaFacts DEF Promise!Next, Promise!GiveUp, Media
<1>2. CASE stream = "live"
  <2>1. rdrs' = rdrs
    BY <1>2, MediaFacts DEF PromiseInv, TypeOK
  <2> QED
    BY <2>1 DEF Promise!vars, Media
<1> QED
  BY <1>1, <1>2 DEF PromiseInv, TypeOK, StreamInv, StreamBody

(* A stream that comes up on an empty path is Appear.                       *)
LEMMA StreamUpStep ==
    ASSUME PromiseInv, phase = "run", stream = None,
           NEW s \in Publishers \cup Handlers, Media' = s,
           StreamIsUp(readers),
           \A c \in Confs : ~c.origNode
    PROVE  Promise!Next
<1> DEFINE accepted == Admitted(readerAddRequestsOnHold, readers)
<1>1. accepted \subseteq Held
  BY AdmittedHeld
<1>2. rdrs' = [r \in Readers |-> IF r \in accepted THEN "reading"
                                 ELSE IF r \in Held THEN "idle" ELSE rdrs[r]]
  BY DEF StreamIsUp, StreamUp
<1> HIDE DEF accepted
<1>3. accepted \in SUBSET Readers
  BY <1>1, MediaFacts
<1>4. rdrs' = [r \in Readers |-> IF rdrs[r] # "held" THEN rdrs[r]
                                 ELSE IF r \in accepted THEN "reading" ELSE "idle"]
  BY <1>1, <1>2, MediaFacts
<1>5. Promise!Appear(s)
  BY <1>3, <1>4, MediaFacts DEF Promise!Appear, Media
<1> QED
  BY <1>5 DEF Promise!Next

(* A publisher that overrides another is Replace.                           *)
LEMMA ReplaceStep ==
    ASSUME PromiseInv, phase = "run", stream = "live",
           NEW p \in Publishers, Media' = p, source # p,
           StreamIsUp({}),
           \A c \in Confs : ~c.origNode
    PROVE  Promise!Next
<1>1. Admitted(readerAddRequestsOnHold, {}) \subseteq Held
  BY AdmittedHeld
<1>2. Held = {} /\ Media # None /\ Media = source
  BY MediaFacts DEF Media
<1>3. rdrs' = [r \in Readers |-> IF rdrs[r] = "reading" THEN "closing" ELSE rdrs[r]]
  BY <1>1, <1>2, MediaFacts DEF StreamIsUp, StreamUp
<1>4. Promise!Replace(p)
  BY <1>2, <1>3 DEF Promise!Replace, Promise!KickAll, Media
<1> QED
  BY <1>4 DEF Promise!Next

(* Every step of Path is a step of PathPromise or none.                     *)
LEMMA PromiseStep ==
    ASSUME PromiseInv, [Next]_vars, \A c \in Confs : ~c.origNode,
           InitializeMayFail = FALSE
    PROVE  [Promise!Next]_Promise!vars
<1> USE DEF Promise!vars
<1>1. CASE UNCHANGED <<source, stream, rdrs>>
  BY <1>1 DEF Media
<1>2. ASSUME NEW d \in Describers, Describe(d) PROVE [Promise!Next]_Promise!vars
  <2>1. UNCHANGED <<rdrs, stream>> /\ (source' = source \/ stream = None)
    BY <1>2 DEF Describe, demandVars
  <2> QED
    BY <2>1 DEF Media
<1>3. ASSUME NEW r \in Readers, AdmitReader(r) PROVE [Promise!Next]_Promise!vars
  <2>1. phase = "run" /\ stream # None /\ rdrs[r] = "idle"
        /\ rdrs' = [rdrs EXCEPT ![r] = "reading"] /\ UNCHANGED <<source, stream>>
    BY <1>3 DEF AdmitReader, sourceVars
  <2>2. Promise!Join(r)
    BY <2>1, MediaFacts DEF Promise!Join, Promise!Become, Media
  <2> QED
    BY <2>2 DEF Promise!Next
<1>4. ASSUME NEW r \in Readers, HoldReader(r) PROVE [Promise!Next]_Promise!vars
  <2>1. /\ stream = None /\ stream' = None /\ rdrs[r] = "idle"
        /\ rdrs' = [rdrs EXCEPT ![r] = "held"]
    BY <1>4 DEF HoldReader
  <2>2. Promise!Ask(r)
    BY <2>1 DEF Promise!Ask, Promise!Become, Media
  <2> QED
    BY <2>2 DEF Promise!Next
<1>5. ASSUME NEW r \in Readers, RemoveReader(r) \/ ReaderGone(r)
      PROVE [Promise!Next]_Promise!vars
  <2>1. /\ rdrs[r] \in {"reading", "closing"}
        /\ rdrs' = [rdrs EXCEPT ![r] = "idle"] /\ UNCHANGED <<source, stream>>
    BY <1>5 DEF RemoveReader, ReaderGone, sourceVars
  <2>2. Promise!Leave(r)
    BY <2>1 DEF Promise!Leave, Promise!Become, Media
  <2> QED
    BY <2>2 DEF Promise!Next
<1>6. ASSUME NEW r \in Readers, RefuseReader(r) PROVE [Promise!Next]_Promise!vars
  BY <1>1, <1>6 DEF RefuseReader, sourceVars, clientVars
<1>7. ASSUME NEW p \in Publishers, AddPublisher(p) PROVE [Promise!Next]_Promise!vars
  <2>1. /\ phase = "run" /\ pubs[p] = "idle" /\ conf.source = "publisher"
        /\ source \notin Handlers
        /\ StreamIsUp(ReadersLeft)
        /\ Media' = p
    BY <1>7 DEF AddPublisher, MayPublish, StreamIsUp, StreamUp, Media
  <2>2. CASE stream = None
    <3>1. ReadersLeft = readers
      BY <2>2 DEF ReadersLeft
    <3> QED
      BY <2>1, <2>2, <3>1, StreamUpStep
  <2>3. CASE stream = "live"
    <3>1. source # None
      BY <2>1, <2>3, MediaFacts DEF Media
    <3>2. source # p
      BY <2>1 DEF PromiseInv, PublisherInv
    <3>3. ReadersLeft = {}
      BY <2>3, <3>1 DEF ReadersLeft
    <3> QED
      BY <2>1, <2>3, <3>2, <3>3, ReplaceStep
  <2> QED
    BY <2>1, <2>2, <2>3 DEF PromiseInv, TypeOK, StreamInv, StreamBody
<1>8. ASSUME NEW p \in Publishers,
             AddPublisherFails(p) \/ AddPublisherCrashes(p) \/ PublisherGone(p)
      PROVE [Promise!Next]_Promise!vars
  BY <1>1, <1>8 DEF AddPublisherFails, AddPublisherCrashes, Crash, PublisherGone,
                    sourceVars, clientVars
<1>9. ASSUME NEW p \in Publishers, RemovePublisher(p) PROVE [Promise!Next]_Promise!vars
  <2>1. CASE source = p
    <3>1. phase = "run" /\ SetNotReady /\ stream = "live"
      BY <1>9, <2>1 DEF RemovePublisher, PromiseInv, PublisherInv
    <3> QED
      BY <3>1, VanishStep
  <2>2. CASE source # p
    BY <1>1, <1>9, <2>2 DEF RemovePublisher
  <2> QED
    BY <2>1, <2>2
<1>10. ASSUME NEW h \in Handlers, SourceStaticSetReady(h)
       PROVE [Promise!Next]_Promise!vars
  <2>1. /\ phase = "run" /\ handler[h] = "connecting" /\ StreamIsUp(readers)
        /\ Media' = source
    BY <1>10 DEF SourceStaticSetReady, StreamIsUp, StreamUp, Media
  <2>2. DemandBody /\ StreamBody /\ ConfOK(conf) /\ ~conf.origNode
    BY <2>1, ConfIsOK DEF PromiseInv, DemandInv, StreamInv
  <2>3. stream = None /\ source = "static"
    BY <2>1, <2>2 DEF DemandBody, StreamBody, HasStaticSource, HasOrigNode
  <2> QED
    BY <2>1, <2>3, StreamUpStep
<1>11. ASSUME NEW h \in Handlers,
              SourceStaticSetReadyFails(h) \/ SourceStaticSetNotReady(h)
       PROVE [Promise!Next]_Promise!vars
  <2>1. phase = "run" /\ handler[h] = "ready" /\ SetNotReady
    BY <1>11 DEF SourceStaticSetReadyFails, SourceStaticSetNotReady
  <2>2. stream = None \/ stream = "live"
    BY <2>1 DEF PromiseInv, TypeOK, StreamInv, StreamBody
  <2>3. CASE stream = None
    <3>1. stream' = None /\ rdrs' = rdrs
      BY <2>1, <2>3, MediaFacts DEF SetNotReady, PromiseInv, TypeOK
    <3> QED
      BY <2>3, <3>1 DEF Media
  <2> QED
    BY <2>1, <2>2, <2>3, VanishStep
<1>12. CASE OnDemandStaticSourceReadyTimer \/ OnDemandPublisherReadyTimer
  <2>1. /\ phase = "run"
        /\ rdrs' = [r \in Readers |-> IF r \in Held THEN "idle" ELSE rdrs[r]]
        /\ UNCHANGED Media
    BY <1>12 DEF OnDemandStaticSourceReadyTimer, OnDemandPublisherReadyTimer,
       RejectOnHold, OnDemandStaticSourceStop, OnDemandPublisherStop, Media
  <2> QED
    BY <2>1, GiveUpStep
<1>13. CASE OnDemandStaticSourceCloseTimer
  <2>1. phase = "run" /\ SetNotReady
    BY <1>13 DEF OnDemandStaticSourceCloseTimer
  <2>2. stream = None \/ stream = "live"
    BY <2>1 DEF PromiseInv, TypeOK, StreamInv, StreamBody
  <2>3. CASE stream = None
    <3>1. stream' = None /\ rdrs' = rdrs
      BY <2>1, <2>3, MediaFacts DEF SetNotReady, PromiseInv, TypeOK
    <3> QED
      BY <2>3, <3>1 DEF Media
  <2> QED
    BY <2>1, <2>2, <2>3, VanishStep
<1>14. CASE OnDemandPublisherCloseTimer
  BY <1>1, <1>14 DEF OnDemandPublisherCloseTimer, OnDemandPublisherStop, clientVars
<1>15. CASE OrigNodeStaticSourceReadyTimer \/ OrigNodeStaticSourceCloseTimer
  <2>1. phase = "run" /\ (origNodeStaticSourceState # "initial")
    BY <1>15 DEF OrigNodeStaticSourceReadyTimer, OrigNodeStaticSourceCloseTimer,
                 PromiseInv, DemandInv, DemandBody
  <2>2. HasOrigNode(conf)
    BY <2>1 DEF PromiseInv, DemandInv, DemandBody
  <2> QED
    BY <2>2, ConfIsOK DEF PromiseInv, HasOrigNode
<1>16. ASSUME NEW c \in Confs, ReloadConf(c) PROVE [Promise!Next]_Promise!vars
  BY <1>1, <1>16 DEF ReloadConf, clientVars
<1>17. CASE Terminate
  BY <1>1, <1>17 DEF Terminate, sourceVars, clientVars
<1>18. CASE Teardown
  <2>1. CASE phase' = "panic"
    BY <1>1, <1>18, <2>1 DEF Teardown, Crash, sourceVars, clientVars
  <2>2. CASE phase' # "panic" /\ stream = None
    <3>1. /\ phase = "teardown" /\ stream' = None
          /\ rdrs' = [r \in Readers |-> IF r \in Held THEN "idle" ELSE rdrs[r]]
      BY <1>18, <2>2 DEF Teardown, Crash
    <3> QED
      BY <2>2, <3>1, GiveUpStep DEF Media
  <2>3. CASE phase' # "panic" /\ stream = "live"
    <3>1. /\ phase = "teardown" /\ stream' = None
          /\ rdrs' = [r \in Readers |-> IF r \in Held THEN "idle"
                                         ELSE IF r \in readers THEN "closing" ELSE rdrs[r]]
      BY <1>18, <2>3 DEF Teardown, Crash
    <3>2. Promise!Vanish
      BY <2>3, <3>1, MediaFacts DEF Promise!Vanish, Promise!KickAll, Media
    <3> QED
      BY <3>2 DEF Promise!Next
  <2>4. phase = "teardown"
    BY <1>18 DEF Teardown
  <2> QED
    BY <2>1, <2>2, <2>3, <2>4 DEF PromiseInv, TypeOK, StreamInv, StreamBody
<1>19. CASE UNCHANGED vars
  BY <1>1, <1>19 DEF vars, sourceVars, clientVars
<1> QED
  BY <1>2, <1>3, <1>4, <1>5, <1>6, <1>7, <1>8, <1>9, <1>10, <1>11, <1>12, <1>13, <1>14,
     <1>15, <1>16, <1>17, <1>18, <1>19 DEF Next, RegularNext, SpecialNext

(* Without an origin node the path keeps its promise: whoever asks is       *)
(* answered or waits for media, and nobody is left reading from a source    *)
(* that is gone or was replaced (path.go:509-554, 793-831, 888-922).        *)
THEOREM PathKeepsPromise ==
    ASSUME InitializeMayFail = FALSE, \A c \in Confs : ~c.origNode
    PROVE  Spec => KeepsPromise
<1>1. Init => Promise!Init
  BY DEF Init, Promise!Init
<1>2. PromiseInv /\ [Next]_vars => [Promise!Next]_Promise!vars
  BY PromiseStep
<1>3. Spec => []PromiseInv
  BY TypeCorrect, ReadersAlwaysAgree, DemandAlways, PublisherAlways, NobodyHeldWhileReady,
     StreamAlways, PTL DEF PromiseInv
<1> QED
  BY <1>1, <1>2, <1>3, PTL DEF Spec, KeepsPromise, Promise!Spec
=============================================================================
