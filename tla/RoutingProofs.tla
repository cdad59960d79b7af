---------------------------- MODULE RoutingProofs ----------------------------
(* Theorems about Routing: what PathProofs shows of a path holds of the    *)
(* one that is composed with the path manager there.                       *)
EXTENDS Routing, FiniteSets, FiniteSetTheorems, TLAPS

PP == INSTANCE PathProofs WITH
    Publishers <- {p1, p2}, Readers <- {r1, r2, r3}, Describers <- {d1},
    Confs <- C!AllConfs, InitializeMayFail <- TRUE

(* The path of Routing is the one of PathProofs: the same module with the  *)
(* same constants and variables, under another name.                       *)
LEMMA SamePath ==
    /\ P!Init <=> PP!Init
    /\ [P!Next]_P!vars <=> [PP!Next]_PP!vars
  BY DEF
         P!None, P!Handlers, P!ConfFields, P!sourceVars, P!clientVars, P!demandVars,
         P!vars, P!HasStaticSource, P!HasOnDemandStaticSource, P!HasOnDemandPublisher,
         P!HasOrigNode, P!CanBeUpdated, P!ShouldClose, P!CheckShouldClose, P!Held,
         P!Admitted, P!NotReadyHookDies, P!Crash, P!SetNotReady, P!StreamUp, P!StreamIsUp,
         P!StartForwarders, P!RejectOnHold, P!WantedState, P!WantedTimers, P!Init,
         P!OnDemandStaticSourceStart, P!OnDemandPublisherStart,
         P!OrigNodeStaticSourceStart, P!OnDemandStaticSourceStop, P!OnDemandPublisherStop,
         P!OrigNodeStaticSourceStop, P!StaticSourceWaits, P!PublisherWaits,
         P!OrigNodeWaits, P!DemandSource, P!Describe, P!AdmitReader, P!HoldReader,
         P!RefuseReader, P!RemoveReader, P!MayPublish, P!ReadersLeft, P!AddPublisher,
         P!AddPublisherFails, P!AddPublisherCrashes, P!RemovePublisher,
         P!SourceStaticSetReady, P!SourceStaticSetReadyFails, P!SourceStaticSetNotReady,
         P!OnDemandStaticSourceReadyTimer, P!OnDemandStaticSourceCloseTimer,
         P!OnDemandPublisherReadyTimer, P!OnDemandPublisherCloseTimer,
         P!OrigNodeStaticSourceReadyTimer, P!OrigNodeStaticSourceCloseTimer, P!ReloadConf,
         P!Terminate, P!CloseSource, P!Teardown, P!ReaderGone, P!PublisherGone,
         P!TimerFires, P!RegularNext, P!SpecialNext, P!Next, P!Cardinality,
         PP!None, PP!Handlers, PP!ConfFields, PP!sourceVars, PP!clientVars, PP!demandVars,
         PP!vars, PP!HasStaticSource, PP!HasOnDemandStaticSource, PP!HasOnDemandPublisher,
         PP!HasOrigNode, PP!CanBeUpdated, PP!ShouldClose, PP!CheckShouldClose, PP!Held,
         PP!Admitted, PP!NotReadyHookDies, PP!Crash, PP!SetNotReady, PP!StreamUp,
         PP!StreamIsUp, PP!StartForwarders, PP!RejectOnHold, PP!WantedState,
         PP!WantedTimers, PP!Init, PP!OnDemandStaticSourceStart, PP!OnDemandPublisherStart,
         PP!OrigNodeStaticSourceStart, PP!OnDemandStaticSourceStop,
         PP!OnDemandPublisherStop, PP!OrigNodeStaticSourceStop, PP!StaticSourceWaits,
         PP!PublisherWaits, PP!OrigNodeWaits, PP!DemandSource, PP!Describe, PP!AdmitReader,
         PP!HoldReader, PP!RefuseReader, PP!RemoveReader, PP!MayPublish, PP!ReadersLeft,
         PP!AddPublisher, PP!AddPublisherFails, PP!AddPublisherCrashes, PP!RemovePublisher,
         PP!SourceStaticSetReady, PP!SourceStaticSetReadyFails, PP!SourceStaticSetNotReady,
         PP!OnDemandStaticSourceReadyTimer, PP!OnDemandStaticSourceCloseTimer,
         PP!OnDemandPublisherReadyTimer, PP!OnDemandPublisherCloseTimer,
         PP!OrigNodeStaticSourceReadyTimer, PP!OrigNodeStaticSourceCloseTimer,
         PP!ReloadConf, PP!Terminate, PP!CloseSource, PP!Teardown, PP!ReaderGone,
         PP!PublisherGone, PP!TimerFires, PP!RegularNext, PP!SpecialNext, PP!Next,
         PP!Cardinality

(* So are its properties.                                                  *)
LEMMA SameProperties ==
    /\ PP!ReadersAgree <=> P!ReadersAgree
    /\ PP!DemandAgrees <=> P!DemandAgrees
    /\ PP!DoneIsClean <=> P!DoneIsClean
  BY DEF
         P!ReadersAgree, PP!ReadersAgree, P!DemandAgrees, PP!DemandAgrees,
         P!TimersFollowStates, PP!TimersFollowStates, P!SourcesFollowDemand,
         PP!SourcesFollowDemand, P!DoneIsClean, PP!DoneIsClean, P!Held, PP!Held,
         P!Handlers, PP!Handlers, P!None, PP!None, P!HasStaticSource, PP!HasStaticSource,
         P!HasOnDemandStaticSource, PP!HasOnDemandStaticSource, P!HasOrigNode,
         PP!HasOrigNode, P!HasOnDemandPublisher, PP!HasOnDemandPublisher, P!Timers,
         PP!Timers

(* What all configurations in PathConfs are made from.                     *)
LEMMA PlainFields == DOMAIN C!Plain = PP!ConfFields
  BY DEF C!Plain, PP!ConfFields

(* Field by field.                                                         *)
LEMMA PlainValues ==
    /\ C!Plain.source = "publisher" /\ C!Plain.sourceOnDemand = FALSE
    /\ C!Plain.runOnDemand = FALSE /\ C!Plain.origNode = FALSE
    /\ C!Plain.overridePublisher = TRUE /\ C!Plain.regexp = FALSE /\ C!Plain.fallback = FALSE
    /\ C!Plain.runOnReady = TRUE /\ C!Plain.maxReaders \in Nat /\ C!Plain.record = FALSE
    /\ C!Plain.recordPath = recA /\ C!Plain.forward = FALSE
  BY DEF C!Plain

(* ConfOK field by field.                                                  *)
LEMMA FieldsSuffice ==
    ASSUME NEW c, DOMAIN c = PP!ConfFields,
           c.source \in {"publisher", "redirect", "static"},
           c.sourceOnDemand \in BOOLEAN, c.runOnDemand \in BOOLEAN, c.origNode \in BOOLEAN,
           c.overridePublisher \in BOOLEAN, c.regexp \in BOOLEAN, c.fallback \in BOOLEAN,
           c.runOnReady \in BOOLEAN, c.record \in BOOLEAN, c.forward \in BOOLEAN,
           c.maxReaders \in Nat, c.recordPath # "none",
           c.source = "static" /\ c.regexp => c.sourceOnDemand,
           c.sourceOnDemand => c.source # "publisher",
           c.runOnDemand => c.source = "publisher",
           c.origNode => c.source = "publisher"
    PROVE  PP!ConfOK(c)
  BY DEF PP!ConfOK, PP!ConfFields, PP!None

(* Whatever is published to is a configuration that conf.Path.validate     *)
(* accepts.                                                                *)
LEMMA PublisherConfsOK ==
    ASSUME recA # "none", recB # "none" PROVE \A c \in C!PublisherConfs : PP!ConfOK(c)
<1>1. PP!ConfOK([C!Plain EXCEPT !.regexp = TRUE, !.forward = TRUE, !.maxReaders = 1])
  BY PlainFields, PlainValues, FieldsSuffice DEF PP!ConfFields
<1>2. PP!ConfOK([C!Plain EXCEPT !.overridePublisher = FALSE])
  BY PlainFields, PlainValues, FieldsSuffice DEF PP!ConfFields
<1>3. PP!ConfOK([C!Plain EXCEPT !.record = TRUE])
  BY PlainFields, PlainValues, FieldsSuffice DEF PP!ConfFields
<1>4. PP!ConfOK([C!Plain EXCEPT !.record = TRUE, !.recordPath = recB])
  BY PlainFields, PlainValues, FieldsSuffice DEF PP!ConfFields
<1> QED
  BY <1>1, <1>2, <1>3, <1>4 DEF C!PublisherConfs

(* So is what a command publishes to.                                      *)
LEMMA RunOnDemandConfsOK ==
    ASSUME recA # "none", recB # "none" PROVE \A c \in C!RunOnDemandConfs : PP!ConfOK(c)
<1>1. PP!ConfOK([C!Plain EXCEPT !.runOnDemand = TRUE, !.regexp = TRUE, !.maxReaders = 2])
  BY PlainFields, PlainValues, FieldsSuffice DEF PP!ConfFields
<1>2. PP!ConfOK([C!Plain EXCEPT !.runOnDemand = TRUE, !.overridePublisher = FALSE])
  BY PlainFields, PlainValues, FieldsSuffice DEF PP!ConfFields
<1> QED
  BY <1>1, <1>2 DEF C!RunOnDemandConfs

(* So is what is pulled or redirected.                                     *)
LEMMA StaticConfsOK ==
    ASSUME recA # "none", recB # "none" PROVE \A c \in C!StaticConfs : PP!ConfOK(c)
<1>1. PP!ConfOK([C!Plain EXCEPT !.source = "static"])
  BY PlainFields, PlainValues, FieldsSuffice DEF PP!ConfFields
<1>2. PP!ConfOK([C!Plain EXCEPT !.source = "static", !.sourceOnDemand = TRUE, !.regexp = TRUE,
                               !.maxReaders = 1, !.forward = TRUE])
  BY PlainFields, PlainValues, FieldsSuffice DEF PP!ConfFields
<1>3. PP!ConfOK([C!Plain EXCEPT !.source = "static", !.sourceOnDemand = TRUE])
  BY PlainFields, PlainValues, FieldsSuffice DEF PP!ConfFields
<1>4. PP!ConfOK([C!Plain EXCEPT !.source = "redirect", !.regexp = TRUE])
  BY PlainFields, PlainValues, FieldsSuffice DEF PP!ConfFields
<1> QED
  BY <1>1, <1>2, <1>3, <1>4 DEF C!StaticConfs

(* So is what may be pulled from an origin node.                           *)
LEMMA EdgeConfsOK ==
    ASSUME recA # "none", recB # "none" PROVE \A c \in C!EdgeConfs : PP!ConfOK(c)
<1>1. PP!ConfOK([C!Plain EXCEPT !.origNode = TRUE, !.regexp = TRUE])
  BY PlainFields, PlainValues, FieldsSuffice DEF PP!ConfFields
<1>2. PP!ConfOK([C!Plain EXCEPT !.origNode = TRUE, !.overridePublisher = FALSE])
  BY PlainFields, PlainValues, FieldsSuffice DEF PP!ConfFields
<1> QED
  BY <1>1, <1>2 DEF C!EdgeConfs

(* The configurations and the clients are what Path takes them for.        *)
LEMMA PathAssumptions ==
    /\ \A c \in C!AllConfs : PP!ConfOK(c)
    /\ PP!IsFiniteSet({r1, r2, r3})
    /\ {p1, p2} \cap (PP!Handlers \cup {"none", "redirect"}) = {}
    /\ TRUE \in BOOLEAN
<1>1. \A c \in C!AllConfs : PP!ConfOK(c)
  <2>1. recA # "none" /\ recB # "none"
    BY DistinctAssumption
  <2> QED
    BY <2>1, PublisherConfsOK, RunOnDemandConfsOK, StaticConfsOK, EdgeConfsOK DEF C!AllConfs
<1>2. PP!IsFiniteSet({r1, r2, r3})
  <2>1. IsFiniteSet({} \cup {r1} \cup {r2} \cup {r3})
    BY FS_EmptySet, FS_AddElement
  <2>2. {} \cup {r1} \cup {r2} \cup {r3} = {r1, r2, r3}
    OBVIOUS
  <2> QED
    BY <2>1, <2>2 DEF IsFiniteSet, PP!IsFiniteSet
<1> QED
  BY <1>1, <1>2, DistinctAssumption DEF PP!Handlers, P!Handlers

(* Every step of Routing is one of the path, or leaves the path alone.     *)
LEMMA StepsOfPath == [RoutingNext]_routingVars => [P!Next]_P!vars
  BY DEF RoutingNext, routingVars, pathVars, IsManager, IsPath, P!vars, P!sourceVars,
         P!clientVars, P!demandVars

(* A path survives the faults of its sources: whether or not               *)
(* stream.Initialize fails, and when a publisher takes the place of the    *)
(* handler of an origin node, readers, timers and sources agree and a path *)
(* that is done has left nothing behind (path.go:222-267, 524, 754-805).   *)
THEOREM AlwaysSurvivesFaults == RoutingSpec => []SurvivesFaults
<1>1. RoutingInit => P!Init
  BY DEF RoutingInit
<1>2. RoutingSpec => PP!Spec
  BY <1>1, StepsOfPath, SamePath, PTL DEF RoutingSpec, PP!Spec
<1>3. /\ PP!Spec => []PP!ReadersAgree
      /\ PP!Spec => []PP!DemandAgrees
      /\ PP!Spec => []PP!DoneIsClean
  BY PathAssumptions, PP!ReadersAlwaysAgree, PP!DemandAlwaysAgrees, PP!DoneAlwaysClean
<1>4. PP!ReadersAgree /\ PP!DemandAgrees /\ PP!DoneIsClean => SurvivesFaults
  BY SameProperties DEF SurvivesFaults
<1> QED
  BY <1>2, <1>3, <1>4, PTL
=============================================================================
