------------------------- MODULE PathManagerProofs -------------------------
(***************************************************************************)
(* Theorems about PathManager: for every set of names, path objects and    *)
(* clients and every configuration, a path that serves somebody is the one *)
(* the manager has, the sources of two paths of one name do not overlap,   *)
(* and manager, paths and HLS server are of one mind.                      *)
(***************************************************************************)
EXTENDS PathManager, TLAPS

Entries == Names \cup {AllOthers}

(* The configurations there are, and what a path object can be.            *)
Confs == {NoConf} \cup {Entry(m, k) : m \in ConfMaps, k \in Entries}

PathObjects ==
    [doing : Doing, name : Names \cup {None}, conf : Confs, live : BOOLEAN, done : BOOLEAN]

TypeInv ==
    /\ pm \in {"serving", "reloading", "waiting", "done"}
    /\ pathConfs \in ConfMaps /\ newPaths \in ConfMaps
    /\ todo \subseteq Names
    /\ waitedFor \in Paths \cup {None}
    /\ paths \in [Names -> Paths \cup {None}]
    /\ ready \in [Names -> BOOLEAN]
    /\ confName \in [Names -> Entries \cup {None}]
    /\ hlsServer \in BOOLEAN
    /\ hlsReady \subseteq Paths
    /\ pa \in [Paths -> PathObjects]
    /\ reloads \subseteq [path : Paths, conf : Confs]
    /\ client \in [Clients -> [at : {"idle", "routed", "in"}, path : Paths \cup {None}]]
    /\ \A c \in Clients : client[c].at # "idle" => client[c].path \in Paths
    /\ asking \subseteq Paths

(* What the manager has under a name is a path of that name; unless the    *)
(* manager has ended, it is one that is not ending.                        *)
MapInv ==
    \A n \in Names :
        /\ ready[n] => paths[n] # None
        /\ paths[n] # None =>
              /\ pa[paths[n]].name = n
              /\ pa[paths[n]].doing # "none"
              /\ pm # "done" => ~pa[paths[n]].done /\ pa[paths[n]].doing \notin {"teardown", "ended"}

(* Where a path goes that is not in use, and what is left of it.           *)
ObjectInv ==
    /\ \A p \in Paths : pa[p].doing # "none" => pa[p].name \in Names
    /\ \A p \in hlsReady : pa[p].doing # "none"
    /\ \A g \in reloads : pa[g.path].doing # "none" /\ g.conf.fixed = pa[g.path].conf.fixed

(* A path with a source ends only while the manager waits for it, or with  *)
(* the manager.                                                            *)
SourceInv ==
    \A p \in Paths :
        /\ pa[p].doing \notin {"none", "ended"} /\ HasSource(pa[p].conf) =>
              IsCurrent(p) \/ (pm = "waiting" /\ waitedFor = p)
        /\ pa[p].doing = "closePath" /\ ~pa[p].done => ~HasSource(pa[p].conf)
        /\ pa[p].done /\ pa[p].doing \notin {"none", "teardown", "ended"} =>
              pm = "done" \/ (pm = "waiting" /\ waitedFor = p)

(* Nothing takes the place of a path before it has ended, and what a       *)
(* reload has still to look at is there.                                   *)
WaitInv ==
    /\ pm = "waiting" =>
          /\ waitedFor \in Paths
          /\ pa[waitedFor].doing # "none"
          /\ paths[pa[waitedFor].name] = None
    /\ pm \in {"reloading", "waiting"} => \A n \in todo : paths[n] # None

(* The configuration that decides about a name at this point of a reload.  *)
ConfOf(n) == IF pm \in {"reloading", "waiting"} /\ n \notin todo THEN newPaths ELSE pathConfs

(* The record of the manager tells right what cannot be updated.           *)
FixedInv ==
    \A n \in Names :
        paths[n] # None => pa[paths[n]].conf.fixed = Entry(ConfOf(n), confName[n]).fixed

Agreement ==
    /\ MapInv /\ ObjectInv /\ SourceInv /\ WaitInv /\ FixedInv
    /\ ServingIsCurrent /\ ReadyIsTrue /\ HLSKnowsReady

Inv == TypeInv /\ Agreement

-----------------------------------------------------------------------------
(* Configurations.                                                         *)

(* What looking up an entry of a configuration returns.                    *)
LEMMA EntryFacts ==
    ASSUME NEW m \in ConfMaps, NEW k \in Entries
    PROVE  /\ Entry(m, k) \in Confs
           /\ Entry(m, k).name = k
           /\ Entry(m, k).fixed = m[k].fixed
  BY DEF Confs, Entry

(* FindPathConf returns one of the entries of the configuration.           *)
LEMMA FindFacts ==
    ASSUME NEW m \in ConfMaps, NEW n \in Names
    PROVE  /\ FindPathConf(m, n) \in Confs
           /\ FindPathConf(m, n).name \in Entries
           /\ FindPathConf(m, n) = Entry(m, FindPathConf(m, n).name)
  BY EntryFacts DEF FindPathConf, Entries, Entry, Confs

(* createPath: an object is unused before, and then that of one name.      *)
LEMMA NewFacts ==
    ASSUME NEW m \in ConfMaps, NEW names, names \subseteq Names, NEW base,
           base \in [Paths -> PathObjects],
           NEW object \in Assignments(base, names)
    PROVE  /\ object \in [names -> Paths]
           /\ \A n \in names : /\ base[object[n]].doing = "none"
                               /\ WithNew(base, m, object)[object[n]] =
                                    [doing |-> "running", name |-> n,
                                     conf |-> FindPathConf(m, n),
                                     live |-> FALSE, done |-> FALSE]
           /\ \A p \in Paths : (\A n \in names : object[n] # p) =>
                                    WithNew(base, m, object)[p] = base[p]
           /\ WithNew(base, m, object) \in [Paths -> PathObjects]
<1> DEFINE New(n) == [doing |-> "running", name |-> n, conf |-> FindPathConf(m, n),
                      live |-> FALSE, done |-> FALSE]
<1>1. /\ object \in [names -> Paths]
      /\ \A n \in names : base[object[n]].doing = "none"
      /\ \A n, o \in names : object[n] = object[o] => n = o
  BY DEF Assignments
<1>2. \A n \in names : New(n) \in PathObjects
  BY FindFacts DEF PathObjects, Doing
<1>3. ASSUME NEW n \in names
      PROVE  WithNew(base, m, object)[object[n]] = New(n)
  <2>1. DOMAIN object = names /\ object[n] \in Paths
    BY <1>1
  <2>2. (CHOOSE o \in DOMAIN object : object[o] = object[n]) = n
    BY <1>1, <2>1
  <2> QED
    BY <2>1, <2>2 DEF WithNew
<1>4. ASSUME NEW p \in Paths, \A n \in names : object[n] # p
      PROVE  WithNew(base, m, object)[p] = base[p]
  BY <1>1, <1>4 DEF WithNew
<1>5. WithNew(base, m, object) \in [Paths -> PathObjects]
  <2>1. WithNew(base, m, object) = [p \in Paths |-> WithNew(base, m, object)[p]]
    BY DEF WithNew
  <2>2. \A p \in Paths : WithNew(base, m, object)[p] \in PathObjects
    <3>1. \A n \in names : WithNew(base, m, object)[object[n]] \in PathObjects
      BY <1>2, <1>3
    <3>2. \A p \in Paths : base[p] \in PathObjects
      OBVIOUS
    <3> QED
      BY <1>4, <3>1, <3>2
  <2> QED
    BY <2>1, <2>2
<1> QED
  BY <1>1, <1>3, <1>4, <1>5

(* What createPath does to the map and to the path objects.                *)
Created(m, names) ==
    /\ paths' \in [Names -> Paths \cup {None}]
    /\ ready' \in [Names -> BOOLEAN]
    /\ confName' \in [Names -> Entries \cup {None}]
    /\ pa' \in [Paths -> PathObjects]
    /\ \A n \in Names \ names :
          /\ paths'[n] = paths[n] /\ ready'[n] = ready[n] /\ confName'[n] = confName[n]
          /\ paths[n] # None => pa'[paths[n]] = pa[paths[n]]
    /\ \A n \in names :
          /\ paths'[n] \in Paths /\ paths'[n] # None
          /\ ready'[n] = FALSE
          /\ confName'[n] = FindPathConf(m, n).name
          /\ pa[paths'[n]].doing = "none"
          /\ pa'[paths'[n]] = [doing |-> "running", name |-> n, conf |-> FindPathConf(m, n),
                               live |-> FALSE, done |-> FALSE]
    /\ \A p \in Paths : pa[p].doing # "none" => pa'[p] = pa[p]
    /\ \A p \in Paths : pa'[p] = pa[p] \/ (\E n \in names : p = paths'[n])

(* CreatePaths does what Created says, for names that have no path.        *)
LEMMA CreateFacts ==
    ASSUME TypeInv, MapInv, NEW m \in ConfMaps, NEW names, names \subseteq Names,
           \A n \in names : paths[n] = None, CreatePaths(m, names)
    PROVE  Created(m, names)
<1> DEFINE New(n) == [doing |-> "running", name |-> n, conf |-> FindPathConf(m, n),
                      live |-> FALSE, done |-> FALSE]
<1>1. PICK object \in Assignments(pa, names) :
        /\ pa' = WithNew(pa, m, object)
        /\ paths' = [n \in Names |-> IF n \in names THEN object[n] ELSE paths[n]]
        /\ ready' = [n \in Names |-> n \notin names /\ ready[n]]
        /\ confName' = [n \in Names |-> IF n \in names THEN FindPathConf(m, n).name
                                        ELSE confName[n]]
  BY DEF CreatePaths
<1>2. pa \in [Paths -> PathObjects] /\ paths \in [Names -> Paths \cup {None}]
      /\ ready \in [Names -> BOOLEAN] /\ confName \in [Names -> Entries \cup {None}]
  BY DEF TypeInv
<1>3. /\ object \in [names -> Paths]
      /\ \A n \in names : pa[object[n]].doing = "none" /\ pa'[object[n]] = New(n)
      /\ \A p \in Paths : (\A n \in names : object[n] # p) => pa'[p] = pa[p]
      /\ pa' \in [Paths -> PathObjects]
  <2>1. /\ object \in [names -> Paths]
        /\ \A n \in names :
              pa[object[n]].doing = "none" /\ WithNew(pa, m, object)[object[n]] = New(n)
        /\ \A p \in Paths : (\A n \in names : object[n] # p) =>
                                 WithNew(pa, m, object)[p] = pa[p]
        /\ WithNew(pa, m, object) \in [Paths -> PathObjects]
    BY <1>2, NewFacts
  <2> HIDE DEF New
  <2> QED
    BY <1>1, <2>1
<1> HIDE DEF New
<1>4. \A n \in names : paths'[n] = object[n] /\ object[n] \in Paths /\ object[n] # None
  BY <1>1, <1>3, NamesAssumption
<1>5. /\ paths' \in [Names -> Paths \cup {None}]
      /\ ready' \in [Names -> BOOLEAN]
      /\ confName' \in [Names -> Entries \cup {None}]
  BY <1>1, <1>2, <1>4, FindFacts
<1>6. \A p \in Paths : pa[p].doing # "none" => pa'[p] = pa[p]
  BY <1>3
<1>7. ASSUME NEW n \in Names \ names
      PROVE  /\ paths'[n] = paths[n] /\ ready'[n] = ready[n] /\ confName'[n] = confName[n]
             /\ paths[n] # None => pa'[paths[n]] = pa[paths[n]]
  <2>1. paths'[n] = paths[n] /\ ready'[n] = ready[n] /\ confName'[n] = confName[n]
    BY <1>1, <1>2
  <2>2. paths[n] # None => paths[n] \in Paths /\ pa[paths[n]].doing # "none"
    BY <1>2 DEF MapInv
  <2> QED
    BY <1>6, <2>1, <2>2
<1>8. \A n \in names : ready'[n] = FALSE /\ confName'[n] = FindPathConf(m, n).name
  BY <1>1
<1>9. \A p \in Paths : pa'[p] = pa[p] \/ (\E n \in names : p = paths'[n])
  BY <1>3, <1>4
<1>10. \A n \in names : pa[paths'[n]].doing = "none" /\ pa'[paths'[n]] = New(n)
  BY <1>3, <1>4
<1> QED
  BY <1>3, <1>4, <1>5, <1>6, <1>7, <1>8, <1>9, <1>10 DEF Created, New

(* Creating paths keeps manager, paths and HLS server in agreement, if the *)
(* configuration is the one in force when it is done.                      *)
LEMMA CreateKeeps ==
    ASSUME Inv, NEW m \in ConfMaps, NEW names, names \subseteq Names,
           \A n \in names : paths[n] = None, CreatePaths(m, names),
           pm \in {"serving", "reloading"}, pm' = "serving", pathConfs' = m,
           \A n \in Names : ConfOf(n) = m,
           UNCHANGED <<waitedFor, hlsServer, hlsReady, reloads>>
    PROVE  Agreement'
<1> DEFINE IsNew(q, n) == /\ q.doing = "running" /\ q.name = n /\ q.conf = FindPathConf(m, n)
                          /\ q.live = FALSE /\ ~q.done
<1>1. /\ TypeInv /\ MapInv /\ ObjectInv /\ SourceInv /\ WaitInv /\ FixedInv
      /\ ServingIsCurrent /\ ReadyIsTrue /\ HLSKnowsReady
  BY DEF Inv, Agreement
<1>2. pa \in [Paths -> PathObjects] /\ paths \in [Names -> Paths \cup {None}]
      /\ hlsReady \subseteq Paths /\ reloads \subseteq [path : Paths, conf : Confs]
  BY <1>1 DEF TypeInv
<1>3. Created(m, names)
  BY <1>1, CreateFacts
<1>4. ASSUME NEW n \in Names, n \notin names
      PROVE  /\ paths'[n] = paths[n] /\ ready'[n] = ready[n] /\ confName'[n] = confName[n]
             /\ paths[n] # None => pa'[paths[n]] = pa[paths[n]]
  BY <1>3, <1>4 DEF Created
<1>5. ASSUME NEW n \in names
      PROVE  /\ paths'[n] \in Paths /\ paths'[n] # None /\ ready'[n] = FALSE
             /\ confName'[n] = FindPathConf(m, n).name
             /\ pa[paths'[n]].doing = "none"
             /\ IsNew(pa'[paths'[n]], n)
  <2>1. pa'[paths'[n]] = [doing |-> "running", name |-> n, conf |-> FindPathConf(m, n),
                          live |-> FALSE, done |-> FALSE]
    BY <1>3 DEF Created
  <2>2. IsNew(pa'[paths'[n]], n)
    BY <2>1
  <2> QED
    BY <1>3, <2>2 DEF Created
<1>6. \A p \in Paths : pa[p].doing # "none" => pa'[p] = pa[p]
  BY <1>3 DEF Created
<1>7. ASSUME NEW p \in Paths
      PROVE  \/ pa'[p] = pa[p] /\ (pa[p].doing # "none" /\ IsCurrent(p) => IsCurrent(p)')
             \/ \E n \in names : IsNew(pa'[p], n) /\ IsCurrent(p)'
  <2>1. CASE \E n \in names : p = paths'[n]
    <3>1. PICK n \in names : p = paths'[n]
      BY <2>1
    <3>2. IsNew(pa'[p], n)
      BY <1>5, <3>1
    <3>3. IsCurrent(p)'
      BY <3>1, <3>2 DEF IsCurrent
    <3> QED
      BY <3>2, <3>3
  <2>2. CASE pa'[p] = pa[p]
    <3> SUFFICES ASSUME pa[p].doing # "none", IsCurrent(p)
                 PROVE  IsCurrent(p)'
      BY <2>2
    <3>1. pa[p].name \in Names /\ pa[p].name \notin names
      BY <1>1, NamesAssumption DEF ObjectInv, IsCurrent
    <3> QED
      BY <1>4, <2>2, <3>1 DEF IsCurrent
  <2> QED
    BY <1>3, <2>1, <2>2 DEF Created
<1>8. MapInv'
  <2> SUFFICES ASSUME NEW n \in Names
               PROVE  MapInv!(n)'
    BY DEF MapInv
  <2>1. CASE n \in names
    BY <1>5, <2>1
  <2>2. CASE n \notin names
    BY <1>1, <1>4, <2>2 DEF MapInv
  <2> QED
    BY <2>1, <2>2
<1>9. ObjectInv'
  <2>1. \A p \in Paths : pa'[p].doing # "none" => pa'[p].name \in Names
    BY <1>1, <1>7 DEF ObjectInv
  <2>2. \A p \in hlsReady' : pa'[p].doing # "none"
    BY <1>1, <1>2, <1>6 DEF ObjectInv
  <2>3. \A g \in reloads' : pa'[g.path].doing # "none" /\ g.conf.fixed = pa'[g.path].conf.fixed
    BY <1>1, <1>2, <1>6 DEF ObjectInv
  <2> QED
    BY <2>1, <2>2, <2>3 DEF ObjectInv
<1>10. SourceInv'
  <2> SUFFICES ASSUME NEW p \in Paths
               PROVE  SourceInv!(p)'
    BY DEF SourceInv
  <2>1. CASE \E n \in names : IsNew(pa'[p], n) /\ IsCurrent(p)'
    BY <2>1
  <2>2. CASE pa'[p] = pa[p] /\ (pa[p].doing # "none" /\ IsCurrent(p) => IsCurrent(p)')
    BY <1>1, <2>2 DEF SourceInv
  <2> QED
    BY <1>7, <2>1, <2>2
<1>11. WaitInv'
  BY DEF WaitInv
<1>12. FixedInv'
  <2> SUFFICES ASSUME NEW n \in Names, paths'[n] # None
               PROVE  pa'[paths'[n]].conf.fixed = Entry(m, confName'[n]).fixed
    BY DEF FixedInv, ConfOf
  <2>1. CASE n \in names
    <3>1. /\ pa'[paths'[n]].conf = FindPathConf(m, n)
          /\ confName'[n] = FindPathConf(m, n).name
      BY <1>5, <2>1
    <3> QED
      BY <3>1, FindFacts
  <2>2. CASE n \notin names
    BY <1>1, <1>4, <2>2 DEF FixedInv
  <2> QED
    BY <2>1, <2>2
<1>13. ServingIsCurrent'
  <2> SUFFICES ASSUME NEW p \in Paths, pa'[p].doing \notin {"none", "teardown", "ended"},
                      ~pa'[p].done
               PROVE  IsCurrent(p)'
    BY DEF ServingIsCurrent
  <2> QED
    BY <1>1, <1>7 DEF ServingIsCurrent
<1>14. ReadyIsTrue'
  <2> SUFFICES ASSUME NEW n \in Names
               PROVE  ReadyIsTrue!(n)'
    BY DEF ReadyIsTrue
  <2>1. CASE n \in names
    BY <1>5, <2>1
  <2>2. CASE n \notin names
    BY <1>1, <1>4, <2>2 DEF ReadyIsTrue
  <2> QED
    BY <2>1, <2>2
<1>15. HLSKnowsReady'
  <2> SUFFICES ASSUME hlsServer, NEW n \in Names, paths'[n] # None
               PROVE  ready'[n] <=> paths'[n] \in hlsReady
    BY DEF HLSKnowsReady
  <2>1. CASE n \in names
    BY <1>1, <1>5, <2>1 DEF ObjectInv
  <2>2. CASE n \notin names
    BY <1>1, <1>4, <2>2 DEF HLSKnowsReady
  <2> QED
    BY <2>1, <2>2
<1> QED
  BY <1>8, <1>9, <1>10, <1>11, <1>12, <1>13, <1>14, <1>15 DEF Agreement

-----------------------------------------------------------------------------
(* A step of the goroutine of one path of which the manager learns nothing *)
(* yet: the path stays what it is, and ends only if it was told to.        *)
PathSteps(p) ==
    /\ UNCHANGED <<managerVars, mapVars, hlsServer, hlsReady, reloads>>
    /\ \A q \in Paths : q # p => pa'[q] = pa[q]
    /\ pa'[p].name = pa[p].name /\ pa'[p].conf = pa[p].conf /\ pa'[p].done = pa[p].done
    /\ pa[p].doing \notin {"none", "ended"} /\ pa'[p].doing # "none"
    /\ pa[p].doing = "teardown" => pa'[p].doing \in {"teardown", "ended"}
    /\ pa'[p].doing \in {"teardown", "ended"} => pa[p].doing = "teardown" \/ pa[p].done
    /\ pa'[p].doing = "closePath" /\ ~pa[p].done => ~HasSource(pa[p].conf)
    /\ pa'[p].doing = "running" /\ ~pa[p].done =>
          pa[p].doing = "running" /\ pa'[p].live = pa[p].live

(* The steps of a path that change only what it is doing and whether it is *)
(* live keep the agreement.                                                *)
LEMMA PathKeeps ==
    ASSUME Inv, NEW p \in Paths, PathSteps(p)
    PROVE  Agreement'
<1>1. /\ TypeInv /\ MapInv /\ ObjectInv /\ SourceInv /\ WaitInv /\ FixedInv
      /\ ServingIsCurrent /\ ReadyIsTrue /\ HLSKnowsReady
  BY DEF Inv, Agreement
<1>2. /\ paths \in [Names -> Paths \cup {None}]
      /\ hlsReady \subseteq Paths /\ reloads \subseteq [path : Paths, conf : Confs]
  BY <1>1 DEF TypeInv
<1>3. /\ pm' = pm /\ waitedFor' = waitedFor /\ paths' = paths /\ ready' = ready
      /\ confName' = confName /\ hlsServer' = hlsServer /\ hlsReady' = hlsReady
      /\ reloads' = reloads /\ todo' = todo /\ newPaths' = newPaths /\ pathConfs' = pathConfs
  BY DEF PathSteps, managerVars, mapVars
<1>4. \A q \in Paths :
        /\ pa'[q].name = pa[q].name /\ pa'[q].conf = pa[q].conf /\ pa'[q].done = pa[q].done
        /\ pa'[q].doing # "none" <=> pa[q].doing # "none"
        /\ pa'[q].doing \notin {"none", "ended"} => pa[q].doing \notin {"none", "ended"}
        /\ pa'[q].doing \notin {"none", "teardown", "ended"} =>
              pa[q].doing \notin {"none", "teardown", "ended"}
        /\ IsCurrent(q)' <=> IsCurrent(q)
  BY <1>3 DEF PathSteps, IsCurrent
<1>5. MapInv'
  <2> SUFFICES ASSUME NEW n \in Names
               PROVE  MapInv!(n)'
    BY DEF MapInv
  <2>1. paths[n] # None /\ pm # "done" => pa'[paths[n]].doing \notin {"teardown", "ended"}
    BY <1>1, <1>2 DEF MapInv, PathSteps
  <2> QED
    BY <1>1, <1>2, <1>3, <1>4, <2>1 DEF MapInv
<1>6. ObjectInv'
  BY <1>1, <1>2, <1>3, <1>4 DEF ObjectInv
<1>7. SourceInv'
  <2> SUFFICES ASSUME NEW q \in Paths
               PROVE  SourceInv!(q)'
    BY DEF SourceInv
  <2>1. pa'[q].doing = "closePath" /\ ~pa'[q].done => ~HasSource(pa'[q].conf)
    BY <1>1, <1>4 DEF SourceInv, PathSteps
  <2> QED
    BY <1>1, <1>3, <1>4, <2>1 DEF SourceInv
<1>8. WaitInv'
  BY <1>1, <1>3, <1>4 DEF WaitInv
<1>9. FixedInv'
  BY <1>1, <1>2, <1>3, <1>4 DEF FixedInv, ConfOf
<1>10. ServingIsCurrent'
  BY <1>1, <1>4 DEF ServingIsCurrent
<1>11. ReadyIsTrue'
  <2> SUFFICES ASSUME NEW n \in Names, paths[n] # None, pa'[paths[n]].doing = "running",
                      ~pa'[paths[n]].done
               PROVE  ready[n] = pa'[paths[n]].live
    BY <1>3 DEF ReadyIsTrue
  <2>1. paths[n] \in Paths
    BY <1>2
  <2>2. /\ pa[paths[n]].doing = "running" /\ ~pa[paths[n]].done
        /\ pa'[paths[n]].live = pa[paths[n]].live
    BY <1>4, <2>1 DEF PathSteps
  <2> QED
    BY <1>1, <2>2 DEF ReadyIsTrue
<1>12. HLSKnowsReady'
  BY <1>1, <1>3 DEF HLSKnowsReady
<1> QED
  BY <1>5, <1>6, <1>7, <1>8, <1>9, <1>10, <1>11, <1>12 DEF Agreement

(* What an assignment to one path object does.                             *)
Sets(p, doing, live) ==
    /\ pa' \in [Paths -> PathObjects]
    /\ \A q \in Paths : q # p => pa'[q] = pa[q]
    /\ pa'[p].name = pa[p].name /\ pa'[p].conf = pa[p].conf /\ pa'[p].done = pa[p].done
    /\ pa'[p].doing = doing /\ pa'[p].live = live

(* Do sets what a path is doing, and nothing else.                         *)
LEMMA DoFacts ==
    ASSUME pa \in [Paths -> PathObjects], NEW p \in Paths, NEW doing \in Doing, Do(p, doing)
    PROVE  Sets(p, doing, pa[p].live)
  BY DEF Do, Sets, PathObjects

(* A path that resumes goes back to its select, or to its close timer's    *)
(* call if it has no source.                                               *)
LEMMA ResumeFacts ==
    ASSUME pa \in [Paths -> PathObjects], NEW p \in Paths, NEW users, Resume(p, users)
    PROVE  \/ Sets(p, "running", pa[p].live)
           \/ Sets(p, "closePath", pa[p].live) /\ ~HasSource(pa[p].conf)
  BY DoFacts DEF Resume, ShouldClose, Doing

(* Becoming live, or ceasing to be, changes nothing else of a path.        *)
LEMMA LiveFacts ==
    ASSUME pa \in [Paths -> PathObjects], NEW p \in Paths, NEW doing \in Doing,
           NEW live \in BOOLEAN, pa' = [pa EXCEPT ![p].live = live, ![p].doing = doing]
    PROVE  Sets(p, doing, live)
  BY DEF Sets, PathObjects

(* What an assignment to one client does, or the kick of some.             *)
ClientsOK ==
    /\ client \in [Clients -> [at : {"idle", "routed", "in"}, path : Paths \cup {None}]]
    /\ \A c \in Clients : client[c].at # "idle" => client[c].path \in Paths

(* A client that moves, or is let go, still refers to a path.              *)
LEMMA ClientFacts ==
    ASSUME ClientsOK, NEW c \in Clients,
           \/ client' = client
           \/ client' = [client EXCEPT ![c] = [at |-> "idle", path |-> None]]
           \/ client[c].at # "idle" /\ client' = [client EXCEPT ![c].at = "in"]
    PROVE  ClientsOK'
  BY DEF ClientsOK

(* Dropping clients leaves them with values of their kind.                 *)
LEMMA KickFacts ==
    ASSUME ClientsOK, NEW p, Kick(p)
    PROVE  ClientsOK'
  BY DEF ClientsOK, Kick

(* A path that takes up something in its select keeps the agreement.       *)
LEMMA SelectKeeps ==
    ASSUME Inv, NEW p \in Paths, pa[p].doing = "running",
           UNCHANGED <<managerVars, mapVars, hlsServer, hlsReady, reloads, asking>>,
           \/ pa' = pa
           \/ \E users : Resume(p, users)
           \/ \E live \in BOOLEAN, doing \in {"tellReady", "tellNotReady"} :
                 pa' = [pa EXCEPT ![p].live = live, ![p].doing = doing]
           \/ pa[p].done /\ Do(p, "closePath"),
           ClientsOK'
    PROVE  Inv'
<1>1. TypeInv
  BY DEF Inv
<1>2. pa \in [Paths -> PathObjects] /\ "closePath" \in Doing
      /\ "tellReady" \in Doing /\ "tellNotReady" \in Doing
  BY <1>1 DEF TypeInv, Doing
<1>3. \/ pa' = pa
      \/ Sets(p, "running", pa[p].live)
      \/ Sets(p, "closePath", pa[p].live) /\ (~HasSource(pa[p].conf) \/ pa[p].done)
      \/ \E live \in BOOLEAN, doing \in {"tellReady", "tellNotReady"} : Sets(p, doing, live)
  BY <1>2, ResumeFacts, DoFacts, LiveFacts
<1>4. PathSteps(p)
  BY <1>3 DEF PathSteps, Sets
<1>5. pa' \in [Paths -> PathObjects]
  BY <1>2, <1>3 DEF Sets
<1>6. TypeInv'
  BY <1>1, <1>5 DEF TypeInv, ClientsOK, managerVars, mapVars
<1> QED
  BY <1>4, <1>6, PathKeeps DEF Inv

(* Steps that touch neither manager, map nor paths keep the agreement.     *)
LEMMA OthersKeep ==
    ASSUME Inv, UNCHANGED <<managerVars, mapVars, hlsServer, hlsReady, reloads, pa>>,
           ClientsOK', asking' \subseteq Paths
    PROVE  Inv'
  BY DEF Inv, Agreement, TypeInv, ClientsOK, MapInv, ObjectInv, SourceInv, WaitInv, FixedInv,
         ConfOf, ServingIsCurrent, ReadyIsTrue, HLSKnowsReady, IsCurrent, managerVars, mapVars

(* No step of a client disturbs the agreement.                             *)
LEMMA ClientKeeps ==
    ASSUME Inv, NEW c \in Clients,
           \/ Terminated(c) \/ PublisherEnters(c) \/ ReaderEnters(c) \/ Refused(c)
           \/ ReaderLeaves(c) \/ PublisherLeaves(c)
    PROVE  Inv'
<1>1. TypeInv /\ ClientsOK
  BY DEF Inv, TypeInv, ClientsOK
<1> DEFINE p == client[c].path
<1>2. client[c].at # "idle" => p \in Paths
  BY <1>1 DEF ClientsOK
<1>3. CASE Terminated(c)
  <2>1. ClientsOK'
    BY <1>1, <1>3, ClientFacts DEF Terminated
  <2> QED
    BY <1>1, <1>3, <2>1, OthersKeep DEF Terminated, TypeInv
<1>4. CASE PublisherEnters(c)
  <2>1. ClientsOK'
    BY <1>1, <1>4, ClientFacts DEF PublisherEnters
  <2> QED
    BY <1>2, <1>4, <2>1, SelectKeeps DEF PublisherEnters
<1>5. CASE ReaderEnters(c)
  <2>1. ClientsOK'
    BY <1>1, <1>5, ClientFacts DEF ReaderEnters
  <2>2. /\ p \in Paths /\ pa[p].doing = "running" /\ Resume(p, In(p) \cup {c})
        /\ UNCHANGED <<managerVars, mapVars, hlsServer, hlsReady, reloads, asking>>
    BY <1>2, <1>5 DEF ReaderEnters
  <2> QED
    BY <2>1, <2>2, SelectKeeps
<1>6. CASE Refused(c)
  <2>1. ClientsOK'
    BY <1>1, <1>6, ClientFacts DEF Refused
  <2>2. /\ p \in Paths /\ pa[p].doing = "running" /\ (pa' = pa \/ Resume(p, In(p)))
        /\ UNCHANGED <<managerVars, mapVars, hlsServer, hlsReady, reloads, asking>>
    BY <1>2, <1>6 DEF Refused
  <2> QED
    BY <2>1, <2>2, SelectKeeps
<1>7. CASE ReaderLeaves(c)
  <2>1. ClientsOK'
    BY <1>1, <1>7, ClientFacts DEF ReaderLeaves
  <2>2. /\ p \in Paths /\ pa[p].doing = "running" /\ Resume(p, In(p) \ {c})
        /\ UNCHANGED <<managerVars, mapVars, hlsServer, hlsReady, reloads, asking>>
    BY <1>2, <1>7 DEF ReaderLeaves
  <2> QED
    BY <2>1, <2>2, SelectKeeps
<1>8. CASE PublisherLeaves(c)
  <2>1. ClientsOK'
    BY <1>1, <1>8, ClientFacts DEF PublisherLeaves
  <2> QED
    BY <1>2, <1>8, <2>1, SelectKeeps DEF PublisherLeaves
<1> QED
  BY <1>3, <1>4, <1>5, <1>6, <1>7, <1>8

(* No step of a source disturbs the agreement.                             *)
LEMMA SourceKeeps ==
    ASSUME Inv, NEW p \in Paths,
           \/ SourceReady(p) \/ SourceNotReady(p) \/ SourceAsks(p) \/ SourceIsAnswered(p)
    PROVE  Inv'
<1>1. TypeInv /\ ClientsOK
  BY DEF Inv, TypeInv, ClientsOK
<1>2. CASE SourceReady(p) \/ SourceNotReady(p)
  <2>1. ClientsOK'
    BY <1>1, <1>2 DEF SourceReady, SourceNotReady, ClientsOK
  <2> QED
    BY <1>2, <2>1, SelectKeeps DEF SourceReady, SourceNotReady
<1>3. CASE SourceAsks(p) \/ SourceIsAnswered(p)
  <2>1. ClientsOK' /\ asking' \subseteq Paths
    BY <1>1, <1>3 DEF SourceAsks, SourceIsAnswered, ClientsOK, TypeInv
  <2> QED
    BY <1>3, <2>1, OthersKeep DEF SourceAsks, SourceIsAnswered
<1> QED
  BY <1>2, <1>3

(* A path that gives up telling the manager, or ends.                      *)
LEMMA EndingKeeps ==
    ASSUME Inv, NEW p \in Paths, Ending(p)
    PROVE  Inv'
<1>1. TypeInv /\ ClientsOK /\ pa \in [Paths -> PathObjects]
  BY DEF Inv, TypeInv, ClientsOK
<1>2. /\ UNCHANGED <<managerVars, mapVars, hlsServer, hlsReady, reloads, asking>>
      /\ pa[p].doing \in {"tellReady", "tellNotReady", "closePath", "running"} => pa[p].done
      /\ ClientsOK'
      /\ \/ /\ pa[p].doing # "teardown" /\ pa[p].doing \notin {"none", "ended"}
            /\ \E doing \in {"running", "closePath", "teardown"} : Sets(p, doing, pa[p].live)
         \/ pa[p].doing = "teardown" /\ Sets(p, "ended", FALSE)
  <2>1. CASE GiveUpTelling(p)
    <3>1. ClientsOK'
      BY <1>1, <2>1, KickFacts DEF GiveUpTelling, GoOn, ClientsOK
    <3>2. \E users : Resume(p, users)
      BY <2>1 DEF GiveUpTelling, GoOn
    <3> QED
      BY <1>1, <2>1, <3>1, <3>2, ResumeFacts DEF GiveUpTelling
  <2>2. CASE GiveUpClosing(p)
    <3>1. ClientsOK'
      BY <1>1, <2>2 DEF GiveUpClosing, ClientsOK
    <3> QED
      BY <1>1, <2>2, <3>1, DoFacts DEF GiveUpClosing, Doing
  <2>3. CASE SeeContextDone(p)
    <3>1. ClientsOK'
      BY <1>1, <2>3 DEF SeeContextDone, ClientsOK
    <3> QED
      BY <1>1, <2>3, <3>1, DoFacts DEF SeeContextDone, Doing
  <2>4. CASE Teardown(p)
    <3>1. ClientsOK'
      BY <1>1, <2>4, KickFacts DEF Teardown
    <3>2. Sets(p, "ended", FALSE)
      BY <1>1, <2>4 DEF Teardown, Sets, PathObjects, Doing
    <3> QED
      BY <2>4, <3>1, <3>2 DEF Teardown
  <2> QED
    BY <2>1, <2>2, <2>3, <2>4 DEF Ending
<1>3. PathSteps(p)
  BY <1>1, <1>2 DEF PathSteps, Sets, PathObjects, Doing
<1>4. pa' \in [Paths -> PathObjects]
  BY <1>2 DEF Sets
<1>5. TypeInv'
  BY <1>1, <1>2, <1>4 DEF TypeInv, ClientsOK, managerVars, mapVars
<1> QED
  BY <1>3, <1>5, PathKeeps DEF Inv

(* The object of a name is of that name, so that a path in the map is      *)
(* there once.                                                             *)
LEMMA MapFacts ==
    ASSUME TypeInv, MapInv, NEW n \in Names, paths[n] # None
    PROVE  /\ paths[n] \in Paths /\ pa[paths[n]].name = n /\ IsCurrent(paths[n])
           /\ \A o \in Names : paths[o] = paths[n] => o = n
  BY DEF TypeInv, MapInv, IsCurrent

(* What a path tells the manager about being ready keeps the agreement.    *)
LEMMA TellReadyKeeps ==
    ASSUME Inv, NEW p \in Paths, TellReady(p)
    PROVE  Inv'
<1>1. TypeInv /\ ClientsOK /\ pa \in [Paths -> PathObjects]
      /\ MapInv /\ ObjectInv /\ SourceInv /\ WaitInv /\ FixedInv
      /\ ServingIsCurrent /\ ReadyIsTrue /\ HLSKnowsReady
  BY DEF Inv, Agreement, TypeInv, ClientsOK
<1>2. ClientsOK'
  <2>1. Kick(p) \/ UNCHANGED client
    BY DEF TellReady, GoOn
  <2> QED
    BY <1>1, <2>1, KickFacts DEF ClientsOK
<1>3. /\ pa[p].doing \in {"tellReady", "tellNotReady"}
      /\ pm = "serving"
      /\ UNCHANGED <<managerVars, paths, confName, hlsServer, reloads, asking>>
  BY DEF TellReady
<1>4. /\ pm' = pm /\ waitedFor' = waitedFor /\ paths' = paths /\ todo' = todo
      /\ confName' = confName /\ hlsServer' = hlsServer /\ reloads' = reloads
      /\ newPaths' = newPaths /\ pathConfs' = pathConfs
  BY <1>3 DEF managerVars
<1>5. \/ Sets(p, "running", pa[p].live)
      \/ Sets(p, "closePath", pa[p].live) /\ ~HasSource(pa[p].conf)
  <2>1. \E users : Resume(p, users)
    BY DEF TellReady, GoOn
  <2> QED
    BY <1>1, <2>1, ResumeFacts
<1>6. \A q \in Paths :
        /\ pa'[q].name = pa[q].name /\ pa'[q].conf = pa[q].conf /\ pa'[q].done = pa[q].done
        /\ pa'[q].live = pa[q].live
        /\ pa'[q].doing \in {"none", "teardown", "ended"}
              <=> pa[q].doing \in {"none", "teardown", "ended"}
        /\ q # p => pa'[q] = pa[q]
        /\ IsCurrent(q)' <=> IsCurrent(q)
  BY <1>3, <1>4, <1>5 DEF Sets, IsCurrent
<1>7. \A q \in Paths : /\ pa'[q].doing = "none" <=> pa[q].doing = "none"
                       /\ pa'[q].doing = "ended" <=> pa[q].doing = "ended"
                       /\ pa'[q].doing = "teardown" <=> pa[q].doing = "teardown"
  BY <1>3, <1>5, <1>6 DEF Sets
<1>8. IF IsCurrent(p)
      THEN /\ ready' = [ready EXCEPT ![pa[p].name] = pa[p].live]
           /\ hlsReady' = IF ~hlsServer THEN hlsReady
                          ELSE IF pa[p].live THEN hlsReady \cup {p} ELSE hlsReady \ {p}
      ELSE UNCHANGED <<ready, hlsReady>>
  BY DEF TellReady
<1>9. pa[p].name \in Names /\ pa[p].live \in BOOLEAN /\ pa[p].doing # "none"
  BY <1>1, <1>3 DEF ObjectInv, PathObjects
<1>10. /\ paths \in [Names -> Paths \cup {None}] /\ ready \in [Names -> BOOLEAN]
       /\ hlsReady \subseteq Paths /\ reloads \subseteq [path : Paths, conf : Confs]
  BY <1>1 DEF TypeInv
<1>11. TypeInv'
  <2>1. ready' \in [Names -> BOOLEAN] /\ hlsReady' \subseteq Paths
    BY <1>8, <1>9, <1>10
  <2>2. pa' \in [Paths -> PathObjects]
    BY <1>5 DEF Sets
  <2> QED
    BY <1>1, <1>2, <1>3, <1>4, <2>1, <2>2 DEF TypeInv, ClientsOK
<1>12. \A n \in Names : paths[n] = p => n = pa[p].name /\ IsCurrent(p)
  BY <1>1, NamesAssumption, MapFacts
<1>13. \A n \in Names : paths[n] # p => ready'[n] = ready[n] \/ (n = pa[p].name /\ paths[n] = p)
  BY <1>8, <1>10, <1>9 DEF IsCurrent
<1>14. MapInv'
  <2> SUFFICES ASSUME NEW n \in Names
               PROVE  MapInv!(n)'
    BY DEF MapInv
  <2>1. ready'[n] => paths[n] # None
    BY <1>1, <1>13, NamesAssumption DEF MapInv
  <2> QED
    BY <1>1, <1>4, <1>6, <1>7, <1>10, <2>1 DEF MapInv
<1>15. ObjectInv'
  BY <1>1, <1>4, <1>6, <1>7, <1>8, <1>9, <1>10 DEF ObjectInv
<1>16. SourceInv'
  <2> SUFFICES ASSUME NEW q \in Paths
               PROVE  SourceInv!(q)'
    BY DEF SourceInv
  <2>1. pa'[q].doing = "closePath" /\ ~pa'[q].done => ~HasSource(pa'[q].conf)
    BY <1>1, <1>5, <1>6 DEF SourceInv, Sets
  <2> QED
    BY <1>1, <1>4, <1>6, <1>7, <2>1 DEF SourceInv
<1>17. WaitInv'
  BY <1>1, <1>4, <1>6, <1>7 DEF WaitInv
<1>18. FixedInv'
  BY <1>1, <1>4, <1>6, <1>10 DEF FixedInv, ConfOf
<1>19. ServingIsCurrent'
  BY <1>1, <1>6 DEF ServingIsCurrent
<1>20. ReadyIsTrue'
  <2> SUFFICES ASSUME NEW n \in Names, paths[n] # None, pa'[paths[n]].doing = "running",
                      ~pa'[paths[n]].done
               PROVE  ready'[n] = pa'[paths[n]].live
    BY <1>4 DEF ReadyIsTrue
  <2>1. CASE paths[n] = p
    BY <1>6, <1>8, <1>10, <1>12, <2>1
  <2>2. CASE paths[n] # p
    BY <1>1, <1>6, <1>10, <1>13, <2>2 DEF ReadyIsTrue
  <2> QED
    BY <2>1, <2>2
<1>21. HLSKnowsReady'
  <2> SUFFICES ASSUME hlsServer, NEW n \in Names, paths[n] # None
               PROVE  ready'[n] <=> paths[n] \in hlsReady'
    BY <1>4 DEF HLSKnowsReady
  <2>1. CASE paths[n] = p
    BY <1>8, <1>9, <1>10, <1>12, <2>1
  <2>2. CASE paths[n] # p
    <3>1. ready'[n] = ready[n] /\ (paths[n] \in hlsReady' <=> paths[n] \in hlsReady)
      BY <1>8, <1>13, <2>2
    <3> QED
      BY <1>1, <3>1 DEF HLSKnowsReady
  <2> QED
    BY <2>1, <2>2
<1> QED
  BY <1>11, <1>14, <1>15, <1>16, <1>17, <1>18, <1>19, <1>20, <1>21 DEF Inv, Agreement

(* RemovePath, for TellClosed and for RemoveAndClosePath: the path that is *)
(* taken out of the map is told to end.                                    *)
LEMMA RemoveKeeps ==
    ASSUME TypeInv, MapInv, ObjectInv, FixedInv, ServingIsCurrent, ReadyIsTrue, HLSKnowsReady,
           NEW p \in Paths, IsCurrent(p), pa[p].doing # "none",
           RemovePath(pa[p].name), UNCHANGED <<hlsServer, hlsReady, reloads>>,
           \A n \in Names : n # pa[p].name => ConfOf(n)' = ConfOf(n),
           pm # "done",
           pa' \in [Paths -> PathObjects],
           \A q \in Paths : q # p => pa'[q] = pa[q],
           /\ pa'[p].name = pa[p].name /\ pa'[p].conf = pa[p].conf /\ pa'[p].done
           /\ pa'[p].doing # "none"
    PROVE  /\ MapInv' /\ ObjectInv' /\ FixedInv'
           /\ ServingIsCurrent' /\ ReadyIsTrue' /\ HLSKnowsReady'
           /\ \A q \in Paths : q # p /\ IsCurrent(q) /\ pa[q].doing # "none" => IsCurrent(q)'
           /\ paths'[pa[p].name] = None
           /\ \A n \in Names : n # pa[p].name => paths'[n] = paths[n]
           /\ paths' \in [Names -> Paths \cup {None}] /\ ready' \in [Names -> BOOLEAN]
           /\ confName' \in [Names -> Entries \cup {None}]
<1> DEFINE k == pa[p].name
<1>1. k \in Names /\ paths[k] = p
  BY DEF ObjectInv, IsCurrent
<1>2. /\ paths \in [Names -> Paths \cup {None}] /\ ready \in [Names -> BOOLEAN]
      /\ confName \in [Names -> Entries \cup {None}]
      /\ hlsReady \subseteq Paths /\ reloads \subseteq [path : Paths, conf : Confs]
  BY DEF TypeInv
<1>3. /\ paths' = [paths EXCEPT ![k] = None] /\ ready' = [ready EXCEPT ![k] = FALSE]
      /\ confName' = [confName EXCEPT ![k] = None]
  BY DEF RemovePath
<1> HIDE DEF k
<1>4. /\ paths' \in [Names -> Paths \cup {None}] /\ ready' \in [Names -> BOOLEAN]
      /\ confName' \in [Names -> Entries \cup {None}]
  BY <1>2, <1>3
<1>5. paths'[k] = None /\ ready'[k] = FALSE
  BY <1>1, <1>2, <1>3
<1>6. ASSUME NEW n \in Names, n # k
      PROVE  /\ paths'[n] = paths[n] /\ ready'[n] = ready[n] /\ confName'[n] = confName[n]
             /\ paths[n] # None => pa'[paths[n]] = pa[paths[n]]
  <2>1. paths'[n] = paths[n] /\ ready'[n] = ready[n] /\ confName'[n] = confName[n]
    BY <1>2, <1>3, <1>6
  <2>2. paths[n] # None => paths[n] # p
    BY <1>6, MapFacts DEF k
  <2> QED
    BY <1>2, <2>1, <2>2
<1>7. \A q \in Paths : q # p /\ IsCurrent(q) /\ pa[q].doing # "none" => IsCurrent(q)'
  <2> SUFFICES ASSUME NEW q \in Paths, q # p, IsCurrent(q), pa[q].doing # "none"
               PROVE  IsCurrent(q)'
    OBVIOUS
  <2>1. pa[q].name \in Names /\ pa[q].name # k
    BY <1>1 DEF ObjectInv, IsCurrent
  <2> QED
    BY <1>6, <2>1 DEF IsCurrent
<1>8. MapInv'
  <2> SUFFICES ASSUME NEW n \in Names
               PROVE  MapInv!(n)'
    BY DEF MapInv
  <2>1. CASE n = k
    BY <1>5, <2>1
  <2>2. CASE n # k
    BY <1>6, <2>2 DEF MapInv
  <2> QED
    BY <2>1, <2>2
<1>9. ObjectInv'
  BY <1>1, <1>2 DEF ObjectInv, k
<1>10. FixedInv'
  <2> SUFFICES ASSUME NEW n \in Names, paths'[n] # None
               PROVE  pa'[paths'[n]].conf.fixed = Entry(ConfOf(n)', confName'[n]).fixed
    BY DEF FixedInv
  <2>1. n # k
    BY <1>5
  <2> QED
    BY <1>6, <2>1 DEF FixedInv, k
<1>11. ServingIsCurrent'
  <2> SUFFICES ASSUME NEW q \in Paths, pa'[q].doing \notin {"none", "teardown", "ended"},
                      ~pa'[q].done
               PROVE  IsCurrent(q)'
    BY DEF ServingIsCurrent
  <2>1. q # p
    OBVIOUS
  <2> QED
    BY <1>7, <2>1 DEF ServingIsCurrent
<1>12. ReadyIsTrue'
  <2> SUFFICES ASSUME NEW n \in Names
               PROVE  ReadyIsTrue!(n)'
    BY DEF ReadyIsTrue
  <2>1. CASE n = k
    BY <1>5, <2>1
  <2>2. CASE n # k
    BY <1>6, <2>2 DEF ReadyIsTrue
  <2> QED
    BY <2>1, <2>2
<1>13. HLSKnowsReady'
  <2> SUFFICES ASSUME hlsServer, NEW n \in Names, paths'[n] # None
               PROVE  ready'[n] <=> paths'[n] \in hlsReady
    BY DEF HLSKnowsReady
  <2>1. n # k
    BY <1>5
  <2> QED
    BY <1>6, <2>1 DEF HLSKnowsReady
<1> QED
  BY <1>4, <1>5, <1>6, <1>7, <1>8, <1>9, <1>10, <1>11, <1>12, <1>13 DEF k

(* The call by which a path asks to be closed keeps the agreement.         *)
LEMMA TellClosedKeeps ==
    ASSUME Inv, NEW p \in Paths, TellClosed(p)
    PROVE  Inv'
<1>1. TypeInv /\ ClientsOK /\ pa \in [Paths -> PathObjects]
      /\ MapInv /\ ObjectInv /\ SourceInv /\ WaitInv /\ FixedInv
      /\ ServingIsCurrent /\ ReadyIsTrue /\ HLSKnowsReady
  BY DEF Inv, Agreement, TypeInv, ClientsOK
<1>2. /\ pm = "serving" /\ pa[p].doing = "closePath"
      /\ pm' = pm /\ waitedFor' = waitedFor /\ todo' = todo /\ hlsServer' = hlsServer
      /\ hlsReady' = hlsReady /\ reloads' = reloads /\ newPaths' = newPaths
      /\ pathConfs' = pathConfs /\ client' = client /\ asking' = asking
  BY DEF TellClosed, managerVars
<1>3. ~pa[p].done /\ ~HasSource(pa[p].conf)
  BY <1>1, <1>2 DEF SourceInv
<1>4. IsCurrent(p)
  BY <1>1, <1>2, <1>3 DEF ServingIsCurrent
<1>5. /\ pa' \in [Paths -> PathObjects]
      /\ \A q \in Paths : q # p => pa'[q] = pa[q]
      /\ pa'[p].name = pa[p].name /\ pa'[p].conf = pa[p].conf /\ pa'[p].done
      /\ pa'[p].doing = "teardown"
  BY <1>1 DEF TellClosed, PathObjects, Doing
<1>6. RemovePath(pa[p].name)
  BY <1>4 DEF TellClosed
<1>7. \A n \in Names : ConfOf(n)' = ConfOf(n)
  BY <1>2 DEF ConfOf
<1>8. /\ MapInv' /\ ObjectInv' /\ FixedInv'
      /\ ServingIsCurrent' /\ ReadyIsTrue' /\ HLSKnowsReady'
      /\ \A q \in Paths : q # p /\ IsCurrent(q) /\ pa[q].doing # "none" => IsCurrent(q)'
      /\ paths' \in [Names -> Paths \cup {None}] /\ ready' \in [Names -> BOOLEAN]
      /\ confName' \in [Names -> Entries \cup {None}]
  BY <1>1, <1>2, <1>4, <1>5, <1>6, <1>7, RemoveKeeps
<1>9. TypeInv'
  BY <1>1, <1>2, <1>5, <1>8 DEF TypeInv
<1>10. SourceInv'
  <2> SUFFICES ASSUME NEW q \in Paths
               PROVE  SourceInv!(q)'
    BY DEF SourceInv
  <2>1. CASE q = p
    BY <1>3, <1>5, <2>1
  <2>2. CASE q # p
    BY <1>1, <1>2, <1>5, <1>8, <2>2 DEF SourceInv
  <2> QED
    BY <2>1, <2>2
<1>11. WaitInv'
  BY <1>2 DEF WaitInv
<1> QED
  BY <1>8, <1>9, <1>10, <1>11 DEF Inv, Agreement

(* Removing a path, and waiting for it if it has a source, keeps the       *)
(* agreement.                                                              *)
LEMMA RemoveAndCloseKeeps ==
    ASSUME Inv, NEW k \in Names, RemoveAndClosePath(k)
    PROVE  Inv'
<1>1. TypeInv /\ ClientsOK /\ pa \in [Paths -> PathObjects]
      /\ MapInv /\ ObjectInv /\ SourceInv /\ WaitInv /\ FixedInv
      /\ ServingIsCurrent /\ ReadyIsTrue /\ HLSKnowsReady
  BY DEF Inv, Agreement, TypeInv, ClientsOK
<1> DEFINE p == paths[k]
<1>2. /\ pm = "reloading" /\ pm' = "waiting" /\ waitedFor' = p /\ todo' = todo \ {k}
      /\ hlsServer' = hlsServer /\ hlsReady' = hlsReady /\ reloads' = reloads
      /\ newPaths' = newPaths /\ pathConfs' = pathConfs /\ client' = client
      /\ asking' = asking /\ k \in todo
  BY DEF RemoveAndClosePath, Visit
<1>3. /\ p \in Paths /\ pa[p].name = k /\ IsCurrent(p)
      /\ pa[p].doing # "none" /\ p # None
  BY <1>1, <1>2, MapFacts DEF WaitInv, MapInv
<1>4. RemovePath(pa[p].name) /\ pa' = [pa EXCEPT ![p].done = TRUE]
  BY <1>3 DEF RemoveAndClosePath
<1> HIDE DEF p
<1>5. /\ pa' \in [Paths -> PathObjects]
      /\ \A q \in Paths : q # p => pa'[q] = pa[q]
      /\ pa'[p].name = pa[p].name /\ pa'[p].conf = pa[p].conf /\ pa'[p].done
      /\ pa'[p].doing = pa[p].doing
  BY <1>1, <1>3, <1>4 DEF PathObjects
<1>6. \A n \in Names : n # k => ConfOf(n)' = ConfOf(n)
  BY <1>2 DEF ConfOf
<1>7. /\ MapInv' /\ ObjectInv' /\ FixedInv'
      /\ ServingIsCurrent' /\ ReadyIsTrue' /\ HLSKnowsReady'
      /\ \A q \in Paths : q # p /\ IsCurrent(q) /\ pa[q].doing # "none" => IsCurrent(q)'
      /\ paths'[k] = None
      /\ \A n \in Names : n # k => paths'[n] = paths[n]
      /\ paths' \in [Names -> Paths \cup {None}] /\ ready' \in [Names -> BOOLEAN]
      /\ confName' \in [Names -> Entries \cup {None}]
  BY <1>1, <1>2, <1>3, <1>4, <1>5, <1>6, RemoveKeeps
<1>8. TypeInv'
  BY <1>1, <1>2, <1>3, <1>5, <1>7 DEF TypeInv
<1>9. SourceInv'
  <2> SUFFICES ASSUME NEW q \in Paths
               PROVE  SourceInv!(q)'
    BY DEF SourceInv
  <2>1. CASE q = p
    <3>1. pa'[p].doing = "closePath" /\ ~pa'[p].done => ~HasSource(pa'[p].conf)
      BY <1>5
    <3> QED
      BY <1>2, <2>1, <3>1
  <2>2. CASE q # p
    BY <1>1, <1>2, <1>5, <1>7, <2>2 DEF SourceInv
  <2> QED
    BY <2>1, <2>2
<1>10. WaitInv'
  <2>1. \A n \in todo' : paths'[n] # None
    BY <1>1, <1>2, <1>7 DEF WaitInv, TypeInv
  <2> QED
    BY <1>2, <1>3, <1>5, <1>7, <2>1 DEF WaitInv
<1> QED
  BY <1>7, <1>8, <1>9, <1>10 DEF Inv, Agreement

(* The other steps of a reload.                                            *)
LEMMA StartKeeps ==
    ASSUME Inv, NEW m \in ConfMaps, ReloadPathConfs(m)
    PROVE  Inv'
<1>1. TypeInv /\ MapInv /\ ObjectInv /\ SourceInv /\ WaitInv /\ FixedInv
      /\ ServingIsCurrent /\ ReadyIsTrue /\ HLSKnowsReady
  BY DEF Inv, Agreement
<1>2. /\ pm = "serving" /\ pm' = "reloading" /\ newPaths' = m
      /\ todo' = {n \in Names : paths[n] # None}
      /\ UNCHANGED <<pathConfs, waitedFor, paths, ready, confName, hlsServer, hlsReady, pa,
                     reloads, client, asking>>
  BY DEF ReloadPathConfs, mapVars
<1>3. TypeInv'
  BY <1>1, <1>2 DEF TypeInv
<1>4. MapInv' /\ ObjectInv' /\ WaitInv' /\ ServingIsCurrent' /\ ReadyIsTrue' /\ HLSKnowsReady'
  BY <1>1, <1>2 DEF MapInv, ObjectInv, WaitInv, ServingIsCurrent, ReadyIsTrue, HLSKnowsReady,
                    IsCurrent
<1>5. SourceInv'
  BY <1>1, <1>2 DEF SourceInv, IsCurrent
<1>6. FixedInv'
  BY <1>1, <1>2 DEF FixedInv, ConfOf
<1> QED
  BY <1>3, <1>4, <1>5, <1>6 DEF Inv, Agreement

(* A reload that leaves a path alone, or hands it its configuration, keeps *)
(* the agreement.                                                          *)
LEMMA VisitKeeps ==
    ASSUME Inv, NEW k \in Names, KeepPath(k) \/ UpdatePath(k)
    PROVE  Inv'
<1>1. TypeInv /\ MapInv /\ ObjectInv /\ SourceInv /\ WaitInv /\ FixedInv
      /\ ServingIsCurrent /\ ReadyIsTrue /\ HLSKnowsReady
  BY DEF Inv, Agreement
<1> DEFINE c == FindPathConf(newPaths, k)
<1>2. /\ pm = "reloading" /\ k \in todo /\ todo' = todo \ {k}
      /\ UNCHANGED <<pm, pathConfs, newPaths, waitedFor, paths, ready, hlsServer, hlsReady, pa,
                     client, asking>>
  BY DEF KeepPath, UpdatePath, Visit, mapVars
<1>3. /\ OldConf(k).fixed = c.fixed
      /\ \/ confName' = confName /\ reloads' = reloads /\ OldConf(k) = c
         \/ /\ confName' = [confName EXCEPT ![k] = c.name]
            /\ reloads' = reloads \cup {[path |-> paths[k], conf |-> c]}
  BY DEF KeepPath, UpdatePath, Updated, Recreated, Disappears, CanBeUpdated, mapVars
<1>4. /\ newPaths \in ConfMaps /\ todo \subseteq Names
      /\ confName \in [Names -> Entries \cup {None}]
      /\ paths \in [Names -> Paths \cup {None}]
      /\ reloads \subseteq [path : Paths, conf : Confs]
  BY <1>1 DEF TypeInv
<1>5. /\ c \in Confs /\ c.name \in Entries /\ c = Entry(newPaths, c.name)
  BY <1>4, FindFacts
<1> HIDE DEF c
<1>6. paths[k] # None /\ paths[k] \in Paths
  BY <1>1, <1>2, <1>4 DEF WaitInv
<1>7. pa[paths[k]].conf.fixed = c.fixed
  BY <1>1, <1>2, <1>3, <1>6 DEF FixedInv, ConfOf, OldConf
<1>8. confName'[k] = c.name
  BY <1>3, <1>4 DEF OldConf, Entry
<1>9. \A n \in Names : n # k => confName'[n] = confName[n]
  BY <1>3, <1>4
<1>10. TypeInv'
  <2>1. confName' \in [Names -> Entries \cup {None}]
    BY <1>3, <1>4, <1>5
  <2>2. reloads' \subseteq [path : Paths, conf : Confs]
    BY <1>3, <1>4, <1>5, <1>6
  <2>3. todo' \subseteq Names
    BY <1>2, <1>4
  <2> QED
    BY <1>1, <1>2, <2>1, <2>2, <2>3 DEF TypeInv
<1>11. ObjectInv'
  <2>1. \A g \in reloads' : pa[g.path].doing # "none" /\ g.conf.fixed = pa[g.path].conf.fixed
    BY <1>1, <1>3, <1>6, <1>7 DEF ObjectInv, MapInv
  <2> QED
    BY <1>1, <1>2, <2>1 DEF ObjectInv
<1>12. FixedInv'
  <2> SUFFICES ASSUME NEW n \in Names, paths[n] # None
               PROVE  pa[paths[n]].conf.fixed = Entry(ConfOf(n)', confName'[n]).fixed
    BY <1>2 DEF FixedInv
  <2>1. CASE n = k
    <3>1. ConfOf(n)' = newPaths
      BY <1>2, <2>1 DEF ConfOf
    <3> QED
      BY <1>5, <1>7, <1>8, <2>1, <3>1
  <2>2. CASE n # k
    <3>1. ConfOf(n)' = ConfOf(n)
      BY <1>2, <2>2 DEF ConfOf
    <3> QED
      BY <1>1, <1>9, <2>2, <3>1 DEF FixedInv
  <2> QED
    BY <2>1, <2>2
<1>13. MapInv' /\ WaitInv' /\ ServingIsCurrent' /\ ReadyIsTrue' /\ HLSKnowsReady' /\ SourceInv'
  BY <1>1, <1>2 DEF MapInv, WaitInv, ServingIsCurrent, ReadyIsTrue, HLSKnowsReady, SourceInv,
                    IsCurrent
<1> QED
  BY <1>10, <1>11, <1>12, <1>13 DEF Inv, Agreement

(* The manager goes on when the path that it waits for has ended.          *)
LEMMA EndedKeeps ==
    ASSUME Inv, PathEnded
    PROVE  Inv'
<1>1. TypeInv /\ MapInv /\ ObjectInv /\ SourceInv /\ WaitInv /\ FixedInv
      /\ ServingIsCurrent /\ ReadyIsTrue /\ HLSKnowsReady
  BY DEF Inv, Agreement
<1>2. /\ pm = "waiting" /\ pa[waitedFor].doing = "ended" /\ pm' = "reloading"
      /\ waitedFor' = None
      /\ UNCHANGED <<pathConfs, newPaths, todo, paths, ready, confName, hlsServer, hlsReady, pa,
                     reloads, client, asking>>
  BY DEF PathEnded, mapVars
<1>3. TypeInv'
  BY <1>1, <1>2 DEF TypeInv
<1>4. MapInv' /\ ObjectInv' /\ WaitInv' /\ ServingIsCurrent' /\ ReadyIsTrue' /\ HLSKnowsReady'
  BY <1>1, <1>2 DEF MapInv, ObjectInv, WaitInv, ServingIsCurrent, ReadyIsTrue, HLSKnowsReady,
                    IsCurrent
<1>5. SourceInv'
  BY <1>1, <1>2 DEF SourceInv, IsCurrent
<1>6. FixedInv'
  BY <1>1, <1>2 DEF FixedInv, ConfOf
<1> QED
  BY <1>3, <1>4, <1>5, <1>6 DEF Inv, Agreement

(* The end of a reload, which creates what is missing, keeps the agreement.*)
LEMMA FinishKeeps ==
    ASSUME Inv, FinishReload
    PROVE  Inv'
<1> DEFINE names == {n \in StaticNames(newPaths) : paths[n] = None}
<1>1. TypeInv /\ MapInv
  BY DEF Inv, Agreement
<1>2. /\ pm = "reloading" /\ todo = {} /\ pathConfs' = newPaths /\ pm' = "serving"
      /\ CreatePaths(newPaths, names)
      /\ UNCHANGED <<newPaths, todo, waitedFor, hlsServer, hlsReady, reloads, client, asking>>
  BY DEF FinishReload
<1>3. newPaths \in ConfMaps /\ names \subseteq Names
  BY <1>1, ConfMapsAssumption DEF TypeInv, StaticNames
<1>4. \A n \in names : paths[n] = None
  OBVIOUS
<1>5. \A n \in Names : ConfOf(n) = newPaths
  BY <1>2 DEF ConfOf
<1> HIDE DEF names
<1>6. Created(newPaths, names)
  BY <1>1, <1>2, <1>3, <1>4, CreateFacts
<1>7. TypeInv'
  BY <1>1, <1>2, <1>3, <1>6 DEF TypeInv, Created
<1>8. Agreement'
  BY <1>2, <1>3, <1>4, <1>5, CreateKeeps
<1> QED
  BY <1>7, <1>8 DEF Inv

(* Routing a client, to a path that there is or to a new one, keeps the    *)
(* agreement.                                                              *)
LEMMA RouteKeeps ==
    ASSUME Inv, NEW c \in Clients, NEW k \in Names, Route(c, k)
    PROVE  Inv'
<1>1. TypeInv /\ MapInv /\ ClientsOK
  BY DEF Inv, Agreement, TypeInv, ClientsOK
<1>2. /\ pm = "serving"
      /\ client' = [client EXCEPT ![c] = [at |-> "routed", path |-> paths'[k]]]
      /\ UNCHANGED <<managerVars, hlsServer, hlsReady, reloads, asking>>
  BY DEF Route
<1>3. ASSUME paths'[k] \in Paths
      PROVE  ClientsOK'
  BY <1>1, <1>2, <1>3 DEF ClientsOK
<1>4. CASE paths[k] = None
  <2>1. CreatePaths(pathConfs, {k})
    BY <1>4 DEF Route
  <2>2. pathConfs \in ConfMaps /\ {k} \subseteq Names /\ \A n \in {k} : paths[n] = None
    BY <1>1, <1>4 DEF TypeInv
  <2>3. Created(pathConfs, {k})
    BY <1>1, <2>1, <2>2, CreateFacts
  <2>4. paths'[k] \in Paths
    BY <2>3 DEF Created
  <2>5. TypeInv'
    BY <1>1, <1>2, <1>3, <2>3, <2>4 DEF TypeInv, Created, ClientsOK, managerVars
  <2>6. \A n \in Names : ConfOf(n) = pathConfs
    BY <1>2 DEF ConfOf
  <2>7. pm' = "serving" /\ pathConfs' = pathConfs
        /\ UNCHANGED <<waitedFor, hlsServer, hlsReady, reloads>>
    BY <1>2 DEF managerVars
  <2>8. Agreement'
    BY <1>2, <2>1, <2>2, <2>6, <2>7, CreateKeeps
  <2> QED
    BY <2>5, <2>8 DEF Inv
<1>5. CASE paths[k] # None
  <2>1. UNCHANGED <<mapVars, pa>>
    BY <1>5 DEF Route
  <2>2. paths'[k] \in Paths
    BY <1>1, <1>5, <2>1 DEF TypeInv, mapVars
  <2>3. ClientsOK' /\ asking' \subseteq Paths
    BY <1>1, <1>2, <1>3, <2>2 DEF TypeInv
  <2> QED
    BY <1>2, <2>1, <2>3, OthersKeep
<1> QED
  BY <1>4, <1>5

(* The goroutines that hand paths their configurations keep the agreement. *)
LEMMA ReloadKeeps ==
    ASSUME Inv, NEW g \in reloads, TakeReload(g) \/ GiveUpReload(g)
    PROVE  Inv'
<1>1. /\ TypeInv /\ MapInv /\ ObjectInv /\ SourceInv /\ WaitInv /\ FixedInv
      /\ ServingIsCurrent /\ ReadyIsTrue /\ HLSKnowsReady
  BY DEF Inv, Agreement
<1>2. /\ pa \in [Paths -> PathObjects] /\ paths \in [Names -> Paths \cup {None}]
      /\ hlsReady \subseteq Paths /\ reloads \subseteq [path : Paths, conf : Confs]
  BY <1>1 DEF TypeInv
<1>3. /\ reloads' = reloads \ {g}
      /\ pm' = pm /\ waitedFor' = waitedFor /\ paths' = paths /\ ready' = ready
      /\ confName' = confName /\ hlsServer' = hlsServer /\ hlsReady' = hlsReady
      /\ todo' = todo /\ newPaths' = newPaths /\ pathConfs' = pathConfs
      /\ client' = client /\ asking' = asking
  BY DEF TakeReload, GiveUpReload, managerVars, mapVars
<1>4. /\ pa' \in [Paths -> PathObjects]
      /\ \A q \in Paths :
            /\ pa'[q].name = pa[q].name /\ pa'[q].doing = pa[q].doing
            /\ pa'[q].live = pa[q].live /\ pa'[q].done = pa[q].done
            /\ pa'[q].conf.fixed = pa[q].conf.fixed
  <2>1. CASE GiveUpReload(g)
    BY <1>2, <2>1 DEF GiveUpReload
  <2>2. CASE TakeReload(g)
    <3>1. /\ g.path \in Paths /\ g.conf \in Confs /\ g.conf.fixed = pa[g.path].conf.fixed
          /\ pa' = [pa EXCEPT ![g.path].conf = g.conf]
      BY <1>1, <1>2, <2>2 DEF TakeReload, ObjectInv
    <3> QED
      BY <1>2, <3>1 DEF PathObjects
  <2> QED
    BY <2>1, <2>2
<1>5. \A q \in Paths : (IsCurrent(q)' <=> IsCurrent(q)) /\ (HasSource(pa'[q].conf) <=> HasSource(pa[q].conf))
  BY <1>3, <1>4 DEF IsCurrent, HasSource
<1>6. TypeInv'
  BY <1>1, <1>3, <1>4 DEF TypeInv
<1>7. MapInv'
  BY <1>1, <1>2, <1>3, <1>4 DEF MapInv
<1>8. ObjectInv'
  BY <1>1, <1>2, <1>3, <1>4 DEF ObjectInv
<1>9. SourceInv'
  <2> SUFFICES ASSUME NEW q \in Paths
               PROVE  SourceInv!(q)'
    BY DEF SourceInv
  <2> QED
    BY <1>1, <1>3, <1>4, <1>5 DEF SourceInv
<1>10. WaitInv'
  BY <1>1, <1>3, <1>4 DEF WaitInv
<1>11. FixedInv'
  BY <1>1, <1>2, <1>3, <1>4 DEF FixedInv, ConfOf
<1>12. ServingIsCurrent'
  BY <1>1, <1>4, <1>5 DEF ServingIsCurrent
<1>13. ReadyIsTrue' /\ HLSKnowsReady'
  BY <1>1, <1>2, <1>3, <1>4 DEF ReadyIsTrue, HLSKnowsReady
<1> QED
  BY <1>6, <1>7, <1>8, <1>9, <1>10, <1>11, <1>12, <1>13 DEF Inv, Agreement

(* Using a path object again that nobody refers to keeps the agreement.    *)
LEMMA ForgetKeeps ==
    ASSUME Inv, NEW p \in Paths, Forget(p)
    PROVE  Inv'
<1>1. /\ TypeInv /\ MapInv /\ ObjectInv /\ SourceInv /\ WaitInv /\ FixedInv
      /\ ServingIsCurrent /\ ReadyIsTrue /\ HLSKnowsReady
  BY DEF Inv, Agreement
<1>2. /\ pa \in [Paths -> PathObjects] /\ paths \in [Names -> Paths \cup {None}]
      /\ hlsReady \subseteq Paths /\ reloads \subseteq [path : Paths, conf : Confs]
  BY <1>1 DEF TypeInv
<1>3. /\ hlsReady' = hlsReady \ {p} /\ reloads' = {g \in reloads : g.path # p}
      /\ pm' = pm /\ waitedFor' = waitedFor /\ paths' = paths /\ ready' = ready
      /\ confName' = confName /\ hlsServer' = hlsServer
      /\ todo' = todo /\ newPaths' = newPaths /\ pathConfs' = pathConfs
      /\ client' = client /\ asking' = asking
      /\ waitedFor # p /\ \A n \in Names : paths[n] # p
      /\ pa' = [pa EXCEPT ![p] = Unused]
  BY DEF Forget, managerVars, mapVars
<1>4. Unused \in PathObjects /\ Unused.doing = "none"
  BY DEF Unused, PathObjects, Doing, Confs
<1>5. /\ pa' \in [Paths -> PathObjects] /\ pa'[p] = Unused
      /\ \A q \in Paths : q # p => pa'[q] = pa[q] /\ (IsCurrent(q)' <=> IsCurrent(q))
  BY <1>2, <1>3, <1>4 DEF IsCurrent
<1>6. TypeInv'
  BY <1>1, <1>3, <1>5 DEF TypeInv
<1>7. MapInv'
  BY <1>1, <1>2, <1>3, <1>5 DEF MapInv
<1>8. ObjectInv'
  BY <1>1, <1>2, <1>3, <1>4, <1>5 DEF ObjectInv
<1>9. SourceInv'
  <2> SUFFICES ASSUME NEW q \in Paths
               PROVE  SourceInv!(q)'
    BY DEF SourceInv
  <2>1. CASE q = p
    BY <1>4, <1>5, <2>1
  <2>2. CASE q # p
    BY <1>1, <1>3, <1>5, <2>2 DEF SourceInv
  <2> QED
    BY <2>1, <2>2
<1>10. WaitInv'
  BY <1>1, <1>3, <1>5 DEF WaitInv
<1>11. FixedInv'
  BY <1>1, <1>2, <1>3, <1>5 DEF FixedInv, ConfOf
<1>12. ServingIsCurrent'
  BY <1>1, <1>4, <1>5 DEF ServingIsCurrent
<1>13. ReadyIsTrue' /\ HLSKnowsReady'
  BY <1>1, <1>2, <1>3, <1>5 DEF ReadyIsTrue, HLSKnowsReady
<1> QED
  BY <1>6, <1>7, <1>8, <1>9, <1>10, <1>11, <1>12, <1>13 DEF Inv, Agreement

(* Setting or clearing the HLS server keeps the agreement.                 *)
LEMMA SetHLSKeeps ==
    ASSUME Inv, NEW set \in BOOLEAN, SetHLSServer(set)
    PROVE  Inv'
<1>1. /\ TypeInv /\ MapInv /\ ObjectInv /\ SourceInv /\ WaitInv /\ FixedInv
      /\ ServingIsCurrent /\ ReadyIsTrue /\ HLSKnowsReady
  BY DEF Inv, Agreement
<1>2. /\ hlsServer' = set
      /\ hlsReady' = IF set THEN {paths[n] : n \in {o \in Names : ready[o]}} ELSE {}
      /\ UNCHANGED <<pm, pathConfs, newPaths, todo, waitedFor, paths, ready, confName, pa, reloads,
                     client, asking>>
  BY DEF SetHLSServer, managerVars, mapVars
<1>3. \A p \in hlsReady' : \E n \in Names : ready[n] /\ p = paths[n] /\ p \in Paths
                                             /\ pa[p].doing # "none"
  BY <1>1, <1>2 DEF MapInv, TypeInv
<1>4. TypeInv'
  BY <1>1, <1>2, <1>3 DEF TypeInv
<1>5. MapInv' /\ WaitInv' /\ ServingIsCurrent' /\ ReadyIsTrue' /\ SourceInv' /\ FixedInv'
  BY <1>1, <1>2 DEF MapInv, WaitInv, ServingIsCurrent, ReadyIsTrue, SourceInv, FixedInv, ConfOf,
                    IsCurrent
<1>6. ObjectInv'
  BY <1>1, <1>2, <1>3 DEF ObjectInv
<1>7. HLSKnowsReady'
  <2> SUFFICES ASSUME set, NEW n \in Names, paths[n] # None
               PROVE  ready[n] <=> paths[n] \in hlsReady'
    BY <1>2 DEF HLSKnowsReady
  <2>1. \A o \in Names : paths[o] = paths[n] => o = n
    BY <1>1, MapFacts
  <2> QED
    BY <1>2, <2>1
<1> QED
  BY <1>4, <1>5, <1>6, <1>7 DEF Inv, Agreement

(* The end of the manager keeps the agreement.                             *)
LEMMA CloseKeeps ==
    ASSUME Inv, Close
    PROVE  Inv'
<1>1. /\ TypeInv /\ MapInv /\ ObjectInv /\ SourceInv /\ WaitInv /\ FixedInv
      /\ ServingIsCurrent /\ ReadyIsTrue /\ HLSKnowsReady
  BY DEF Inv, Agreement
<1>2. /\ pa \in [Paths -> PathObjects] /\ paths \in [Names -> Paths \cup {None}]
      /\ hlsReady \subseteq Paths /\ reloads \subseteq [path : Paths, conf : Confs]
  BY <1>1 DEF TypeInv
<1>3. /\ pm = "serving" /\ pm' = "done"
      /\ pa' = [p \in Paths |-> IF pa[p].doing = "none" THEN pa[p]
                                ELSE [pa[p] EXCEPT !.done = TRUE]]
      /\ UNCHANGED <<pathConfs, newPaths, todo, waitedFor, paths, ready, confName, hlsServer,
                     hlsReady, reloads, client, asking>>
  BY DEF Close, mapVars
<1>4. \A p \in Paths :
        /\ pa'[p].name = pa[p].name /\ pa'[p].conf = pa[p].conf /\ pa'[p].doing = pa[p].doing
        /\ pa[p].doing # "none" => pa'[p].done
        /\ IsCurrent(p)' <=> IsCurrent(p)
  BY <1>2, <1>3 DEF PathObjects, IsCurrent
<1>5. pa' \in [Paths -> PathObjects]
  BY <1>2, <1>3 DEF PathObjects
<1>6. TypeInv'
  BY <1>1, <1>3, <1>5 DEF TypeInv
<1>7. MapInv'
  BY <1>1, <1>2, <1>3, <1>4 DEF MapInv
<1>8. ObjectInv'
  BY <1>1, <1>2, <1>3, <1>4 DEF ObjectInv
<1>9. SourceInv'
  BY <1>1, <1>3, <1>4 DEF SourceInv
<1>10. WaitInv'
  BY <1>3 DEF WaitInv
<1>11. FixedInv'
  BY <1>1, <1>2, <1>3, <1>4 DEF FixedInv, ConfOf
<1>12. ServingIsCurrent'
  BY <1>4 DEF ServingIsCurrent
<1>13. ReadyIsTrue' /\ HLSKnowsReady'
  BY <1>1, <1>2, <1>3, <1>4 DEF ReadyIsTrue, HLSKnowsReady, MapInv
<1> QED
  BY <1>6, <1>7, <1>8, <1>9, <1>10, <1>11, <1>12, <1>13 DEF Inv, Agreement

(* The paths that initialize creates agree with the configuration.         *)
LEMMA InitInv ==
    ASSUME Init
    PROVE  Inv
<1> DEFINE m == pathConfs
           unused == [p \in Paths |-> Unused]
           names == StaticNames(m)
<1>1. /\ m \in ConfMaps /\ newPaths = m /\ pm = "serving" /\ todo = {} /\ waitedFor = None
      /\ ready = [n \in Names |-> FALSE]
      /\ confName = [n \in Names |-> IF n \in names THEN n ELSE None]
      /\ hlsServer = FALSE /\ hlsReady = {} /\ reloads = {} /\ asking = {}
      /\ client = [c \in Clients |-> [at |-> "idle", path |-> None]]
  BY DEF Init
<1>2. PICK object \in Assignments(unused, names) :
        /\ pa = WithNew(unused, m, object)
        /\ paths = [n \in Names |-> IF n \in DOMAIN object THEN object[n] ELSE None]
  BY DEF Init
<1>3. names \subseteq Names
  BY <1>1, ConfMapsAssumption DEF StaticNames
<1>4. unused \in [Paths -> PathObjects]
  BY DEF Unused, PathObjects, Doing, Confs
<1> HIDE DEF m, names
<1>5. /\ object \in [names -> Paths]
      /\ \A n \in names : pa[object[n]] = [doing |-> "running", name |-> n,
                                          conf |-> FindPathConf(m, n),
                                          live |-> FALSE, done |-> FALSE]
      /\ \A p \in Paths : (\A n \in names : object[n] # p) => pa[p] = Unused
      /\ pa \in [Paths -> PathObjects]
  <2> HIDE DEF unused
  <2>1. \A p \in Paths : unused[p] = Unused
    BY DEF unused
  <2>2. /\ object \in [names -> Paths]
        /\ \A n \in names : /\ unused[object[n]].doing = "none"
                            /\ WithNew(unused, m, object)[object[n]] =
                                 [doing |-> "running", name |-> n,
                                  conf |-> FindPathConf(m, n),
                                  live |-> FALSE, done |-> FALSE]
        /\ \A p \in Paths : (\A n \in names : object[n] # p) =>
                                 WithNew(unused, m, object)[p] = unused[p]
        /\ WithNew(unused, m, object) \in [Paths -> PathObjects]
    <3>1. m \in ConfMaps /\ object \in Assignments(unused, names)
      BY <1>1, <1>2
    <3> QED
      BY <1>3, <1>4, <3>1, NewFacts
  <2>3. pa = WithNew(unused, m, object)
    BY <1>2
  <2>4. pa \in [Paths -> PathObjects]
    BY <2>2, <2>3
  <2>5. \A n \in names : pa[object[n]] = [doing |-> "running", name |-> n,
                                        conf |-> FindPathConf(m, n),
                                        live |-> FALSE, done |-> FALSE]
    BY <2>2, <2>3
  <2>6. \A p \in Paths : (\A n \in names : object[n] # p) => pa[p] = Unused
    BY <2>1, <2>2, <2>3
  <2> QED
    BY <2>2, <2>4, <2>5, <2>6
<1>6. ASSUME NEW n \in names
      PROVE  /\ paths[n] \in Paths /\ paths[n] # None /\ ready[n] = FALSE /\ confName[n] = n
             /\ pa[paths[n]].doing = "running" /\ pa[paths[n]].name = n
             /\ pa[paths[n]].conf = FindPathConf(m, n)
             /\ pa[paths[n]].live = FALSE /\ ~pa[paths[n]].done
  <2>1. paths[n] = object[n] /\ object[n] \in Paths
    BY <1>2, <1>3, <1>5
  <2>2. pa[paths[n]] = [doing |-> "running", name |-> n, conf |-> FindPathConf(m, n),
                        live |-> FALSE, done |-> FALSE]
    BY <1>5, <2>1
  <2> QED
    BY <1>1, <1>3, <2>1, <2>2, NamesAssumption
<1>7. ASSUME NEW n \in Names, n \notin names
      PROVE  paths[n] = None /\ ready[n] = FALSE
  BY <1>1, <1>2, <1>5, <1>7
<1>8. ASSUME NEW p \in Paths
      PROVE  \/ pa[p].doing = "none"
             \/ \E n \in names : /\ p = paths[n] /\ pa[p].name = n
                                 /\ pa[p].doing = "running" /\ ~pa[p].done
  <2>1. CASE \E n \in names : object[n] = p
    <3>1. PICK n \in names : p = paths[n]
      BY <1>2, <1>3, <1>5, <2>1
    <3> QED
      BY <1>6, <3>1
  <2>2. CASE \A n \in names : object[n] # p
    BY <1>5, <2>2 DEF Unused
  <2> QED
    BY <2>1, <2>2
<1>9. TypeInv
  <2>1. confName \in [Names -> Entries \cup {None}]
    BY <1>1 DEF Entries
  <2>2. paths \in [Names -> Paths \cup {None}]
    BY <1>2, <1>6, <1>7
  <2> QED
    BY <1>1, <1>5, <2>1, <2>2 DEF TypeInv, m
<1>10. MapInv
  <2> SUFFICES ASSUME NEW n \in Names
               PROVE  MapInv!(n)
    BY DEF MapInv
  <2> QED
    BY <1>6, <1>7
<1>11. ObjectInv
  BY <1>1, <1>3, <1>8 DEF ObjectInv
<1>12. ServingIsCurrent
  BY <1>8 DEF ServingIsCurrent, IsCurrent
<1>13. SourceInv
  <2> SUFFICES ASSUME NEW p \in Paths
               PROVE  SourceInv!(p)
    BY DEF SourceInv
  <2> QED
    BY <1>8 DEF IsCurrent
<1>14. WaitInv
  BY <1>1 DEF WaitInv
<1>15. FixedInv
  <2> SUFFICES ASSUME NEW n \in Names, paths[n] # None
               PROVE  pa[paths[n]].conf.fixed = Entry(ConfOf(n), confName[n]).fixed
    BY DEF FixedInv
  <2>1. n \in names /\ ConfOf(n) = m
    BY <1>1, <1>7 DEF ConfOf, m
  <2>2. FindPathConf(m, n) = Entry(m, n)
    BY <2>1 DEF FindPathConf, names, StaticNames
  <2> QED
    BY <1>6, <2>1, <2>2
<1>16. ReadyIsTrue
  <2> SUFFICES ASSUME NEW n \in Names
               PROVE  ReadyIsTrue!(n)
    BY DEF ReadyIsTrue
  <2> QED
    BY <1>6, <1>7
<1>17. HLSKnowsReady
  BY <1>1 DEF HLSKnowsReady
<1> QED
  BY <1>9, <1>10, <1>11, <1>12, <1>13, <1>14, <1>15, <1>16, <1>17 DEF Inv, Agreement

(* No step of manager, paths, sources or clients breaks the invariant.     *)
LEMMA StepInv ==
    ASSUME Inv, [Next]_vars
    PROVE  Inv'
<1>1. CASE UNCHANGED vars
  <2>1. ClientsOK' /\ asking' \subseteq Paths
    BY <1>1 DEF Inv, TypeInv, ClientsOK, vars
  <2> QED
    BY <1>1, <2>1, OthersKeep DEF vars
<1>2. ASSUME NEW c \in Clients,
             \/ \E n \in Names : Route(c, n)
             \/ Terminated(c) \/ PublisherEnters(c) \/ ReaderEnters(c) \/ Refused(c)
             \/ ReaderLeaves(c) \/ PublisherLeaves(c)
      PROVE  Inv'
  BY <1>2, RouteKeeps, ClientKeeps
<1>3. ASSUME NEW p \in Paths,
             \/ SourceReady(p) \/ SourceNotReady(p) \/ SourceAsks(p) \/ SourceIsAnswered(p)
             \/ TellReady(p) \/ TellClosed(p) \/ Ending(p) \/ Forget(p)
      PROVE  Inv'
  BY <1>3, SourceKeeps, TellReadyKeeps, TellClosedKeeps, EndingKeeps, ForgetKeeps
<1>4. ASSUME Reloading
      PROVE  Inv'
  BY <1>4, VisitKeeps, RemoveAndCloseKeeps, EndedKeeps, FinishKeeps DEF Reloading
<1> QED
  BY <1>1, <1>2, <1>3, <1>4, StartKeeps, ReloadKeeps, SetHLSKeeps, CloseKeeps DEF Next

(* Every reachable state has the types and the agreement: the inductive    *)
(* invariant from which the theorems below follow.                         *)
THEOREM AlwaysInv == Spec => []Inv
  BY InitInv, StepInv, PTL DEF Spec

-----------------------------------------------------------------------------
(* Every variable holds a value of its kind.                               *)
THEOREM TypeCorrect == Spec => []TypeOK
<1>1. Inv => TypeOK
  BY DEF Inv, TypeInv, TypeOK, PathObjects, Entries
<1> QED
  BY <1>1, AlwaysInv, PTL

(* The source of a name is never started while that of an earlier path of  *)
(* the name has not returned (path_manager.go:269-273): a path with a      *)
(* source that has not ended is the one in the map, or the one that the    *)
(* manager waits for while the map has none (SourceInv, WaitInv).          *)
THEOREM SourcesAlwaysApart == Spec => []SourcesDoNotConflict
<1>1. ASSUME Inv
      PROVE  SourcesDoNotConflict
  <2>1. SourceInv /\ WaitInv
    BY <1>1 DEF Inv, Agreement
  <2> SUFFICES ASSUME NEW p \in Paths, NEW q \in Paths,
                      pa[p].doing \notin {"none", "ended"}, pa[q].doing \notin {"none", "ended"},
                      pa[p].name = pa[q].name, HasSource(pa[p].conf), HasSource(pa[q].conf)
               PROVE  p = q
    BY DEF SourcesDoNotConflict
  <2>2. /\ IsCurrent(p) \/ (pm = "waiting" /\ waitedFor = p)
        /\ IsCurrent(q) \/ (pm = "waiting" /\ waitedFor = q)
    BY <2>1 DEF SourceInv
  <2> QED
    BY <2>1, <2>2, NamesAssumption DEF WaitInv, IsCurrent
<1> QED
  BY <1>1, AlwaysInv, PTL

-----------------------------------------------------------------------------
(* With reloads that do not overtake one another, the configuration that   *)
(* decides about a name is that of its path, or on its way there, alone.   *)
Carries(g, n) == g.path = paths[n]

Follows(n) ==
    LET c == FindPathConf(ConfOf(n), n) IN
    paths[n] # None =>
        /\ Matches(ConfOf(n), n)
        /\ confName[n] = c.name
        /\ \A g \in reloads : Carries(g, n) => g.conf = c
        /\ (\A g \in reloads : ~Carries(g, n)) => pa[paths[n]].conf = c
        /\ pm \in {"reloading", "waiting"} /\ n \in todo => \A g \in reloads : ~Carries(g, n)

FollowInv == PatientCore /\ pm # "done" => \A n \in Names : Follows(n)

(* Steps that leave map and configurations alone let every path follow.    *)
LEMMA FollowSame ==
    ASSUME TypeInv, FollowInv,
           UNCHANGED <<pathConfs, newPaths, todo, paths, confName, reloads>>,
           pm' = pm \/ (pm = "waiting" /\ pm' = "reloading"),
           \A q \in Paths : pa'[q].conf = pa[q].conf
    PROVE  FollowInv'
<1> SUFFICES ASSUME PatientCore, pm' # "done", NEW n \in Names
             PROVE  Follows(n)'
  BY DEF FollowInv
<1>1. Follows(n) /\ ConfOf(n)' = ConfOf(n) /\ (paths[n] # None => paths[n] \in Paths)
  BY DEF FollowInv, ConfOf, TypeInv
<1>2. FindPathConf(ConfOf(n), n)' = FindPathConf(ConfOf(n), n)
      /\ Matches(ConfOf(n), n)' = Matches(ConfOf(n), n)
  BY <1>1 DEF FindPathConf, Matches, Entry
<1> QED
  BY <1>1, <1>2 DEF Follows, Carries

(* Most steps leave alone which configuration is whose.                    *)
LEMMA ResumeConf ==
    ASSUME pa \in [Paths -> PathObjects], NEW p, NEW users, Resume(p, users)
    PROVE  \A q \in Paths : pa'[q].conf = pa[q].conf
  BY DEF Resume, Do, PathObjects

(* What clients, sources and paths do on their own leaves the map and all  *)
(* configurations alone.                                                   *)
LEMMA QuietSteps ==
    ASSUME TypeInv,
           \/ \E c \in Clients :
                 \/ Terminated(c) \/ PublisherEnters(c) \/ ReaderEnters(c) \/ Refused(c)
                 \/ ReaderLeaves(c) \/ PublisherLeaves(c)
           \/ \E p \in Paths :
                 \/ SourceReady(p) \/ SourceNotReady(p) \/ SourceAsks(p) \/ SourceIsAnswered(p)
                 \/ TellReady(p) \/ Ending(p)
           \/ \E set \in BOOLEAN : SetHLSServer(set)
           \/ PathEnded
           \/ UNCHANGED vars
    PROVE  /\ UNCHANGED <<pathConfs, newPaths, todo, paths, confName, reloads>>
           /\ pm' = pm \/ (pm = "waiting" /\ pm' = "reloading")
           /\ \A q \in Paths : pa'[q].conf = pa[q].conf
<1>1. pa \in [Paths -> PathObjects]
  BY DEF TypeInv
<1>2. ASSUME NEW c \in Clients,
             \/ Terminated(c) \/ PublisherEnters(c) \/ ReaderEnters(c) \/ Refused(c)
             \/ ReaderLeaves(c) \/ PublisherLeaves(c)
      PROVE  /\ UNCHANGED <<managerVars, paths, confName, reloads>>
             /\ \A q \in Paths : pa'[q].conf = pa[q].conf
  <2>1. CASE Terminated(c)
    BY <2>1 DEF Terminated, mapVars
  <2>2. CASE PublisherEnters(c)
    BY <1>1, <2>2 DEF PublisherEnters, mapVars, PathObjects
  <2>3. CASE ReaderEnters(c)
    BY <1>1, <2>3, ResumeConf DEF ReaderEnters, mapVars
  <2>4. CASE Refused(c)
    BY <1>1, <2>4, ResumeConf DEF Refused, mapVars
  <2>5. CASE ReaderLeaves(c)
    BY <1>1, <2>5, ResumeConf DEF ReaderLeaves, mapVars
  <2>6. CASE PublisherLeaves(c)
    BY <1>1, <2>6 DEF PublisherLeaves, mapVars, PathObjects
  <2> QED
    BY <1>2, <2>1, <2>2, <2>3, <2>4, <2>5, <2>6
<1>3. ASSUME NEW p \in Paths,
             \/ SourceReady(p) \/ SourceNotReady(p) \/ SourceAsks(p) \/ SourceIsAnswered(p)
             \/ TellReady(p) \/ Ending(p)
      PROVE  /\ UNCHANGED <<managerVars, paths, confName, reloads>>
             /\ \A q \in Paths : pa'[q].conf = pa[q].conf
  <2>1. CASE SourceReady(p) \/ SourceNotReady(p)
    BY <1>1, <2>1 DEF SourceReady, SourceNotReady, mapVars, PathObjects
  <2>2. CASE SourceAsks(p) \/ SourceIsAnswered(p)
    BY <2>2 DEF SourceAsks, SourceIsAnswered, mapVars
  <2>3. CASE TellReady(p) \/ GiveUpTelling(p)
    <3>1. \E users : Resume(p, users)
      BY <2>3 DEF TellReady, GiveUpTelling, GoOn
    <3>2. UNCHANGED <<managerVars, paths, confName, reloads>>
      BY <2>3 DEF TellReady, GiveUpTelling, mapVars
    <3> QED
      BY <1>1, <3>1, <3>2, ResumeConf
  <2>4. CASE GiveUpClosing(p) \/ SeeContextDone(p) \/ Teardown(p)
    BY <1>1, <2>4 DEF GiveUpClosing, SeeContextDone, Teardown, Do, mapVars, PathObjects
  <2> QED
    BY <1>3, <2>1, <2>2, <2>3, <2>4 DEF Ending
<1>4. CASE PathEnded \/ UNCHANGED vars \/ \E set \in BOOLEAN : SetHLSServer(set)
  BY <1>4 DEF PathEnded, SetHLSServer, vars, managerVars, mapVars
<1> QED
  BY <1>2, <1>3, <1>4 DEF managerVars

(* A path that is created starts with the configuration that decides.      *)
LEMMA FollowCreate ==
    ASSUME Inv, FollowInv, NEW m \in ConfMaps, NEW names, names \subseteq Names,
           \A n \in names : paths[n] = None /\ Matches(m, n), CreatePaths(m, names),
           pm \in {"serving", "reloading"}, pm' = "serving", pathConfs' = m,
           \A n \in Names : ConfOf(n) = m, UNCHANGED reloads
    PROVE  FollowInv'
<1> SUFFICES ASSUME PatientCore, NEW n \in Names, paths'[n] # None
             PROVE  Follows(n)'
  BY DEF FollowInv, Follows
<1>1. TypeInv /\ MapInv /\ ObjectInv /\ Created(m, names)
  BY CreateFacts DEF Inv, Agreement
<1>2. ConfOf(n)' = m /\ ConfOf(n) = m
  BY DEF ConfOf
<1> DEFINE c == FindPathConf(m, n)
<1>3. FindPathConf(ConfOf(n), n)' = c /\ Matches(ConfOf(n), n)' = Matches(m, n)
  BY <1>2 DEF FindPathConf, Matches, Entry
<1> HIDE DEF c
<1>4. CASE n \in names
  <2>1. /\ confName'[n] = c.name /\ paths'[n] \in Paths /\ pa[paths'[n]].doing = "none"
        /\ pa'[paths'[n]].conf = c
    <3>1. pa'[paths'[n]] = [doing |-> "running", name |-> n, conf |-> c,
                            live |-> FALSE, done |-> FALSE]
      BY <1>1, <1>4 DEF Created, c
    <3>2. pa'[paths'[n]].conf = c
      BY <3>1
    <3> QED
      BY <1>1, <1>4, <3>2 DEF Created, c
  <2>2. \A g \in reloads : g.path # paths'[n]
    BY <1>1, <2>1 DEF ObjectInv
  <2> QED
    BY <1>3, <1>4, <2>1, <2>2 DEF Follows, Carries
<1>5. CASE n \notin names
  <2>1. paths'[n] = paths[n] /\ confName'[n] = confName[n] /\ pa'[paths[n]] = pa[paths[n]]
    BY <1>1, <1>5 DEF Created
  <2>2. Follows(n) /\ FindPathConf(ConfOf(n), n) = c /\ Matches(ConfOf(n), n) = Matches(m, n)
    BY <1>2 DEF FollowInv, c
  <2> QED
    BY <1>3, <2>1, <2>2 DEF Follows, Carries
<1> QED
  BY <1>4, <1>5

(* A round of the loop of a reload leaves the name that it visits with the *)
(* new configuration.                                                      *)
LEMMA FollowVisit ==
    ASSUME Inv, FollowInv, NEW k \in Names,
           KeepPath(k) \/ UpdatePath(k) \/ RemoveAndClosePath(k)
    PROVE  FollowInv'
<1> SUFFICES ASSUME PatientCore, NEW n \in Names, paths'[n] # None
             PROVE  Follows(n)'
  BY DEF FollowInv, Follows
<1>1. TypeInv /\ MapInv /\ WaitInv /\ MapInv'
  BY VisitKeeps, RemoveAndCloseKeeps DEF Inv, Agreement
<1>2. /\ pm = "reloading" /\ k \in todo /\ todo' = todo \ {k} /\ pm' \in {"reloading", "waiting"}
      /\ pathConfs' = pathConfs /\ newPaths' = newPaths
  BY DEF KeepPath, UpdatePath, RemoveAndClosePath, Visit
<1>3. /\ pa \in [Paths -> PathObjects] /\ paths \in [Names -> Paths \cup {None}]
      /\ confName \in [Names -> Entries \cup {None}]
      /\ pathConfs \in ConfMaps /\ newPaths \in ConfMaps
  BY <1>1 DEF TypeInv
<1>4. CASE n # k
  <2>1. /\ paths'[n] = paths[n] /\ confName'[n] = confName[n]
        /\ \A q \in Paths : pa'[q].conf = pa[q].conf
    BY <1>3, <1>4 DEF KeepPath, UpdatePath, RemoveAndClosePath, RemovePath, mapVars, PathObjects
  <2>2. \A g \in reloads' : g \in reloads \/ g.path = paths[k]
    BY DEF KeepPath, UpdatePath, RemoveAndClosePath
  <2>3. reloads \subseteq reloads' /\ paths[n] # None /\ paths[n] # paths[k]
    <3>1. paths[n] # paths[k]
      BY <1>1, <1>4, <2>1, MapFacts
    <3> QED
      BY <2>1, <3>1 DEF KeepPath, UpdatePath, RemoveAndClosePath
  <2>4. Follows(n) /\ ConfOf(n)' = ConfOf(n) /\ paths[n] \in Paths
    BY <1>2, <1>3, <1>4, <2>3 DEF FollowInv, ConfOf
  <2>5. FindPathConf(ConfOf(n), n)' = FindPathConf(ConfOf(n), n)
        /\ Matches(ConfOf(n), n)' = Matches(ConfOf(n), n)
    BY <2>4 DEF FindPathConf, Matches, Entry
  <2>6. n \in todo' <=> n \in todo
    BY <1>2, <1>4
  <2> QED
    BY <1>2, <2>1, <2>2, <2>3, <2>4, <2>5, <2>6 DEF Follows, Carries
<1>5. CASE n = k
  <2> DEFINE c == FindPathConf(newPaths, k)
  <2>1. ConfOf(k) = pathConfs /\ ConfOf(k)' = newPaths /\ k \notin todo'
    BY <1>2 DEF ConfOf
  <2>2. FindPathConf(ConfOf(k), k)' = c /\ Matches(ConfOf(k), k)' = Matches(newPaths, k)
    BY <2>1 DEF FindPathConf, Matches, Entry
  <2>3. ~RemoveAndClosePath(k)
    BY <1>3, <1>5 DEF RemoveAndClosePath, RemovePath
  <2>4. paths'[k] = paths[k] /\ paths[k] # None /\ paths[k] \in Paths /\ pa' = pa
    BY <1>3, <1>5, <2>3 DEF KeepPath, UpdatePath, mapVars
  <2>5. /\ confName[k] = FindPathConf(pathConfs, k).name
        /\ \A g \in reloads : ~Carries(g, k)
        /\ pa[paths[k]].conf = FindPathConf(pathConfs, k)
    BY <1>2, <2>1, <2>4 DEF FollowInv, Follows
  <2>6. OldConf(k) = FindPathConf(pathConfs, k)
    BY <1>3, <2>5, FindFacts DEF OldConf
  <2> HIDE DEF c
  <2>7. Matches(newPaths, k)
    BY <2>3 DEF KeepPath, UpdatePath, Updated, Disappears
  <2>8. CASE KeepPath(k)
    <3>1. OldConf(k) = c /\ confName' = confName /\ reloads' = reloads
      BY <2>8 DEF KeepPath, Updated, Recreated, Disappears, mapVars, c
    <3> QED
      BY <1>5, <2>1, <2>2, <2>4, <2>5, <2>6, <2>7, <3>1 DEF Follows, Carries
  <2>9. CASE UpdatePath(k)
    <3>1. confName'[k] = c.name /\ reloads' = reloads \cup {[path |-> paths[k], conf |-> c]}
      BY <1>3, <2>9 DEF UpdatePath, c
    <3>2. \A g \in reloads' : g.path = paths[k] => g.conf = c
      BY <2>5, <3>1 DEF Carries
    <3>3. \E g \in reloads' : g.path = paths[k]
      <4>1. [path |-> paths[k], conf |-> c] \in reloads'
        BY <3>1
      <4>2. [path |-> paths[k], conf |-> c].path = paths[k]
        OBVIOUS
      <4> QED
        BY <4>1, <4>2
    <3> QED
      BY <1>5, <2>1, <2>2, <2>4, <2>7, <3>1, <3>2, <3>3 DEF Follows, Carries
  <2> QED
    BY <2>3, <2>8, <2>9
<1> QED
  BY <1>4, <1>5

(* What a goroutine of a reload delivers is the configuration that decides.*)
LEMMA FollowReload ==
    ASSUME Inv, FollowInv, NEW g \in reloads, TakeReload(g) \/ GiveUpReload(g)
    PROVE  FollowInv'
<1> SUFFICES ASSUME PatientCore, pm # "done", NEW n \in Names, paths[n] # None
             PROVE  Follows(n)'
  BY DEF FollowInv, Follows, TakeReload, GiveUpReload, managerVars, mapVars
<1>1. TypeInv /\ MapInv /\ Follows(n)
  BY DEF Inv, Agreement, FollowInv
<1>2. /\ pa \in [Paths -> PathObjects] /\ paths[n] \in Paths /\ g.path \in Paths
  BY <1>1 DEF TypeInv
<1>3. /\ reloads' = reloads \ {g} /\ pm' = pm /\ paths' = paths /\ confName' = confName
      /\ todo' = todo /\ newPaths' = newPaths /\ pathConfs' = pathConfs
  BY DEF TakeReload, GiveUpReload, managerVars, mapVars
<1>4. ConfOf(n)' = ConfOf(n)
  BY <1>3 DEF ConfOf
<1> DEFINE c == FindPathConf(ConfOf(n), n)
<1>5. c' = c /\ Matches(ConfOf(n), n)' = Matches(ConfOf(n), n)
  BY <1>4 DEF FindPathConf, Matches, Entry
<1>6. CASE g.path = paths[n]
  <2>1. TakeReload(g)
    BY <1>1, <1>6 DEF GiveUpReload, MapInv
  <2>2. g.conf = c
    BY <1>1, <1>6 DEF Follows, Carries
  <2>3. pa'[paths[n]].conf = c
    BY <1>2, <1>6, <2>1, <2>2 DEF TakeReload, PathObjects
  <2> QED
    BY <1>1, <1>3, <1>5, <2>3 DEF Follows, Carries
<1>7. CASE g.path # paths[n]
  <2>1. pa'[paths[n]] = pa[paths[n]]
    BY <1>2, <1>7 DEF TakeReload, GiveUpReload
  <2> HIDE DEF c
  <2>2. (\A h \in reloads' : h.path # paths[n]) <=> (\A h \in reloads : h.path # paths[n])
    BY <1>3, <1>7
  <2> QED
    BY <1>1, <1>3, <1>5, <2>1, <2>2 DEF Follows, Carries, c
<1> QED
  BY <1>6, <1>7

(* A path that leaves the map takes nothing away from the others.          *)
LEMMA FollowRemoved ==
    ASSUME Inv, FollowInv, NEW p \in Paths, TellClosed(p) \/ Forget(p)
    PROVE  FollowInv'
<1> SUFFICES ASSUME PatientCore, pm # "done", NEW n \in Names, paths'[n] # None
             PROVE  Follows(n)'
  BY DEF FollowInv, Follows, TellClosed, Forget, managerVars
<1>1. TypeInv /\ MapInv /\ ObjectInv /\ Follows(n)
  BY DEF Inv, Agreement, FollowInv
<1>2. /\ pa \in [Paths -> PathObjects] /\ paths \in [Names -> Paths \cup {None}]
      /\ confName \in [Names -> Entries \cup {None}]
  BY <1>1 DEF TypeInv
<1>3. /\ pm' = pm /\ todo' = todo /\ newPaths' = newPaths /\ pathConfs' = pathConfs
  BY DEF TellClosed, Forget, managerVars
<1>4. /\ paths'[n] = paths[n] /\ confName'[n] = confName[n]
      /\ paths[n] \in Paths /\ pa'[paths[n]].conf = pa[paths[n]].conf
      /\ \A g \in reloads' : g \in reloads
      /\ \A g \in reloads : g.path = paths[n] => g \in reloads'
  <2>1. CASE TellClosed(p)
    <3>1. reloads' = reloads /\ \A q \in Paths : pa'[q].conf = pa[q].conf
      BY <1>2, <2>1 DEF TellClosed, PathObjects
    <3>2. paths'[n] = paths[n] /\ confName'[n] = confName[n]
      BY <1>2, <2>1 DEF TellClosed, RemovePath, mapVars
    <3> QED
      BY <1>2, <3>1, <3>2
  <2>2. CASE Forget(p)
    BY <1>2, <2>2 DEF Forget, mapVars
  <2> QED
    BY <2>1, <2>2
<1>5. ConfOf(n)' = ConfOf(n)
  BY <1>3 DEF ConfOf
<1>6. FindPathConf(ConfOf(n), n)' = FindPathConf(ConfOf(n), n)
      /\ Matches(ConfOf(n), n)' = Matches(ConfOf(n), n)
  BY <1>5 DEF FindPathConf, Matches, Entry
<1> QED
  BY <1>1, <1>3, <1>4, <1>6 DEF Follows, Carries

(* The paths that initialize creates follow the configuration.             *)
LEMMA FollowInit ==
    ASSUME Init, Inv
    PROVE  FollowInv
<1> DEFINE m == pathConfs
           unused == [p \in Paths |-> Unused]
           names == StaticNames(m)
<1>1. /\ m \in ConfMaps /\ pm = "serving" /\ reloads = {}
      /\ confName = [n \in Names |-> IF n \in names THEN n ELSE None]
  BY DEF Init
<1>2. PICK object \in Assignments(unused, names) :
        /\ pa = WithNew(unused, m, object)
        /\ paths = [n \in Names |-> IF n \in DOMAIN object THEN object[n] ELSE None]
  BY DEF Init
<1>3. names \subseteq Names
  BY <1>1, ConfMapsAssumption DEF StaticNames
<1>4. unused \in [Paths -> PathObjects]
  BY DEF Unused, PathObjects, Doing, Confs
<1>5. \A n \in names : Matches(m, n) /\ FindPathConf(m, n).name = n
  BY DEF StaticNames, Matches, FindPathConf, Entry
<1> HIDE DEF m, names, unused
<1>6. /\ object \in [names -> Paths]
      /\ \A n \in names : /\ unused[object[n]].doing = "none"
                          /\ WithNew(unused, m, object)[object[n]] =
                               [doing |-> "running", name |-> n,
                                conf |-> FindPathConf(m, n),
                                live |-> FALSE, done |-> FALSE]
      /\ \A p \in Paths : (\A n \in names : object[n] # p) =>
                               WithNew(unused, m, object)[p] = unused[p]
      /\ WithNew(unused, m, object) \in [Paths -> PathObjects]
  BY <1>1, <1>2, <1>3, <1>4, NewFacts
<1>7. ASSUME NEW n \in Names, paths[n] # None
      PROVE  Follows(n)
  <2>1. n \in names /\ paths[n] = object[n]
    BY <1>2, <1>6, <1>7
  <2>2. pa[object[n]] = [doing |-> "running", name |-> n, conf |-> FindPathConf(m, n),
                         live |-> FALSE, done |-> FALSE]
    BY <1>2, <1>6, <2>1
  <2>3. pa[paths[n]].conf = FindPathConf(m, n)
    BY <2>1, <2>2
  <2>4. Matches(m, n) /\ FindPathConf(m, n).name = n /\ confName[n] = n
    BY <1>1, <1>5, <2>1
  <2> QED
    BY <1>1, <2>3, <2>4 DEF Follows, ConfOf, m
<1> QED
  BY <1>7 DEF FollowInv, Follows

(* No step makes a path stop following, if reloads do not overtake one     *)
(* another.                                                                *)
LEMMA FollowStep ==
    ASSUME Inv, FollowInv, [Next]_vars
    PROVE  FollowInv'
<1>1. TypeInv
  BY DEF Inv
<1>2. ASSUME NEW c \in Clients, NEW n \in Names, Route(c, n)
      PROVE  FollowInv'
  <2>1. pm = "serving" /\ pm' = "serving" /\ pathConfs' = pathConfs
        /\ UNCHANGED <<managerVars, reloads>> /\ Matches(pathConfs, n)
    BY <1>2 DEF Route, managerVars
  <2>2. CASE paths[n] = None
    <3>1. CreatePaths(pathConfs, {n})
      BY <1>2, <2>2 DEF Route
    <3>2. pathConfs \in ConfMaps /\ {n} \subseteq Names
          /\ \A k \in {n} : paths[k] = None /\ Matches(pathConfs, k)
      BY <1>1, <2>1, <2>2 DEF TypeInv
    <3>3. \A k \in Names : ConfOf(k) = pathConfs
      BY <2>1 DEF ConfOf
    <3> QED
      BY <2>1, <3>1, <3>2, <3>3, FollowCreate
  <2>3. CASE paths[n] # None
    <3>1. UNCHANGED <<mapVars, pa>>
      BY <1>2, <2>3 DEF Route
    <3> QED
      BY <1>1, <2>1, <3>1, FollowSame DEF managerVars, mapVars
  <2> QED
    BY <2>2, <2>3
<1>3. ASSUME FinishReload
      PROVE  FollowInv'
  <2> DEFINE names == {k \in StaticNames(newPaths) : paths[k] = None}
  <2>1. /\ pm = "reloading" /\ pm' = "serving" /\ pathConfs' = newPaths /\ todo = {}
        /\ CreatePaths(newPaths, names) /\ UNCHANGED reloads
    BY <1>3 DEF FinishReload
  <2>2. newPaths \in ConfMaps /\ names \subseteq Names
    BY <1>1, ConfMapsAssumption DEF TypeInv, StaticNames
  <2>3. \A k \in names : paths[k] = None /\ Matches(newPaths, k)
    BY DEF StaticNames, Matches
  <2>4. \A k \in Names : ConfOf(k) = newPaths
    BY <2>1 DEF ConfOf
  <2> HIDE DEF names
  <2> QED
    BY <2>1, <2>2, <2>3, <2>4, FollowCreate
<1>4. ASSUME NEW m \in ConfMaps, ReloadPathConfs(m)
      PROVE  FollowInv'
  <2> SUFFICES ASSUME PatientCore, NEW n \in Names, paths[n] # None
               PROVE  Follows(n)'
    BY <1>4 DEF FollowInv, Follows, ReloadPathConfs, mapVars
  <2>1. /\ pm = "serving" /\ reloads = {} /\ todo' = {k \in Names : paths[k] # None}
        /\ UNCHANGED <<pathConfs, paths, confName, reloads, pa>>
    BY <1>4 DEF ReloadPathConfs, mapVars
  <2>2. Follows(n) /\ ConfOf(n) = pathConfs /\ ConfOf(n)' = pathConfs
    BY <2>1 DEF FollowInv, ConfOf
  <2>3. FindPathConf(ConfOf(n), n)' = FindPathConf(ConfOf(n), n)
        /\ Matches(ConfOf(n), n)' = Matches(ConfOf(n), n)
    BY <2>1, <2>2 DEF FindPathConf, Matches, Entry
  <2> QED
    BY <2>1, <2>2, <2>3 DEF Follows, Carries
<1>5. ASSUME Close
      PROVE  FollowInv'
  BY <1>5 DEF Close, FollowInv
<1>6. ASSUME Reloading
      PROVE  FollowInv'
  BY <1>1, <1>3, <1>6, FollowVisit, FollowSame, QuietSteps DEF Reloading
<1>7. ASSUME \/ \E c \in Clients :
                  \/ Terminated(c) \/ PublisherEnters(c) \/ ReaderEnters(c) \/ Refused(c)
                  \/ ReaderLeaves(c) \/ PublisherLeaves(c)
             \/ \E p \in Paths :
                  \/ SourceReady(p) \/ SourceNotReady(p) \/ SourceAsks(p) \/ SourceIsAnswered(p)
                  \/ TellReady(p) \/ Ending(p)
             \/ \E set \in BOOLEAN : SetHLSServer(set)
             \/ UNCHANGED vars
      PROVE  FollowInv'
  <2>1. /\ UNCHANGED <<pathConfs, newPaths, todo, paths, confName, reloads>>
        /\ pm' = pm \/ (pm = "waiting" /\ pm' = "reloading")
        /\ \A q \in Paths : pa'[q].conf = pa[q].conf
    BY <1>1, <1>7, QuietSteps
  <2> QED
    BY <1>1, <2>1, FollowSame
<1> QED
  BY <1>2, <1>4, <1>5, <1>6, <1>7, FollowRemoved, FollowReload DEF Next

(* Manager, paths and HLS server agree about which paths there are, what   *)
(* they serve and, once the goroutines of a reload are through, by which   *)
(* configuration, if reloads do not overtake one another                   *)
(* (path_manager.go:204-318, 472-497).                                     *)
THEOREM ManagerAlwaysKnows ==
    ASSUME PatientCore
    PROVE  Spec => []ManagerKnows
<1>1. Init => Inv /\ FollowInv
  BY InitInv, FollowInit
<1>2. Inv /\ FollowInv /\ [Next]_vars => (Inv /\ FollowInv)'
  BY StepInv, FollowStep
<1>3. Inv /\ FollowInv => ManagerKnows
  <2> SUFFICES ASSUME Inv, FollowInv
               PROVE  ManagerKnows
    OBVIOUS
  <2>1. ServingIsCurrent /\ ReadyIsTrue /\ HLSKnowsReady
    BY DEF Inv, Agreement
  <2>2. ConfFollows
    <3> SUFFICES ASSUME pm = "serving", NEW n \in Names, paths[n] # None,
                        \A g \in reloads : g.path # paths[n]
                 PROVE  Matches(pathConfs, n) /\ pa[paths[n]].conf = FindPathConf(pathConfs, n)
      BY DEF ConfFollows
    <3>1. Follows(n) /\ ConfOf(n) = pathConfs
      BY DEF FollowInv, ConfOf
    <3> QED
      BY <3>1 DEF Follows, Carries
  <2> QED
    BY <2>1, <2>2 DEF ManagerKnows
<1> QED
  BY <1>1, <1>2, <1>3, PTL DEF Spec
=============================================================================
