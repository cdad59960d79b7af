---------------------------- MODULE ServersProofs ----------------------------
(***************************************************************************)
(* That whichever server it is, its types are right, nobody stays behind   *)
(* in the path, and what it lists is there. One invariant per server, and  *)
(* one for what RTMP, SRT and WebRTC have in common.                       *)
(***************************************************************************)
EXTENDS Servers, TLAPS

-----------------------------------------------------------------------------
(* What three servers share, for a server of any clients.                  *)
Conn(cl) == INSTANCE ConnServer WITH Clients <- cl, MayRead <- cl, MayPublish <- cl

(* Where the goroutine of a client may be as far as the path matters: it   *)
(* has asked for nothing or got nothing, or it has been admitted as a      *)
(* reader, or as a publisher.                                              *)
Outside == {"handshake", "parsing", "new", "asking", "finding", "probing", "negotiating",
            "connecting", "gathering", "offering", "returned"}
Inside == {"admitted", "starting", "answering", "reading"}
Feeding == {"accepted", "publishing", "unpublishing"}
Common == {"none", "asking", "held", "admitted", "leaving", "offering", "accepted",
           "publishing", "unpublishing", "returned"}

(* Places and shown are those of one server.                               *)
ConnTypes(cl, places, shown) ==
    /\ Conn(cl)!ServerTypeOK
    /\ pc \in [cl -> places]
    /\ state \in [cl -> shown]

ConnEmpty(cl) == srv = "closed" => \A c \in cl : pc[c] = "none"

ConnInv(cl, places, shown) ==
    /\ ConnTypes(cl, places, shown)
    /\ Conn(cl)!NoGhosts
    /\ Conn(cl)!ListIsTrue
    /\ ConnEmpty(cl)

(* What a server has to be for the lemmas.                                 *)
ConnKind(cl, places, shown) ==
    /\ None \notin cl
    /\ Common \subseteq places
    /\ "idle" \in shown

(* Nobody is there in the beginning.                                       *)
LEMMA ConnInitInv ==
    ASSUME NEW cl, NEW places, NEW shown, ConnKind(cl, places, shown), Conn(cl)!ServerInit
    PROVE  ConnInv(cl, places, shown)
<1>1. /\ srv = "open" /\ closing = FALSE /\ conns = {}
      /\ pc = [c \in cl |-> "none"] /\ ctx = [c \in cl |-> FALSE]
      /\ state = [c \in cl |-> "idle"]
      /\ readers = {} /\ held = {} /\ publisher = None /\ conf = 1
  BY DEF Conn!ServerInit, Conn!SideInit
<1>2. ConnTypes(cl, places, shown)
  BY <1>1 DEF ConnTypes, ConnKind, Common, Conn!ServerTypeOK, Conn!SideTypeOK
<1>3. Conn(cl)!NoGhosts /\ Conn(cl)!ListIsTrue /\ ConnEmpty(cl)
  BY <1>1 DEF ConnKind, Conn!NoGhosts, Conn!Reading, Conn!Publishing, Conn!ListIsTrue, ConnEmpty
<1> QED
  BY <1>2, <1>3 DEF ConnInv

(* A step of the goroutine of a client that concerns nobody else: it does  *)
(* not enter the path, nor leave what it has to leave on its own.          *)
ConnMoves(cl, places, shown, c) ==
    /\ \E there \in places :
          /\ pc' = [pc EXCEPT ![c] = there]
          /\ \/ pc[c] \in Outside /\ there \in Outside
             \/ pc[c] \in Inside /\ there \in Inside \cup {"leaving"}
             \/ pc[c] \in Feeding /\ there \in Feeding
    /\ state' = state \/ \E what \in shown : state' = [state EXCEPT ![c] = what]
    /\ UNCHANGED <<srv, closing, conns, ctx, readers, held, publisher, conf>>

(* It keeps what the path and the list have to do with the client.         *)
LEMMA ConnMovesKeeps ==
    ASSUME NEW cl, NEW places, NEW shown, ConnKind(cl, places, shown),
           ConnInv(cl, places, shown), NEW c \in cl, ConnMoves(cl, places, shown, c)
    PROVE  ConnInv(cl, places, shown)'
<1>1. ConnTypes(cl, places, shown) /\ Conn(cl)!NoGhosts /\ Conn(cl)!ListIsTrue /\ ConnEmpty(cl)
  BY DEF ConnInv
<1>2. PICK there \in places :
         /\ pc' = [pc EXCEPT ![c] = there]
         /\ \/ pc[c] \in Outside /\ there \in Outside
            \/ pc[c] \in Inside /\ there \in Inside \cup {"leaving"}
            \/ pc[c] \in Feeding /\ there \in Feeding
  BY DEF ConnMoves
<1>3. state' = state \/ \E what \in shown : state' = [state EXCEPT ![c] = what]
  BY DEF ConnMoves
<1>4. UNCHANGED <<srv, closing, conns, ctx, readers, held, publisher, conf>>
  BY DEF ConnMoves
<1>5. /\ pc' \in [cl -> places] /\ pc'[c] = there
      /\ \A d \in cl : d # c => pc'[d] = pc[d]
  BY <1>1, <1>2 DEF ConnTypes
<1>6. state' \in [cl -> shown]
  BY <1>1, <1>3 DEF ConnTypes
<1>7. ConnTypes(cl, places, shown)'
  BY <1>1, <1>4, <1>5, <1>6 DEF ConnTypes, Conn!ServerTypeOK, Conn!SideTypeOK
<1>8. Conn(cl)!NoGhosts'
  BY <1>1, <1>2, <1>4, <1>5
  DEF Conn!NoGhosts, Conn!Reading, Conn!Publishing, Outside, Inside, Feeding
<1>9. Conn(cl)!ListIsTrue' /\ ConnEmpty(cl)'
  BY <1>1, <1>2, <1>4, <1>5 DEF Conn!ListIsTrue, ConnEmpty, Outside, Inside, Feeding
<1> QED
  BY <1>7, <1>8, <1>9 DEF ConnInv

(* The facts that every action of ConnServer leaves one by one.            *)
LEMMA ConnParts ==
    ASSUME NEW cl, NEW places, NEW shown, ConnInv(cl, places, shown)
    PROVE  /\ srv \in {"open", "cancelled", "ended", "closed"} /\ closing \in BOOLEAN
           /\ conns \subseteq cl /\ ctx \in [cl -> BOOLEAN]
           /\ readers \subseteq cl /\ held \subseteq cl /\ publisher \in cl \cup {None}
           /\ conf \in {1, 2}
           /\ pc \in [cl -> places] /\ state \in [cl -> shown]
           /\ Conn(cl)!NoGhosts /\ Conn(cl)!ListIsTrue /\ ConnEmpty(cl)
  BY DEF ConnInv, ConnTypes, Conn!ServerTypeOK, Conn!SideTypeOK

(* Telling some to end, which all who have a goroutine see.                *)
LEMMA CancelFacts ==
    ASSUME NEW cl, NEW set, ctx \in [cl -> BOOLEAN], Conn(cl)!Cancel(set)
    PROVE  /\ ctx' \in [cl -> BOOLEAN]
           /\ \A d \in cl : ~ctx'[d] => ~ctx[d] /\ ~(d \in set /\ pc[d] # "none")
<1>1. ctx' = [d \in cl |-> ctx[d] \/ (d \in set /\ pc[d] # "none")]
  BY DEF Conn!Cancel, Conn!At
<1> QED
  BY <1>1

(* A client comes.                                                         *)
LEMMA RegisterKeeps ==
    ASSUME NEW cl, NEW places, NEW shown, ConnKind(cl, places, shown),
           ConnInv(cl, places, shown), NEW c \in cl, NEW start \in places \cap Outside,
           Conn(cl)!Register(c, start)
    PROVE  ConnInv(cl, places, shown)'
<1>1. /\ srv \in {"open", "cancelled"} /\ pc[c] = "none"
      /\ conns' = conns \cup {c}
      /\ pc' = [pc EXCEPT ![c] = start]
      /\ ctx' = [ctx EXCEPT ![c] = srv # "open"]
      /\ state' = [state EXCEPT ![c] = "idle"]
      /\ UNCHANGED <<srv, closing, readers, held, publisher, conf>>
  BY DEF Conn!Register, Conn!LoopRuns, Conn!At, Conn!Goto, Conn!Show, Conn!serverVars,
     Conn!sideVars
<1>2. /\ pc' \in [cl -> places] /\ pc'[c] = start /\ \A d \in cl : d # c => pc'[d] = pc[d]
      /\ ctx' \in [cl -> BOOLEAN] /\ \A d \in cl : d # c => ctx'[d] = ctx[d]
      /\ srv = "open" => ~ctx'[c]
      /\ state' \in [cl -> shown]
  BY <1>1, ConnParts DEF ConnKind
<1>3. ConnTypes(cl, places, shown)'
  BY <1>1, <1>2, ConnParts DEF ConnTypes, Conn!ServerTypeOK, Conn!SideTypeOK
<1>4. Conn(cl)!NoGhosts'
  BY <1>1, <1>2, ConnParts DEF Conn!NoGhosts, Conn!Reading, Conn!Publishing, Outside
<1>5. Conn(cl)!ListIsTrue' /\ ConnEmpty(cl)'
  BY <1>1, <1>2, ConnParts DEF Conn!ListIsTrue, ConnEmpty, Outside
<1> QED
  BY <1>3, <1>4, <1>5 DEF ConnInv

(* A client is kicked, or the server ends, in one of its steps.            *)
LEMMA EndingKeeps ==
    ASSUME NEW cl, NEW places, NEW shown, ConnKind(cl, places, shown),
           ConnInv(cl, places, shown),
           \/ \E c \in cl : Conn(cl)!APIConnsKick(c)
           \/ Conn(cl)!AcceptError \/ Conn(cl)!Close
           \/ Conn(cl)!SeeContextDone \/ Conn(cl)!CloseReturns
    PROVE  ConnInv(cl, places, shown)'
<1>1. UNCHANGED <<pc, state, readers, held, publisher, conf>>
  BY DEF Conn!APIConnsKick, Conn!AcceptError, Conn!Close, Conn!SeeContextDone, Conn!CloseReturns,
     Conn!sideVars, Conn!connVars
<1>2. ctx' = ctx \/ \E set : Conn(cl)!Cancel(set)
  BY DEF Conn!APIConnsKick, Conn!AcceptError, Conn!Close, Conn!SeeContextDone, Conn!CloseReturns,
     Conn!connVars
<1>3. ctx' \in [cl -> BOOLEAN] /\ \A d \in cl : ~ctx'[d] => ~ctx[d]
  BY <1>2, ConnParts, CancelFacts
<1>4. conns' = conns \/ \E c \in cl : conns' = conns \ {c} /\ (pc[c] # "none" => ctx'[c])
  <2>1. CASE \E c \in cl : Conn(cl)!APIConnsKick(c)
    <3>1. PICK c \in cl : conns' = conns \ {c} /\ Conn(cl)!Cancel({c})
      BY <2>1 DEF Conn!APIConnsKick
    <3> QED
      BY <3>1, ConnParts, CancelFacts
  <2>2. CASE Conn(cl)!AcceptError \/ Conn(cl)!Close
             \/ Conn(cl)!SeeContextDone \/ Conn(cl)!CloseReturns
    BY <2>2 DEF Conn!AcceptError, Conn!Close, Conn!SeeContextDone, Conn!CloseReturns
  <2> QED
    BY <2>1, <2>2
<1>5. /\ srv' \in {"open", "cancelled", "ended", "closed"} /\ closing' \in BOOLEAN
      /\ srv' = "open" => srv = "open"
      /\ srv' = "closed" => srv = "closed" \/ \A c \in cl : pc[c] = "none"
  BY ConnParts DEF Conn!APIConnsKick, Conn!AcceptError, Conn!Close, Conn!SeeContextDone,
     Conn!CloseReturns, Conn!serverVars, Conn!LoopRuns, Conn!At
<1>6. ConnTypes(cl, places, shown)'
  BY <1>1, <1>3, <1>4, <1>5, ConnParts DEF ConnTypes, Conn!ServerTypeOK, Conn!SideTypeOK
<1>7. Conn(cl)!NoGhosts'
  BY <1>1, <1>3, ConnParts DEF Conn!NoGhosts, Conn!Reading, Conn!Publishing
<1>8. Conn(cl)!ListIsTrue'
  BY <1>1, <1>3, <1>4, <1>5, ConnParts DEF Conn!ListIsTrue
<1>9. ConnEmpty(cl)'
  BY <1>1, <1>5, ConnParts DEF ConnEmpty
<1> QED
  BY <1>6, <1>7, <1>8, <1>9 DEF ConnInv

(* The goroutine of a client ends.                                         *)
LEMMA ConnClosesKeeps ==
    ASSUME NEW cl, NEW places, NEW shown, ConnKind(cl, places, shown),
           ConnInv(cl, places, shown), NEW c \in cl, Conn(cl)!ConnCloses(c)
    PROVE  ConnInv(cl, places, shown)'
<1>1. /\ pc[c] = "returned"
      /\ \/ srv \in {"open", "cancelled"} /\ conns' = conns \ {c}
         \/ srv # "open" /\ conns' = conns
      /\ pc' = [pc EXCEPT ![c] = "none"]
      /\ ctx' = [ctx EXCEPT ![c] = FALSE]
      /\ UNCHANGED <<srv, closing, state, readers, held, publisher, conf>>
  BY DEF Conn!ConnCloses, Conn!LoopRuns, Conn!At, Conn!Goto, Conn!serverVars, Conn!sideVars
<1>2. /\ pc' \in [cl -> places] /\ pc'[c] = "none" /\ \A d \in cl : d # c => pc'[d] = pc[d]
      /\ ctx' \in [cl -> BOOLEAN] /\ \A d \in cl : d # c => ctx'[d] = ctx[d]
  BY <1>1, ConnParts DEF ConnKind, Common
<1>3. ConnTypes(cl, places, shown)'
  BY <1>1, <1>2, ConnParts DEF ConnTypes, Conn!ServerTypeOK, Conn!SideTypeOK
<1>4. Conn(cl)!NoGhosts'
  BY <1>1, <1>2, ConnParts DEF Conn!NoGhosts, Conn!Reading, Conn!Publishing
<1>5. Conn(cl)!ListIsTrue' /\ ConnEmpty(cl)'
  BY <1>1, <1>2, ConnParts DEF Conn!ListIsTrue, ConnEmpty
<1> QED
  BY <1>3, <1>4, <1>5 DEF ConnInv

-----------------------------------------------------------------------------
(* What they share of the path.                                            *)
(* AddReader is answered, or waits.                                        *)
LEMMA AddReaderKeeps ==
    ASSUME NEW cl, NEW places, NEW shown, ConnKind(cl, places, shown),
           ConnInv(cl, places, shown), NEW c \in cl,
           Conn(cl)!AddReaderTo(c) \/ Conn(cl)!WaitOnHold(c)
    PROVE  ConnInv(cl, places, shown)'
<1>1. /\ pc[c] \in {"asking", "held"}
      /\ UNCHANGED <<srv, closing, conns, ctx, state, publisher, conf>>
      /\ \/ /\ readers' = readers \cup {c} /\ held' = held \ {c}
            /\ pc' = [pc EXCEPT ![c] = "admitted"]
         \/ /\ readers' = readers /\ held' = held \ {c}
            /\ pc' = [pc EXCEPT ![c] = "returned"]
         \/ /\ readers' = readers /\ held' = held \cup {c}
            /\ pc' = [pc EXCEPT ![c] = "held"]
  BY DEF Conn!AddReaderTo, Conn!WaitOnHold, Conn!At, Conn!Goto, Conn!serverVars,
     Conn!AdmitReader, Conn!RefuseReader, Conn!HoldReader
<1>2. PICK there \in {"admitted", "returned", "held"} :
         /\ pc' = [pc EXCEPT ![c] = there]
         /\ there = "admitted" <=> c \in readers'
         /\ there = "held" <=> c \in held'
         /\ \A d \in cl :
               d # c => (d \in readers' <=> d \in readers) /\ (d \in held' <=> d \in held)
  BY <1>1, ConnParts DEF Conn!NoGhosts, Conn!Reading
<1>3. /\ pc' \in [cl -> places] /\ pc'[c] = there /\ \A d \in cl : d # c => pc'[d] = pc[d]
      /\ state' \in [cl -> shown]
  BY <1>1, <1>2, ConnParts DEF ConnKind, Common
<1>4. ConnTypes(cl, places, shown)'
  BY <1>1, <1>3, ConnParts DEF ConnTypes, Conn!ServerTypeOK, Conn!SideTypeOK
<1>5. Conn(cl)!NoGhosts'
  BY <1>1, <1>2, <1>3, ConnParts DEF Conn!NoGhosts, Conn!Reading, Conn!Publishing
<1>6. Conn(cl)!ListIsTrue' /\ ConnEmpty(cl)'
  BY <1>1, <1>2, <1>3, ConnParts DEF Conn!ListIsTrue, ConnEmpty
<1> QED
  BY <1>4, <1>5, <1>6 DEF ConnInv

(* A reader leaves.                                                        *)
LEMMA LeavePathKeeps ==
    ASSUME NEW cl, NEW places, NEW shown, ConnKind(cl, places, shown),
           ConnInv(cl, places, shown), NEW c \in cl, Conn(cl)!LeavePath(c)
    PROVE  ConnInv(cl, places, shown)'
<1>1. /\ pc[c] = "leaving" /\ pc' = [pc EXCEPT ![c] = "returned"]
      /\ readers' = readers \ {c}
      /\ UNCHANGED <<srv, closing, conns, ctx, state, held, publisher, conf>>
  BY DEF Conn!LeavePath, Conn!At, Conn!Goto, Conn!serverVars, Conn!RemoveReader
<1>2. /\ pc' \in [cl -> places] /\ pc'[c] = "returned" /\ \A d \in cl : d # c => pc'[d] = pc[d]
  BY <1>1, ConnParts DEF ConnKind, Common
<1>3. ConnTypes(cl, places, shown)'
  BY <1>1, <1>2, ConnParts DEF ConnTypes, Conn!ServerTypeOK, Conn!SideTypeOK
<1>4. Conn(cl)!NoGhosts'
  BY <1>1, <1>2, ConnParts DEF Conn!NoGhosts, Conn!Reading, Conn!Publishing
<1>5. Conn(cl)!ListIsTrue' /\ ConnEmpty(cl)'
  BY <1>1, <1>2, ConnParts DEF Conn!ListIsTrue, ConnEmpty
<1> QED
  BY <1>3, <1>4, <1>5 DEF ConnInv

(* AddPublisher is answered; whoever it displaces is told to end.          *)
LEMMA AddPublisherKeeps ==
    ASSUME NEW cl, NEW places, NEW shown, ConnKind(cl, places, shown),
           ConnInv(cl, places, shown), NEW c \in cl, NEW allowed,
           Conn(cl)!AddPublisherIf(allowed, c)
    PROVE  ConnInv(cl, places, shown)'
<1>1. pc[c] = "offering" /\ UNCHANGED <<srv, closing, conns, state>>
  BY DEF Conn!AddPublisherIf, Conn!At, Conn!serverVars
<1>2. c \notin readers /\ c \notin held /\ c # publisher
  BY <1>1, ConnParts DEF Conn!NoGhosts, Conn!Reading, Conn!Publishing
<1>3. CASE /\ Conn(cl)!AdmitPublisher(c) /\ Conn(cl)!Goto(c, "accepted")
           /\ Conn(cl)!Cancel(Conn(cl)!Displaced)
  <2>1. /\ publisher' = c /\ readers' = (IF publisher = None THEN readers ELSE {})
        /\ UNCHANGED <<held, conf>>
        /\ pc' = [pc EXCEPT ![c] = "accepted"]
    BY <1>3 DEF Conn!AdmitPublisher, Conn!Goto
  <2>2. /\ ctx' \in [cl -> BOOLEAN]
        /\ \A d \in cl :
              ~ctx'[d] => ~ctx[d] /\ (publisher # None /\ (d = publisher \/ d \in readers)
                                         => pc[d] = "none")
    BY <1>3, ConnParts, CancelFacts DEF Conn!Displaced
  <2>3. /\ pc' \in [cl -> places] /\ pc'[c] = "accepted"
        /\ \A d \in cl : d # c => pc'[d] = pc[d]
        /\ state' \in [cl -> shown]
    BY <1>1, <2>1, ConnParts DEF ConnKind, Common
  <2>4. ConnTypes(cl, places, shown)'
    BY <1>1, <2>1, <2>2, <2>3, ConnParts DEF ConnTypes, Conn!ServerTypeOK, Conn!SideTypeOK
  <2>5. Conn(cl)!NoGhosts'
    BY <1>1, <1>2, <2>1, <2>2, <2>3, ConnParts
    DEF Conn!NoGhosts, Conn!Reading, Conn!Publishing, ConnKind
  <2>6. Conn(cl)!ListIsTrue' /\ ConnEmpty(cl)'
    BY <1>1, <2>2, <2>3, ConnParts DEF Conn!ListIsTrue, ConnEmpty
  <2> QED
    BY <2>4, <2>5, <2>6 DEF ConnInv
<1>4. CASE Conn(cl)!Goto(c, "returned") /\ UNCHANGED <<ctx, Conn(cl)!sideVars>>
  <2>1. ConnMoves(cl, places, shown, c)
    <3>1. "returned" \in places /\ pc' = [pc EXCEPT ![c] = "returned"]
      BY <1>4 DEF Conn!Goto, ConnKind, Common
    <3> QED
      BY <1>1, <1>4, <3>1 DEF ConnMoves, Conn!sideVars, Outside
  <2> QED
    BY <2>1, ConnMovesKeeps
<1> QED
  BY <1>3, <1>4 DEF Conn!AddPublisherIf

(* A publisher leaves, with the readers that it had if it was the one; or  *)
(* the path ends its stream on its own.                                    *)
LEMMA StreamEndsKeeps ==
    ASSUME NEW cl, NEW places, NEW shown, ConnKind(cl, places, shown),
           ConnInv(cl, places, shown),
           (\E c \in cl : Conn(cl)!Unpublish(c)) \/ Conn(cl)!PathEndsStream
    PROVE  ConnInv(cl, places, shown)'
<1>1. ASSUME NEW c \in cl, Conn(cl)!Unpublish(c)
      PROVE  ConnInv(cl, places, shown)'
  <2>1. /\ pc[c] = "unpublishing" /\ pc' = [pc EXCEPT ![c] = "returned"]
        /\ publisher' = (IF publisher = c THEN None ELSE publisher)
        /\ readers' = readers \ (IF publisher = c THEN readers ELSE {})
        /\ Conn(cl)!Cancel(IF publisher = c THEN readers ELSE {})
        /\ UNCHANGED <<srv, closing, conns, state, held, conf>>
    BY <1>1 DEF Conn!Unpublish, Conn!At, Conn!Goto, Conn!serverVars, Conn!RemovePublisher,
       Conn!LeftBehind
  <2>2. /\ pc' \in [cl -> places] /\ pc'[c] = "returned" /\ \A d \in cl : d # c => pc'[d] = pc[d]
    BY <2>1, ConnParts DEF ConnKind, Common
  <2>3. /\ ctx' \in [cl -> BOOLEAN]
        /\ \A d \in cl : ~ctx'[d] => ~ctx[d] /\ (publisher = c /\ d \in readers => pc[d] = "none")
    BY <2>1, ConnParts, CancelFacts
  <2>4. ConnTypes(cl, places, shown)'
    BY <2>1, <2>2, <2>3, ConnParts DEF ConnTypes, Conn!ServerTypeOK, Conn!SideTypeOK
  <2>5. Conn(cl)!NoGhosts'
    BY <2>1, <2>2, <2>3, ConnParts DEF Conn!NoGhosts, Conn!Reading, Conn!Publishing, ConnKind
  <2>6. Conn(cl)!ListIsTrue' /\ ConnEmpty(cl)'
    BY <2>1, <2>2, <2>3, ConnParts DEF Conn!ListIsTrue, ConnEmpty
  <2> QED
    BY <2>4, <2>5, <2>6 DEF ConnInv
<1>2. ASSUME Conn(cl)!PathEndsStream
      PROVE  ConnInv(cl, places, shown)'
  <2>1. /\ readers' = {} /\ publisher' = None
        /\ Conn(cl)!Cancel(readers \cup ({publisher} \ {None}))
        /\ UNCHANGED <<srv, closing, conns, pc, state, held, conf>>
    BY <1>2 DEF Conn!PathEndsStream, Conn!EndStream, Conn!Served, Conn!serverVars
  <2>2. /\ ctx' \in [cl -> BOOLEAN]
        /\ \A d \in cl : ~ctx'[d] => ~ctx[d] /\ (d \in readers \/ (d = publisher /\ d # None)
                                                    => pc[d] = "none")
    BY <2>1, ConnParts, CancelFacts
  <2>3. ConnTypes(cl, places, shown)'
    BY <2>1, <2>2, ConnParts DEF ConnTypes, Conn!ServerTypeOK, Conn!SideTypeOK
  <2>4. Conn(cl)!NoGhosts'
    BY <2>1, <2>2, ConnParts DEF Conn!NoGhosts, Conn!Reading, Conn!Publishing, ConnKind
  <2>5. Conn(cl)!ListIsTrue' /\ ConnEmpty(cl)'
    BY <2>1, <2>2, ConnParts DEF Conn!ListIsTrue, ConnEmpty
  <2> QED
    BY <2>3, <2>4, <2>5 DEF ConnInv
<1> QED
  BY <1>1, <1>2

(* The configuration of the path changes, or nothing does.                 *)
LEMMA ConfKeeps ==
    ASSUME NEW cl, NEW places, NEW shown, ConnInv(cl, places, shown),
           Conn(cl)!ChangeConf \/ UNCHANGED Conn(cl)!sideVars,
           UNCHANGED <<srv, closing, conns, pc, ctx, state>>
    PROVE  ConnInv(cl, places, shown)'
<1>1. UNCHANGED <<readers, held, publisher>> /\ conf' \in {1, 2}
  BY ConnParts DEF Conn!ChangeConf, Conn!sideVars
<1>2. ConnTypes(cl, places, shown)'
  BY <1>1, ConnParts DEF ConnTypes, Conn!ServerTypeOK, Conn!SideTypeOK
<1>3. Conn(cl)!NoGhosts' /\ Conn(cl)!ListIsTrue' /\ ConnEmpty(cl)'
  BY <1>1, ConnParts DEF Conn!NoGhosts, Conn!Reading, Conn!Publishing, Conn!ListIsTrue, ConnEmpty
<1> QED
  BY <1>2, <1>3 DEF ConnInv
-----------------------------------------------------------------------------
(* The RTMP server.                                                        *)

(* It has what the three share.                                            *)
LEMMA RTMPIsConn ==
    /\ RTMP!ServerInit <=> Conn(Clients["rtmp"])!ServerInit
    /\ RTMP!AcceptError <=> Conn(Clients["rtmp"])!AcceptError
    /\ RTMP!Close <=> Conn(Clients["rtmp"])!Close
    /\ RTMP!SeeContextDone <=> Conn(Clients["rtmp"])!SeeContextDone
    /\ RTMP!CloseReturns <=> Conn(Clients["rtmp"])!CloseReturns
    /\ RTMP!PathEndsStream <=> Conn(Clients["rtmp"])!PathEndsStream
    /\ RTMP!ChangeConf <=> Conn(Clients["rtmp"])!ChangeConf
    /\ RTMP!ServerTypeOK <=> Conn(Clients["rtmp"])!ServerTypeOK
    /\ RTMP!NoGhosts <=> Conn(Clients["rtmp"])!NoGhosts
    /\ RTMP!ListIsTrue <=> Conn(Clients["rtmp"])!ListIsTrue
    /\ \A c \in Clients["rtmp"] :
          /\ RTMP!APIConnsKick(c) <=> Conn(Clients["rtmp"])!APIConnsKick(c)
          /\ RTMP!ConnCloses(c) <=> Conn(Clients["rtmp"])!ConnCloses(c)
          /\ RTMP!WaitOnHold(c) <=> Conn(Clients["rtmp"])!WaitOnHold(c)
          /\ RTMP!LeavePath(c) <=> Conn(Clients["rtmp"])!LeavePath(c)
          /\ RTMP!Unpublish(c) <=> Conn(Clients["rtmp"])!Unpublish(c)
          /\ \A s : RTMP!Register(c, s) <=> Conn(Clients["rtmp"])!Register(c, s)
          /\ RTMP!AddReaderTo(c) <=> Conn(Clients["rtmp"])!AddReaderTo(c)
          /\ \A b :
                RTMP!AddPublisherIf(b, c) <=> Conn(Clients["rtmp"])!AddPublisherIf(b, c)
  BY Zenon DEF RTMP!LoopRuns, Conn!LoopRuns, RTMP!At, Conn!At, RTMP!Goto, Conn!Goto, RTMP!Show,
     Conn!Show, RTMP!Cancel, Conn!Cancel, RTMP!serverVars, Conn!serverVars, RTMP!connVars,
     Conn!connVars, RTMP!sideVars, Conn!sideVars, RTMP!Served, Conn!Served, RTMP!Displaced,
     Conn!Displaced, RTMP!LeftBehind, Conn!LeftBehind, RTMP!AdmitReader, Conn!AdmitReader,
     RTMP!HoldReader, Conn!HoldReader, RTMP!RefuseReader, Conn!RefuseReader, RTMP!RemoveReader,
     Conn!RemoveReader, RTMP!AdmitPublisher, Conn!AdmitPublisher, RTMP!RemovePublisher,
     Conn!RemovePublisher, RTMP!EndStream, Conn!EndStream, RTMP!SideInit, Conn!SideInit,
     RTMP!SideTypeOK, Conn!SideTypeOK, RTMP!ServerInit, Conn!ServerInit, RTMP!AcceptError,
     Conn!AcceptError, RTMP!Close, Conn!Close, RTMP!SeeContextDone, Conn!SeeContextDone,
     RTMP!CloseReturns, Conn!CloseReturns, RTMP!PathEndsStream, Conn!PathEndsStream,
     RTMP!ChangeConf, Conn!ChangeConf, RTMP!ServerTypeOK, Conn!ServerTypeOK, RTMP!NoGhosts,
     Conn!NoGhosts, RTMP!ListIsTrue, Conn!ListIsTrue, RTMP!APIConnsKick, Conn!APIConnsKick,
     RTMP!ConnCloses, Conn!ConnCloses, RTMP!WaitOnHold, Conn!WaitOnHold, RTMP!LeavePath,
     Conn!LeavePath, RTMP!Unpublish, Conn!Unpublish, RTMP!Register, Conn!Register,
     RTMP!AddReaderTo, Conn!AddReaderTo, RTMP!AddPublisherIf, Conn!AddPublisherIf,
     RTMP!Reading, Conn!Reading, RTMP!Publishing, Conn!Publishing

RTMPPlaces == {"none", "handshake", "asking", "held", "admitted", "starting", "reading",
               "leaving", "offering", "accepted", "publishing", "unpublishing", "returned"}
RTMPShown == {"idle", "read", "publish"}

(* What is shown of a client follows from where it is.                     *)
RTMPStates ==
    \A c \in Clients["rtmp"] :
        /\ pc[c] \in {"publishing", "unpublishing"} => state[c] = "publish"
        /\ pc[c] \in {"starting", "reading", "leaving"} => state[c] = "read"
        /\ pc[c] \in {"handshake", "asking", "held", "offering", "admitted", "accepted"}
              => state[c] = "idle"

RTMPInv == ConnInv(Clients["rtmp"], RTMPPlaces, RTMPShown) /\ RTMPStates

(* It is a server of that kind.                                            *)
LEMMA RTMPKind == ConnKind(Clients["rtmp"], RTMPPlaces, RTMPShown)
  BY NoneAssumption DEF ConnKind, Common, RTMPPlaces, RTMPShown, Everybody, Kinds

(* Nobody is there in the beginning.                                       *)
LEMMA RTMPInitInv ==
    ASSUME RTMP!Init
    PROVE  RTMPInv
<1>1. Conn(Clients["rtmp"])!ServerInit
  BY RTMPIsConn DEF RTMP!Init
<1>2. ConnInv(Clients["rtmp"], RTMPPlaces, RTMPShown)
  BY <1>1, RTMPKind, ConnInitInv
<1>3. RTMPStates
  BY <1>1 DEF Conn!ServerInit, RTMPStates
<1> QED
  BY <1>2, <1>3 DEF RTMPInv

(* The steps of a goroutine that concern nobody else.                      *)
LEMMA RTMPMoves ==
    ASSUME NEW c \in Clients["rtmp"],
           RTMP!Handshake(c) \/ RTMP!ShowRead(c) \/ RTMP!StartReading(c)
               \/ RTMP!ReadingEnds(c) \/ RTMP!ShowPublish(c) \/ RTMP!PublishingEnds(c)
    PROVE  ConnMoves(Clients["rtmp"], RTMPPlaces, RTMPShown, c)
<1>1. UNCHANGED <<srv, closing, conns, ctx, readers, held, publisher, conf>>
  BY DEF RTMP!Handshake, RTMP!ShowRead, RTMP!StartReading, RTMP!ReadingEnds, RTMP!ShowPublish,
     RTMP!PublishingEnds, RTMP!Moves, RTMP!serverVars, RTMP!sideVars
<1>2. state' = state \/ \E what \in RTMPShown : state' = [state EXCEPT ![c] = what]
  BY DEF RTMP!Handshake, RTMP!ShowRead, RTMP!StartReading, RTMP!ReadingEnds, RTMP!ShowPublish,
     RTMP!PublishingEnds, RTMP!Moves, RTMP!Show, RTMPShown
<1>3. \E there \in RTMPPlaces :
         /\ pc' = [pc EXCEPT ![c] = there]
         /\ \/ pc[c] = "handshake" /\ there \in {"returned", "asking", "offering"}
            \/ pc[c] = "admitted" /\ there = "starting"
            \/ pc[c] \in {"starting", "reading"} /\ there \in {"reading", "leaving"}
            \/ pc[c] = "accepted" /\ there = "publishing"
            \/ pc[c] = "publishing" /\ there = "unpublishing"
  BY DEF RTMP!Handshake, RTMP!ShowRead, RTMP!StartReading, RTMP!ReadingEnds, RTMP!ShowPublish,
     RTMP!PublishingEnds, RTMP!Moves, RTMP!Goto, RTMP!At, RTMP!Wishes, RTMPPlaces
<1> QED
  BY <1>1, <1>2, <1>3 DEF ConnMoves, Outside, Inside, Feeding

(* No step breaks what the three share.                                    *)
LEMMA RTMPConnKeeps ==
    ASSUME ConnInv(Clients["rtmp"], RTMPPlaces, RTMPShown), [RTMP!Next]_RTMP!vars
    PROVE  ConnInv(Clients["rtmp"], RTMPPlaces, RTMPShown)'
<1>1. CASE RTMP!Run \/ RTMP!Close \/ RTMP!CloseReturns
  <2>1. CASE \E c \in Clients["rtmp"] : RTMP!NewConn(c)
    <3>1. "handshake" \in RTMPPlaces \cap Outside
      BY DEF RTMPPlaces, Outside
    <3>2. \E c \in Clients["rtmp"] : Conn(Clients["rtmp"])!Register(c, "handshake")
      BY <2>1, RTMPIsConn DEF RTMP!NewConn
    <3> QED
      BY <3>1, <3>2, RTMPKind, RegisterKeeps
  <2>2. CASE \/ \E c \in Clients["rtmp"] : RTMP!APIConnsKick(c)
             \/ RTMP!AcceptError \/ RTMP!SeeContextDone \/ RTMP!Close \/ RTMP!CloseReturns
    BY <2>2, RTMPIsConn, RTMPKind, EndingKeeps
  <2> QED
    BY <1>1, <2>1, <2>2 DEF RTMP!Run
<1>2. ASSUME NEW c \in Clients["rtmp"],
             RTMP!ConnRun(c) \/ RTMP!WaitOnHold(c) \/ RTMP!Interrupted(c)
      PROVE  ConnInv(Clients["rtmp"], RTMPPlaces, RTMPShown)'
  <2>2. CASE RTMP!AddReader(c) \/ RTMP!WaitOnHold(c)
    BY <2>2, RTMPIsConn, RTMPKind, AddReaderKeeps DEF RTMP!AddReader
  <2>3. CASE RTMP!LeavePath(c) \/ RTMP!Unpublish(c) \/ RTMP!ConnCloses(c)
    BY <2>3, RTMPIsConn, RTMPKind, LeavePathKeeps, StreamEndsKeeps, ConnClosesKeeps
  <2>4. CASE RTMP!AddPublisher(c)
    <3>1. Conn(Clients["rtmp"])!AddPublisherIf(TRUE, c)
      BY <2>4, RTMPIsConn DEF RTMP!AddPublisher
    <3> QED
      BY <3>1, RTMPKind, AddPublisherKeeps
  <2>5. CASE RTMP!ShowRead(c) \/ RTMP!StartReading(c) \/ RTMP!ShowPublish(c)
             \/ RTMP!Interrupted(c)
    BY <2>5, RTMPKind, RTMPMoves, ConnMovesKeeps DEF RTMP!Interrupted
  <2> QED
    BY <1>2, <2>2, <2>3, <2>4, <2>5 DEF RTMP!ConnRun
<1>3. CASE RTMP!PathEndsStream
  BY <1>3, RTMPIsConn, RTMPKind, StreamEndsKeeps
<1>4. CASE UNCHANGED RTMP!vars
  <2>1. /\ UNCHANGED Conn(Clients["rtmp"])!sideVars
        /\ UNCHANGED <<srv, closing, conns, pc, ctx, state>>
    BY <1>4 DEF RTMP!vars, RTMP!connServerVars, RTMP!serverVars, RTMP!connVars, RTMP!sideVars,
       Conn!sideVars
  <2> QED
    BY <2>1, ConfKeeps
<1> QED
  BY <1>1, <1>2, <1>3, <1>4 DEF RTMP!Next

(* No step shows a client as what it is not.                               *)
LEMMA RTMPStatesKeep ==
    ASSUME ConnInv(Clients["rtmp"], RTMPPlaces, RTMPShown), RTMPStates, [RTMP!Next]_RTMP!vars
    PROVE  RTMPStates'
<1>1. pc \in [Clients["rtmp"] -> RTMPPlaces] /\ state \in [Clients["rtmp"] -> RTMPShown]
  BY ConnParts
<1>2. CASE UNCHANGED <<pc, state>>
  BY <1>2 DEF RTMPStates
<1>3. ASSUME NEW c \in Clients["rtmp"],
             \/ /\ pc' = [pc EXCEPT ![c] = "handshake"] /\ state' = [state EXCEPT ![c] = "idle"]
             \/ /\ pc' = [pc EXCEPT ![c] = "starting"] /\ state' = [state EXCEPT ![c] = "read"]
             \/ /\ pc' = [pc EXCEPT ![c] = "publishing"]
                /\ state' = [state EXCEPT ![c] = "publish"]
             \/ /\ state' = state
                /\ \E there \in RTMPPlaces :
                      /\ pc' = [pc EXCEPT ![c] = there]
                      /\ \/ there \in {"returned", "none"}
                         \/ /\ pc[c] \in {"handshake", "asking", "held", "offering"}
                            /\ there \in {"asking", "offering", "held", "admitted", "accepted"}
                         \/ pc[c] \in {"starting", "reading"} /\ there \in {"reading", "leaving"}
                         \/ pc[c] = "publishing" /\ there = "unpublishing"
      PROVE  RTMPStates'
  <2>1. \A d \in Clients["rtmp"] : d # c => pc'[d] = pc[d] /\ state'[d] = state[d]
    BY <1>1, <1>3
  <2>2. /\ pc'[c] \in {"publishing", "unpublishing"} => state'[c] = "publish"
        /\ pc'[c] \in {"starting", "reading", "leaving"} => state'[c] = "read"
        /\ pc'[c] \in {"handshake", "asking", "held", "offering", "admitted", "accepted"}
              => state'[c] = "idle"
    BY <1>1, <1>3 DEF RTMPStates
  <2> QED
    BY <2>1, <2>2 DEF RTMPStates
<1>4. CASE \/ RTMP!Close \/ RTMP!CloseReturns \/ RTMP!AcceptError \/ RTMP!SeeContextDone
           \/ RTMP!PathEndsStream \/ (\E c \in Clients["rtmp"] : RTMP!APIConnsKick(c))
           \/ UNCHANGED RTMP!vars
  <2>1. UNCHANGED <<pc, state>>
    BY <1>4 DEF RTMP!Close, RTMP!CloseReturns, RTMP!AcceptError, RTMP!SeeContextDone,
       RTMP!PathEndsStream, RTMP!APIConnsKick, RTMP!connVars, RTMP!vars, RTMP!connServerVars
  <2> QED
    BY <2>1, <1>2
<1>5. ASSUME NEW c \in Clients["rtmp"],
             RTMP!NewConn(c) \/ RTMP!ShowRead(c) \/ RTMP!ShowPublish(c)
      PROVE  RTMPStates'
  <2>1. \/ pc' = [pc EXCEPT ![c] = "handshake"] /\ state' = [state EXCEPT ![c] = "idle"]
        \/ pc' = [pc EXCEPT ![c] = "starting"] /\ state' = [state EXCEPT ![c] = "read"]
        \/ pc' = [pc EXCEPT ![c] = "publishing"] /\ state' = [state EXCEPT ![c] = "publish"]
    BY <1>5 DEF RTMP!NewConn, RTMP!ShowRead, RTMP!ShowPublish, RTMP!Register, RTMP!Goto, RTMP!Show
  <2> QED
    BY <1>3, <2>1
<1>6. ASSUME NEW c \in Clients["rtmp"],
             \/ RTMP!AddReader(c) \/ RTMP!WaitOnHold(c) \/ RTMP!StartReading(c)
             \/ RTMP!AddPublisher(c) \/ RTMP!Interrupted(c) \/ RTMP!LeavePath(c)
             \/ RTMP!Unpublish(c) \/ RTMP!ConnCloses(c)
      PROVE  RTMPStates'
  <2>1. state' = state
    BY <1>6 DEF RTMP!WaitOnHold, RTMP!StartReading, RTMP!LeavePath, RTMP!Unpublish,
       RTMP!ConnCloses, RTMP!Interrupted, RTMP!Handshake, RTMP!ReadingEnds, RTMP!PublishingEnds,
       RTMP!Moves, RTMP!AddReader, RTMP!AddReaderTo, RTMP!AddPublisher, RTMP!AddPublisherIf
  <2>2. \E there \in RTMPPlaces :
           /\ pc' = [pc EXCEPT ![c] = there]
           /\ \/ there \in {"returned", "none"}
              \/ /\ pc[c] \in {"handshake", "asking", "held", "offering"}
                 /\ there \in {"asking", "offering", "held", "admitted", "accepted"}
              \/ pc[c] \in {"starting", "reading"} /\ there \in {"reading", "leaving"}
              \/ pc[c] = "publishing" /\ there = "unpublishing"
    BY <1>6 DEF RTMP!WaitOnHold, RTMP!StartReading, RTMP!LeavePath, RTMP!Unpublish,
       RTMP!ConnCloses, RTMP!Interrupted, RTMP!Handshake, RTMP!ReadingEnds, RTMP!PublishingEnds,
       RTMP!Moves, RTMP!Wishes, RTMP!Goto, RTMP!At, RTMPPlaces, RTMP!AddReader,
       RTMP!AddReaderTo, RTMP!AddPublisher, RTMP!AddPublisherIf
  <2> QED
    BY <1>3, <2>1, <2>2
<1> QED
  BY <1>4, <1>5, <1>6 DEF RTMP!Next, RTMP!Run, RTMP!ConnRun

(* No step breaks the invariant.                                           *)
LEMMA RTMPStepInv ==
    ASSUME RTMPInv, [RTMP!Next]_RTMP!vars
    PROVE  RTMPInv'
  BY RTMPConnKeeps, RTMPStatesKeep DEF RTMPInv

(* What the invariant says of the server.                                  *)
LEMMA RTMPFacts ==
    ASSUME RTMPInv
    PROVE  RTMP!TypeOK /\ RTMP!NoGhosts /\ RTMP!ListIsTrue /\ RTMP!StateIsTrue /\ RTMP!ClosedIsEmpty
<1>1. ConnInv(Clients["rtmp"], RTMPPlaces, RTMPShown) /\ RTMPStates
  BY DEF RTMPInv
<1>2. RTMP!NoGhosts /\ RTMP!ListIsTrue /\ RTMP!ServerTypeOK
  BY <1>1, RTMPIsConn DEF ConnInv, ConnTypes
<1>3. RTMP!TypeOK
  BY <1>1, <1>2 DEF ConnInv, ConnTypes, RTMP!TypeOK, RTMPPlaces, RTMPShown
<1>4. RTMP!StateIsTrue
  <2>1. /\ conns \subseteq Clients["rtmp"] /\ RTMP!APIConnsList = [c \in conns |-> state[c]]
    BY <1>2 DEF RTMP!ServerTypeOK, RTMP!APIConnsList, RTMP!apiItem
  <2>2. DOMAIN RTMP!APIConnsList = conns /\ \A c \in conns : RTMP!APIConnsList[c] = state[c]
    BY <2>1
  <2>3. \A c \in conns : c \in readers => state[c] = IF pc[c] = "admitted" THEN "idle" ELSE "read"
    <3>1. pc \in [Clients["rtmp"] -> RTMPPlaces]
      BY <1>1, ConnParts
    <3> QED
      BY <1>1, <1>2, <2>1, <3>1 DEF RTMP!NoGhosts, RTMP!Reading, RTMPStates, RTMPPlaces
  <2>4. RTMP!ListsWhatIsDone
    <3>1. pc \in [Clients["rtmp"] -> RTMPPlaces]
      BY <1>1, ConnParts
    <3> SUFFICES ASSUME NEW c \in conns
                 PROVE  /\ state[c] = "publish"
                              => c = publisher \/ ctx[c] \/ pc[c] \in {"returned", "none"}
                        /\ state[c] = "read"
                              => c \in readers \/ ctx[c] \/ pc[c] \in {"returned", "none"}
                        /\ c = publisher
                              => state[c] = IF pc[c] = "accepted" THEN "idle" ELSE "publish"
                        /\ c \in readers => state[c] # "publish"
                        /\ pc[c] = "reading" => state[c] = "read"
      BY DEF RTMP!ListsWhatIsDone
    <3>2. pc[c] \in RTMPPlaces /\ c \in Clients["rtmp"]
      BY <2>1, <3>1
    <3>3. /\ pc[c] \in {"publishing", "unpublishing"} => state[c] = "publish"
          /\ pc[c] \in {"starting", "reading", "leaving"} => state[c] = "read"
          /\ pc[c] \in {"handshake", "asking", "held", "offering", "admitted", "accepted"}
                => state[c] = "idle"
      BY <1>1, <3>2 DEF RTMPStates
    <3>4. /\ c \in readers => pc[c] \in RTMP!Reading
          /\ c = publisher => pc[c] \in RTMP!Publishing
          /\ pc[c] \in RTMP!Reading /\ ~ctx[c] => c \in readers
          /\ pc[c] \in RTMP!Publishing /\ ~ctx[c] => c = publisher
      BY <1>2, <3>2 DEF RTMP!NoGhosts
    <3> QED
      BY <3>2, <3>3, <3>4 DEF RTMPPlaces, RTMP!Reading, RTMP!Publishing
  <2> QED
    BY <2>2, <2>3, <2>4 DEF RTMP!StateIsTrue
<1>5. RTMP!ClosedIsEmpty
  <2>1. readers \subseteq Clients["rtmp"] /\ held \subseteq Clients["rtmp"]
        /\ publisher \in Clients["rtmp"] \cup {None}
    BY <1>1, ConnParts
  <2> QED
    BY <1>1, <1>2, <2>1
    DEF ConnInv, ConnEmpty, RTMP!ClosedIsEmpty, RTMP!Served, RTMP!NoGhosts, RTMP!Reading,
        RTMP!Publishing
<1> QED
  BY <1>2, <1>3, <1>4, <1>5

-----------------------------------------------------------------------------
(* The SRT server.                                                         *)

(* It has what the three share.                                            *)
LEMMA SRTIsConn ==
    /\ SRT!ServerInit <=> Conn(Clients["srt"])!ServerInit
    /\ SRT!AcceptError <=> Conn(Clients["srt"])!AcceptError
    /\ SRT!Close <=> Conn(Clients["srt"])!Close
    /\ SRT!SeeContextDone <=> Conn(Clients["srt"])!SeeContextDone
    /\ SRT!CloseReturns <=> Conn(Clients["srt"])!CloseReturns
    /\ SRT!PathEndsStream <=> Conn(Clients["srt"])!PathEndsStream
    /\ SRT!ChangeConf <=> Conn(Clients["srt"])!ChangeConf
    /\ SRT!ServerTypeOK <=> Conn(Clients["srt"])!ServerTypeOK
    /\ SRT!NoGhosts <=> Conn(Clients["srt"])!NoGhosts
    /\ SRT!ListIsTrue <=> Conn(Clients["srt"])!ListIsTrue
    /\ \A c \in Clients["srt"] :
          /\ SRT!APIConnsKick(c) <=> Conn(Clients["srt"])!APIConnsKick(c)
          /\ SRT!ConnCloses(c) <=> Conn(Clients["srt"])!ConnCloses(c)
          /\ SRT!WaitOnHold(c) <=> Conn(Clients["srt"])!WaitOnHold(c)
          /\ SRT!LeavePath(c) <=> Conn(Clients["srt"])!LeavePath(c)
          /\ SRT!Unpublish(c) <=> Conn(Clients["srt"])!Unpublish(c)
          /\ \A s : SRT!Register(c, s) <=> Conn(Clients["srt"])!Register(c, s)
          /\ SRT!AddReaderTo(c) <=> Conn(Clients["srt"])!AddReaderTo(c)
          /\ \A b :
                SRT!AddPublisherIf(b, c) <=> Conn(Clients["srt"])!AddPublisherIf(b, c)
  BY Zenon DEF SRT!LoopRuns, Conn!LoopRuns, SRT!At, Conn!At, SRT!Goto, Conn!Goto, SRT!Show,
     Conn!Show, SRT!Cancel, Conn!Cancel, SRT!serverVars, Conn!serverVars, SRT!connVars,
     Conn!connVars, SRT!sideVars, Conn!sideVars, SRT!Served, Conn!Served, SRT!Displaced,
     Conn!Displaced, SRT!LeftBehind, Conn!LeftBehind, SRT!AdmitReader, Conn!AdmitReader,
     SRT!HoldReader, Conn!HoldReader, SRT!RefuseReader, Conn!RefuseReader, SRT!RemoveReader,
     Conn!RemoveReader, SRT!AdmitPublisher, Conn!AdmitPublisher, SRT!RemovePublisher,
     Conn!RemovePublisher, SRT!EndStream, Conn!EndStream, SRT!SideInit, Conn!SideInit,
     SRT!SideTypeOK, Conn!SideTypeOK, SRT!ServerInit, Conn!ServerInit, SRT!AcceptError,
     Conn!AcceptError, SRT!Close, Conn!Close, SRT!SeeContextDone, Conn!SeeContextDone,
     SRT!CloseReturns, Conn!CloseReturns, SRT!PathEndsStream, Conn!PathEndsStream, SRT!ChangeConf,
     Conn!ChangeConf, SRT!ServerTypeOK, Conn!ServerTypeOK, SRT!NoGhosts, Conn!NoGhosts,
     SRT!ListIsTrue, Conn!ListIsTrue, SRT!APIConnsKick, Conn!APIConnsKick, SRT!ConnCloses,
     Conn!ConnCloses, SRT!WaitOnHold, Conn!WaitOnHold, SRT!LeavePath, Conn!LeavePath,
     SRT!Unpublish, Conn!Unpublish, SRT!Register, Conn!Register, SRT!AddReaderTo,
     Conn!AddReaderTo, SRT!AddPublisherIf, Conn!AddPublisherIf,
     SRT!Reading, Conn!Reading, SRT!Publishing, Conn!Publishing

SRTPlaces == {"none", "parsing", "asking", "held", "admitted", "reading", "leaving", "finding",
              "probing", "offering", "accepted", "publishing", "unpublishing", "returned"}
SRTShown == {"idle", "read", "publish"}

(* What is shown of a client follows from where it is.                     *)
SRTStates ==
    \A c \in Clients["srt"] :
        /\ pc[c] \in {"publishing", "unpublishing"} => state[c] = "publish"
        /\ pc[c] = "reading" => state[c] = "read"
        /\ pc[c] = "leaving" => state[c] # "publish"
        /\ pc[c] \in {"parsing", "asking", "held", "finding", "probing", "offering", "admitted",
                       "accepted"}
              => state[c] = "idle"

FoundInv(cl) == found \in [cl -> 0..2]

SRTInv ==
    /\ ConnInv(Clients["srt"], SRTPlaces, SRTShown)
    /\ SRTStates
    /\ FoundInv(Clients["srt"])

(* It is a server of that kind.                                            *)
LEMMA SRTKind == ConnKind(Clients["srt"], SRTPlaces, SRTShown)
  BY NoneAssumption DEF ConnKind, Common, SRTPlaces, SRTShown, Everybody, Kinds

(* Nobody is there in the beginning.                                       *)
LEMMA SRTInitInv ==
    ASSUME SRT!Init
    PROVE  SRTInv
<1>1. Conn(Clients["srt"])!ServerInit
  BY SRTIsConn DEF SRT!Init
<1>2. ConnInv(Clients["srt"], SRTPlaces, SRTShown)
  BY <1>1, SRTKind, ConnInitInv
<1>3. SRTStates
  BY <1>1 DEF Conn!ServerInit, SRTStates
<1>4. FoundInv(Clients["srt"])
  BY DEF SRT!Init, FoundInv
<1> QED
  BY <1>2, <1>3, <1>4 DEF SRTInv

(* The steps of a goroutine that concern nobody else.                      *)
LEMMA SRTMoves ==
    ASSUME NEW c \in Clients["srt"],
           SRT!ParseStreamID(c) \/ SRT!FindPathConf(c) \/ SRT!StartReading(c)
               \/ SRT!ShowPublish(c) \/ SRT!Interrupted(c)
    PROVE  ConnMoves(Clients["srt"], SRTPlaces, SRTShown, c)
<1>1. UNCHANGED <<srv, closing, conns, ctx, readers, held, publisher, conf>>
  BY DEF SRT!ParseStreamID, SRT!FindPathConf, SRT!StartReading, SRT!Interrupted, SRT!ToStream,
     SRT!ReadingEnds, SRT!ShowPublish, SRT!PublishingEnds, SRT!Moves, SRT!serverVars, SRT!sideVars
<1>2. state' = state \/ \E what \in SRTShown : state' = [state EXCEPT ![c] = what]
  BY DEF SRT!ParseStreamID, SRT!FindPathConf, SRT!StartReading, SRT!Interrupted, SRT!ToStream,
     SRT!ReadingEnds, SRT!ShowPublish, SRT!PublishingEnds, SRT!Moves, SRT!Show, SRTShown
<1>3. \E there \in SRTPlaces :
         /\ pc' = [pc EXCEPT ![c] = there]
         /\ \/ pc[c] = "parsing" /\ there \in {"returned", "asking", "finding"}
            \/ pc[c] \in {"finding", "probing"} /\ there \in {"probing", "offering", "returned"}
            \/ pc[c] \in {"admitted", "reading"} /\ there \in {"reading", "leaving"}
            \/ pc[c] \in Feeding /\ there \in {"publishing", "unpublishing"}
  BY DEF SRT!ParseStreamID, SRT!FindPathConf, SRT!StartReading, SRT!Interrupted, SRT!ToStream,
     SRT!ReadingEnds, SRT!ShowPublish, SRT!PublishingEnds, SRT!Moves, SRT!Goto, SRT!At,
     SRT!Wishes, SRTPlaces, Feeding
<1> QED
  BY <1>1, <1>2, <1>3 DEF ConnMoves, Outside, Inside, Feeding

(* No step breaks what the three share.                                    *)
LEMMA SRTConnKeeps ==
    ASSUME ConnInv(Clients["srt"], SRTPlaces, SRTShown), [SRT!Next]_SRT!vars
    PROVE  ConnInv(Clients["srt"], SRTPlaces, SRTShown)'
<1>1. CASE SRT!Run \/ SRT!Close \/ SRT!CloseReturns
  <2>1. \/ \E c \in Clients["srt"] : SRT!APIConnsKick(c)
        \/ SRT!AcceptError \/ SRT!SeeContextDone \/ SRT!Close \/ SRT!CloseReturns
    BY <1>1 DEF SRT!Run
  <2> QED
    BY <2>1, SRTIsConn, SRTKind, EndingKeeps
<1>2. ASSUME NEW c \in Clients["srt"],
             SRT!NewConn(c) \/ SRT!ConnRun(c) \/ SRT!WaitOnHold(c) \/ SRT!Interrupted(c)
      PROVE  ConnInv(Clients["srt"], SRTPlaces, SRTShown)'
  <2>1. "parsing" \in SRTPlaces \cap Outside
    BY DEF SRTPlaces, Outside
  <2>2. CASE SRT!NewConn(c)
    <3>1. Conn(Clients["srt"])!Register(c, "parsing")
      BY <2>2, SRTIsConn DEF SRT!NewConn
    <3> QED
      BY <2>1, <3>1, SRTKind, RegisterKeeps
  <2>3. CASE SRT!AddReader(c) \/ SRT!WaitOnHold(c)
    BY <2>3, SRTIsConn, SRTKind, AddReaderKeeps DEF SRT!AddReader
  <2>4. CASE SRT!LeavePath(c) \/ SRT!Unpublish(c) \/ SRT!ConnCloses(c)
    BY <2>4, SRTIsConn, SRTKind, LeavePathKeeps, StreamEndsKeeps, ConnClosesKeeps
  <2>5. CASE SRT!AddPublisher(c)
    <3>1. Conn(Clients["srt"])!AddPublisherIf(found[c] = conf, c)
      BY <2>5, SRTIsConn DEF SRT!AddPublisher
    <3> QED
      BY <3>1, SRTKind, AddPublisherKeeps
  <2>6. CASE SRT!ParseStreamID(c) \/ SRT!FindPathConf(c) \/ SRT!StartReading(c)
             \/ SRT!ShowPublish(c) \/ SRT!Interrupted(c)
    BY <2>6, SRTKind, SRTMoves, ConnMovesKeeps
  <2> QED
    BY <1>2, <2>2, <2>3, <2>4, <2>5, <2>6 DEF SRT!ConnRun
<1>3. CASE SRT!PathEndsStream
  BY <1>3, SRTIsConn, SRTKind, StreamEndsKeeps
<1>4. CASE (SRT!ChangeConf /\ UNCHANGED <<SRT!serverVars, conns, SRT!connVars>>)
           \/ UNCHANGED SRT!vars
  <2>1. \/ Conn(Clients["srt"])!ChangeConf
        \/ UNCHANGED Conn(Clients["srt"])!sideVars
    BY <1>4, SRTIsConn DEF SRT!vars, SRT!connServerVars, SRT!sideVars, Conn!sideVars
  <2>2. UNCHANGED <<srv, closing, conns, pc, ctx, state>>
    BY <1>4 DEF SRT!vars, SRT!connServerVars, SRT!serverVars, SRT!connVars
  <2> QED
    BY <2>1, <2>2, ConfKeeps
<1> QED
  BY <1>1, <1>2, <1>3, <1>4 DEF SRT!Next, SRT!Around

(* No step shows a client as what it is not.                               *)
LEMMA SRTStatesKeep ==
    ASSUME ConnInv(Clients["srt"], SRTPlaces, SRTShown), SRTStates, [SRT!Next]_SRT!vars
    PROVE  SRTStates'
<1>1. pc \in [Clients["srt"] -> SRTPlaces] /\ state \in [Clients["srt"] -> SRTShown]
  BY ConnParts
<1>2. ASSUME NEW c \in Clients["srt"],
             \/ /\ pc' = [pc EXCEPT ![c] = "parsing"] /\ state' = [state EXCEPT ![c] = "idle"]
             \/ /\ pc' = [pc EXCEPT ![c] = "reading"] /\ state' = [state EXCEPT ![c] = "read"]
             \/ /\ pc' = [pc EXCEPT ![c] = "publishing"]
                /\ state' = [state EXCEPT ![c] = "publish"]
             \/ /\ state' = state
                /\ \E there \in SRTPlaces :
                      /\ pc' = [pc EXCEPT ![c] = there]
                      /\ \/ there \in {"returned", "none"}
                         \/ pc[c] \in {"admitted", "reading"} /\ there = "leaving"
                         \/ /\ pc[c] \in {"parsing", "asking", "held", "finding", "probing",
                                          "offering"}
                            /\ there \in {"asking", "finding", "probing", "offering", "held",
                                          "admitted", "accepted"}
                         \/ pc[c] = "publishing" /\ there = "unpublishing"
      PROVE  SRTStates'
  <2>1. \A d \in Clients["srt"] : d # c => pc'[d] = pc[d] /\ state'[d] = state[d]
    BY <1>1, <1>2
  <2>2. /\ pc'[c] \in {"publishing", "unpublishing"} => state'[c] = "publish"
        /\ pc'[c] = "reading" => state'[c] = "read"
        /\ pc'[c] = "leaving" => state'[c] # "publish"
        /\ pc'[c] \in {"parsing", "asking", "held", "finding", "probing", "offering", "admitted",
                        "accepted"}
              => state'[c] = "idle"
    BY <1>1, <1>2 DEF SRTStates
  <2> QED
    BY <2>1, <2>2 DEF SRTStates
<1>3. CASE \/ (SRT!Around /\ ~\E c \in Clients["srt"] : SRT!WaitOnHold(c))
           \/ SRT!Run \/ UNCHANGED SRT!vars
  <2>1. UNCHANGED <<pc, state>>
    BY <1>3 DEF SRT!Around, SRT!Run, SRT!Close, SRT!CloseReturns, SRT!AcceptError,
       SRT!SeeContextDone, SRT!PathEndsStream, SRT!APIConnsKick, SRT!connVars, SRT!vars,
       SRT!connServerVars
  <2> QED
    BY <2>1 DEF SRTStates
<1>4. ASSUME NEW c \in Clients["srt"], SRT!NewConn(c) \/ SRT!ShowPublish(c)
      PROVE  SRTStates'
  <2>1. \/ pc' = [pc EXCEPT ![c] = "parsing"] /\ state' = [state EXCEPT ![c] = "idle"]
        \/ pc' = [pc EXCEPT ![c] = "publishing"] /\ state' = [state EXCEPT ![c] = "publish"]
    BY <1>4 DEF SRT!NewConn, SRT!ShowPublish, SRT!Register, SRT!Goto, SRT!Show
  <2> QED
    BY <1>2, <2>1
<1>5. ASSUME NEW c \in Clients["srt"], SRT!StartReading(c)
      PROVE  SRTStates'
  <2>1. \/ pc' = [pc EXCEPT ![c] = "reading"] /\ state' = [state EXCEPT ![c] = "read"]
        \/ /\ pc[c] = "admitted"
           /\ pc' = [pc EXCEPT ![c] = "leaving"] /\ state' = state
    BY <1>5 DEF SRT!StartReading, SRT!Goto, SRT!Show, SRT!At
  <2>2. "leaving" \in SRTPlaces
    BY DEF SRTPlaces
  <2> QED
    BY <1>2, <2>1, <2>2
<1>6. ASSUME NEW c \in Clients["srt"],
             \/ SRT!ParseStreamID(c) \/ SRT!FindPathConf(c) \/ SRT!AddReader(c)
             \/ SRT!WaitOnHold(c) \/ SRT!AddPublisher(c)
             \/ SRT!Interrupted(c) \/ SRT!LeavePath(c) \/ SRT!Unpublish(c) \/ SRT!ConnCloses(c)
      PROVE  SRTStates'
  <2>1. state' = state
    BY <1>6 DEF SRT!ParseStreamID, SRT!FindPathConf, SRT!WaitOnHold, SRT!LeavePath,
       SRT!Unpublish, SRT!ConnCloses, SRT!Interrupted, SRT!ToStream, SRT!ReadingEnds,
       SRT!PublishingEnds, SRT!Moves, SRT!AddReader, SRT!AddReaderTo, SRT!AddPublisher,
       SRT!AddPublisherIf
  <2>2. \E there \in SRTPlaces :
           /\ pc' = [pc EXCEPT ![c] = there]
           /\ \/ there \in {"returned", "none"}
              \/ pc[c] \in {"admitted", "reading"} /\ there = "leaving"
              \/ /\ pc[c] \in {"parsing", "asking", "held", "finding", "probing", "offering"}
                 /\ there \in {"asking", "finding", "probing", "offering", "held", "admitted",
                               "accepted"}
              \/ pc[c] = "publishing" /\ there = "unpublishing"
    BY <1>6 DEF SRT!ParseStreamID, SRT!FindPathConf, SRT!WaitOnHold, SRT!LeavePath,
       SRT!Unpublish, SRT!ConnCloses, SRT!Interrupted, SRT!ToStream, SRT!ReadingEnds,
       SRT!PublishingEnds, SRT!Moves, SRT!Wishes, SRT!Goto, SRT!At, SRTPlaces, SRT!AddReader,
       SRT!AddReaderTo, SRT!AddPublisher, SRT!AddPublisherIf
  <2> QED
    BY <1>2, <2>1, <2>2
<1> QED
  BY <1>3, <1>4, <1>5, <1>6 DEF SRT!Next, SRT!ConnRun

(* The configuration that a publisher was given is one that there was.     *)
LEMMA SRTFoundKeeps ==
    ASSUME ConnInv(Clients["srt"], SRTPlaces, SRTShown), FoundInv(Clients["srt"]),
           [SRT!Next]_SRT!vars
    PROVE  FoundInv(Clients["srt"])'
<1>1. conf \in {1, 2}
  BY ConnParts
<1>2. found' = found \/ \E c \in Clients["srt"], v \in {0, conf} : found' = [found EXCEPT ![c] = v]
  BY DEF SRT!Next, SRT!Run, SRT!Around, SRT!NewConn, SRT!ConnRun, SRT!Interrupted,
     SRT!ParseStreamID, SRT!FindPathConf, SRT!AddPublisher, SRT!AddReader, SRT!StartReading,
     SRT!ToStream, SRT!ReadingEnds, SRT!ShowPublish, SRT!PublishingEnds, SRT!vars
<1> QED
  BY <1>1, <1>2 DEF FoundInv

(* No step breaks the invariant.                                           *)
LEMMA SRTStepInv ==
    ASSUME SRTInv, [SRT!Next]_SRT!vars
    PROVE  SRTInv'
  BY SRTConnKeeps, SRTStatesKeep, SRTFoundKeeps DEF SRTInv

(* Whoever becomes the publisher has the configuration of the path.        *)
LEMMA SRTChecked ==
    ASSUME SRTInv, [SRT!Next]_SRT!vars, NEW c \in Clients["srt"], publisher' = c, publisher # c
    PROVE  found[c] = conf
<1>1. c # None
  BY SRTKind DEF ConnKind
<1>2. \/ \E d \in Clients["srt"] : SRT!AddPublisher(d) /\ publisher' # publisher
      \/ publisher' \in {publisher, None}
  BY DEF SRT!Next, SRT!Run, SRT!Around, SRT!NewConn, SRT!ConnRun, SRT!Interrupted,
     SRT!ParseStreamID, SRT!FindPathConf, SRT!AddReader, SRT!StartReading,
     SRT!ToStream, SRT!ReadingEnds, SRT!ShowPublish, SRT!PublishingEnds, SRT!vars,
     SRT!connServerVars,
     SRT!Register, SRT!APIConnsKick, SRT!AcceptError, SRT!Close, SRT!SeeContextDone,
     SRT!CloseReturns, SRT!ConnCloses, SRT!AddReaderTo, SRT!WaitOnHold, SRT!LeavePath,
     SRT!Unpublish, SRT!PathEndsStream, SRT!ChangeConf, SRT!Moves, SRT!sideVars,
     SRT!AdmitReader, SRT!RefuseReader, SRT!HoldReader, SRT!RemoveReader, SRT!RemovePublisher,
     SRT!EndStream
<1>3. PICK d \in Clients["srt"] : SRT!AddPublisher(d) /\ publisher' # publisher
  BY <1>1, <1>2
<1> QED
  BY <1>3 DEF SRT!AddPublisher, SRT!AddPublisherIf, SRT!AdmitPublisher, SRT!sideVars

(* What the invariant says of the server.                                  *)
LEMMA SRTFacts ==
    ASSUME SRTInv
    PROVE  SRT!TypeOK /\ SRT!NoGhosts /\ SRT!ListIsTrue /\ SRT!StateIsTrue /\ SRT!ClosedIsEmpty
<1>1. ConnInv(Clients["srt"], SRTPlaces, SRTShown) /\ SRTStates /\ FoundInv(Clients["srt"])
  BY DEF SRTInv
<1>2. SRT!NoGhosts /\ SRT!ListIsTrue /\ SRT!ServerTypeOK
  BY <1>1, SRTIsConn DEF ConnInv, ConnTypes
<1>3. SRT!TypeOK
  BY <1>1, <1>2 DEF ConnInv, ConnTypes, FoundInv, SRT!TypeOK, SRTPlaces, SRTShown
<1>4. SRT!StateIsTrue
  <2>1. conns \subseteq Clients["srt"] /\ SRT!APIConnsList = [c \in conns |-> state[c]]
    BY <1>2 DEF SRT!ServerTypeOK, SRT!APIConnsList, SRT!apiItem
  <2>2. DOMAIN SRT!APIConnsList = conns /\ \A c \in conns : SRT!APIConnsList[c] = state[c]
    BY <2>1
  <2>3. \A c \in conns : pc[c] = "admitted" => state[c] = "idle"
    BY <1>1, <2>1 DEF SRTStates
  <2>4. SRT!ListsWhatIsDone
    <3>1. pc \in [Clients["srt"] -> SRTPlaces]
      BY <1>1, ConnParts
    <3> SUFFICES ASSUME NEW c \in conns
                 PROVE  /\ state[c] = "publish"
                              => c = publisher \/ ctx[c] \/ pc[c] \in {"returned", "none"}
                        /\ state[c] = "read"
                              => c \in readers \/ ctx[c] \/ pc[c] \in {"returned", "none"}
                        /\ c = publisher
                              => state[c] = IF pc[c] = "accepted" THEN "idle" ELSE "publish"
                        /\ c \in readers => state[c] # "publish"
                        /\ pc[c] = "reading" => state[c] = "read"
      BY DEF SRT!ListsWhatIsDone
    <3>2. pc[c] \in SRTPlaces /\ c \in Clients["srt"]
      BY <2>1, <3>1
    <3>3. /\ pc[c] \in {"publishing", "unpublishing"} => state[c] = "publish"
          /\ pc[c] = "reading" => state[c] = "read"
          /\ pc[c] = "leaving" => state[c] # "publish"
          /\ pc[c] \in {"parsing", "asking", "held", "finding", "probing", "offering",
                         "admitted", "accepted"}
                => state[c] = "idle"
      BY <1>1, <3>2 DEF SRTStates
    <3>4. /\ c \in readers => pc[c] \in SRT!Reading
          /\ c = publisher => pc[c] \in SRT!Publishing
          /\ pc[c] \in SRT!Reading /\ ~ctx[c] => c \in readers
          /\ pc[c] \in SRT!Publishing /\ ~ctx[c] => c = publisher
      BY <1>2, <3>2 DEF SRT!NoGhosts
    <3> QED
      BY <3>2, <3>3, <3>4 DEF SRTPlaces, SRT!Reading, SRT!Publishing
  <2> QED
    BY <2>2, <2>3, <2>4 DEF SRT!StateIsTrue
<1>5. SRT!ClosedIsEmpty
  <2>1. readers \subseteq Clients["srt"] /\ held \subseteq Clients["srt"]
        /\ publisher \in Clients["srt"] \cup {None}
    BY <1>1, ConnParts
  <2> QED
    BY <1>1, <1>2, <2>1
    DEF ConnInv, ConnEmpty, SRT!ClosedIsEmpty, SRT!Served, SRT!NoGhosts, SRT!Reading, SRT!Publishing
<1> QED
  BY <1>2, <1>3, <1>4, <1>5

-----------------------------------------------------------------------------
(* The WebRTC server.                                                      *)

(* It has what the three share.                                            *)
LEMMA WebRTCIsConn ==
    /\ WebRTC!ServerInit <=> Conn(Clients["webrtc"])!ServerInit
    /\ WebRTC!Close <=> Conn(Clients["webrtc"])!Close
    /\ WebRTC!SeeContextDone <=> Conn(Clients["webrtc"])!SeeContextDone
    /\ WebRTC!CloseReturns <=> Conn(Clients["webrtc"])!CloseReturns
    /\ WebRTC!PathEndsStream <=> Conn(Clients["webrtc"])!PathEndsStream
    /\ WebRTC!ChangeConf <=> Conn(Clients["webrtc"])!ChangeConf
    /\ WebRTC!ServerTypeOK <=> Conn(Clients["webrtc"])!ServerTypeOK
    /\ WebRTC!NoGhosts <=> Conn(Clients["webrtc"])!NoGhosts
    /\ WebRTC!ListIsTrue <=> Conn(Clients["webrtc"])!ListIsTrue
    /\ \A c \in Clients["webrtc"] :
          /\ WebRTC!APIConnsKick(c) <=> Conn(Clients["webrtc"])!APIConnsKick(c)
          /\ WebRTC!ConnCloses(c) <=> Conn(Clients["webrtc"])!ConnCloses(c)
          /\ WebRTC!WaitOnHold(c) <=> Conn(Clients["webrtc"])!WaitOnHold(c)
          /\ WebRTC!LeavePath(c) <=> Conn(Clients["webrtc"])!LeavePath(c)
          /\ WebRTC!Unpublish(c) <=> Conn(Clients["webrtc"])!Unpublish(c)
          /\ \A s : WebRTC!Register(c, s) <=> Conn(Clients["webrtc"])!Register(c, s)
          /\ WebRTC!AddReaderTo(c) <=> Conn(Clients["webrtc"])!AddReaderTo(c)
          /\ \A b :
                WebRTC!AddPublisherIf(b, c) <=> Conn(Clients["webrtc"])!AddPublisherIf(b, c)
  BY Zenon DEF WebRTC!LoopRuns, Conn!LoopRuns, WebRTC!At, Conn!At, WebRTC!Goto, Conn!Goto,
     WebRTC!Show, Conn!Show, WebRTC!Cancel, Conn!Cancel, WebRTC!serverVars, Conn!serverVars,
     WebRTC!connVars, Conn!connVars, WebRTC!sideVars, Conn!sideVars, WebRTC!Served, Conn!Served,
     WebRTC!Displaced, Conn!Displaced, WebRTC!LeftBehind, Conn!LeftBehind, WebRTC!AdmitReader,
     Conn!AdmitReader, WebRTC!HoldReader, Conn!HoldReader, WebRTC!RefuseReader, Conn!RefuseReader,
     WebRTC!RemoveReader, Conn!RemoveReader, WebRTC!AdmitPublisher, Conn!AdmitPublisher,
     WebRTC!RemovePublisher, Conn!RemovePublisher, WebRTC!EndStream, Conn!EndStream,
     WebRTC!SideInit, Conn!SideInit, WebRTC!SideTypeOK, Conn!SideTypeOK, WebRTC!ServerInit,
     Conn!ServerInit, WebRTC!Close, Conn!Close, WebRTC!SeeContextDone, Conn!SeeContextDone,
     WebRTC!CloseReturns, Conn!CloseReturns, WebRTC!PathEndsStream, Conn!PathEndsStream,
     WebRTC!ChangeConf, Conn!ChangeConf, WebRTC!ServerTypeOK, Conn!ServerTypeOK, WebRTC!NoGhosts,
     Conn!NoGhosts, WebRTC!ListIsTrue, Conn!ListIsTrue, WebRTC!APIConnsKick, Conn!APIConnsKick,
     WebRTC!ConnCloses, Conn!ConnCloses, WebRTC!WaitOnHold, Conn!WaitOnHold, WebRTC!LeavePath,
     Conn!LeavePath, WebRTC!Unpublish, Conn!Unpublish, WebRTC!Register, Conn!Register,
     WebRTC!AddReaderTo, Conn!AddReaderTo, WebRTC!AddPublisherIf, Conn!AddPublisherIf,
     WebRTC!Reading, Conn!Reading, WebRTC!Publishing, Conn!Publishing

WebRTCPlaces == {"none", "new", "asking", "held", "admitted", "answering", "reading", "leaving",
                 "finding", "negotiating", "connecting", "gathering", "offering", "accepted",
                 "publishing", "unpublishing", "returned"}
WebRTCShown == {"idle", "established"}

(* What is shown of a client follows from where it is.                     *)
WebRTCStates ==
    \A c \in Clients["webrtc"] :
        pc[c] \in {"gathering", "offering", "reading"} \cup Feeding => state[c] = "established"

HTTPTypes ==
    /\ post \in [Clients["webrtc"] -> {"none", "opening", "waiting", "answered"}]
    /\ patch \in [Clients["webrtc"] -> {"none", "candidates", "offer"}]
    /\ candidates \in [Clients["webrtc"] -> {"off", "ready", "stuck"}]

(* A peer that publishes was answered, and whoever was answered has        *)
(* somebody who takes its candidates until it is told to end.              *)
Answered ==
    \A c \in Clients["webrtc"] :
        /\ pc[c] \in {"connecting", "gathering", "offering"} \cup Feeding => post[c] = "answered"
        /\ post[c] = "answered" /\ pc[c] # "none" /\ ~ctx[c] => candidates[c] # "off"

WebRTCInv ==
    /\ ConnInv(Clients["webrtc"], WebRTCPlaces, WebRTCShown)
    /\ WebRTCStates
    /\ FoundInv(Clients["webrtc"])
    /\ HTTPTypes
    /\ Answered

(* It is a server of that kind.                                            *)
LEMMA WebRTCKind == ConnKind(Clients["webrtc"], WebRTCPlaces, WebRTCShown)
  BY NoneAssumption DEF ConnKind, Common, WebRTCPlaces, WebRTCShown, Everybody, Kinds

(* Nobody is there in the beginning.                                       *)
LEMMA WebRTCInitInv ==
    ASSUME WebRTC!Init
    PROVE  WebRTCInv
<1>1. Conn(Clients["webrtc"])!ServerInit
  BY WebRTCIsConn DEF WebRTC!Init
<1>2. ConnInv(Clients["webrtc"], WebRTCPlaces, WebRTCShown)
  BY <1>1, WebRTCKind, ConnInitInv
<1>3. WebRTCStates /\ Answered
  BY <1>1 DEF Conn!ServerInit, WebRTCStates, Answered, Feeding
<1>4. FoundInv(Clients["webrtc"]) /\ HTTPTypes
  BY DEF WebRTC!Init, FoundInv, HTTPTypes
<1> QED
  BY <1>2, <1>3, <1>4 DEF WebRTCInv

(* The steps of a session that concern nobody else.                        *)
WebRTCLocal(c) ==
    \/ WebRTC!TakeNew(c) \/ WebRTC!GiveUpNew(c) \/ WebRTC!FindPathConf(c)
    \/ WebRTC!AnswerPublisher(c) \/ WebRTC!StartReading(c) \/ WebRTC!AnswerReader(c)
    \/ WebRTC!Interrupted(c)

(* They are of the kind that keeps what the three share.                   *)
LEMMA WebRTCMoves ==
    ASSUME NEW c \in Clients["webrtc"], WebRTCLocal(c)
    PROVE  ConnMoves(Clients["webrtc"], WebRTCPlaces, WebRTCShown, c)
<1>1. UNCHANGED <<srv, closing, conns, ctx, readers, held, publisher, conf>>
  BY DEF WebRTCLocal, WebRTC!StartReading, WebRTC!TakeNew, WebRTC!GiveUpNew, WebRTC!FindPathConf,
     WebRTC!AnswerPublisher, WebRTC!AnswerReader, WebRTC!Interrupted, WebRTC!ConnectPublisher,
     WebRTC!GatherTracks, WebRTC!PublishingEnds, WebRTC!ConnectReader, WebRTC!ReadingEnds,
     WebRTC!Moves, WebRTC!serverVars, WebRTC!sideVars
<1>2. state' = state \/ \E what \in WebRTCShown : state' = [state EXCEPT ![c] = what]
  BY DEF WebRTCLocal, WebRTC!StartReading, WebRTC!TakeNew, WebRTC!GiveUpNew, WebRTC!FindPathConf,
     WebRTC!AnswerPublisher, WebRTC!AnswerReader, WebRTC!Interrupted, WebRTC!ConnectPublisher,
     WebRTC!GatherTracks, WebRTC!PublishingEnds, WebRTC!ConnectReader, WebRTC!ReadingEnds,
     WebRTC!Moves, WebRTC!Show, WebRTCShown
<1>3. \E there \in WebRTCPlaces :
         /\ pc' = [pc EXCEPT ![c] = there]
         /\ \/ /\ pc[c] \in {"new", "finding", "negotiating", "connecting", "gathering"}
               /\ there \in {"asking", "finding", "negotiating", "connecting", "gathering",
                             "offering", "returned"}
            \/ /\ pc[c] \in {"admitted", "answering", "reading"}
               /\ there \in {"answering", "reading", "leaving"}
            \/ pc[c] \in Feeding /\ there \in {"publishing", "unpublishing"}
  <2>1. CASE WebRTC!TakeNew(c) \/ WebRTC!GiveUpNew(c) \/ WebRTC!FindPathConf(c)
             \/ WebRTC!AnswerPublisher(c)
    BY <2>1 DEF WebRTC!TakeNew, WebRTC!GiveUpNew, WebRTC!FindPathConf, WebRTC!AnswerPublisher,
       WebRTC!Moves, WebRTC!Goto, WebRTC!At, WebRTCPlaces
  <2>2. CASE WebRTC!AnswerReader(c) \/ WebRTC!ConnectReader(c) \/ WebRTC!ReadingEnds(c)
    BY <2>2 DEF WebRTC!AnswerReader, WebRTC!ConnectReader, WebRTC!ReadingEnds,
       WebRTC!Moves, WebRTC!Goto, WebRTC!At, WebRTCPlaces
  <2>3. CASE WebRTC!ConnectPublisher(c) \/ WebRTC!GatherTracks(c) \/ WebRTC!StartReading(c)
             \/ WebRTC!PublishingEnds(c)
    BY <2>3 DEF WebRTC!ConnectPublisher, WebRTC!GatherTracks, WebRTC!StartReading,
       WebRTC!PublishingEnds, WebRTC!Moves, WebRTC!Goto, WebRTC!At, WebRTCPlaces, Feeding
  <2> QED
    BY <2>1, <2>2, <2>3 DEF WebRTCLocal, WebRTC!Interrupted
<1> QED
  BY <1>1, <1>2, <1>3 DEF ConnMoves, Outside, Inside, Feeding

(* The steps in which only requests and candidates change.                 *)
WebRTCRequests(c) ==
    \/ WebRTC!HTTPEnds(c) \/ (\E k \in {"candidates", "offer"} : WebRTC!Patch(c, k))
    \/ WebRTC!RefusePost(c) \/ WebRTC!TakeCandidates(c) \/ WebRTC!CandidatesEnd(c)

(* No step breaks what the three share.                                    *)
LEMMA WebRTCConnKeeps ==
    ASSUME ConnInv(Clients["webrtc"], WebRTCPlaces, WebRTCShown), [WebRTC!Next]_WebRTC!vars
    PROVE  ConnInv(Clients["webrtc"], WebRTCPlaces, WebRTCShown)'
<1>1. CASE \/ WebRTC!SeeContextDone \/ WebRTC!Close \/ WebRTC!CloseReturns
           \/ \E c \in Clients["webrtc"] : WebRTC!APIConnsKick(c)
  BY <1>1, WebRTCIsConn, WebRTCKind, EndingKeeps
<1>2. ASSUME NEW c \in Clients["webrtc"],
             \/ WebRTC!Post(c) \/ WebRTC!Delete(c) \/ WebRTC!SessionRun(c) \/ WebRTC!WaitOnHold(c)
             \/ WebRTC!Interrupted(c)
      PROVE  ConnInv(Clients["webrtc"], WebRTCPlaces, WebRTCShown)'
  <2>1. "new" \in WebRTCPlaces \cap Outside
    BY DEF WebRTCPlaces, Outside
  <2>2. CASE WebRTC!Post(c)
    <3>1. Conn(Clients["webrtc"])!Register(c, "new")
      BY <2>2, WebRTCIsConn DEF WebRTC!Post
    <3> QED
      BY <2>1, <3>1, WebRTCKind, RegisterKeeps
  <2>3. CASE WebRTC!Delete(c)
    BY <2>3, WebRTCIsConn, WebRTCKind, EndingKeeps DEF WebRTC!Delete
  <2>4. CASE WebRTC!AddReader(c) \/ WebRTC!WaitOnHold(c)
    BY <2>4, WebRTCIsConn, WebRTCKind, AddReaderKeeps DEF WebRTC!AddReader
  <2>5. CASE WebRTC!LeavePath(c) \/ WebRTC!Unpublish(c) \/ WebRTC!SessionCloses(c)
    BY <2>5, WebRTCIsConn, WebRTCKind, LeavePathKeeps, StreamEndsKeeps, ConnClosesKeeps
    DEF WebRTC!SessionCloses
  <2>6. CASE WebRTC!AddPublisher(c)
    <3>1. Conn(Clients["webrtc"])!AddPublisherIf(found[c] = conf, c)
      BY <2>6, WebRTCIsConn DEF WebRTC!AddPublisher
    <3> QED
      BY <3>1, WebRTCKind, AddPublisherKeeps
  <2>7. CASE WebRTCLocal(c)
    BY <2>7, WebRTCKind, WebRTCMoves, ConnMovesKeeps
  <2>8. CASE WebRTC!RefusePost(c)
    <3>1. /\ UNCHANGED Conn(Clients["webrtc"])!sideVars
          /\ UNCHANGED <<srv, closing, conns, pc, ctx, state>>
      BY <2>8 DEF WebRTC!RefusePost, WebRTC!connServerVars, WebRTC!serverVars, WebRTC!connVars,
         WebRTC!sideVars, Conn!sideVars
    <3> QED
      BY <3>1, ConfKeeps
  <2> QED
    BY <1>2, <2>2, <2>3, <2>4, <2>5, <2>6, <2>7, <2>8 DEF WebRTC!SessionRun, WebRTCLocal
<1>3. CASE WebRTC!PathEndsStream
  BY <1>3, WebRTCIsConn, WebRTCKind, StreamEndsKeeps
<1>4. CASE \/ WebRTC!ChangeConf /\ UNCHANGED <<WebRTC!serverVars, conns, WebRTC!connVars>>
           \/ \E c \in Clients["webrtc"] : WebRTCRequests(c)
           \/ UNCHANGED WebRTC!vars
  <2>1. \/ Conn(Clients["webrtc"])!ChangeConf
        \/ UNCHANGED Conn(Clients["webrtc"])!sideVars
    BY <1>4, WebRTCIsConn DEF WebRTC!vars, WebRTC!connServerVars, WebRTC!sideVars, Conn!sideVars,
       WebRTCRequests, WebRTC!HTTPEnds, WebRTC!PostTerminated, WebRTC!PatchTerminated,
       WebRTC!Patch, WebRTC!RefusePost, WebRTC!TakeCandidates, WebRTC!CandidatesEnd
  <2>2. UNCHANGED <<srv, closing, conns, pc, ctx, state>>
    BY <1>4 DEF WebRTC!vars, WebRTC!connServerVars, WebRTC!serverVars, WebRTC!connVars,
       WebRTCRequests, WebRTC!HTTPEnds, WebRTC!PostTerminated, WebRTC!PatchTerminated,
       WebRTC!Patch, WebRTC!RefusePost, WebRTC!TakeCandidates, WebRTC!CandidatesEnd
  <2> QED
    BY <2>1, <2>2, ConfKeeps
<1> QED
  BY <1>1, <1>2, <1>3, <1>4 DEF WebRTC!Next, WebRTC!Around, WebRTCRequests

(* What a step does to one client: where it is, and what is shown of it.   *)
WebRTCStep(c) ==
    \/ pc' = [pc EXCEPT ![c] = "new"] /\ state' = [state EXCEPT ![c] = "idle"]
    \/ \E there \in {"gathering", "reading"} :
          pc' = [pc EXCEPT ![c] = there] /\ state' = [state EXCEPT ![c] = "established"]
    \/ /\ state' = state
       /\ \E there \in WebRTCPlaces :
             /\ pc' = [pc EXCEPT ![c] = there]
             /\ \/ pc[c] = "gathering" /\ there = "offering"
                \/ pc[c] = "offering" /\ there = "accepted"
                \/ pc[c] \in Feeding /\ there \in Feeding
                \/ there \notin {"gathering", "offering", "reading"} \cup Feeding

(* There is nothing else that changes either.                              *)
LEMMA WebRTCSteps ==
    ASSUME [WebRTC!Next]_WebRTC!vars
    PROVE  UNCHANGED <<pc, state>> \/ \E c \in Clients["webrtc"] : WebRTCStep(c)
<1>1. CASE \/ (WebRTC!Around /\ ~\E c \in Clients["webrtc"] : WebRTC!WaitOnHold(c))
           \/ (\E c \in Clients["webrtc"] : WebRTC!Delete(c) \/ WebRTCRequests(c))
           \/ UNCHANGED WebRTC!vars
  BY <1>1 DEF WebRTC!Around, WebRTC!Close, WebRTC!CloseReturns, WebRTC!SeeContextDone,
     WebRTC!PathEndsStream, WebRTC!APIConnsKick, WebRTC!connVars, WebRTC!vars,
     WebRTC!connServerVars, WebRTC!Delete, WebRTCRequests, WebRTC!HTTPEnds,
     WebRTC!PostTerminated, WebRTC!PatchTerminated, WebRTC!Patch, WebRTC!RefusePost,
     WebRTC!TakeCandidates, WebRTC!CandidatesEnd
<1>2. ASSUME NEW c \in Clients["webrtc"],
             WebRTC!Post(c) \/ WebRTC!AddReader(c) \/ WebRTC!AddPublisher(c)
      PROVE  WebRTCStep(c)
  BY <1>2 DEF WebRTCStep, WebRTC!Post, WebRTC!AddReader, WebRTC!AddPublisher, WebRTC!Register,
     WebRTC!AddReaderTo, WebRTC!AddPublisherIf, WebRTC!Goto, WebRTC!Show, WebRTC!At,
     WebRTCPlaces, Feeding
<1>3. ASSUME NEW c \in Clients["webrtc"],
             WebRTC!ConnectPublisher(c) \/ WebRTC!ConnectReader(c) \/ WebRTC!GatherTracks(c)
      PROVE  WebRTCStep(c)
  BY <1>3 DEF WebRTCStep, WebRTC!ConnectPublisher, WebRTC!ConnectReader, WebRTC!GatherTracks,
     WebRTC!Moves, WebRTC!Goto, WebRTC!Show, WebRTC!At, WebRTCPlaces, Feeding
<1>4. ASSUME NEW c \in Clients["webrtc"],
             \/ WebRTC!TakeNew(c) \/ WebRTC!GiveUpNew(c) \/ WebRTC!FindPathConf(c)
             \/ WebRTC!AnswerPublisher(c) \/ WebRTC!AnswerReader(c) \/ WebRTC!ReadingEnds(c)
             \/ WebRTC!StartReading(c) \/ WebRTC!PublishingEnds(c) \/ WebRTC!LeavePath(c)
             \/ WebRTC!Unpublish(c) \/ WebRTC!SessionCloses(c) \/ WebRTC!WaitOnHold(c)
      PROVE  WebRTCStep(c)
  <2>1. state' = state
    BY <1>4
    DEF WebRTC!StartReading, WebRTC!TakeNew, WebRTC!GiveUpNew, WebRTC!FindPathConf,
       WebRTC!AnswerPublisher,
       WebRTC!AnswerReader, WebRTC!ReadingEnds, WebRTC!PublishingEnds, WebRTC!LeavePath,
       WebRTC!Unpublish, WebRTC!SessionCloses, WebRTC!ConnCloses, WebRTC!WaitOnHold, WebRTC!Moves
  <2>2. \E there \in WebRTCPlaces :
           /\ pc' = [pc EXCEPT ![c] = there]
           /\ \/ pc[c] \in Feeding /\ there \in Feeding
              \/ there \notin {"gathering", "offering", "reading"} \cup Feeding
    BY <1>4
    DEF Feeding, WebRTC!At, WebRTC!StartReading, WebRTC!TakeNew, WebRTC!GiveUpNew,
       WebRTC!FindPathConf, WebRTC!AnswerPublisher,
       WebRTC!AnswerReader, WebRTC!ReadingEnds, WebRTC!PublishingEnds, WebRTC!LeavePath,
       WebRTC!Unpublish, WebRTC!SessionCloses, WebRTC!ConnCloses, WebRTC!WaitOnHold,
       WebRTC!Moves, WebRTC!Goto, WebRTCPlaces
  <2> QED
    BY <2>1, <2>2 DEF WebRTCStep
<1> QED
  BY <1>1, <1>2, <1>3, <1>4
  DEF WebRTC!Next, WebRTC!Around, WebRTC!SessionRun, WebRTC!Interrupted, WebRTCRequests

(* No step shows a client as what it is not.                               *)
LEMMA WebRTCStatesKeep ==
    ASSUME ConnInv(Clients["webrtc"], WebRTCPlaces, WebRTCShown), WebRTCStates,
           [WebRTC!Next]_WebRTC!vars
    PROVE  WebRTCStates'
<1>1. pc \in [Clients["webrtc"] -> WebRTCPlaces] /\ state \in [Clients["webrtc"] -> WebRTCShown]
  BY ConnParts
<1>2. CASE UNCHANGED <<pc, state>>
  BY <1>2 DEF WebRTCStates, Feeding
<1>3. ASSUME NEW c \in Clients["webrtc"], WebRTCStep(c)
      PROVE  WebRTCStates'
  <2>1. \A d \in Clients["webrtc"] : d # c => pc'[d] = pc[d] /\ state'[d] = state[d]
    BY <1>1, <1>3 DEF WebRTCStep
  <2>2. pc'[c] \in {"gathering", "offering", "reading"} \cup Feeding => state'[c] = "established"
    BY <1>1, <1>3 DEF WebRTCStates, WebRTCStep, Feeding
  <2> QED
    BY <2>1, <2>2 DEF WebRTCStates
<1> QED
  BY <1>2, <1>3, WebRTCSteps

(* What the requests of a client and its session do to each other.         *)
LEMMA HTTPKeeps ==
    ASSUME ConnInv(Clients["webrtc"], WebRTCPlaces, WebRTCShown), HTTPTypes, Answered,
           [WebRTC!Next]_WebRTC!vars
    PROVE  HTTPTypes' /\ Answered'
<1>1. pc \in [Clients["webrtc"] -> WebRTCPlaces] /\ ctx \in [Clients["webrtc"] -> BOOLEAN]
  BY ConnParts
<1>2. CASE UNCHANGED <<post, candidates>>
           /\ (patch' = patch \/ \E c \in Clients["webrtc"], k \in {"none", "candidates", "offer"} :
                                    patch' = [patch EXCEPT ![c] = k])
           /\ (\A c \in Clients["webrtc"] :
                  /\ pc'[c] \in {"connecting", "gathering", "offering"} \cup Feeding
                        => pc[c] \in {"connecting", "gathering", "offering"} \cup Feeding
                  /\ pc'[c] # "none" /\ ~ctx'[c] => pc[c] # "none" /\ ~ctx[c])
  <2>1. HTTPTypes'
    BY <1>2 DEF HTTPTypes
  <2>2. Answered'
    BY <1>2 DEF Answered
  <2> QED
    BY <2>1, <2>2
<1>3. CASE \/ (WebRTC!Around /\ ~\E c \in Clients["webrtc"] : WebRTC!WaitOnHold(c))
           \/ (\E c \in Clients["webrtc"] : WebRTC!Delete(c))
           \/ UNCHANGED WebRTC!vars
  <2>1. UNCHANGED <<pc, post, patch, candidates>>
    BY <1>3 DEF WebRTC!Around, WebRTC!Close, WebRTC!CloseReturns, WebRTC!SeeContextDone,
       WebRTC!PathEndsStream, WebRTC!APIConnsKick, WebRTC!connVars, WebRTC!vars,
       WebRTC!connServerVars, WebRTC!Delete, WebRTC!Alone, WebRTC!httpVars
  <2>2. ctx' = ctx \/ \E set : WebRTC!Cancel(set)
    BY <1>3 DEF WebRTC!Around, WebRTC!Close, WebRTC!CloseReturns, WebRTC!SeeContextDone,
       WebRTC!PathEndsStream, WebRTC!APIConnsKick, WebRTC!connVars, WebRTC!vars,
       WebRTC!connServerVars, WebRTC!Delete
  <2>3. \A c \in Clients["webrtc"] : ~ctx'[c] => ~ctx[c]
    BY <1>1, <2>2 DEF WebRTC!Cancel
  <2> QED
    BY <1>2, <2>1, <2>3
<1>4. ASSUME NEW c \in Clients["webrtc"],
             WebRTC!PatchTerminated(c) \/ (\E k \in {"candidates", "offer"} : WebRTC!Patch(c, k))
      PROVE  HTTPTypes' /\ Answered'
  <2>1. /\ UNCHANGED <<pc, ctx, post, candidates>>
        /\ \E k \in {"none", "candidates", "offer"} : patch' = [patch EXCEPT ![c] = k]
    BY <1>4 DEF WebRTC!PatchTerminated, WebRTC!Patch, WebRTC!connServerVars, WebRTC!connVars
  <2> QED
    BY <1>2, <2>1
<1>5. ASSUME NEW c \in Clients["webrtc"],
             \/ WebRTC!PostTerminated(c) \/ WebRTC!RefusePost(c) \/ WebRTC!TakeCandidates(c)
             \/ WebRTC!CandidatesEnd(c)
      PROVE  HTTPTypes' /\ Answered'
  <2>1. UNCHANGED <<pc, ctx>>
    BY <1>5 DEF WebRTC!PostTerminated, WebRTC!RefusePost, WebRTC!TakeCandidates,
       WebRTC!CandidatesEnd, WebRTC!connServerVars, WebRTC!connVars
  <2>2. \/ /\ post[c] \in {"opening", "waiting"} /\ post' = [post EXCEPT ![c] = "none"]
           /\ UNCHANGED <<patch, candidates>>
        \/ /\ candidates[c] = "ready" /\ patch' = [patch EXCEPT ![c] = "none"] /\ post' = post
           /\ candidates' \in {candidates, [candidates EXCEPT ![c] = "stuck"]}
        \/ /\ ctx[c] \/ pc[c] = "none"
           /\ UNCHANGED <<post, patch>>
           /\ candidates' = [candidates EXCEPT ![c] = "off"]
    BY <1>5 DEF WebRTC!PostTerminated, WebRTC!RefusePost, WebRTC!TakeCandidates,
       WebRTC!CandidatesEnd, WebRTC!Over, WebRTC!At, WebRTC!httpVars
  <2>3. HTTPTypes'
    BY <2>2 DEF HTTPTypes
  <2>4. Answered'
    BY <2>1, <2>2 DEF Answered, HTTPTypes
  <2> QED
    BY <2>3, <2>4
<1>6. ASSUME NEW c \in Clients["webrtc"], WebRTC!Post(c)
      PROVE  HTTPTypes' /\ Answered'
  <2>1. /\ pc' = [pc EXCEPT ![c] = "new"] /\ post' = [post EXCEPT ![c] = "opening"]
        /\ ctx' = [ctx EXCEPT ![c] = srv # "open"]
        /\ UNCHANGED <<patch, candidates>>
    BY <1>6 DEF WebRTC!Post, WebRTC!Register, WebRTC!Goto
  <2> QED
    BY <1>1, <2>1 DEF HTTPTypes, Answered, Feeding
<1>7. ASSUME NEW c \in Clients["webrtc"],
             \/ WebRTCLocal(c) \/ WebRTC!AddReader(c)
             \/ (WebRTC!WaitOnHold(c) \/ WebRTC!LeavePath(c)) /\ WebRTC!Alone
      PROVE  HTTPTypes' /\ Answered'
  <2>1. ctx' = ctx /\ patch' = patch
    BY <1>7 DEF WebRTCLocal, WebRTC!TakeNew, WebRTC!GiveUpNew, WebRTC!FindPathConf,
       WebRTC!AnswerPublisher, WebRTC!AnswerReader, WebRTC!Interrupted, WebRTC!ConnectPublisher,
       WebRTC!GatherTracks, WebRTC!PublishingEnds, WebRTC!ConnectReader, WebRTC!ReadingEnds,
       WebRTC!StartReading, WebRTC!Moves, WebRTC!AddReader, WebRTC!AddReaderTo,
       WebRTC!WaitOnHold, WebRTC!LeavePath, WebRTC!WriteAnswer, WebRTC!Alone, WebRTC!httpVars
  <2>2. \/ /\ UNCHANGED <<post, candidates>> /\ pc[c] # "none"
           /\ \E there \in WebRTCPlaces :
                 /\ pc' = [pc EXCEPT ![c] = there]
                 /\ \/ there \notin {"connecting", "gathering", "offering"} \cup Feeding
                    \/ pc[c] \in {"connecting", "gathering"} \cup Feeding
        \/ /\ pc[c] = "new" /\ post' = [post EXCEPT ![c] = "waiting"] /\ candidates' = candidates
           /\ \E there \in {"asking", "finding"} : pc' = [pc EXCEPT ![c] = there]
        \/ /\ pc[c] # "none" /\ post' = [post EXCEPT ![c] = "answered"]
           /\ candidates' = [candidates EXCEPT ![c] = "ready"]
           /\ \E there \in {"connecting", "answering"} : pc' = [pc EXCEPT ![c] = there]
    <3>1. CASE WebRTC!TakeNew(c)
      BY <3>1 DEF WebRTC!TakeNew, WebRTC!Moves, WebRTC!Goto, WebRTC!At
    <3>2. CASE WebRTC!AnswerPublisher(c) \/ WebRTC!AnswerReader(c)
      BY <3>2 DEF WebRTC!AnswerPublisher, WebRTC!AnswerReader, WebRTC!WriteAnswer, WebRTC!Moves,
         WebRTC!Goto, WebRTC!At, WebRTC!Alone, WebRTC!httpVars, WebRTCPlaces, Feeding
    <3>3. CASE WebRTC!GiveUpNew(c) \/ WebRTC!FindPathConf(c) \/ WebRTC!ConnectReader(c)
               \/ WebRTC!ReadingEnds(c)
      BY <3>3 DEF WebRTC!GiveUpNew, WebRTC!FindPathConf, WebRTC!ConnectReader,
         WebRTC!ReadingEnds, WebRTC!Moves, WebRTC!Goto, WebRTC!At, WebRTC!Alone,
         WebRTC!httpVars, WebRTCPlaces, Feeding
    <3>4. CASE WebRTC!ConnectPublisher(c) \/ WebRTC!GatherTracks(c) \/ WebRTC!StartReading(c)
               \/ WebRTC!PublishingEnds(c)
      BY <3>4 DEF WebRTC!ConnectPublisher, WebRTC!GatherTracks, WebRTC!StartReading,
         WebRTC!PublishingEnds, WebRTC!Moves, WebRTC!Goto, WebRTC!At, WebRTC!Alone,
         WebRTC!httpVars, WebRTCPlaces, Feeding
    <3>5. CASE \/ WebRTC!AddReader(c)
               \/ (WebRTC!WaitOnHold(c) \/ WebRTC!LeavePath(c)) /\ WebRTC!Alone
      BY <3>5 DEF WebRTC!AddReader, WebRTC!AddReaderTo, WebRTC!WaitOnHold, WebRTC!LeavePath,
         WebRTC!Goto, WebRTC!At, WebRTC!Alone, WebRTC!httpVars, WebRTCPlaces, Feeding
    <3> QED
      BY <1>7, <3>1, <3>2, <3>3, <3>4, <3>5 DEF WebRTCLocal, WebRTC!Interrupted
  <2>3. HTTPTypes'
    BY <2>1, <2>2 DEF HTTPTypes
  <2>4. \A d \in Clients["webrtc"] :
           d # c => pc'[d] = pc[d] /\ post'[d] = post[d] /\ candidates'[d] = candidates[d]
    BY <1>1, <2>2 DEF HTTPTypes
  <2>5. /\ pc'[c] \in {"connecting", "gathering", "offering"} \cup Feeding
              => post'[c] = "answered"
        /\ post'[c] = "answered" /\ pc'[c] # "none" /\ ~ctx'[c] => candidates'[c] # "off"
    BY <1>1, <2>1, <2>2 DEF HTTPTypes, Answered, Feeding
  <2>6. Answered'
    BY <2>1, <2>4, <2>5 DEF Answered
  <2> QED
    BY <2>3, <2>6
<1>8. ASSUME NEW c \in Clients["webrtc"],
             WebRTC!AddPublisher(c) \/ (WebRTC!Unpublish(c) /\ WebRTC!Alone)
      PROVE  HTTPTypes' /\ Answered'
  <2>1. UNCHANGED <<post, patch, candidates>>
    BY <1>8 DEF WebRTC!AddPublisher, WebRTC!Alone, WebRTC!httpVars
  <2>2. /\ pc[c] \in {"offering", "unpublishing"}
        /\ \E there \in {"accepted", "returned"} :
              /\ pc' = [pc EXCEPT ![c] = there]
              /\ there = "accepted" => pc[c] = "offering"
    BY <1>8 DEF WebRTC!AddPublisher, WebRTC!AddPublisherIf, WebRTC!Unpublish, WebRTC!Goto,
       WebRTC!At
  <2>3. ctx' = ctx \/ \E set : WebRTC!Cancel(set)
    BY <1>8 DEF WebRTC!AddPublisher, WebRTC!AddPublisherIf, WebRTC!Unpublish
  <2>4. \A d \in Clients["webrtc"] : ~ctx'[d] => ~ctx[d]
    BY <1>1, <2>3 DEF WebRTC!Cancel
  <2>5. \A d \in Clients["webrtc"] :
           /\ d # c => pc'[d] = pc[d]
           /\ pc'[d] = "accepted" => pc[d] \in {"accepted", "offering"}
           /\ pc'[d] # "none" => pc[d] # "none"
    BY <1>1, <2>2
  <2>6. \A d \in Clients["webrtc"] :
           pc'[d] \in {"connecting", "gathering", "offering"} \cup Feeding
              => pc[d] \in {"connecting", "gathering", "offering"} \cup Feeding
    BY <1>1, <2>2, <2>5 DEF Feeding
  <2> QED
    BY <1>2, <2>1, <2>4, <2>5, <2>6
<1>9. ASSUME NEW c \in Clients["webrtc"], WebRTC!SessionCloses(c)
      PROVE  HTTPTypes' /\ Answered'
  <2>1. /\ pc' = [pc EXCEPT ![c] = "none"] /\ ctx' = [ctx EXCEPT ![c] = FALSE] /\ patch' = patch
        /\ post' = [post EXCEPT ![c] = IF @ = "answered" THEN "none" ELSE @]
        /\ candidates' = [candidates EXCEPT ![c] = IF @ = "stuck" THEN "off" ELSE @]
    BY <1>9 DEF WebRTC!SessionCloses, WebRTC!ConnCloses, WebRTC!Forget, WebRTC!Goto
  <2>2. HTTPTypes'
    BY <2>1 DEF HTTPTypes
  <2>3. \A d \in Clients["webrtc"] :
           d # c => /\ pc'[d] = pc[d] /\ ctx'[d] = ctx[d] /\ post'[d] = post[d]
                    /\ candidates'[d] = candidates[d]
    BY <1>1, <2>1 DEF HTTPTypes
  <2>4. pc'[c] = "none"
    BY <1>1, <2>1
  <2>5. Answered'
    BY <2>3, <2>4 DEF Answered, Feeding
  <2> QED
    BY <2>2, <2>5
<1>10. CASE WebRTC!Around
  <2>1. ASSUME NEW c \in Clients["webrtc"], WebRTC!WaitOnHold(c)
        PROVE  HTTPTypes' /\ Answered'
    BY <1>7, <1>10, <2>1 DEF WebRTC!Around
  <2> QED
    BY <1>3, <1>10, <2>1
<1>11. ASSUME NEW c \in Clients["webrtc"], WebRTC!SessionRun(c) \/ WebRTC!Interrupted(c)
       PROVE  HTTPTypes' /\ Answered'
  BY <1>5, <1>7, <1>8, <1>9, <1>11 DEF WebRTC!SessionRun, WebRTCLocal
<1> QED
  BY <1>3, <1>4, <1>5, <1>6, <1>10, <1>11 DEF WebRTC!Next, WebRTC!HTTPEnds

(* The configuration that a publisher was given is one that there was.     *)
LEMMA WebRTCFoundKeeps ==
    ASSUME ConnInv(Clients["webrtc"], WebRTCPlaces, WebRTCShown), FoundInv(Clients["webrtc"]),
           [WebRTC!Next]_WebRTC!vars
    PROVE  FoundInv(Clients["webrtc"])'
<1>1. conf \in {1, 2}
  BY ConnParts
<1>2. found' = found \/ \E c \in Clients["webrtc"], v \in {0, conf} :
                           found' = [found EXCEPT ![c] = v]
  BY DEF WebRTC!Next, WebRTC!Around, WebRTC!SessionRun, WebRTC!Interrupted, WebRTC!HTTPEnds,
     WebRTC!Post, WebRTC!PostTerminated, WebRTC!Patch, WebRTC!PatchTerminated, WebRTC!Delete,
     WebRTC!TakeNew, WebRTC!GiveUpNew, WebRTC!WriteAnswer, WebRTC!FindPathConf,
     WebRTC!AnswerPublisher, WebRTC!ConnectPublisher, WebRTC!GatherTracks, WebRTC!AddPublisher,
     WebRTC!StartReading, WebRTC!PublishingEnds, WebRTC!AddReader, WebRTC!AnswerReader,
     WebRTC!ConnectReader, WebRTC!ReadingEnds, WebRTC!RefusePost, WebRTC!Forget,
     WebRTC!SessionCloses,
     WebRTC!TakeCandidates, WebRTC!CandidatesEnd, WebRTC!Alone, WebRTC!vars
<1> QED
  BY <1>1, <1>2 DEF FoundInv

(* No step breaks the invariant.                                           *)
LEMMA WebRTCStepInv ==
    ASSUME WebRTCInv, [WebRTC!Next]_WebRTC!vars
    PROVE  WebRTCInv'
  BY WebRTCConnKeeps, WebRTCStatesKeep, WebRTCFoundKeeps, HTTPKeeps DEF WebRTCInv

(* Whoever becomes the publisher has the configuration of the path.        *)
LEMMA WebRTCChecked ==
    ASSUME WebRTCInv, [WebRTC!Next]_WebRTC!vars,
           NEW c \in Clients["webrtc"], publisher' = c, publisher # c
    PROVE  found[c] = conf
<1>1. c # None
  BY WebRTCKind DEF ConnKind
<1>2. \/ \E d \in Clients["webrtc"] : WebRTC!AddPublisher(d) /\ publisher' # publisher
      \/ publisher' \in {publisher, None}
  <2>1. CASE \/ WebRTC!Around \/ UNCHANGED WebRTC!vars
             \/ \E d \in Clients["webrtc"] : WebRTC!Delete(d) \/ WebRTCRequests(d)
    BY <2>1 DEF WebRTC!Around, WebRTC!Close, WebRTC!CloseReturns, WebRTC!SeeContextDone,
       WebRTC!PathEndsStream, WebRTC!APIConnsKick, WebRTC!vars, WebRTC!WaitOnHold,
       WebRTC!ChangeConf, WebRTC!HoldReader, WebRTC!EndStream, WebRTC!sideVars,
       WebRTC!connServerVars, WebRTC!Delete, WebRTCRequests, WebRTC!HTTPEnds,
       WebRTC!PostTerminated, WebRTC!PatchTerminated, WebRTC!Patch, WebRTC!RefusePost,
       WebRTC!TakeCandidates, WebRTC!CandidatesEnd
  <2>2. ASSUME NEW d \in Clients["webrtc"], WebRTCLocal(d)
        PROVE  publisher' = publisher
    BY <2>2, WebRTCMoves DEF ConnMoves
  <2>3. ASSUME NEW d \in Clients["webrtc"],
               \/ WebRTC!Post(d) \/ WebRTC!SessionCloses(d) \/ WebRTC!AddReader(d)
               \/ WebRTC!LeavePath(d) \/ WebRTC!Unpublish(d)
        PROVE  publisher' \in {publisher, None}
    BY <2>3 DEF WebRTC!Post, WebRTC!Register, WebRTC!SessionCloses, WebRTC!ConnCloses,
       WebRTC!AddReader, WebRTC!AddReaderTo, WebRTC!AdmitReader, WebRTC!RefuseReader,
       WebRTC!LeavePath, WebRTC!RemoveReader, WebRTC!Unpublish, WebRTC!RemovePublisher,
       WebRTC!sideVars
  <2> QED
    BY <2>1, <2>2, <2>3
    DEF WebRTC!Next, WebRTC!SessionRun, WebRTCLocal, WebRTCRequests
<1>3. PICK d \in Clients["webrtc"] : WebRTC!AddPublisher(d) /\ publisher' # publisher
  BY <1>1, <1>2
<1> QED
  BY <1>3 DEF WebRTC!AddPublisher, WebRTC!AddPublisherIf, WebRTC!AdmitPublisher, WebRTC!sideVars

(* What the invariant says of the server.                                  *)
LEMMA WebRTCFacts ==
    ASSUME WebRTCInv
    PROVE  /\ WebRTC!TypeOK /\ WebRTC!NoGhosts /\ WebRTC!ListIsTrue /\ WebRTC!StateIsTrue
           /\ WebRTC!ClosedIsEmpty
<1>1. /\ ConnInv(Clients["webrtc"], WebRTCPlaces, WebRTCShown) /\ WebRTCStates
      /\ FoundInv(Clients["webrtc"]) /\ HTTPTypes /\ Answered
  BY DEF WebRTCInv
<1>2. WebRTC!NoGhosts /\ WebRTC!ListIsTrue /\ WebRTC!ServerTypeOK
  BY <1>1, WebRTCIsConn DEF ConnInv, ConnTypes
<1>3. WebRTC!TypeOK
  BY <1>1, <1>2 DEF ConnInv, ConnTypes, FoundInv, HTTPTypes, WebRTC!TypeOK, WebRTCPlaces,
     WebRTCShown
<1>4. WebRTC!StateIsTrue
  <2>1. conns \subseteq Clients["webrtc"] /\ WebRTC!APISessionsList = [c \in conns |-> state[c]]
    BY <1>2 DEF WebRTC!ServerTypeOK, WebRTC!APISessionsList, WebRTC!apiItem
  <2>2. \A c \in conns : WebRTC!APISessionsList[c] = state[c]
    BY <2>1
  <2>3. \A c \in Clients["webrtc"] :
           /\ post[c] = "answered" /\ ~WebRTC!Over(c) => candidates[c] # "off"
           /\ c = publisher => post[c] = "answered"
           /\ c = publisher \/ pc[c] = "reading" => state[c] = "established"
    BY <1>1, <1>2
    DEF WebRTC!NoGhosts, WebRTC!Publishing, WebRTCStates, Answered, WebRTC!Over, WebRTC!At, Feeding
  <2> QED
    BY <2>2, <2>3 DEF WebRTC!StateIsTrue
<1>5. WebRTC!ClosedIsEmpty
  <2>1. readers \subseteq Clients["webrtc"] /\ held \subseteq Clients["webrtc"]
        /\ publisher \in Clients["webrtc"] \cup {None}
    BY <1>1, ConnParts
  <2> QED
    BY <1>1, <1>2, <2>1 DEF ConnInv, ConnEmpty, WebRTC!ClosedIsEmpty, WebRTC!Served,
       WebRTC!NoGhosts, WebRTC!Reading, WebRTC!Publishing
<1> QED
  BY <1>2, <1>3, <1>4, <1>5

-----------------------------------------------------------------------------
(* The RTSP server.                                                        *)

(* Which state of the library goes with which handler and with which state *)
(* that is to follow, and that a session has its path until it is kicked.  *)
RTSPHandlers ==
    \A c \in Clients["rtsp"] :
        /\ c \in held <=> pc[c] = "held"
        /\ pc[c] = "describing" => lib[c] = "none"
        /\ pc[c] \in {"asking", "held"} => lib[c] = "initial"
        /\ pc[c] \in {"offering", "record"} => lib[c] = "prerecord"
        /\ pc[c] = "preplay" => lib[c] \in {"initial", "play"}
        /\ pc[c] = "play" => lib[c] = "preplay"
        /\ pc[c] = "prerecord" => lib[c] \in {"initial", "record"}
        /\ RTSP!Becomes(c) \in {"preplay", "play", "record"} => hasPath[c] \/ c \in kicked
        /\ c \in sessions <=> lib[c] # "none" /\ c \notin kicked

(* Nothing is left once run is over.                                       *)
RTSPEnded ==
    srv \in {"ended", "closed"} => conns = {} /\ \A c \in Clients["rtsp"] : lib[c] = "none"

RTSPInv == RTSP!TypeOK /\ RTSP!NoGhosts /\ RTSPHandlers /\ RTSPEnded

(* The names of the states.                                                *)
LibStates == {"none", "initial", "preplay", "play", "prerecord", "record"}
RTSPPlaces == {"idle", "describing", "asking", "held", "offering",
               "preplay", "play", "prerecord", "record"}

(* The types, one by one.                                                  *)
LEMMA RTSPTypes ==
    RTSP!TypeOK <=>
        /\ srv \in {"open", "cancelled", "ending", "ended", "closed"}
        /\ closing \in BOOLEAN /\ dead \in BOOLEAN
        /\ conns \subseteq Clients["rtsp"] /\ sessions \subseteq Clients["rtsp"]
        /\ kicked \subseteq Clients["rtsp"]
        /\ lib \in [Clients["rtsp"] -> LibStates]
        /\ pc \in [Clients["rtsp"] -> RTSPPlaces]
        /\ ctx \in [Clients["rtsp"] -> BOOLEAN]
        /\ hasPath \in [Clients["rtsp"] -> BOOLEAN] /\ hook \in [Clients["rtsp"] -> BOOLEAN]
        /\ found \in [Clients["rtsp"] -> 0..2]
        /\ readers \subseteq Clients["rtsp"] /\ held \subseteq Clients["rtsp"]
        /\ publisher \in Clients["rtsp"] \cup {None} /\ conf \in {1, 2}
<1>1. {"idle", "describing", "asking", "held", "offering"} \cup RTSP!Following = RTSPPlaces
  BY DEF RTSP!Following, RTSPPlaces
<1> QED
  BY <1>1 DEF RTSP!TypeOK, RTSP!SideTypeOK, LibStates

(* None of the clients is None.                                            *)
LEMMA RTSPNone == None \notin Clients["rtsp"]
  BY NoneAssumption DEF Everybody, Kinds

(* There are no sessions in the beginning.                                 *)
LEMMA RTSPInitInv ==
    ASSUME RTSP!Init
    PROVE  RTSPInv
<1>1. /\ srv = "open" /\ closing = FALSE /\ conns = {}
      /\ sessions = {} /\ kicked = {} /\ dead = FALSE
      /\ lib = [c \in Clients["rtsp"] |-> "none"] /\ pc = [c \in Clients["rtsp"] |-> "idle"]
      /\ ctx = [c \in Clients["rtsp"] |-> FALSE] /\ hasPath = [c \in Clients["rtsp"] |-> FALSE]
      /\ hook = [c \in Clients["rtsp"] |-> FALSE] /\ found = [c \in Clients["rtsp"] |-> 0]
      /\ readers = {} /\ held = {} /\ publisher = None /\ conf = 1
  BY DEF RTSP!Init, RTSP!SideInit
<1>2. RTSP!TypeOK
  <2>1. /\ lib \in [Clients["rtsp"] -> LibStates] /\ pc \in [Clients["rtsp"] -> RTSPPlaces]
        /\ found \in [Clients["rtsp"] -> 0..2]
    BY <1>1 DEF LibStates, RTSPPlaces
  <2>2. /\ ctx \in [Clients["rtsp"] -> BOOLEAN] /\ hasPath \in [Clients["rtsp"] -> BOOLEAN]
        /\ hook \in [Clients["rtsp"] -> BOOLEAN]
    BY <1>1
  <2> QED
    BY <1>1, <2>1, <2>2, RTSPTypes
<1>3. RTSP!NoGhosts /\ RTSPHandlers /\ RTSPEnded
  BY <1>1, RTSPNone
  DEF RTSP!NoGhosts, RTSPHandlers, RTSPEnded, RTSP!Served, RTSP!Becomes, RTSP!Following
<1> QED
  BY <1>2, <1>3 DEF RTSPInv

(* Telling some to end, which all who have a session see.                  *)
LEMMA ToldFacts ==
    ASSUME NEW set, ctx \in [Clients["rtsp"] -> BOOLEAN], RTSP!Told(set)
    PROVE  /\ ctx' \in [Clients["rtsp"] -> BOOLEAN]
           /\ \A d \in Clients["rtsp"] : ~ctx'[d] => ~ctx[d] /\ ~(d \in set /\ lib[d] # "none")
<1>1. ctx' = [d \in Clients["rtsp"] |-> ctx[d] \/ (d \in set /\ lib[d] # "none")]
  BY DEF RTSP!Told
<1> QED
  BY <1>1

(* The server goes on towards its end, or a connection comes or goes.      *)
LEMMA RTSPServerKeeps ==
    ASSUME RTSPInv,
           \/ \E c \in Clients["rtsp"] : RTSP!OnConnOpen(c) \/ RTSP!OnConnClose(c)
           \/ RTSP!Reload \/ RTSP!Close \/ RTSP!Shutdown \/ RTSP!WaitReturns \/ RTSP!CloseReturns
           \/ UNCHANGED RTSP!vars
    PROVE  RTSPInv'
<1>1. UNCHANGED <<sessions, lib, pc, hasPath, hook, found, kicked, dead, readers, held, publisher>>
  BY DEF RTSP!OnConnOpen, RTSP!OnConnClose, RTSP!Reload, RTSP!Close, RTSP!Shutdown,
     RTSP!WaitReturns, RTSP!CloseReturns, RTSP!vars, RTSP!sessionVars, RTSP!sideVars,
     RTSP!ChangeConf
<1>2. ctx' = ctx \/ \E set : RTSP!Told(set)
  BY DEF RTSP!OnConnOpen, RTSP!OnConnClose, RTSP!Reload, RTSP!Close, RTSP!Shutdown,
     RTSP!WaitReturns, RTSP!CloseReturns, RTSP!vars, RTSP!sessionVars
<1>3. ctx' \in [Clients["rtsp"] -> BOOLEAN] /\ \A d \in Clients["rtsp"] : ~ctx'[d] => ~ctx[d]
  BY <1>2, ToldFacts, RTSPTypes DEF RTSPInv
<1>4. /\ srv' \in {"open", "cancelled", "ending", "ended", "closed"} /\ closing' \in BOOLEAN
      /\ conns' \subseteq Clients["rtsp"]
      /\ srv' \in {"ended", "closed"} =>
            \/ srv \in {"ended", "closed"} /\ conns' \subseteq conns
            \/ conns' = {} /\ \A c \in Clients["rtsp"] : lib[c] = "none"
  <2>1. CASE RTSP!Close \/ RTSP!Shutdown \/ RTSP!WaitReturns \/ RTSP!CloseReturns
    BY <2>1, RTSPTypes DEF RTSPInv, RTSP!Close, RTSP!Shutdown, RTSP!WaitReturns,
       RTSP!CloseReturns
  <2>2. CASE \/ \E c \in Clients["rtsp"] : RTSP!OnConnOpen(c) \/ RTSP!OnConnClose(c)
             \/ RTSP!Reload \/ UNCHANGED RTSP!vars
    BY <2>2, RTSPTypes DEF RTSPInv, RTSP!OnConnOpen, RTSP!OnConnClose, RTSP!Reload,
       RTSP!vars, RTSP!serverVars
  <2> QED
    BY <2>1, <2>2
<1>5. conf' \in {1, 2}
  <2>1. conf' \in {conf, 3 - conf}
    BY DEF RTSP!OnConnOpen, RTSP!OnConnClose, RTSP!Reload, RTSP!Close, RTSP!Shutdown,
       RTSP!WaitReturns, RTSP!CloseReturns, RTSP!vars, RTSP!sideVars, RTSP!ChangeConf
  <2> QED
    BY <2>1, RTSPTypes DEF RTSPInv
<1>6. RTSP!TypeOK'
  BY <1>1, <1>3, <1>4, <1>5, RTSPTypes DEF RTSPInv, RTSP!TypeOK, RTSP!SideTypeOK
<1>7. RTSP!NoGhosts' /\ RTSPHandlers'
  BY <1>1, <1>3 DEF RTSPInv, RTSP!NoGhosts, RTSPHandlers, RTSP!Served, RTSP!Becomes
<1>8. RTSPEnded'
  BY <1>1, <1>4 DEF RTSPInv, RTSPEnded
<1> QED
  BY <1>6, <1>7, <1>8 DEF RTSPInv

(* A session is opened.                                                    *)
LEMMA SessionOpenKeeps ==
    ASSUME RTSPInv, NEW c \in Clients["rtsp"], RTSP!OnSessionOpen(c)
    PROVE  RTSPInv'
<1>1. /\ srv = "open" /\ c \notin kicked /\ lib[c] = "none" /\ pc[c] = "idle"
      /\ sessions' = sessions \cup {c} /\ lib' = [lib EXCEPT ![c] = "initial"]
      /\ UNCHANGED <<srv, closing, conns, ctx, pc, hasPath, hook, found, kicked, dead, readers,
                     held, publisher, conf>>
  BY DEF RTSP!OnSessionOpen, RTSP!serverVars, RTSP!sideVars
<1>2. /\ lib' \in [Clients["rtsp"] -> LibStates] /\ lib'[c] = "initial"
      /\ \A d \in Clients["rtsp"] : d # c => lib'[d] = lib[d]
  BY <1>1, RTSPTypes DEF RTSPInv, LibStates
<1>3. RTSP!TypeOK'
  BY <1>1, <1>2, RTSPTypes DEF RTSPInv, RTSP!TypeOK, RTSP!SideTypeOK, LibStates
<1>4. RTSP!NoGhosts'
  BY <1>1, <1>2 DEF RTSPInv, RTSP!NoGhosts, RTSPHandlers, RTSP!Served, RTSP!Becomes,
     RTSP!Following
<1>5. RTSPHandlers' /\ RTSPEnded'
  BY <1>1, <1>2 DEF RTSPInv, RTSPHandlers, RTSPEnded, RTSP!Becomes, RTSP!Following
<1> QED
  BY <1>3, <1>4, <1>5 DEF RTSPInv

(* Handlers begin, and a description is answered.                          *)
LEMMA HandlerBeginsKeeps ==
    ASSUME RTSPInv, NEW c \in Clients["rtsp"],
           \/ RTSP!OnDescribe(c) \/ RTSP!Described(c) \/ RTSP!OnSetup(c) \/ RTSP!OnRecord(c)
           \/ RTSP!WaitOnHold(c)
    PROVE  RTSPInv'
<1>1. UNCHANGED <<srv, closing, conns, sessions, lib, ctx, hasPath, hook, found, kicked, dead,
                  readers, publisher, conf>>
  BY DEF RTSP!OnDescribe, RTSP!Described, RTSP!OnSetup, RTSP!OnRecord, RTSP!WaitOnHold,
     RTSP!HoldReader, RTSP!serverVars, RTSP!sideVars
<1>2. \/ /\ held' = held /\ pc[c] \in {"idle", "describing"}
         /\ \/ lib[c] = "none" /\ pc' = [pc EXCEPT ![c] = "describing"]
            \/ pc' = [pc EXCEPT ![c] = "idle"]
            \/ lib[c] = "initial" /\ pc' = [pc EXCEPT ![c] = "asking"]
            \/ lib[c] = "prerecord" /\ pc' = [pc EXCEPT ![c] = "offering"]
      \/ held' = held \cup {c} /\ pc[c] = "asking" /\ pc' = [pc EXCEPT ![c] = "held"]
  BY DEF RTSP!OnDescribe, RTSP!Described, RTSP!OnSetup, RTSP!OnRecord, RTSP!WaitOnHold,
     RTSP!HoldReader, RTSP!Called, RTSP!sideVars
<1>3. RTSP!TypeOK'
  <2>1. pc' \in [Clients["rtsp"] -> RTSPPlaces] /\ held' \subseteq Clients["rtsp"]
    BY <1>2, RTSPTypes DEF RTSPInv, RTSPPlaces
  <2> QED
    BY <1>1, <2>1, RTSPTypes DEF RTSPInv, RTSP!TypeOK, RTSP!SideTypeOK, RTSPPlaces, RTSP!Following
<1>4. /\ \A d \in Clients["rtsp"] : d # c => pc'[d] = pc[d] /\ (d \in held' <=> d \in held)
      /\ c \in held' <=> pc'[c] = "held"
      /\ pc'[c] = "describing" => lib[c] = "none"
      /\ pc'[c] \in {"asking", "held"} => lib[c] = "initial"
      /\ pc'[c] = "offering" => lib[c] = "prerecord"
      /\ pc[c] \notin RTSP!Following /\ pc'[c] \notin RTSP!Following
  BY <1>2, RTSPTypes DEF RTSPInv, RTSPHandlers, RTSP!Following
<1>5. \A d \in Clients["rtsp"] : RTSP!Becomes(d)' = RTSP!Becomes(d)
  BY <1>1, <1>4 DEF RTSP!Becomes
<1>6. RTSP!NoGhosts'
  BY <1>1, <1>4, <1>5 DEF RTSPInv, RTSP!NoGhosts, RTSP!Served
<1>7. RTSPHandlers' /\ RTSPEnded'
  BY <1>1, <1>4, <1>5 DEF RTSPInv, RTSPHandlers, RTSPEnded, RTSP!Following
<1> QED
  BY <1>3, <1>6, <1>7 DEF RTSPInv

(* The library has changed the state for a handler.                        *)
LEMMA StateFollowsKeeps ==
    ASSUME RTSPInv, NEW c \in Clients["rtsp"], RTSP!StateFollows(c)
    PROVE  RTSPInv'
<1>1. /\ pc[c] \in RTSP!Following
      /\ lib' = [lib EXCEPT ![c] = pc[c]] /\ pc' = [pc EXCEPT ![c] = "idle"]
      /\ UNCHANGED <<srv, closing, conns, sessions, ctx, hasPath, hook, found, kicked, dead,
                     readers, held, publisher, conf>>
  BY DEF RTSP!StateFollows, RTSP!serverVars, RTSP!sideVars
<1>2. /\ lib' \in [Clients["rtsp"] -> LibStates] /\ pc' \in [Clients["rtsp"] -> RTSPPlaces]
      /\ lib'[c] = pc[c] /\ pc'[c] = "idle"
      /\ \A d \in Clients["rtsp"] : d # c => lib'[d] = lib[d] /\ pc'[d] = pc[d]
  BY <1>1, RTSPTypes DEF RTSPInv, LibStates, RTSPPlaces, RTSP!Following
<1>3. RTSP!TypeOK'
  BY <1>1, <1>2, RTSPTypes DEF RTSPInv, RTSP!TypeOK, RTSP!SideTypeOK, LibStates, RTSPPlaces,
     RTSP!Following
<1>4. \A d \in Clients["rtsp"] : RTSP!Becomes(d)' = RTSP!Becomes(d)
  BY <1>1, <1>2 DEF RTSP!Becomes, RTSP!Following
<1>5. /\ pc[c] # "held" /\ lib[c] # "none" /\ lib'[c] # "none"
  BY <1>1, <1>2 DEF RTSPInv, RTSPHandlers, RTSP!Following
<1>6. RTSP!NoGhosts'
  BY <1>1, <1>2, <1>4, <1>5 DEF RTSPInv, RTSP!NoGhosts, RTSP!Served
<1>7. RTSPHandlers' /\ RTSPEnded'
  BY <1>1, <1>2, <1>4, <1>5 DEF RTSPInv, RTSPHandlers, RTSPEnded
<1> QED
  BY <1>3, <1>6, <1>7 DEF RTSPInv

(* Whoever is to publish is announced.                                     *)
LEMMA AnnounceKeeps ==
    ASSUME RTSPInv, NEW c \in Clients["rtsp"], RTSP!OnAnnounce(c)
    PROVE  RTSPInv'
<1>1. /\ pc[c] = "idle" /\ lib[c] = "initial"
      /\ found' = [found EXCEPT ![c] = conf] /\ pc' = [pc EXCEPT ![c] = "prerecord"]
      /\ UNCHANGED <<srv, closing, conns, sessions, lib, ctx, hasPath, hook, kicked, dead, readers,
                     held, publisher, conf>>
  BY DEF RTSP!OnAnnounce, RTSP!Called, RTSP!Returns, RTSP!serverVars, RTSP!sideVars
<1>2. /\ pc' \in [Clients["rtsp"] -> RTSPPlaces] /\ pc'[c] = "prerecord"
      /\ \A d \in Clients["rtsp"] : d # c => pc'[d] = pc[d]
      /\ found' \in [Clients["rtsp"] -> 0..2]
  BY <1>1, RTSPTypes DEF RTSPInv, RTSPPlaces
<1>3. RTSP!TypeOK'
  BY <1>1, <1>2, RTSPTypes DEF RTSPInv, RTSP!TypeOK, RTSP!SideTypeOK, RTSPPlaces, RTSP!Following
<1>4. RTSP!NoGhosts'
  BY <1>1, <1>2
  DEF RTSPInv, RTSP!NoGhosts, RTSPHandlers, RTSP!Served, RTSP!Becomes, RTSP!Following
<1>5. RTSPHandlers' /\ RTSPEnded'
  BY <1>1, <1>2 DEF RTSPInv, RTSPHandlers, RTSPEnded, RTSP!Becomes, RTSP!Following
<1> QED
  BY <1>3, <1>4, <1>5 DEF RTSPInv

(* AddReader is answered.                                                  *)
LEMMA SetupEndsKeeps ==
    ASSUME RTSPInv, NEW c \in Clients["rtsp"], RTSP!SetupEnds(c)
    PROVE  RTSPInv'
<1>1. /\ pc[c] \in {"asking", "held"}
      /\ held' = held \ {c}
      /\ UNCHANGED <<srv, closing, conns, sessions, lib, ctx, hook, found, kicked, dead,
                     publisher, conf>>
      /\ \/ /\ readers' = readers \cup {c} /\ hasPath' = [hasPath EXCEPT ![c] = TRUE]
            /\ pc' = [pc EXCEPT ![c] = "preplay"]
         \/ UNCHANGED <<readers, hasPath>> /\ pc' = [pc EXCEPT ![c] = "idle"]
  BY DEF RTSP!SetupEnds, RTSP!AdmitReader, RTSP!RefuseReader, RTSP!Returns, RTSP!serverVars
<1>2. lib[c] = "initial"
  BY <1>1 DEF RTSPInv, RTSPHandlers
<1>3. /\ pc' \in [Clients["rtsp"] -> RTSPPlaces]
      /\ \A d \in Clients["rtsp"] : d # c => pc'[d] = pc[d]
  BY <1>1, RTSPTypes DEF RTSPInv, RTSPPlaces
<1>4. CASE /\ readers' = readers \cup {c} /\ hasPath' = [hasPath EXCEPT ![c] = TRUE]
           /\ pc' = [pc EXCEPT ![c] = "preplay"]
  <2>1. /\ pc'[c] = "preplay"
        /\ hasPath' \in [Clients["rtsp"] -> BOOLEAN] /\ hasPath'[c]
        /\ \A d \in Clients["rtsp"] : d # c => hasPath'[d] = hasPath[d]
    BY <1>4, RTSPTypes DEF RTSPInv
  <2>2. RTSP!TypeOK'
    BY <1>1, <1>3, <1>4, <2>1, RTSPTypes DEF RTSPInv, RTSP!TypeOK, RTSP!SideTypeOK, RTSPPlaces,
       RTSP!Following
  <2>3. RTSP!NoGhosts'
    BY <1>1, <1>2, <1>3, <1>4, <2>1
    DEF RTSPInv, RTSP!NoGhosts, RTSPHandlers, RTSP!Served, RTSP!Becomes, RTSP!Following
  <2>4. RTSPHandlers' /\ RTSPEnded'
    BY <1>1, <1>2, <1>3, <2>1
    DEF RTSPInv, RTSPHandlers, RTSPEnded, RTSP!Becomes, RTSP!Following
  <2> QED
    BY <2>2, <2>3, <2>4 DEF RTSPInv
<1>5. CASE UNCHANGED <<readers, hasPath>> /\ pc' = [pc EXCEPT ![c] = "idle"]
  <2>1. RTSP!TypeOK'
    BY <1>1, <1>3, <1>5, RTSPTypes DEF RTSPInv, RTSP!TypeOK, RTSP!SideTypeOK, RTSPPlaces,
       RTSP!Following
  <2>2. pc'[c] = "idle"
    BY <1>5, RTSPTypes DEF RTSPInv
  <2>3. RTSP!NoGhosts'
    BY <1>1, <1>3, <1>5, <2>2
    DEF RTSPInv, RTSP!NoGhosts, RTSP!Served, RTSP!Becomes, RTSP!Following
  <2>4. RTSPHandlers' /\ RTSPEnded'
    BY <1>1, <1>3, <1>5, <2>2
    DEF RTSPInv, RTSPHandlers, RTSPEnded, RTSP!Becomes, RTSP!Following
  <2> QED
    BY <2>1, <2>3, <2>4 DEF RTSPInv
<1> QED
  BY <1>1, <1>4, <1>5

(* A reader plays, or pauses.                                              *)
LEMMA PlayKeeps ==
    ASSUME RTSPInv, NEW c \in Clients["rtsp"], RTSP!OnPlay(c) \/ RTSP!PauseReader(c)
    PROVE  RTSPInv'
<1>1. /\ pc[c] = "idle"
      /\ UNCHANGED <<srv, closing, conns, sessions, lib, ctx, hasPath, found, kicked, readers,
                     held, publisher, conf>>
      /\ \/ /\ lib[c] = "preplay" /\ dead' = ~hasPath[c]
            /\ hook' = [hook EXCEPT ![c] = TRUE] /\ pc' = [pc EXCEPT ![c] = "play"]
         \/ /\ lib[c] = "play" /\ dead' = ~hook[c]
            /\ hook' = [hook EXCEPT ![c] = FALSE] /\ pc' = [pc EXCEPT ![c] = "preplay"]
  BY DEF RTSP!OnPlay, RTSP!PauseReader, RTSP!Called, RTSP!Returns, RTSP!serverVars, RTSP!sideVars
<1>2. /\ pc' \in [Clients["rtsp"] -> RTSPPlaces] /\ hook' \in [Clients["rtsp"] -> BOOLEAN]
      /\ \/ lib[c] = "preplay" /\ pc'[c] = "play" /\ hook'[c]
         \/ lib[c] = "play" /\ pc'[c] = "preplay"
      /\ \A d \in Clients["rtsp"] : d # c => pc'[d] = pc[d] /\ hook'[d] = hook[d]
  BY <1>1, RTSPTypes DEF RTSPInv, RTSPPlaces
<1>3. dead' => c \in kicked
  BY <1>1 DEF RTSPInv, RTSPHandlers, RTSP!NoGhosts, RTSP!Becomes, RTSP!Following
<1>4. RTSP!TypeOK'
  <2>1. dead' \in BOOLEAN
    BY <1>1, RTSPTypes DEF RTSPInv
  <2> QED
    BY <1>1, <1>2, <2>1, RTSPTypes
    DEF RTSPInv, RTSP!TypeOK, RTSP!SideTypeOK, RTSPPlaces, RTSP!Following
<1>5. RTSP!NoGhosts'
  BY <1>1, <1>2, <1>3 DEF RTSPInv, RTSP!NoGhosts, RTSP!Served, RTSP!Becomes, RTSP!Following
<1>6. RTSPHandlers' /\ RTSPEnded'
  BY <1>1, <1>2 DEF RTSPInv, RTSPHandlers, RTSPEnded, RTSP!Becomes, RTSP!Following
<1> QED
  BY <1>4, <1>5, <1>6 DEF RTSPInv

(* AddPublisher is answered; whoever it displaces is told to end.          *)
LEMMA RecordEndsKeeps ==
    ASSUME RTSPInv, NEW c \in Clients["rtsp"], RTSP!RecordEnds(c)
    PROVE  RTSPInv'
<1>1. /\ pc[c] = "offering"
      /\ UNCHANGED <<srv, closing, conns, sessions, lib, hook, found, kicked, dead>>
  BY DEF RTSP!RecordEnds, RTSP!serverVars
<1>2. /\ lib[c] = "prerecord" /\ c \notin held
      /\ c \notin kicked => c \notin readers /\ c # publisher /\ c \in sessions
  BY <1>1 DEF RTSPInv, RTSPHandlers, RTSP!NoGhosts, RTSP!Becomes, RTSP!Following
<1>3. /\ pc' \in [Clients["rtsp"] -> RTSPPlaces]
      /\ \A d \in Clients["rtsp"] : d # c => pc'[d] = pc[d]
  BY <1>1, RTSPTypes DEF RTSPInv, RTSPPlaces, RTSP!RecordEnds, RTSP!Returns
<1>4. CASE /\ RTSP!AdmitPublisher(c) /\ RTSP!Told(RTSP!Displaced) /\ RTSP!Returns(c, "record")
           /\ hasPath' = [hasPath EXCEPT ![c] = TRUE]
  <2>1. /\ publisher' = c /\ readers' = (IF publisher = None THEN readers ELSE {})
        /\ UNCHANGED <<held, conf>>
        /\ pc' = [pc EXCEPT ![c] = "record"]
    BY <1>4 DEF RTSP!AdmitPublisher, RTSP!Returns
  <2>2. /\ ctx' \in [Clients["rtsp"] -> BOOLEAN]
        /\ \A d \in Clients["rtsp"] :
              ~ctx'[d] => ~ctx[d] /\ (publisher # None /\ (d = publisher \/ d \in readers)
                                         => lib[d] = "none")
    BY <1>4, ToldFacts, RTSPTypes DEF RTSPInv, RTSP!Displaced
  <2>3. /\ hasPath' \in [Clients["rtsp"] -> BOOLEAN]
        /\ pc'[c] = "record" /\ hasPath'[c]
        /\ \A d \in Clients["rtsp"] : d # c => hasPath'[d] = hasPath[d]
    BY <1>4, <2>1, RTSPTypes DEF RTSPInv
  <2>4. RTSP!TypeOK'
    BY <1>1, <1>3, <2>1, <2>2, <2>3, RTSPTypes DEF RTSPInv, RTSP!TypeOK, RTSP!SideTypeOK,
       RTSPPlaces, RTSP!Following
  <2>5. RTSP!NoGhosts'
    <3>1. \A d \in Clients["rtsp"] : d # c => RTSP!Becomes(d)' = RTSP!Becomes(d)
      BY <1>1, <1>3 DEF RTSP!Becomes
    <3>2. RTSP!Becomes(c)' = "record"
      BY <2>3 DEF RTSP!Becomes, RTSP!Following
    <3>3. \A d \in Clients["rtsp"] :
             RTSP!Becomes(d) \in {"preplay", "play", "record"} => lib[d] # "none"
      BY DEF RTSPInv, RTSPHandlers, RTSP!Becomes, RTSP!Following
    <3> QED
      BY <1>1, <1>2, <1>3, <2>1, <2>2, <2>3, <3>1, <3>2, <3>3, RTSPNone
      DEF RTSPInv, RTSP!NoGhosts, RTSP!Served
  <2>6. RTSPHandlers' /\ RTSPEnded'
    BY <1>1, <1>2, <1>3, <2>1, <2>3
    DEF RTSPInv, RTSPHandlers, RTSPEnded, RTSP!Becomes, RTSP!Following
  <2> QED
    BY <2>4, <2>5, <2>6 DEF RTSPInv
<1>5. CASE UNCHANGED <<RTSP!sideVars, ctx, hasPath>> /\ RTSP!Returns(c, "idle")
  <2>1. UNCHANGED <<readers, held, publisher, conf, ctx, hasPath>> /\ pc'[c] = "idle"
    BY <1>5, RTSPTypes DEF RTSP!sideVars, RTSP!Returns, RTSPInv
  <2>2. RTSP!TypeOK'
    BY <1>1, <1>3, <2>1, RTSPTypes DEF RTSPInv, RTSP!TypeOK, RTSP!SideTypeOK, RTSPPlaces,
       RTSP!Following
  <2>3. RTSP!NoGhosts'
    BY <1>1, <1>3, <2>1 DEF RTSPInv, RTSP!NoGhosts, RTSP!Served, RTSP!Becomes, RTSP!Following
  <2>4. RTSPHandlers' /\ RTSPEnded'
    BY <1>1, <1>3, <2>1 DEF RTSPInv, RTSPHandlers, RTSPEnded, RTSP!Becomes, RTSP!Following
  <2> QED
    BY <2>2, <2>3, <2>4 DEF RTSPInv
<1> QED
  BY <1>4, <1>5 DEF RTSP!RecordEnds

(* A publisher pauses: it leaves the path, with the readers that it had if *)
(* it was the one.                                                         *)
LEMMA PausePublisherKeeps ==
    ASSUME RTSPInv, NEW c \in Clients["rtsp"], RTSP!PausePublisher(c)
    PROVE  RTSPInv'
<1>1. /\ pc[c] = "idle" /\ lib[c] = "record" /\ pc' = [pc EXCEPT ![c] = "prerecord"]
      /\ dead' = ~hasPath[c]
      /\ publisher' = (IF publisher = c THEN None ELSE publisher)
      /\ readers' = readers \ (IF publisher = c THEN readers ELSE {})
      /\ RTSP!Told(IF publisher = c THEN readers ELSE {})
      /\ UNCHANGED <<srv, closing, conns, sessions, lib, hasPath, hook, found, kicked, held, conf>>
  BY DEF RTSP!PausePublisher, RTSP!Called, RTSP!Returns, RTSP!RemovePublisher, RTSP!LeftBehind,
     RTSP!serverVars
<1>2. /\ pc' \in [Clients["rtsp"] -> RTSPPlaces] /\ pc'[c] = "prerecord"
      /\ \A d \in Clients["rtsp"] : d # c => pc'[d] = pc[d]
  BY <1>1, RTSPTypes DEF RTSPInv, RTSPPlaces
<1>3. /\ ctx' \in [Clients["rtsp"] -> BOOLEAN]
      /\ \A d \in Clients["rtsp"] :
            ~ctx'[d] => ~ctx[d] /\ (publisher = c /\ d \in readers => lib[d] = "none")
  BY <1>1, ToldFacts, RTSPTypes DEF RTSPInv
<1>4. dead' => c \in kicked
  BY <1>1 DEF RTSPInv, RTSPHandlers, RTSP!Becomes, RTSP!Following
<1>5. RTSP!TypeOK'
  <2>1. dead' \in BOOLEAN
    BY <1>1, RTSPTypes DEF RTSPInv
  <2> QED
    BY <1>1, <1>2, <1>3, <2>1, RTSPTypes
    DEF RTSPInv, RTSP!TypeOK, RTSP!SideTypeOK, RTSPPlaces, RTSP!Following
<1>6. RTSP!NoGhosts'
  <2>1. \A d \in Clients["rtsp"] : d # c => RTSP!Becomes(d)' = RTSP!Becomes(d)
    BY <1>1, <1>2 DEF RTSP!Becomes
  <2>2. RTSP!Becomes(c) = "record" /\ RTSP!Becomes(c)' = "prerecord"
    BY <1>1, <1>2 DEF RTSP!Becomes, RTSP!Following
  <2>3. \A d \in Clients["rtsp"] : RTSP!Becomes(d) \in {"preplay", "play"} => lib[d] # "none"
    BY DEF RTSPInv, RTSPHandlers, RTSP!Becomes, RTSP!Following
  <2> QED
    BY <1>1, <1>2, <1>3, <1>4, <2>1, <2>2, <2>3, RTSPNone DEF RTSPInv, RTSP!NoGhosts, RTSP!Served
<1>7. RTSPHandlers' /\ RTSPEnded'
  BY <1>1, <1>2 DEF RTSPInv, RTSPHandlers, RTSPEnded, RTSP!Becomes, RTSP!Following
<1> QED
  BY <1>5, <1>6, <1>7 DEF RTSPInv

(* What a session takes back, when it is closed and when it is kicked:     *)
(* whoever it leaves behind is told.                                       *)
LEMMA OnCloseFacts ==
    ASSUME RTSPInv, NEW c \in sessions, RTSP!OnClose(c)
    PROVE  /\ c \in Clients["rtsp"] /\ c \notin kicked /\ lib[c] # "none"
           /\ dead' = (lib[c] = "play" /\ ~hook[c]) /\ UNCHANGED <<held, conf>>
           /\ hook' = [hook EXCEPT ![c] = FALSE] /\ hasPath' = [hasPath EXCEPT ![c] = FALSE]
           /\ publisher' = publisher \/ (publisher = c /\ publisher' = None)
           /\ readers' \subseteq readers
           /\ \A d \in readers : d # c => d \in readers' \/ d \in RTSP!LeftBy(c)
           /\ pc[c] = "idle" => c \notin readers' /\ (c = publisher => publisher' = None) /\ ~dead'
<1>1. c \in Clients["rtsp"] /\ c \notin kicked /\ lib[c] # "none"
  BY RTSPTypes DEF RTSPInv, RTSPHandlers
<1>2. pc[c] = "idle" => /\ c \in readers => lib[c] \in {"preplay", "play"}
                        /\ c = publisher => lib[c] = "record"
                        /\ lib[c] = "play" => hook[c]
  BY <1>1 DEF RTSPInv, RTSP!NoGhosts, RTSP!Becomes, RTSP!Following
<1>3. /\ dead' = (lib[c] = "play" /\ ~hook[c])
      /\ hook' = [hook EXCEPT ![c] = FALSE] /\ hasPath' = [hasPath EXCEPT ![c] = FALSE]
  BY DEF RTSP!OnClose
<1>4. c # None
  BY <1>1, RTSPNone
<1>5. CASE lib[c] \in {"preplay", "play"}
  <2>1. readers' = readers \ {c} /\ UNCHANGED <<held, publisher, conf>>
    BY <1>5 DEF RTSP!OnClose, RTSP!RemoveReader
  <2> QED
    BY <1>1, <1>2, <1>3, <1>5, <2>1
<1>6. CASE lib[c] = "record"
  <2>1. /\ publisher' = (IF publisher = c THEN None ELSE publisher)
        /\ readers' = readers \ RTSP!LeftBy(c)
        /\ UNCHANGED <<held, conf>>
    BY <1>6 DEF RTSP!OnClose, RTSP!RemovePublisher, RTSP!LeftBy
  <2> QED
    BY <1>1, <1>2, <1>3, <1>4, <1>6, <2>1
<1>7. CASE lib[c] \notin {"preplay", "play", "record"}
  <2>1. UNCHANGED <<readers, held, publisher, conf>>
    BY <1>7 DEF RTSP!OnClose, RTSP!sideVars
  <2> QED
    BY <1>1, <1>2, <1>3, <1>7, <2>1
<1> QED
  BY <1>5, <1>6, <1>7

(* A session is closed by the library.                                     *)
LEMMA SessionCloseKeeps ==
    ASSUME RTSPInv, NEW c \in Clients["rtsp"], RTSP!OnSessionClose(c)
    PROVE  RTSPInv'
<1>1. /\ pc[c] = "idle" /\ sessions' = sessions \ {c} /\ ~dead
      /\ lib[c] # "none" /\ lib' = [lib EXCEPT ![c] = "none"]
      /\ found' = [found EXCEPT ![c] = 0]
      /\ UNCHANGED <<srv, closing, conns, pc, kicked>>
  BY DEF RTSP!OnSessionClose, RTSP!Called, RTSP!serverVars
<1>2. /\ lib' \in [Clients["rtsp"] -> LibStates] /\ lib'[c] = "none"
      /\ \A d \in Clients["rtsp"] : d # c => lib'[d] = lib[d]
      /\ found' \in [Clients["rtsp"] -> 0..2]
  BY <1>1, RTSPTypes DEF RTSPInv, LibStates
<1>3. /\ \A d \in Clients["rtsp"] : d # c => RTSP!Becomes(d)' = RTSP!Becomes(d)
      /\ RTSP!Becomes(c)' = "none"
  BY <1>1, <1>2 DEF RTSP!Becomes, RTSP!Following
<1>4. CASE c \in sessions
  <2>1. RTSP!OnClose(c)
        /\ ctx' = [d \in Clients["rtsp"] |-> d # c /\ (ctx[d] \/ d \in RTSP!LeftBy(c))]
    BY <1>4 DEF RTSP!OnSessionClose
  <2>2. /\ c \notin kicked
        /\ ~dead' /\ UNCHANGED <<held, conf>>
        /\ hook' = [hook EXCEPT ![c] = FALSE] /\ hasPath' = [hasPath EXCEPT ![c] = FALSE]
        /\ publisher' = IF publisher = c THEN None ELSE publisher
        /\ readers' \subseteq readers \ {c}
        /\ \A d \in readers : d # c => d \in readers' \/ d \in RTSP!LeftBy(c)
    BY <1>1, <1>4, <2>1, OnCloseFacts
  <2>3. /\ ctx' \in [Clients["rtsp"] -> BOOLEAN]
        /\ \A d \in Clients["rtsp"] : d # c /\ ~ctx'[d] => ~ctx[d] /\ d \notin RTSP!LeftBy(c)
    BY <2>1, RTSPTypes DEF RTSPInv
  <2>4. /\ hook' \in [Clients["rtsp"] -> BOOLEAN] /\ hasPath' \in [Clients["rtsp"] -> BOOLEAN]
        /\ \A d \in Clients["rtsp"] : d # c => hook'[d] = hook[d] /\ hasPath'[d] = hasPath[d]
    BY <2>2, RTSPTypes DEF RTSPInv
  <2>5. RTSP!TypeOK'
    <3>1. dead' \in BOOLEAN
      BY <1>1, <2>1 DEF RTSP!OnClose
    <3> QED
      BY <1>1, <1>2, <2>2, <2>3, <2>4, <3>1, RTSPTypes DEF RTSPInv, RTSP!TypeOK,
         RTSP!SideTypeOK, LibStates
  <2>6. RTSP!NoGhosts'
    BY <1>1, <1>2, <1>3, <2>2, <2>3, <2>4, RTSPNone DEF RTSPInv, RTSP!NoGhosts, RTSP!Served
  <2>7. RTSPHandlers' /\ RTSPEnded'
    BY <1>1, <1>2, <1>3, <2>2, <2>4 DEF RTSPInv, RTSPHandlers, RTSPEnded
  <2> QED
    BY <2>5, <2>6, <2>7 DEF RTSPInv
<1>5. CASE c \notin sessions
  <2>1. /\ ctx' = [ctx EXCEPT ![c] = FALSE]
        /\ UNCHANGED <<dead, hook, hasPath, readers, held, publisher, conf>>
    BY <1>5 DEF RTSP!OnSessionClose, RTSP!sideVars
  <2>2. /\ ctx' \in [Clients["rtsp"] -> BOOLEAN]
        /\ \A d \in Clients["rtsp"] : d # c => ctx'[d] = ctx[d]
    BY <2>1, RTSPTypes DEF RTSPInv
  <2>3. c \in kicked
    BY <1>1, <1>5 DEF RTSPInv, RTSPHandlers
  <2>4. RTSP!TypeOK'
    BY <1>1, <1>2, <2>1, <2>2, RTSPTypes DEF RTSPInv, RTSP!TypeOK, RTSP!SideTypeOK, LibStates
  <2>5. RTSP!NoGhosts'
    BY <1>1, <1>2, <1>3, <2>1, <2>2, <2>3 DEF RTSPInv, RTSP!NoGhosts, RTSP!Served
  <2>6. RTSPHandlers' /\ RTSPEnded'
    BY <1>1, <1>2, <1>3, <2>1 DEF RTSPInv, RTSPHandlers, RTSPEnded
  <2> QED
    BY <2>4, <2>5, <2>6 DEF RTSPInv
<1> QED
  BY <1>4, <1>5

(* A session is kicked, whatever it is doing: what it does not take back,  *)
(* nobody counts on, and the others know.                                  *)
LEMMA SessionKickKeeps ==
    ASSUME RTSPInv, NEW c \in Clients["rtsp"], RTSP!APISessionsKick(c)
    PROVE  RTSPInv'
<1>1. /\ c \in sessions /\ sessions' = sessions \ {c} /\ kicked' = kicked \cup {c}
      /\ RTSP!OnClose(c) /\ RTSP!Told({c} \cup RTSP!LeftBy(c))
      /\ UNCHANGED <<srv, closing, conns, lib, pc, found>>
  BY DEF RTSP!APISessionsKick, RTSP!serverVars
<1>2. /\ UNCHANGED <<held, conf>>
      /\ hook' = [hook EXCEPT ![c] = FALSE] /\ hasPath' = [hasPath EXCEPT ![c] = FALSE]
      /\ publisher' = publisher \/ (publisher = c /\ publisher' = None)
      /\ readers' \subseteq readers
      /\ \A d \in readers : d # c => d \in readers' \/ d \in RTSP!LeftBy(c)
  BY <1>1, OnCloseFacts
<1>3. /\ ctx' \in [Clients["rtsp"] -> BOOLEAN]
      /\ \A d \in Clients["rtsp"] :
            ~ctx'[d] => ~ctx[d] /\ (d \in RTSP!LeftBy(c) => lib[d] = "none")
  BY <1>1, ToldFacts, RTSPTypes DEF RTSPInv
<1>4. /\ hook' \in [Clients["rtsp"] -> BOOLEAN] /\ hasPath' \in [Clients["rtsp"] -> BOOLEAN]
      /\ \A d \in Clients["rtsp"] : d # c => hook'[d] = hook[d] /\ hasPath'[d] = hasPath[d]
  BY <1>2, RTSPTypes DEF RTSPInv
<1>5. RTSP!TypeOK'
  <2>1. dead' \in BOOLEAN
    BY <1>1 DEF RTSP!OnClose
  <2> QED
    BY <1>1, <1>2, <1>3, <1>4, <2>1, RTSPTypes DEF RTSPInv, RTSP!TypeOK, RTSP!SideTypeOK
<1>6. \A d \in Clients["rtsp"] : RTSP!Becomes(d)' = RTSP!Becomes(d)
  BY <1>1 DEF RTSP!Becomes
<1>7. \A d \in Clients["rtsp"] : RTSP!Becomes(d) \in {"preplay", "play"} => lib[d] # "none"
  BY DEF RTSPInv, RTSPHandlers, RTSP!Becomes, RTSP!Following
<1>8. RTSP!NoGhosts'
  BY <1>1, <1>2, <1>3, <1>4, <1>6, <1>7, RTSPNone DEF RTSPInv, RTSP!NoGhosts, RTSP!Served
<1>9. RTSPHandlers' /\ RTSPEnded'
  BY <1>1, <1>2, <1>4, <1>6 DEF RTSPInv, RTSPHandlers, RTSPEnded
<1> QED
  BY <1>5, <1>8, <1>9 DEF RTSPInv

(* The path ends its stream on its own.                                    *)
LEMMA RTSPStreamEndsKeeps ==
    ASSUME RTSPInv, RTSP!PathEndsStream
    PROVE  RTSPInv'
<1>1. /\ readers' = {} /\ publisher' = None
      /\ RTSP!Told(readers \cup ({publisher} \ {None}))
      /\ UNCHANGED <<srv, closing, conns, sessions, lib, pc, hasPath, hook, found, kicked, dead,
                     held, conf>>
  BY DEF RTSP!PathEndsStream, RTSP!EndStream, RTSP!Served, RTSP!serverVars
<1>2. /\ ctx' \in [Clients["rtsp"] -> BOOLEAN]
      /\ \A d \in Clients["rtsp"] :
            ~ctx'[d] => ~ctx[d] /\ (d \in readers \/ (d = publisher /\ d # None) => lib[d] = "none")
  BY <1>1, ToldFacts, RTSPTypes DEF RTSPInv
<1>3. RTSP!TypeOK'
  BY <1>1, <1>2, RTSPTypes DEF RTSPInv, RTSP!TypeOK, RTSP!SideTypeOK
<1>4. RTSP!NoGhosts'
  <2>1. \A d \in Clients["rtsp"] :
           /\ RTSP!Becomes(d)' = RTSP!Becomes(d)
           /\ RTSP!Becomes(d) \in {"preplay", "play", "record"} => lib[d] # "none"
    BY <1>1 DEF RTSPInv, RTSPHandlers, RTSP!Becomes, RTSP!Following
  <2> QED
    BY <1>1, <1>2, <2>1, RTSPNone DEF RTSPInv, RTSP!NoGhosts, RTSP!Served
<1>5. RTSPHandlers' /\ RTSPEnded'
  BY <1>1 DEF RTSPInv, RTSPHandlers, RTSPEnded, RTSP!Becomes
<1> QED
  BY <1>3, <1>4, <1>5 DEF RTSPInv

(* No step breaks the invariant.                                           *)
LEMMA RTSPStepInv ==
    ASSUME RTSPInv, [RTSP!Next]_RTSP!vars
    PROVE  RTSPInv'
<1>1. ASSUME NEW c \in Clients["rtsp"], RTSP!Handler(c) \/ RTSP!Answered(c) \/ RTSP!WaitOnHold(c)
      PROVE  RTSPInv'
  BY <1>1, HandlerBeginsKeeps, AnnounceKeeps, SetupEndsKeeps, PlayKeeps, RecordEndsKeeps,
     PausePublisherKeeps, StateFollowsKeeps DEF RTSP!Handler, RTSP!Answered
<1> QED
  BY <1>1, RTSPServerKeeps, SessionOpenKeeps, SessionCloseKeeps, SessionKickKeeps,
     RTSPStreamEndsKeeps DEF RTSP!Next

(* Whoever becomes the publisher has the configuration of the path.        *)
LEMMA RTSPChecked ==
    ASSUME [RTSP!Next]_RTSP!vars, NEW c \in Clients["rtsp"], publisher' = c, publisher # c
    PROVE  found[c] = conf
<1>1. ASSUME NEW d \in Clients["rtsp"],
             RTSP!OnSessionClose(d) \/ RTSP!APISessionsKick(d) \/ RTSP!PausePublisher(d)
      PROVE  publisher' \in {publisher, None}
  BY <1>1 DEF RTSP!OnSessionClose, RTSP!APISessionsKick, RTSP!PausePublisher, RTSP!OnClose,
     RTSP!RemoveReader, RTSP!RemovePublisher, RTSP!sideVars
<1>2. ASSUME NEW d \in Clients["rtsp"], RTSP!SetupEnds(d) \/ RTSP!WaitOnHold(d)
      PROVE  publisher' = publisher
  BY <1>2 DEF RTSP!SetupEnds, RTSP!WaitOnHold, RTSP!AdmitReader, RTSP!RefuseReader,
     RTSP!HoldReader
<1>3. ASSUME NEW d \in Clients["rtsp"],
             \/ RTSP!OnConnOpen(d) \/ RTSP!OnConnClose(d) \/ RTSP!OnSessionOpen(d)
             \/ RTSP!Described(d) \/ RTSP!StateFollows(d)
             \/ (RTSP!Handler(d) /\ ~RTSP!PausePublisher(d))
      PROVE  publisher' = publisher
  BY <1>3 DEF RTSP!OnConnOpen, RTSP!OnConnClose, RTSP!OnSessionOpen, RTSP!Described,
     RTSP!StateFollows, RTSP!Handler, RTSP!OnDescribe, RTSP!OnAnnounce, RTSP!OnSetup,
     RTSP!OnPlay, RTSP!OnRecord, RTSP!PauseReader, RTSP!sideVars
<1>4. ASSUME \/ RTSP!PathEndsStream \/ RTSP!Reload \/ RTSP!Close \/ RTSP!Shutdown
             \/ RTSP!WaitReturns \/ RTSP!CloseReturns \/ UNCHANGED RTSP!vars
      PROVE  publisher' \in {publisher, None}
  BY <1>4 DEF RTSP!PathEndsStream, RTSP!EndStream, RTSP!Reload, RTSP!ChangeConf, RTSP!Close,
     RTSP!Shutdown, RTSP!WaitReturns, RTSP!CloseReturns, RTSP!vars, RTSP!sideVars
<1>5. PICK d \in Clients["rtsp"] : RTSP!RecordEnds(d)
  BY <1>1, <1>2, <1>3, <1>4, RTSPNone DEF RTSP!Next, RTSP!Handler, RTSP!Answered
<1> QED
  BY <1>5 DEF RTSP!RecordEnds, RTSP!AdmitPublisher, RTSP!sideVars

(* What the invariant says of the server.                                  *)
LEMMA RTSPFacts ==
    ASSUME RTSPInv
    PROVE  RTSP!TypeOK /\ RTSP!NoGhosts /\ RTSP!ListIsTrue /\ RTSP!ClosedIsEmpty
<1>1. RTSP!TypeOK /\ RTSP!NoGhosts /\ RTSPHandlers /\ RTSPEnded
  BY DEF RTSPInv
<1>2. RTSP!ListIsTrue
  <2>1. /\ sessions \subseteq Clients["rtsp"] /\ pc \in [Clients["rtsp"] -> RTSPPlaces]
        /\ RTSP!APISessionsList = [c \in sessions |-> RTSP!apiItem(c)]
    BY <1>1, RTSPTypes DEF RTSP!APISessionsList
  <2>2. DOMAIN RTSP!APISessionsList = sessions
        /\ \A c \in sessions : RTSP!APISessionsList[c] = RTSP!apiItem(c)
    BY <2>1
  <2>3. ASSUME NEW c \in sessions
        PROVE  /\ RTSP!apiItem(c) = "publish" => c = publisher \/ ctx[c] \/ pc[c] = "prerecord"
               /\ RTSP!apiItem(c) = "read" => c \in readers \/ ctx[c]
               /\ c = publisher /\ pc[c] # "record" => RTSP!apiItem(c) = "publish"
               /\ c \in readers => RTSP!apiItem(c) # "publish"
    <3>1. /\ RTSP!apiItem(c) = "publish" <=> lib[c] = "record"
          /\ RTSP!apiItem(c) = "read" <=> lib[c] = "play"
      BY DEF RTSP!apiItem
    <3>2. c \in Clients["rtsp"] \ kicked /\ pc[c] \in RTSPPlaces
      BY <1>1, <2>1 DEF RTSPHandlers
    <3>3. /\ lib[c] = "record" => pc[c] \in {"idle", "prerecord"}
          /\ lib[c] = "play" => pc[c] \in {"idle", "preplay"}
          /\ pc[c] = "preplay" => lib[c] # "record"
          /\ pc[c] = "play" => lib[c] # "record"
      BY <1>1, <3>2 DEF RTSPHandlers, RTSPPlaces
    <3> QED
      BY <1>1, <3>1, <3>2, <3>3 DEF RTSP!NoGhosts, RTSP!Becomes, RTSP!Following
  <2>4. \A c \in Clients["rtsp"] : c \in sessions <=> lib[c] # "none" /\ c \notin kicked
    BY <1>1 DEF RTSPHandlers
  <2> QED
    BY <2>2, <2>3, <2>4 DEF RTSP!ListIsTrue
<1>3. RTSP!ClosedIsEmpty
  <2>1. /\ sessions \subseteq Clients["rtsp"] /\ readers \subseteq Clients["rtsp"]
        /\ held \subseteq Clients["rtsp"] /\ publisher \in Clients["rtsp"] \cup {None}
    BY <1>1, RTSPTypes
  <2> QED
    BY <1>1, <2>1 DEF RTSP!ClosedIsEmpty, RTSP!NoGhosts, RTSPHandlers, RTSPEnded, RTSP!Served
<1> QED
  BY <1>1, <1>2, <1>3

-----------------------------------------------------------------------------
(* The HLS server.                                                         *)

HLSPlaces == {"none", "asking", "held", "admitted", "remuxing", "recreating", "leaving", "over"}

(* The one muxer that was not told to end is the one in the map, and one   *)
(* that nobody asked for is not there longer than the path is ready.       *)
HLSListed ==
    /\ entry # None => pc[entry] # "none" \/ srv \in {"cancelled", "ended", "closed"}
    /\ \A m \in Clients["hls"] : pc[m] # "none" /\ ~ctx[m] => m = entry
    /\ entry \in auto /\ srv = "open" => online \/ event # "none" \/ ctx[entry]

(* There is nothing before the server starts and nothing after its end;    *)
(* the path manager tells what is so; a muxer that is over was told to     *)
(* end.                                                                    *)
HLSOrder ==
    /\ srv = "starting" => entry = None /\ event = "none"
    /\ srv \in {"starting", "closed"} => \A m \in Clients["hls"] : pc[m] = "none"
    /\ event = "ready" => online
    /\ event = "notReady" => ~online
    /\ \A m \in Clients["hls"] : pc[m] = "over" => ctx[m]

(* With alwaysRemux a path that is ready has its muxer, and it runs.       *)
HLSRemuxed ==
    srv = "open" /\ always /\ online /\ conf = 1 /\ event = "none" /\ ~bare
       => entry \in auto /\ ~ctx[entry] /\ pc[entry] # "none"

HLSInv ==
    /\ HLS!TypeOK
    /\ publisher = None
    /\ HLS!NoGhosts
    /\ HLSListed
    /\ HLSOrder
    /\ HLSRemuxed

(* The types, one by one.                                                  *)
LEMMA HLSTypes ==
    ASSUME HLS!TypeOK
    PROVE  /\ srv \in {"starting", "open", "cancelled", "ended", "closed"}
           /\ closing \in BOOLEAN /\ always \in BOOLEAN /\ online \in BOOLEAN /\ bare \in BOOLEAN
           /\ event \in {"none", "ready", "notReady"}
           /\ entry \in Clients["hls"] \cup {None}
           /\ pc \in [Clients["hls"] -> HLSPlaces]
           /\ ctx \in [Clients["hls"] -> BOOLEAN]
           /\ auto \subseteq Clients["hls"] /\ used \subseteq Clients["hls"]
           /\ req \in [Requests -> {"none", "asking", "askingOnDemand", "waiting"}]
           /\ target \in [Requests -> Clients["hls"] \cup {None}]
           /\ readers \subseteq Clients["hls"] /\ held \subseteq Clients["hls"]
           /\ conf \in {1, 2}
  BY DEF HLS!TypeOK, HLS!SideTypeOK, HLSPlaces

(* No muxer is None.                                                       *)
LEMMA HLSNone == None \notin Clients["hls"]
  BY NoneAssumption DEF Everybody, Kinds

(* There is nothing in the beginning.                                      *)
LEMMA HLSInitInv ==
    ASSUME HLS!Init
    PROVE  HLSInv
<1>1. HLS!TypeOK
  BY DEF HLS!Init, HLS!TypeOK, HLS!SideTypeOK
<1>2. HLS!NoGhosts /\ HLSListed /\ HLSOrder /\ HLSRemuxed /\ publisher = None
  BY DEF HLS!Init, HLS!NoGhosts, HLSListed, HLSOrder, HLSRemuxed
<1> QED
  BY <1>1, <1>2 DEF HLSInv

(* What a muxer does where it stands: it goes on, or is over and told to   *)
(* end; the path may admit, hold, refuse or forget it.                     *)
HLSMoves(m) ==
    /\ UNCHANGED <<srv, closing, always, online, event, entry, auto, req, target, publisher, conf>>
    /\ used' \subseteq Clients["hls"]
    /\ pc[m] # "none"
    /\ \E there \in HLSPlaces \ {"none"} :
          /\ pc' = [pc EXCEPT ![m] = there]
          /\ ctx' \in [Clients["hls"] -> BOOLEAN]
          /\ \A d \in Clients["hls"] : ctx[d] => ctx'[d]
          /\ \A d \in Clients["hls"] : d # m => ctx'[d] = ctx[d]
          /\ there = "over" => ctx'[m]
          /\ ctx'[m] => ctx[m] \/ there = "over"
          /\ bare' \in BOOLEAN
          /\ bare => bare'
          /\ m \in auto /\ there = "over" /\ ~ctx[m] => bare'
          /\ readers' \in {readers, readers \cup {m}, readers \ {m}}
          /\ held' \in {held, held \cup {m}, held \ {m}}
          /\ m \in held' <=> there = "held"
          /\ m \in readers' => there \in {"admitted", "remuxing", "recreating", "leaving"}
          /\ there \in {"admitted", "remuxing", "recreating"} /\ ~ctx'[m] => m \in readers'

(* Such a step breaks nothing.                                             *)
LEMMA HLSMovesKeep ==
    ASSUME HLSInv, NEW m \in Clients["hls"], HLSMoves(m)
    PROVE  HLSInv'
<1>1. HLS!TypeOK /\ HLS!NoGhosts /\ HLSListed /\ HLSOrder /\ HLSRemuxed /\ publisher = None
  BY DEF HLSInv
<1>2. PICK there \in HLSPlaces \ {"none"} :
         /\ pc' = [pc EXCEPT ![m] = there]
         /\ ctx' \in [Clients["hls"] -> BOOLEAN]
         /\ \A d \in Clients["hls"] : ctx[d] => ctx'[d]
         /\ \A d \in Clients["hls"] : d # m => ctx'[d] = ctx[d]
         /\ there = "over" => ctx'[m]
         /\ ctx'[m] => ctx[m] \/ there = "over"
         /\ bare' \in BOOLEAN
         /\ bare => bare'
         /\ m \in auto /\ there = "over" /\ ~ctx[m] => bare'
         /\ readers' \in {readers, readers \cup {m}, readers \ {m}}
         /\ held' \in {held, held \cup {m}, held \ {m}}
         /\ m \in held' <=> there = "held"
         /\ m \in readers' => there \in {"admitted", "remuxing", "recreating", "leaving"}
         /\ there \in {"admitted", "remuxing", "recreating"} /\ ~ctx'[m] => m \in readers'
  BY Zenon DEF HLSMoves
<1>3. /\ UNCHANGED <<srv, closing, always, online, event, entry, auto, req, target, publisher,
                     conf>>
      /\ used' \subseteq Clients["hls"] /\ pc[m] # "none"
  BY DEF HLSMoves
<1>4. pc' \in [Clients["hls"] -> HLSPlaces] /\ pc'[m] = there
      /\ \A d \in Clients["hls"] : d # m => pc'[d] = pc[d]
  BY <1>1, <1>2, HLSTypes
<1>5. HLS!TypeOK'
  <2>1. readers' \subseteq Clients["hls"] /\ held' \subseteq Clients["hls"]
    BY <1>1, <1>2, HLSTypes
  <2>2. {closing, always, online, bare}' \subseteq BOOLEAN
    BY <1>1, <1>2, <1>3, HLSTypes
  <2>3. HLS!SideTypeOK'
    BY <1>1, <1>3, <2>1 DEF HLS!TypeOK, HLS!SideTypeOK
  <2> QED
    BY <1>1, <1>2, <1>3, <1>4, <2>2, <2>3 DEF HLS!TypeOK, HLSPlaces
<1>6. HLS!NoGhosts'
  <2>1. ASSUME NEW d \in Clients["hls"], d # m
        PROVE  /\ d \in readers' <=> d \in readers
               /\ d \in held' <=> d \in held
    BY <1>2, <2>1
  <2>2. ASSUME NEW d \in Clients["hls"]
        PROVE  /\ d \in readers' => pc'[d] \in {"admitted", "remuxing", "recreating", "leaving"}
               /\ d \in held' <=> pc'[d] = "held"
               /\ pc'[d] \in {"admitted", "remuxing", "recreating"} /\ ~ctx'[d] => d \in readers'
    <3>1. CASE d = m
      BY <1>2, <1>4, <3>1
    <3>2. CASE d # m
      BY <1>1, <1>2, <1>4, <2>1, <3>2 DEF HLS!NoGhosts
    <3> QED
      BY <3>1, <3>2
  <2> QED
    BY <2>2 DEF HLS!NoGhosts
<1>7. \A d \in Clients["hls"] : pc'[d] = "none" <=> pc[d] = "none"
  BY <1>2, <1>3, <1>4
<1>8. HLSListed'
  BY <1>1, <1>2, <1>3, <1>7, HLSTypes DEF HLSListed
<1>9. HLSOrder'
  BY <1>1, <1>2, <1>3, <1>4, <1>7, HLSTypes DEF HLSOrder
<1>10. HLSRemuxed'
  <2>1. ASSUME srv' = "open", always', online', conf' = 1, event' = "none", ~bare'
        PROVE  entry' \in auto' /\ ~ctx'[entry'] /\ pc'[entry'] # "none"
    <3>1. entry \in auto /\ ~ctx[entry] /\ pc[entry] # "none" /\ entry \in Clients["hls"]
      BY <1>1, <1>2, <1>3, <2>1, HLSTypes DEF HLSRemuxed
    <3>2. ~ctx'[entry]
      BY <1>2, <2>1, <3>1
    <3> QED
      BY <1>3, <1>7, <3>1, <3>2
  <2> QED
    BY <2>1 DEF HLSRemuxed
<1> QED
  BY <1>1, <1>3, <1>5, <1>6, <1>8, <1>9, <1>10 DEF HLSInv

(* It is what muxers do until they are taken out of the map.               *)
LEMMA HLSMuxerMoves ==
    ASSUME HLSInv, NEW m \in Clients["hls"],
           \/ HLS!AddReader(m) \/ HLS!WaitOnHold(m) \/ HLS!StartInstance(m)
           \/ HLS!InstanceFails(m) \/ HLS!Recreate(m) \/ HLS!CheckActivity(m)
           \/ HLS!Terminated(m) \/ HLS!LeavePath(m)
    PROVE  HLSMoves(m)
<1>1. HLS!TypeOK /\ HLS!NoGhosts /\ HLSOrder
  BY DEF HLSInv
<1>2. /\ m \in readers => pc[m] \in {"admitted", "remuxing", "recreating", "leaving"}
      /\ m \in held <=> pc[m] = "held"
      /\ pc[m] \in {"admitted", "remuxing", "recreating"} /\ ~ctx[m] => m \in readers
  BY <1>1 DEF HLS!NoGhosts
<1>3. ASSUME NEW from \in HLSPlaces \ {"none"}, NEW there \in HLSPlaces \ {"none"},
             HLS!Step(m, from, there)
      PROVE  /\ UNCHANGED <<srv, closing, always, online, event, entry, auto, req, target>>
             /\ used' \subseteq Clients["hls"]
             /\ pc[m] = from /\ pc[m] # "none" /\ pc' = [pc EXCEPT ![m] = there]
             /\ bare' \in BOOLEAN
             /\ bare => bare'
             /\ m \in auto /\ there = "over" /\ ~ctx[m] => bare'
  BY <1>1, <1>3, HLSTypes DEF HLS!Step, HLS!Goto, HLS!httpVars
<1>4. ASSUME ctx' = ctx
      PROVE  /\ ctx' \in [Clients["hls"] -> BOOLEAN]
             /\ \A d \in Clients["hls"] : ctx[d] => ctx'[d]
             /\ \A d \in Clients["hls"] : d # m => ctx'[d] = ctx[d]
             /\ ctx'[m] => ctx[m]
  BY <1>1, <1>4, HLSTypes
<1>5. ASSUME HLS!Cancel({m}), pc[m] # "none"
      PROVE  /\ ctx' \in [Clients["hls"] -> BOOLEAN]
             /\ \A d \in Clients["hls"] : ctx[d] => ctx'[d]
             /\ \A d \in Clients["hls"] : d # m => ctx'[d] = ctx[d]
             /\ ctx'[m]
  BY <1>1, <1>5, HLSTypes DEF HLS!Cancel
<1>6. ASSUME NEW from \in {"asking", "held"}, HLS!Step(m, from, "admitted"),
             HLS!AdmitReader(m), ctx' = ctx
      PROVE  HLSMoves(m)
  <2>1. /\ "admitted" \in HLSPlaces \ {"none"} /\ from \in HLSPlaces \ {"none"}
        /\ readers' = readers \cup {m} /\ held' = held \ {m} /\ UNCHANGED <<publisher, conf>>
    BY <1>6 DEF HLSPlaces, HLS!AdmitReader
  <2> QED
    BY <1>3, <1>4, <1>6, <2>1 DEF HLSMoves
<1>7. ASSUME NEW from \in {"asking", "held"}, HLS!Step(m, from, "over"),
             HLS!RefuseReader(m), HLS!Cancel({m})
      PROVE  HLSMoves(m)
  <2>1. /\ "over" \in HLSPlaces \ {"none"} /\ from \in HLSPlaces \ {"none"}
        /\ readers' = readers /\ held' = held \ {m} /\ UNCHANGED <<publisher, conf>>
    BY <1>7 DEF HLSPlaces, HLS!RefuseReader
  <2>2. m \notin readers
    BY <1>2, <1>3, <1>7, <2>1
  <2> QED
    BY <1>3, <1>5, <1>7, <2>1, <2>2 DEF HLSMoves
<1>8. CASE HLS!AddReader(m)
  BY <1>6, <1>7, <1>8 DEF HLS!AddReader
<1>9. CASE HLS!WaitOnHold(m)
  <2>1. /\ "held" \in HLSPlaces \ {"none"} /\ "asking" \in HLSPlaces \ {"none"}
        /\ HLS!Step(m, "asking", "held") /\ ctx' = ctx
        /\ readers' = readers /\ held' = held \cup {m} /\ UNCHANGED <<publisher, conf>>
    BY <1>9 DEF HLSPlaces, HLS!WaitOnHold, HLS!HoldReader
  <2>2. m \notin readers
    BY <1>2, <1>3, <2>1
  <2> QED
    BY <1>3, <1>4, <2>1, <2>2 DEF HLSMoves
<1>10. ASSUME NEW from \in {"admitted", "remuxing", "recreating"},
              NEW there \in {"remuxing", "recreating", "leaving"},
              HLS!Step(m, from, there), UNCHANGED <<ctx, HLS!sideVars>>
       PROVE  HLSMoves(m)
  <2>1. /\ from \in HLSPlaces \ {"none"} /\ there \in HLSPlaces \ {"none"} /\ there # "over"
        /\ ctx' = ctx /\ UNCHANGED <<readers, held, publisher, conf>>
    BY <1>10 DEF HLSPlaces, HLS!sideVars
  <2>2. m \notin held /\ (~ctx[m] => m \in readers)
    BY <1>2, <1>3, <1>10, <2>1
  <2> QED
    BY <1>3, <1>4, <1>10, <2>1, <2>2 DEF HLSMoves
<1>11. CASE HLS!StartInstance(m) \/ HLS!InstanceFails(m) \/ HLS!Recreate(m) \/ HLS!Terminated(m)
  BY <1>10, <1>11 DEF HLS!StartInstance, HLS!InstanceFails, HLS!Recreate, HLS!Terminated
<1>12. CASE HLS!CheckActivity(m)
  <2>1. /\ UNCHANGED <<srv, closing, always, online, event, entry, auto, req, target, bare, ctx>>
        /\ UNCHANGED <<readers, held, publisher, conf>>
        /\ used' \subseteq Clients["hls"] /\ pc[m] = "remuxing" /\ m \notin auto
    BY <1>1, <1>12, HLSTypes DEF HLS!CheckActivity, HLS!serverVars, HLS!httpVars, HLS!sideVars
  <2>2. PICK there \in {"remuxing", "leaving"} : pc' = [pc EXCEPT ![m] = there]
    BY <1>12 DEF HLS!CheckActivity, HLS!Goto
  <2>3. there \in HLSPlaces \ {"none"} /\ there # "over" /\ bare' \in BOOLEAN
    BY <1>1, <2>1, HLSTypes DEF HLSPlaces
  <2> QED
    BY <1>2, <1>4, <2>1, <2>2, <2>3 DEF HLSMoves
<1>13. CASE HLS!LeavePath(m)
  <2>1. /\ "over" \in HLSPlaces \ {"none"} /\ "leaving" \in HLSPlaces \ {"none"}
        /\ HLS!Step(m, "leaving", "over") /\ HLS!Cancel({m})
        /\ readers' = readers \ {m} /\ held' = held /\ UNCHANGED <<publisher, conf>>
    BY <1>13 DEF HLSPlaces, HLS!LeavePath, HLS!RemoveReader
  <2> QED
    BY <1>2, <1>3, <1>5, <2>1 DEF HLSMoves
<1> QED
  BY <1>8, <1>9, <1>11, <1>12, <1>13

(* A muxer that is made: it takes the place of one that there is not.      *)
LEMMA HLSCreates ==
    ASSUME HLSInv, NEW m \in Clients["hls"], NEW automatic \in BOOLEAN, entry = None,
           srv \in {"starting", "open", "cancelled"}, HLS!CreateMuxer(m, automatic),
           UNCHANGED HLS!sideVars
    PROVE  /\ entry' = m /\ pc[m] = "none" /\ pc'[m] = "asking" /\ ctx'[m] = (srv = "cancelled")
           /\ m \in auto' <=> automatic
           /\ pc' \in [Clients["hls"] -> HLSPlaces] /\ ctx' \in [Clients["hls"] -> BOOLEAN]
           /\ auto' \subseteq Clients["hls"] /\ used' \subseteq Clients["hls"]
           /\ HLS!NoGhosts'
           /\ \A d \in Clients["hls"] : pc'[d] # "none" /\ ~ctx'[d] => d = m
           /\ \A d \in Clients["hls"] : pc'[d] = "over" => ctx'[d]
<1>1. HLS!TypeOK /\ HLS!NoGhosts /\ HLSListed /\ HLSOrder
  BY DEF HLSInv
<1>2. /\ entry' = m /\ pc[m] = "none" /\ pc' = [pc EXCEPT ![m] = "asking"]
      /\ ctx' = [ctx EXCEPT ![m] = (srv = "cancelled")]
      /\ auto' = IF automatic THEN auto \cup {m} ELSE auto \ {m}
      /\ used' \in {used, used \cup {m}}
      /\ readers' = readers /\ held' = held
  BY DEF HLS!CreateMuxer, HLS!Goto, HLS!sideVars
<1>3. /\ pc' \in [Clients["hls"] -> HLSPlaces] /\ pc'[m] = "asking"
      /\ \A d \in Clients["hls"] : d # m => pc'[d] = pc[d]
  BY <1>1, <1>2, HLSTypes DEF HLSPlaces
<1>4. /\ ctx' \in [Clients["hls"] -> BOOLEAN] /\ ctx'[m] = (srv = "cancelled")
      /\ \A d \in Clients["hls"] : d # m => ctx'[d] = ctx[d]
  BY <1>1, <1>2, HLSTypes
<1>5. /\ auto' \subseteq Clients["hls"] /\ used' \subseteq Clients["hls"]
      /\ m \in auto' <=> automatic
  BY <1>1, <1>2, HLSTypes
<1>6. HLS!NoGhosts'
  BY <1>1, <1>2, <1>3, <1>4 DEF HLS!NoGhosts
<1>7. \A d \in Clients["hls"] : pc'[d] # "none" /\ ~ctx'[d] => d = m
  BY <1>1, <1>3, <1>4, HLSNone DEF HLSListed
<1>8. \A d \in Clients["hls"] : pc'[d] = "over" => ctx'[d]
  BY <1>1, <1>3, <1>4 DEF HLSOrder
<1> QED
  BY <1>2, <1>3, <1>4, <1>5, <1>6, <1>7, <1>8

(* When no muxer is made, the muxers are as they were.                     *)
LEMMA HLSMuxersSame ==
    ASSUME HLSInv, UNCHANGED <<entry, HLS!muxerVars, HLS!sideVars>>
    PROVE  /\ pc' \in [Clients["hls"] -> HLSPlaces] /\ ctx' \in [Clients["hls"] -> BOOLEAN]
           /\ auto' \subseteq Clients["hls"] /\ used' \subseteq Clients["hls"]
           /\ entry' \in Clients["hls"] \cup {None}
           /\ HLS!NoGhosts'
           /\ \A d \in Clients["hls"] : pc'[d] # "none" /\ ~ctx'[d] => d = entry'
           /\ \A d \in Clients["hls"] : pc'[d] = "over" => ctx'[d]
           /\ UNCHANGED <<pc, ctx, auto, used, entry, readers, held, publisher, conf>>
<1>1. HLS!TypeOK /\ HLS!NoGhosts /\ HLSListed /\ HLSOrder
  BY DEF HLSInv
<1>2. UNCHANGED <<pc, ctx, auto, used, entry, readers, held, publisher, conf>>
  BY DEF HLS!muxerVars, HLS!sideVars
<1> QED
  BY <1>1, <1>2, HLSTypes DEF HLS!NoGhosts, HLSListed, HLSOrder

(* The server starts, with a muxer for a path that is ready.               *)
LEMMA HLSStartKeeps ==
    ASSUME HLSInv, NEW m \in Clients["hls"], HLS!Start(m)
    PROVE  HLSInv'
<1>1. HLS!TypeOK /\ HLSOrder /\ publisher = None
  BY DEF HLSInv
<1>2. /\ srv = "starting" /\ srv' = "open" /\ entry = None /\ event = "none"
      /\ UNCHANGED <<closing, always, online, event, bare, req, target, publisher, conf>>
      /\ UNCHANGED HLS!sideVars
  BY <1>1 DEF HLS!Start, HLSOrder, HLS!httpVars, HLS!sideVars
<1>3. CASE online /\ always /\ conf = 1
  <2>1. HLS!CreateMuxer(m, TRUE)
    <3>1. ~HLS!OnDemand
      BY <1>3 DEF HLS!OnDemand
    <3> QED
      BY Zenon, <1>2, <1>3, <3>1 DEF HLS!Start, HLS!Remuxed
  <2>2. /\ entry' = m /\ pc'[m] = "asking" /\ ctx'[m] = (srv = "cancelled") /\ m \in auto'
        /\ pc' \in [Clients["hls"] -> HLSPlaces] /\ ctx' \in [Clients["hls"] -> BOOLEAN]
        /\ auto' \subseteq Clients["hls"] /\ used' \subseteq Clients["hls"]
        /\ HLS!NoGhosts'
        /\ \A d \in Clients["hls"] : pc'[d] # "none" /\ ~ctx'[d] => d = m
        /\ \A d \in Clients["hls"] : pc'[d] = "over" => ctx'[d]
    BY <1>2, <2>1, HLSCreates
  <2>3. HLS!TypeOK'
    BY <1>1, <1>2, <2>2 DEF HLS!TypeOK, HLSPlaces, HLS!SideTypeOK, HLS!sideVars
  <2>4. HLSListed' /\ HLSOrder' /\ HLSRemuxed'
    BY <1>1, <1>2, <1>3, <2>2 DEF HLSListed, HLSOrder, HLSRemuxed
  <2> QED
    BY <1>1, <1>2, <2>2, <2>3, <2>4 DEF HLSInv
<1>4. CASE ~(online /\ always /\ conf = 1)
  <2>1. UNCHANGED <<entry, HLS!muxerVars>>
    BY <1>1, <1>2, <1>4, HLSTypes DEF HLS!Start, HLS!Remuxed, HLS!OnDemand
  <2>2. /\ pc' \in [Clients["hls"] -> HLSPlaces] /\ ctx' \in [Clients["hls"] -> BOOLEAN]
        /\ auto' \subseteq Clients["hls"] /\ used' \subseteq Clients["hls"]
        /\ HLS!NoGhosts'
        /\ \A d \in Clients["hls"] : pc'[d] # "none" /\ ~ctx'[d] => d = entry'
        /\ \A d \in Clients["hls"] : pc'[d] = "over" => ctx'[d]
        /\ UNCHANGED <<entry, auto, pc, ctx>>
    BY <1>2, <2>1, HLSMuxersSame
  <2>3. HLS!TypeOK'
    BY <1>1, <1>2, <2>2 DEF HLS!TypeOK, HLSPlaces, HLS!SideTypeOK, HLS!sideVars
  <2>4. HLSListed'
    BY <1>1, <1>2, <2>2, HLSTypes, HLSNone DEF HLSListed
  <2>5. HLSOrder' /\ HLSRemuxed'
    BY <1>1, <1>2, <1>4, <2>2 DEF HLSOrder, HLSRemuxed
  <2> QED
    BY <1>1, <1>2, <2>2, <2>3, <2>4, <2>5 DEF HLSInv
<1> QED
  BY <1>3, <1>4

(* The server is told that the path is ready.                              *)
LEMMA HLSPathReadyKeeps ==
    ASSUME HLSInv, NEW m \in Clients["hls"], HLS!TakePathReady(m)
    PROVE  HLSInv'
<1>1. HLS!TypeOK /\ HLSListed /\ HLSOrder /\ publisher = None
  BY DEF HLSInv
<1>2. /\ srv \in {"open", "cancelled"} /\ event = "ready" /\ online /\ event' = "none"
      /\ UNCHANGED <<srv, closing, always, online, req, target, publisher, conf>>
      /\ UNCHANGED HLS!sideVars
  BY <1>1 DEF HLS!TakePathReady, HLS!LoopRuns, HLSOrder, HLS!httpVars, HLS!sideVars
<1>3. bare' = (always /\ ~(conf = 2) /\ entry # None)
  BY DEF HLS!TakePathReady, HLS!OnDemand
<1>4. CASE always /\ conf = 1 /\ entry = None
  <2>1. HLS!CreateMuxer(m, TRUE)
    <3>1. ~HLS!OnDemand
      BY <1>4 DEF HLS!OnDemand
    <3> QED
      BY Zenon, <1>2, <1>4, <3>1 DEF HLS!TakePathReady, HLS!Remuxed
  <2>2. /\ entry' = m /\ pc'[m] = "asking" /\ ctx'[m] = (srv = "cancelled") /\ m \in auto'
        /\ pc' \in [Clients["hls"] -> HLSPlaces] /\ ctx' \in [Clients["hls"] -> BOOLEAN]
        /\ auto' \subseteq Clients["hls"] /\ used' \subseteq Clients["hls"]
        /\ HLS!NoGhosts'
        /\ \A d \in Clients["hls"] : pc'[d] # "none" /\ ~ctx'[d] => d = m
        /\ \A d \in Clients["hls"] : pc'[d] = "over" => ctx'[d]
    BY <1>2, <1>4, <2>1, HLSCreates
  <2>3. HLS!TypeOK'
    BY <1>1, <1>2, <1>3, <2>2 DEF HLS!TypeOK, HLSPlaces, HLS!SideTypeOK, HLS!sideVars
  <2>4. HLSListed' /\ HLSOrder' /\ HLSRemuxed'
    BY <1>1, <1>2, <1>4, <2>2 DEF HLSListed, HLSOrder, HLSRemuxed
  <2> QED
    BY <1>1, <1>2, <2>2, <2>3, <2>4 DEF HLSInv
<1>5. CASE ~(always /\ conf = 1 /\ entry = None)
  <2>1. UNCHANGED <<entry, HLS!muxerVars>>
    BY <1>1, <1>2, <1>5, HLSTypes DEF HLS!TakePathReady, HLS!Remuxed, HLS!OnDemand
  <2>2. /\ pc' \in [Clients["hls"] -> HLSPlaces] /\ ctx' \in [Clients["hls"] -> BOOLEAN]
        /\ auto' \subseteq Clients["hls"] /\ used' \subseteq Clients["hls"]
        /\ HLS!NoGhosts'
        /\ \A d \in Clients["hls"] : pc'[d] # "none" /\ ~ctx'[d] => d = entry'
        /\ \A d \in Clients["hls"] : pc'[d] = "over" => ctx'[d]
        /\ UNCHANGED <<entry, auto, pc, ctx>>
    BY <1>2, <2>1, HLSMuxersSame
  <2>3. HLS!TypeOK'
    BY <1>1, <1>2, <1>3, <2>2 DEF HLS!TypeOK, HLSPlaces, HLS!SideTypeOK, HLS!sideVars
  <2>4. HLSListed' /\ HLSOrder'
    BY <1>1, <1>2, <2>2 DEF HLSListed, HLSOrder
  <2>5. HLSRemuxed'
    <3>1. always /\ conf = 1 => bare'
      <4>1. conf = 1 => conf # 2
        OBVIOUS
      <4> QED
        BY Zenon, <1>3, <1>5, <4>1
    <3>2. always' = always /\ conf' = conf
      BY <1>2
    <3> QED
      BY <3>1, <3>2 DEF HLSRemuxed
  <2> QED
    BY <1>1, <1>2, <2>2, <2>3, <2>4, <2>5 DEF HLSInv
<1> QED
  BY <1>1, <1>4, <1>5, HLSTypes

(* A request is given the muxer there is, an error, or a new muxer.        *)
LEMMA HLSGetMuxerKeeps ==
    ASSUME HLSInv, NEW r \in Requests, NEW m \in Clients["hls"], HLS!GetMuxer(r, m)
    PROVE  HLSInv'
<1>1. HLS!TypeOK /\ HLSListed /\ HLSOrder /\ HLSRemuxed /\ publisher = None
  BY DEF HLSInv
<1>2. /\ srv \in {"open", "cancelled"}
      /\ UNCHANGED <<srv, closing, always, online, event, bare, publisher, conf>>
      /\ UNCHANGED HLS!sideVars
  BY DEF HLS!GetMuxer, HLS!LoopRuns, HLS!sideVars
<1>3. /\ req' \in [Requests -> {"none", "asking", "askingOnDemand", "waiting"}]
      /\ target' \in [Requests -> Clients["hls"] \cup {None}]
  BY <1>1, HLSTypes DEF HLS!GetMuxer, HLS!muxerVars
<1>4. CASE entry = None /\ HLS!CreateMuxer(m, FALSE)
  <2>1. /\ entry' = m /\ pc'[m] = "asking" /\ m \notin auto'
        /\ pc' \in [Clients["hls"] -> HLSPlaces] /\ ctx' \in [Clients["hls"] -> BOOLEAN]
        /\ auto' \subseteq Clients["hls"] /\ used' \subseteq Clients["hls"]
        /\ HLS!NoGhosts'
        /\ \A d \in Clients["hls"] : pc'[d] # "none" /\ ~ctx'[d] => d = m
        /\ \A d \in Clients["hls"] : pc'[d] = "over" => ctx'[d]
    BY <1>2, <1>4, HLSCreates
  <2>2. HLS!TypeOK'
    BY <1>1, <1>2, <1>3, <2>1 DEF HLS!TypeOK, HLSPlaces, HLS!SideTypeOK, HLS!sideVars
  <2>3. HLSListed' /\ HLSOrder'
    BY <1>1, <1>2, <2>1 DEF HLSListed, HLSOrder
  <2>4. HLSRemuxed'
    BY <1>1, <1>2, <1>4, HLSTypes, HLSNone DEF HLSRemuxed
  <2> QED
    BY <1>1, <1>2, <2>1, <2>2, <2>3, <2>4 DEF HLSInv
<1>5. CASE UNCHANGED <<entry, pc, ctx, auto>> /\ used' \subseteq Clients["hls"]
  <2>1. HLS!NoGhosts'
    BY <1>2, <1>5 DEF HLSInv, HLS!NoGhosts, HLS!sideVars
  <2>2. HLS!TypeOK'
    BY <1>1, <1>2, <1>3, <1>5 DEF HLS!TypeOK, HLS!SideTypeOK, HLS!sideVars
  <2>3. HLSListed' /\ HLSOrder' /\ HLSRemuxed'
    BY <1>1, <1>2, <1>5 DEF HLSListed, HLSOrder, HLSRemuxed
  <2> QED
    BY <1>1, <1>2, <2>1, <2>2, <2>3 DEF HLSInv
<1> QED
  BY <1>1, <1>4, <1>5, HLSTypes DEF HLS!GetMuxer, HLS!muxerVars

(* What only requests see changes nothing else.                            *)
LEMMA HLSRequestsKeep ==
    ASSUME HLSInv, UNCHANGED <<HLS!serverVars, HLS!muxerVars, HLS!sideVars>>,
           req' \in [Requests -> {"none", "asking", "askingOnDemand", "waiting"}],
           target' \in [Requests -> Clients["hls"] \cup {None}]
    PROVE  HLSInv'
<1>1. /\ UNCHANGED <<srv, closing, always, online, event, entry, bare, pc, ctx, auto, used>>
      /\ UNCHANGED <<readers, held, publisher, conf>>
  BY DEF HLS!serverVars, HLS!muxerVars, HLS!sideVars
<1>2. HLS!TypeOK'
  BY <1>1 DEF HLSInv, HLS!TypeOK, HLS!SideTypeOK
<1>3. HLS!NoGhosts' /\ HLSListed' /\ HLSOrder' /\ HLSRemuxed' /\ publisher' = None
  BY <1>1 DEF HLSInv, HLS!NoGhosts, HLSListed, HLSOrder, HLSRemuxed
<1> QED
  BY <1>2, <1>3 DEF HLSInv

(* A muxer that has ended is taken out of the map, if it is there.         *)
LEMMA HLSCloseMuxerKeeps ==
    ASSUME HLSInv, NEW m \in Clients["hls"], HLS!CloseMuxer(m)
    PROVE  HLSInv'
<1>1. HLS!TypeOK /\ HLS!NoGhosts /\ HLSListed /\ HLSOrder /\ HLSRemuxed /\ publisher = None
  BY DEF HLSInv
<1>2. /\ pc[m] = "over" /\ pc' = [pc EXCEPT ![m] = "none"] /\ ctx' = [ctx EXCEPT ![m] = FALSE]
      /\ auto' = auto \ {m} /\ used' = used \ {m}
      /\ entry' \in {entry, None}
      /\ \/ srv \in {"open", "cancelled"} /\ entry' = (IF entry = m THEN None ELSE entry)
         \/ srv # "open" /\ entry' = entry
      /\ UNCHANGED <<srv, closing, always, online, event, bare, req, target>>
      /\ UNCHANGED <<readers, held, publisher, conf>>
  BY DEF HLS!CloseMuxer, HLS!LoopRuns, HLS!Goto, HLS!httpVars, HLS!sideVars
<1>3. /\ pc' \in [Clients["hls"] -> HLSPlaces] /\ ctx' \in [Clients["hls"] -> BOOLEAN]
      /\ pc'[m] = "none" /\ ~ctx'[m]
      /\ \A d \in Clients["hls"] : d # m => pc'[d] = pc[d] /\ ctx'[d] = ctx[d]
  BY <1>1, <1>2, HLSTypes DEF HLSPlaces
<1>4. ctx[m] /\ srv \notin {"starting", "closed"}
  BY <1>1, <1>2 DEF HLSOrder
<1>5. HLS!TypeOK'
  BY <1>1, <1>2, <1>3 DEF HLS!TypeOK, HLSPlaces, HLS!SideTypeOK
<1>6. HLS!NoGhosts'
  BY <1>1, <1>2, <1>3 DEF HLS!NoGhosts
<1>7. HLSListed'
  <2>1. entry' # None => pc'[entry'] # "none" \/ srv' \in {"cancelled", "ended", "closed"}
    BY <1>1, <1>2, <1>3, <1>4, HLSTypes DEF HLSListed
  <2>2. \A d \in Clients["hls"] : pc'[d] # "none" /\ ~ctx'[d] => d = entry'
    BY <1>1, <1>2, <1>3, <1>4 DEF HLSListed
  <2>3. entry' \in auto' /\ srv' = "open" => online' \/ event' # "none" \/ ctx'[entry']
    BY <1>1, <1>2, <1>3, HLSTypes, HLSNone DEF HLSListed
  <2> QED
    BY <2>1, <2>2, <2>3 DEF HLSListed
<1>8. HLSOrder'
  BY <1>1, <1>2, <1>3, <1>4 DEF HLSOrder
<1>9. HLSRemuxed'
  BY <1>1, <1>2, <1>3, <1>4, HLSTypes DEF HLSRemuxed
<1> QED
  BY <1>1, <1>2, <1>5, <1>6, <1>7, <1>8, <1>9 DEF HLSInv

(* The server ends, or is told that the path is not ready.                 *)
LEMMA HLSServerKeeps ==
    ASSUME HLSInv,
           \/ HLS!TakePathNotReady \/ HLS!EventTerminated \/ HLS!SeeContextDone
           \/ HLS!Close \/ HLS!CloseReturns
    PROVE  HLSInv'
<1>1. HLS!TypeOK /\ HLS!NoGhosts /\ HLSListed /\ HLSOrder /\ HLSRemuxed /\ publisher = None
  BY DEF HLSInv
<1>2. CASE HLS!EventTerminated \/ HLS!SeeContextDone \/ HLS!CloseReturns
  <2>1. /\ UNCHANGED <<closing, always, online, entry, bare, pc, ctx, auto, used, req, target>>
        /\ UNCHANGED <<readers, held, publisher, conf>>
    BY <1>2 DEF HLS!EventTerminated, HLS!SeeContextDone, HLS!CloseReturns, HLS!muxerVars,
       HLS!httpVars, HLS!sideVars
  <2>2. /\ srv \in {"cancelled", "ended", "closed"}
        /\ srv' \in {srv, "ended", "closed"} /\ event' \in {event, "none"}
        /\ srv' = "closed" => \A m \in Clients["hls"] : pc[m] = "none"
    BY <1>1, <1>2 DEF HLS!EventTerminated, HLS!SeeContextDone, HLS!CloseReturns, HLSOrder
  <2>3. HLS!TypeOK'
    BY <1>1, <2>1, <2>2 DEF HLS!TypeOK, HLS!SideTypeOK
  <2>4. HLS!NoGhosts' /\ HLSListed' /\ HLSOrder' /\ HLSRemuxed'
    BY <1>1, <2>1, <2>2 DEF HLS!NoGhosts, HLSListed, HLSOrder, HLSRemuxed
  <2> QED
    BY <1>1, <2>1, <2>3, <2>4 DEF HLSInv
<1>3. ASSUME NEW set, HLS!Cancel(set)
      PROVE  /\ ctx' \in [Clients["hls"] -> BOOLEAN]
             /\ \A m \in Clients["hls"] : ctx[m] => ctx'[m]
             /\ \A m \in Clients["hls"] : m \in set /\ pc[m] # "none" => ctx'[m]
  BY <1>1, <1>3, HLSTypes DEF HLS!Cancel
<1>4. CASE HLS!Close
  <2>1. /\ UNCHANGED <<always, online, event, entry, bare, pc, auto, used, req, target>>
        /\ UNCHANGED <<readers, held, publisher, conf>>
        /\ srv = "open" /\ srv' = "cancelled" /\ closing' = TRUE
        /\ ctx' \in [Clients["hls"] -> BOOLEAN]
        /\ \A m \in Clients["hls"] : ctx[m] => ctx'[m]
        /\ \A m \in Clients["hls"] : pc[m] # "none" => ctx'[m]
    BY <1>3, <1>4 DEF HLS!Close, HLS!httpVars, HLS!sideVars
  <2>2. HLS!TypeOK'
    BY <1>1, <2>1 DEF HLS!TypeOK, HLS!SideTypeOK
  <2>3. HLS!NoGhosts' /\ HLSListed' /\ HLSOrder' /\ HLSRemuxed'
    BY <1>1, <2>1 DEF HLS!NoGhosts, HLSListed, HLSOrder, HLSRemuxed
  <2> QED
    BY <1>1, <2>1, <2>2, <2>3 DEF HLSInv
<1>5. CASE HLS!TakePathNotReady
  <2>1. /\ UNCHANGED <<srv, closing, always, online, bare, pc, auto, used, req, target>>
        /\ UNCHANGED <<readers, held, publisher, conf>>
        /\ srv \in {"open", "cancelled"} /\ event' = "none" /\ ~online
    BY <1>1, <1>5
    DEF HLS!TakePathNotReady, HLS!LoopRuns, HLS!httpVars, HLS!sideVars, HLSOrder
  <2>2. /\ entry' = IF entry \in auto THEN None ELSE entry
        /\ ctx' \in [Clients["hls"] -> BOOLEAN]
        /\ \A m \in Clients["hls"] : ctx[m] => ctx'[m]
        /\ entry \in auto /\ pc[entry] # "none" => ctx'[entry]
    BY <1>1, <1>3, <1>5, HLSTypes DEF HLS!TakePathNotReady
  <2>3. HLS!TypeOK'
    BY <1>1, <2>1, <2>2 DEF HLS!TypeOK, HLS!SideTypeOK
  <2>4. HLSListed'
    BY <1>1, <2>1, <2>2, HLSTypes, HLSNone DEF HLSListed
  <2>5. HLS!NoGhosts' /\ HLSOrder' /\ HLSRemuxed'
    BY <1>1, <2>1, <2>2 DEF HLS!NoGhosts, HLSOrder, HLSRemuxed
  <2> QED
    BY <1>1, <2>1, <2>3, <2>4, <2>5 DEF HLSInv
<1> QED
  BY <1>2, <1>4, <1>5

(* The path gets a stream, loses it, or is made anew.                      *)
LEMMA HLSPathKeeps ==
    ASSUME HLSInv, HLS!SetReady \/ HLS!SetNotReady \/ HLS!Reload
    PROVE  HLSInv'
<1>1. HLS!TypeOK /\ HLS!NoGhosts /\ HLSListed /\ HLSOrder /\ HLSRemuxed /\ publisher = None
  BY DEF HLSInv
<1>2. CASE HLS!SetReady
  <2>1. /\ UNCHANGED <<srv, closing, always, entry, bare, pc, ctx, auto, used, req, target>>
        /\ UNCHANGED <<readers, held, publisher, conf>>
        /\ online' = TRUE /\ event = "none" /\ event' \in {"none", "ready"}
        /\ event' = IF srv \in {"open", "cancelled"} THEN "ready" ELSE "none"
    BY <1>2 DEF HLS!SetReady, HLS!Tell, HLS!muxerVars, HLS!httpVars, HLS!sideVars
  <2>2. HLS!TypeOK'
    BY <1>1, <2>1 DEF HLS!TypeOK, HLS!SideTypeOK
  <2>3. HLS!NoGhosts' /\ HLSListed' /\ HLSOrder' /\ HLSRemuxed'
    BY <1>1, <2>1 DEF HLS!NoGhosts, HLSListed, HLSOrder, HLSRemuxed
  <2> QED
    BY <1>1, <2>1, <2>2, <2>3 DEF HLSInv
<1>3. CASE HLS!SetNotReady
  <2>1. /\ UNCHANGED <<srv, closing, always, entry, pc, auto, used, req, target, held, publisher,
                       conf>>
        /\ online' = FALSE /\ bare' = FALSE /\ readers' = {}
        /\ event = "none" /\ event' \in {"none", "notReady"}
        /\ event' = IF srv \in {"open", "cancelled"} THEN "notReady" ELSE "none"
    BY <1>3 DEF HLS!SetNotReady, HLS!Tell, HLS!httpVars
  <2>2. /\ ctx' \in [Clients["hls"] -> BOOLEAN]
        /\ \A m \in Clients["hls"] : ctx[m] => ctx'[m]
        /\ \A m \in Clients["hls"] : m \in readers /\ pc[m] # "none" => ctx'[m]
    BY <1>1, <1>3, HLSTypes DEF HLS!SetNotReady, HLS!Cancel
  <2>3. HLS!TypeOK'
    BY <1>1, <2>1, <2>2 DEF HLS!TypeOK, HLS!SideTypeOK
  <2>4. HLS!NoGhosts' /\ HLSOrder'
    BY <1>1, <2>1, <2>2 DEF HLS!NoGhosts, HLSOrder
  <2>5. HLSListed' /\ HLSRemuxed'
    BY <1>1, <2>1, <2>2 DEF HLSListed, HLSRemuxed
  <2> QED
    BY <1>1, <2>1, <2>3, <2>4, <2>5 DEF HLSInv
<1>4. CASE HLS!Reload
  <2>1. /\ UNCHANGED <<srv, closing, always, online, event, entry, bare, pc, ctx, auto, used>>
        /\ UNCHANGED <<req, target, readers, held, publisher>>
        /\ ~online /\ conf = 2 /\ conf' = 3 - conf
    BY <1>4 DEF HLS!Reload, HLS!OnDemand, HLS!ChangeConf, HLS!serverVars, HLS!muxerVars,
       HLS!httpVars
  <2>2. conf' \in {1, 2}
    BY <2>1
  <2>3. HLS!TypeOK'
    BY <1>1, <2>1, <2>2 DEF HLS!TypeOK, HLS!SideTypeOK
  <2>4. HLS!NoGhosts' /\ HLSListed' /\ HLSOrder' /\ HLSRemuxed'
    BY <1>1, <2>1 DEF HLS!NoGhosts, HLSListed, HLSOrder, HLSRemuxed
  <2> QED
    BY <1>1, <2>1, <2>3, <2>4 DEF HLSInv
<1> QED
  BY <1>2, <1>3, <1>4

(* No step breaks the invariant.                                           *)
LEMMA HLSStepInv ==
    ASSUME HLSInv, [HLS!Next]_HLS!vars
    PROVE  HLSInv'
<1>1. HLS!TypeOK
  BY DEF HLSInv
<1>2. ASSUME NEW r \in Requests,
             HLS!OnRequest(r) \/ HLS!RequestTerminated(r) \/ HLS!GetInstance(r)
      PROVE  HLSInv'
  <2>1. UNCHANGED <<HLS!serverVars, HLS!muxerVars, HLS!sideVars>>
    BY <1>2 DEF HLS!OnRequest, HLS!RequestTerminated, HLS!GetInstance, HLS!Answer
  <2>2. /\ req' \in [Requests -> {"none", "asking", "askingOnDemand", "waiting"}]
        /\ target' \in [Requests -> Clients["hls"] \cup {None}]
    BY <1>1, <1>2, HLSTypes DEF HLS!OnRequest, HLS!RequestTerminated, HLS!GetInstance, HLS!Answer
  <2> QED
    BY <2>1, <2>2, HLSRequestsKeep
<1>3. CASE UNCHANGED HLS!vars
  <2>1. UNCHANGED <<HLS!serverVars, HLS!muxerVars, HLS!sideVars>> /\ UNCHANGED <<req, target>>
    BY <1>3 DEF HLS!vars, HLS!httpVars
  <2> QED
    BY <1>1, <2>1, HLSTypes, HLSRequestsKeep
<1>4. ASSUME NEW m \in Clients["hls"],
             HLS!MuxerRun(m) \/ HLS!Terminated(m) \/ HLS!WaitOnHold(m) \/ HLS!InstanceFails(m)
      PROVE  HLSInv'
  BY <1>4, HLSMuxerMoves, HLSMovesKeep, HLSCloseMuxerKeeps DEF HLS!MuxerRun
<1>5. CASE HLS!TakeEvent
  BY <1>5, HLSStartKeeps, HLSPathReadyKeeps, HLSServerKeeps DEF HLS!TakeEvent
<1> QED
  BY <1>2, <1>3, <1>4, <1>5, HLSGetMuxerKeeps, HLSServerKeeps, HLSPathKeeps
  DEF HLS!Next, HLS!HTTPEnds

(* What the invariant says of the server.                                  *)
LEMMA HLSFacts ==
    ASSUME HLSInv
    PROVE  HLS!TypeOK /\ HLS!NoGhosts /\ HLS!ListIsTrue /\ HLS!ClosedIsEmpty
<1>1. HLS!TypeOK /\ HLS!NoGhosts /\ HLSListed /\ HLSOrder /\ HLSRemuxed
  BY DEF HLSInv
<1>2. HLS!ListIsTrue
  <2>1. srv = "open" /\ always /\ online /\ ~HLS!OnDemand /\ event = "none"
           => entry # None \/ bare
    BY <1>1, HLSTypes, HLSNone DEF HLSRemuxed, HLS!OnDemand
  <2> QED
    BY <1>1, <2>1 DEF HLSListed, HLS!ListIsTrue
<1>3. HLS!ClosedIsEmpty
  BY <1>1, HLSTypes DEF HLSOrder, HLS!NoGhosts, HLS!ClosedIsEmpty
<1> QED
  BY <1>1, <1>2, <1>3

-----------------------------------------------------------------------------
(* All of them.                                                            *)

Inv ==
    /\ kind = "rtmp" => RTMPInv
    /\ kind = "srt" => SRTInv
    /\ kind = "webrtc" => WebRTCInv
    /\ kind = "rtsp" => RTSPInv
    /\ kind = "hls" => HLSInv

(* Whichever server it is, its invariant holds in the beginning.           *)
LEMMA InitInv == Init => Inv
<1> SUFFICES ASSUME Init PROVE Inv
  OBVIOUS
<1>1. CASE kind = "rtmp" /\ RTMP!Init
  BY <1>1, RTMPInitInv DEF Inv
<1>2. CASE kind = "srt" /\ SRT!Init
  BY <1>2, SRTInitInv DEF Inv
<1>3. CASE kind = "webrtc" /\ WebRTC!Init
  BY <1>3, WebRTCInitInv DEF Inv
<1>4. CASE kind = "rtsp" /\ RTSP!Init
  BY <1>4, RTSPInitInv DEF Inv
<1>5. CASE kind = "hls" /\ HLS!Init
  BY <1>5, HLSInitInv DEF Inv
<1> QED
  BY <1>1, <1>2, <1>3, <1>4, <1>5 DEF Init

(* A step is one of the server that was chosen, or changes nothing of it.  *)
LEMMA StepsOfOne ==
    ASSUME [Next]_vars
    PROVE  /\ kind' = kind
           /\ kind = "rtmp" => [RTMP!Next]_RTMP!vars
           /\ kind = "srt" => [SRT!Next]_SRT!vars
           /\ kind = "webrtc" => [WebRTC!Next]_WebRTC!vars
           /\ kind = "rtsp" => [RTSP!Next]_RTSP!vars
           /\ kind = "hls" => [HLS!Next]_HLS!vars
<1>1. CASE Next
  BY <1>1 DEF Next, IsRTMP, IsSRT, IsWebRTC, IsRTSP, IsHLS
<1>2. CASE UNCHANGED vars
  <2>1. UNCHANGED <<kind, readers, held, publisher, conf, srv, closing, pc, ctx, conns, state,
                    found, post, patch, candidates, sessions, lib, hasPath, hook, kicked, dead,
                    always, online, event, entry, auto, used, req, target, bare>>
    BY <1>2 DEF vars, webrtcVars, rtspVars, hlsVars
  <2>2. UNCHANGED RTMP!vars /\ UNCHANGED SRT!vars
    BY <2>1 DEF RTMP!vars, RTMP!connServerVars, RTMP!serverVars, RTMP!connVars, RTMP!sideVars,
       SRT!vars, SRT!connServerVars, SRT!serverVars, SRT!connVars, SRT!sideVars
  <2>3. UNCHANGED WebRTC!vars
    BY <2>1 DEF WebRTC!vars, WebRTC!connServerVars, WebRTC!serverVars, WebRTC!connVars,
       WebRTC!sideVars, WebRTC!httpVars
  <2>4. UNCHANGED RTSP!vars /\ UNCHANGED HLS!vars
    BY <2>1 DEF RTSP!vars, RTSP!serverVars, RTSP!sessionVars, RTSP!sideVars,
       HLS!vars, HLS!serverVars, HLS!muxerVars, HLS!httpVars, HLS!sideVars
  <2> QED
    BY <2>1, <2>2, <2>3, <2>4
<1> QED
  BY <1>1, <1>2

(* No step breaks it.                                                      *)
LEMMA StepInv == Inv /\ [Next]_vars => Inv'
<1> SUFFICES ASSUME Inv, [Next]_vars PROVE Inv'
  OBVIOUS
<1>1. kind' = kind
  BY StepsOfOne
<1>2. ASSUME kind = "rtmp" PROVE RTMPInv'
  BY <1>2, StepsOfOne, RTMPStepInv DEF Inv
<1>3. ASSUME kind = "srt" PROVE SRTInv'
  BY <1>3, StepsOfOne, SRTStepInv DEF Inv
<1>4. ASSUME kind = "webrtc" PROVE WebRTCInv'
  BY <1>4, StepsOfOne, WebRTCStepInv DEF Inv
<1>5. ASSUME kind = "rtsp" PROVE RTSPInv'
  BY <1>5, StepsOfOne, RTSPStepInv DEF Inv
<1>6. ASSUME kind = "hls" PROVE HLSInv'
  BY <1>6, StepsOfOne, HLSStepInv DEF Inv
<1> QED
  BY <1>1, <1>2, <1>3, <1>4, <1>5, <1>6 DEF Inv

(* What it says of the server.                                             *)
LEMMA InvFacts == Inv => TypeOK /\ NoGhosts /\ ListIsTrue /\ ClosedIsEmpty
  BY RTMPFacts, SRTFacts, WebRTCFacts, RTSPFacts, HLSFacts
  DEF Inv, TypeOK, NoGhosts, ListIsTrue, ClosedIsEmpty

(* The invariant holds in every state that can be reached.                 *)
LEMMA AlwaysInv == Spec => []Inv
  BY InitInv, StepInv, PTL DEF Spec

(* Every variable of every server has its type.                            *)
THEOREM TypeCorrect == Spec => []TypeOK
<1>1. Inv => TypeOK
  BY InvFacts
<1> QED
  BY <1>1, AlwaysInv, PTL

(* The path never counts a client that has gone, and knows whoever reads   *)
(* or publishes, whichever server it came through and however it ends: by  *)
(* itself, kicked, displaced by another publisher, with the stream, or     *)
(* with the server (core/path.go:672-806).                                 *)
THEOREM NeverGhosts == Spec => []NoGhosts
<1>1. Inv => NoGhosts
  BY InvFacts
<1> QED
  BY <1>1, AlwaysInv, PTL

(* What the Control API lists of every server is there, and does for the   *)
(* path what it is shown doing, but for the moments between the path's     *)
(* answer and the client's own assignment or the library's change of       *)
(* state; the map of the HLS server has the one muxer that runs            *)
(* (servers/rtmp/conn.go:180-184, servers/hls/server.go:178-221).          *)
THEOREM ListsAlwaysTrue == Spec => []ListIsTrue
<1>1. Inv => ListIsTrue
  BY InvFacts
<1> QED
  BY <1>1, AlwaysInv, PTL

(* Whoever waits in Close of a server comes back when nothing of it is     *)
(* left in the path, which core closes next (core/core.go:1000-1023).      *)
THEOREM ClosedAlwaysEmpty == Spec => []ClosedIsEmpty
<1>1. Inv => ClosedIsEmpty
  BY InvFacts
<1> QED
  BY <1>1, AlwaysInv, PTL

(* A publisher is let in with the configuration it was authenticated for,  *)
(* though it negotiates for any time between FindPathConf and              *)
(* AddPublisher and the configuration may be reloaded meanwhile            *)
(* (core/path_manager.go:382-396).                                         *)
THEOREM PublishersAlwaysChecked == Spec => PublishersWereChecked
<1>1. ASSUME Inv, [Next]_vars,
             NEW c \in Clients[kind], kind \in {"srt", "webrtc", "rtsp"},
             publisher' = c, publisher # c
      PROVE  found[c] = conf
  <2>1. CASE kind = "srt"
    BY <1>1, <2>1, StepsOfOne, SRTChecked DEF Inv
  <2>2. CASE kind = "webrtc"
    BY <1>1, <2>2, StepsOfOne, WebRTCChecked DEF Inv
  <2>3. CASE kind = "rtsp"
    BY <1>1, <2>3, StepsOfOne, RTSPChecked
  <2> QED
    BY <1>1, <2>1, <2>2, <2>3
<1>2. Inv /\ [Next]_vars =>
         [\A c \in Clients[kind] :
             kind \in {"srt", "webrtc", "rtsp"} /\ publisher' = c /\ publisher # c
                => found[c] = conf]_vars
  BY <1>1
<1> QED
  BY <1>2, AlwaysInv, PTL DEF Spec, PublishersWereChecked
=============================================================================
