------------------------- MODULE ConnLifecycleProofs -------------------------
(***************************************************************************)
(* Proofs about ConnLifecycle, for every number of connections and handles *)
(* and every capacity: handle reuse, forced cleanups and late commands     *)
(* never route an event to the wrong Conn, and the channel handleACL sends *)
(* on is closed under it only by a forced cleanup.                         *)
(***************************************************************************)
EXTENDS ConnLifecycle, SequenceTheorems, TLAPS

Events == [t : {"conn", "disc"}, c : Conns] \cup [t : {"acl"}, c : Conns, k : Kinds]
RxStates == {"none", "recv", "deliver", "drain", "exit"}
CloseStates == {"idle", "start", "send", "cmd1", "cmd2", "wait", "force"}
LoopStates == {"read", "acl", "close", "sweep", "done", "panic"}

TypeOK ==
  /\ conns \in [Handles -> Conns \cup {None}]
  /\ hdl \in [Conns -> Handles \cup {None}]
  /\ closed \in [Conns -> BOOLEAN]
  /\ killed \in [Conns -> BOOLEAN]
  /\ chInPkt \in [Conns -> Seq(Kinds)]
  /\ chInPDU \in [Conns -> Nat]
  /\ rx \in [Conns -> RxStates]
  /\ cpc \in [Conns -> [Closers -> CloseStates]]
  /\ lpc \in LoopStates
  /\ lpc \in {"acl", "close"} => lconn \in Conns
  /\ lpc = "acl" => lkind \in Kinds
  /\ sweep \in SUBSET Conns
  /\ evq \in Seq(Events)
  /\ link \in [Handles -> Conns \cup {None}]
  /\ late \in SUBSET Conns
  /\ forced \in SUBSET Conns

(* The Conn exists from the moment its link is up: what has a link, an     *)
(* event, a goroutine or a Close has a handle.                             *)
HasHandle ==
  /\ \A h \in Handles : link[h] # None => hdl[link[h]] = h
  /\ \A i \in 1..Len(evq) : hdl[evq[i].c] # None
  /\ \A c \in Conns : rx[c] # "none" => hdl[c] # None
  /\ \A c \in Conns, x \in Closers : cpc[c][x] # "idle" => hdl[c] # None
  /\ \A c \in late : hdl[c] # None
  /\ lpc \in {"acl", "close"} => hdl[lconn] # None

(* The order of the events of one link: its LE Connection Complete is the  *)
(* first, its Disconnection Complete the last.                             *)
ConnFirst ==
  \A i, j \in 1..Len(evq) : evq[j].t = "conn" /\ evq[i].c = evq[j].c => j <= i
DiscLast ==
  \A i \in 1..Len(evq) : evq[i].t = "disc" =>
    /\ link[hdl[evq[i].c]] # evq[i].c
    /\ \A j \in 1..Len(evq) : evq[j].c = evq[i].c => j <= i

(* The order of the links of one handle: what follows another link's event *)
(* follows its own LE Connection Complete, and so will what is to come.    *)
HandleOrder ==
  \A i, j \in 1..Len(evq) :
    i < j /\ evq[i].c # evq[j].c /\ hdl[evq[i].c] = hdl[evq[j].c] =>
      \E k \in (i + 1)..j : evq[k].t = "conn" /\ evq[k].c = evq[j].c
LinkOrder ==
  \A h \in Handles : \A i \in 1..Len(evq) :
    link[h] # None /\ evq[i].c # link[h] /\ hdl[evq[i].c] = h =>
      \E k \in (i + 1)..Len(evq) : evq[k].t = "conn" /\ evq[k].c = link[h]

(* The handle of c leads to c, or to nothing after a forced cleanup. *)
Resolves(c) == conns[hdl[c]] = c \/ (conns[hdl[c]] = None /\ c \in forced)
Announced(c) == \E i \in 1..Len(evq) : evq[i].t = "conn" /\ evq[i].c = c

(* While sktLoop reads, every event will find its Conn. *)
Serving == lpc \in {"read", "acl", "close"}
EventsResolve ==
  Serving => \A i \in 1..Len(evq) : evq[i].t # "conn" =>
    \/ Resolves(evq[i].c)
    \/ \E j \in 1..(i - 1) : evq[j].t = "conn" /\ evq[j].c = evq[i].c
LinksResolve ==
  Serving => \A h \in Handles : link[h] # None =>
               Resolves(link[h]) \/ Announced(link[h])

(* c was registered once and is not registered any more. *)
Gone(c) == /\ hdl[c] # None /\ ~Announced(c)
           /\ \A h \in Handles : conns[h] # c

(* A Conn is registered under its handle, and its channels are closed only *)
(* after it was removed.                                                   *)
RemovedFirst ==
  /\ \A h \in Handles : conns[h] # None => hdl[conns[h]] = h /\ ~Announced(conns[h])
  /\ \A c \in Conns : closed[c] \/ c \in forced \/ c \in sweep => Gone(c)
  /\ \A c \in Conns, x \in Closers : cpc[c][x] = "force" => c \in forced
  /\ lpc = "close" => Gone(lconn)

IInv == /\ TypeOK /\ HasHandle /\ ConnFirst /\ DiscLast /\ HandleOrder /\ LinkOrder
        /\ EventsResolve /\ LinksResolve /\ RemovedFirst /\ PanicNeedsForcedClose
-----------------------------------------------------------------------------
(* What an event added at the end of the queue changes. *)
LEMMA QueueAppend ==
  ASSUME evq \in Seq(Events), NEW e \in Events, evq' = Append(evq, e)
  PROVE  /\ evq' \in Seq(Events)
         /\ Len(evq) \in Nat /\ Len(evq)' = Len(evq) + 1
         /\ \A i \in 1..Len(evq) : evq'[i] = evq[i]
         /\ evq'[Len(evq) + 1] = e
  BY AppendProperties, LenProperties

(* What taking the event at the head of the queue changes. *)
LEMMA QueueTail ==
  ASSUME evq \in Seq(Events), evq # <<>>, evq' = Tail(evq)
  PROVE  /\ evq' \in Seq(Events)
         /\ Len(evq) \in Nat \ {0} /\ Len(evq)' = Len(evq) - 1
         /\ \A i \in 1..(Len(evq) - 1) : evq'[i] = evq[i + 1]
         /\ Head(evq) = evq[1] /\ Head(evq) \in Events
  BY HeadTailProperties, LenProperties, EmptySeq, ElementOfSeq

(* A goroutine running Close moves between the places of Close. *)
LEMMA GoToType ==
  ASSUME TypeOK, NEW c \in Conns, NEW x \in Closers, NEW l \in CloseStates, GoTo(c, x, l)
  PROVE  /\ cpc' \in [Conns -> [Closers -> CloseStates]]
         /\ cpc'[c][x] = l
         /\ \A d \in Conns, y \in Closers : d # c \/ y # x => cpc'[d][y] = cpc[d][y]
<1> DEFINE row == [cpc[c] EXCEPT ![x] = l]
<1>1. cpc \in [Conns -> [Closers -> CloseStates]] /\ cpc' = [cpc EXCEPT ![c] = row]
  BY DEF TypeOK, GoTo
<1>2. row \in [Closers -> CloseStates] /\ row[x] = l
      /\ \A y \in Closers : y # x => row[y] = cpc[c][y]
  BY <1>1
<1> HIDE DEF row
<1> QED  BY <1>1, <1>2

(* kill leaves every Close where it is, or starts the one of its own. *)
LEMMA KillType ==
  ASSUME TypeOK, NEW c \in Conns, kill(c)
  PROVE  /\ cpc' \in [Conns -> [Closers -> CloseStates]]
         /\ killed' \in [Conns -> BOOLEAN]
         /\ \A d \in Conns, y \in Closers :
              cpc'[d][y] = cpc[d][y] \/ (d = c /\ cpc'[d][y] = "start")
<1>1. "kill" \in Closers /\ "start" \in CloseStates
  BY DEF Closers, CloseStates
<1>2. killed' \in [Conns -> BOOLEAN]
  BY DEF TypeOK, kill
<1>3. CASE killed[c]
  BY <1>2, <1>3 DEF TypeOK, kill
<1>4. CASE ~killed[c]
  <2>1. GoTo(c, "kill", "start")
    BY <1>4 DEF kill
  <2> QED  BY <1>1, <1>2, <2>1, GoToType
<1> QED  BY <1>3, <1>4

(* The next-state relation, action by action. *)
LEMMA NextCases ==
  ASSUME Next
  PROVE  \/ \E c \in Conns, h \in Handles : LinkUp(c, h)
         \/ \E h \in Handles, k \in Kinds : Receive(h, k)
         \/ \E h \in Handles : LinkLoss(h)
         \/ \E c \in Conns : ExecLate(c)
         \/ \E c \in Conns, x \in Closers : CloserStep(c, x)
         \/ handleLEConnectionComplete \/ handleACL \/ deliverACL
         \/ handleDisconnectionComplete \/ closeChans
         \/ (\E c \in Conns : cleanupOne(c)) \/ closeDone \/ cleanupConns
         \/ \E c \in Conns : RecombineStep(c)
         \/ \E c \in Conns : AppClose(c) \/ Read(c)
  BY DEF Next, Controller, LoopStep
-----------------------------------------------------------------------------
(* Type correctness.  HasHandle is what makes hdl[c] a handle where an     *)
(* action looks it up.                                                     *)
LEMMA TypeStep == TypeOK /\ HasHandle /\ [Next]_vars => TypeOK'
<1> SUFFICES ASSUME TypeOK, HasHandle, [Next]_vars  PROVE TypeOK'
  OBVIOUS
<1>0. CASE UNCHANGED vars
  BY <1>0 DEF TypeOK, vars, connVars, rxVars, loopVars, ctrlVars
<1>1. ASSUME NEW c \in Conns, NEW h \in Handles, LinkUp(c, h)  PROVE TypeOK'
  <2>1. [t |-> "conn", c |-> c] \in Events
    BY DEF Events
  <2>2. evq' \in Seq(Events)
    BY <1>1, <2>1, QueueAppend DEF LinkUp, TypeOK
  <2> QED  BY <1>1, <2>2 DEF LinkUp, TypeOK, rxVars, loopVars
<1>2. ASSUME NEW h \in Handles, NEW k \in Kinds, Receive(h, k)  PROVE TypeOK'
  <2>1. [t |-> "acl", c |-> link[h], k |-> k] \in Events
    BY <1>2 DEF Events, Receive, TypeOK
  <2>2. evq' \in Seq(Events)
    BY <1>2, <2>1, QueueAppend DEF Receive, TypeOK
  <2> QED  BY <1>2, <2>2 DEF Receive, TypeOK, connVars, rxVars, loopVars
<1>3. ASSUME NEW h \in Handles, DropLink(h)
      PROVE  evq' \in Seq(Events) /\ link' \in [Handles -> Conns \cup {None}]
  <2>1. [t |-> "disc", c |-> link[h]] \in Events
    BY <1>3 DEF Events, DropLink, TypeOK
  <2>2. evq' \in Seq(Events)
    BY <1>3, <2>1, QueueAppend DEF DropLink, TypeOK
  <2> QED  BY <1>3, <2>2 DEF DropLink, TypeOK
<1>4. ASSUME NEW h \in Handles, LinkLoss(h)  PROVE TypeOK'
  BY <1>3, <1>4 DEF LinkLoss, TypeOK, connVars, rxVars, loopVars
<1>5. ASSUME NEW c \in Conns, ExecLate(c)  PROVE TypeOK'
  <2>1. hdl[c] \in Handles
    BY <1>5 DEF ExecLate, HasHandle, TypeOK
  <2>2. evq' \in Seq(Events) /\ link' \in [Handles -> Conns \cup {None}]
    BY <1>3, <1>5, <2>1 DEF ExecLate, ExecDisconnect, TypeOK
  <2> QED  BY <1>5, <2>2 DEF ExecLate, TypeOK, connVars, rxVars, loopVars
<1>6. ASSUME NEW c \in Conns, NEW x \in Closers, CloserStep(c, x)  PROVE TypeOK'
  <2>0. {"idle", "start", "send", "cmd1", "cmd2", "wait", "force"} \subseteq CloseStates
        /\ \A l : AfterFailure(l) \in CloseStates
    BY DEF CloseStates, AfterFailure
  <2>a. cpc[c][x] # "idle" => hdl[c] \in Handles
    BY DEF HasHandle, TypeOK
  <2> USE DEF connVars, rxVars, loopVars, ctrlVars
  <2>1. CASE CloseCheck(c, x)
    <3>1. cpc' \in [Conns -> [Closers -> CloseStates]]
      BY <2>0, <2>1, GoToType DEF CloseCheck
    <3> QED  BY <2>1, <3>1 DEF CloseCheck, TypeOK
  <2>2. CASE CloseSend(c, x)
    <3>1. cpc' \in [Conns -> [Closers -> CloseStates]]
      BY <2>0, <2>2, GoToType DEF CloseSend
    <3> QED  BY <2>2, <3>1 DEF CloseSend, TypeOK
  <2>3. CASE CloseAccepted(c, x)
    <3>1. cpc' \in [Conns -> [Closers -> CloseStates]]
      BY <2>0, <2>3, GoToType DEF CloseAccepted
    <3>2. evq' \in Seq(Events) /\ link' \in [Handles -> Conns \cup {None}]
      BY <1>3, <2>3, <2>a DEF CloseAccepted, ExecDisconnect
    <3> QED  BY <2>3, <3>1, <3>2 DEF CloseAccepted, TypeOK
  <2>4. CASE CloseRefused(c, x)
    <3>1. cpc' \in [Conns -> [Closers -> CloseStates]]
      BY <2>0, <2>4, GoToType DEF CloseRefused
    <3> QED  BY <2>4, <3>1 DEF CloseRefused, TypeOK
  <2>5. CASE CloseUnanswered(c, x)
    <3>1. cpc' \in [Conns -> [Closers -> CloseStates]]
      BY <2>0, <2>5, GoToType DEF CloseUnanswered
    <3> QED  BY <2>5, <3>1 DEF CloseUnanswered, TypeOK
  <2>6. CASE CloseSeesDone(c, x)
    <3>1. cpc' \in [Conns -> [Closers -> CloseStates]]
      BY <2>0, <2>6, GoToType DEF CloseSeesDone
    <3> QED  BY <2>6, <3>1 DEF CloseSeesDone, TypeOK
  <2>7. CASE cleanupConn(c, x)
    <3>1. cpc' \in [Conns -> [Closers -> CloseStates]]
      BY <2>0, <2>7, GoToType DEF cleanupConn
    <3> QED  BY <2>7, <2>a, <3>1 DEF cleanupConn, Deregister, TypeOK
  <2>8. CASE CloseForced(c, x)
    <3>1. cpc' \in [Conns -> [Closers -> CloseStates]]
      BY <2>0, <2>8, GoToType DEF CloseForced
    <3> QED  BY <2>8, <3>1 DEF CloseForced, TypeOK
  <2> QED  BY <1>6, <2>1, <2>2, <2>3, <2>4, <2>5, <2>6, <2>7, <2>8 DEF CloserStep
<1>7. CASE handleLEConnectionComplete
  <2> DEFINE d == Head(evq).c
  <2>1. evq' \in Seq(Events) /\ d \in Conns /\ hdl[d] \in Handles
    <3>1. evq # <<>> /\ evq' = Tail(evq) /\ evq \in Seq(Events)
      BY <1>7 DEF handleLEConnectionComplete, Reading, TypeOK
    <3>2. evq' \in Seq(Events) /\ Head(evq) \in Events /\ Head(evq) = evq[1] /\ Len(evq) \in Nat \ {0}
      BY <3>1, QueueTail
    <3>3. d \in Conns
      BY <3>2 DEF Events
    <3>4. hdl[d] # None
      BY <3>2 DEF HasHandle
    <3> QED  BY <3>2, <3>3, <3>4 DEF TypeOK
  <2>2. cpc' \in [Conns -> [Closers -> CloseStates]]
    <3>1. "own" \in Closers /\ "start" \in CloseStates
      BY DEF Closers, CloseStates
    <3>2. UNCHANGED cpc \/ GoTo(d, "own", "start")
      BY <1>7 DEF handleLEConnectionComplete
    <3> HIDE DEF d
    <3>3. CASE UNCHANGED cpc
      BY <3>3 DEF TypeOK
    <3>4. CASE GoTo(d, "own", "start")
      BY <3>1, <3>4, <2>1, GoToType
    <3> QED  BY <3>2, <3>3, <3>4
  <2>3. /\ conns' = [conns EXCEPT ![hdl[d]] = d]
        /\ rx' = [rx EXCEPT ![d] = "recv"]
        /\ UNCHANGED <<hdl, closed, chInPkt, chInPDU, loopVars, link, late, killed, forced>>
    BY <1>7 DEF handleLEConnectionComplete
  <2> HIDE DEF d
  <2> QED  BY <2>1, <2>2, <2>3 DEF TypeOK, loopVars, RxStates
<1>8. CASE handleACL
  <2>1. evq # <<>> /\ evq' = Tail(evq) /\ evq \in Seq(Events) /\ Head(evq).t = "acl"
    BY <1>8 DEF handleACL, Reading, TypeOK
  <2>2. /\ evq' \in Seq(Events) /\ Head(evq) \in Events /\ Head(evq) = evq[1]
        /\ Len(evq) \in Nat \ {0}
    BY <2>1, QueueTail
  <2>3. Head(evq).c \in Conns /\ Head(evq).k \in Kinds
    BY <2>1, <2>2 DEF Events
  <2>4. hdl[Head(evq).c] \in Handles
    BY <2>2, <2>3 DEF HasHandle, TypeOK
  <2> QED  BY <1>8, <2>2, <2>3, <2>4
           DEF handleACL, TypeOK, connVars, rxVars, LoopStates
<1>9. CASE deliverACL
  <2>1. lconn \in Conns /\ lkind \in Kinds
    BY <1>9 DEF deliverACL, TypeOK
  <2>2. cpc' \in [Conns -> [Closers -> CloseStates]] /\ killed' \in [Conns -> BOOLEAN]
    <3>1. UNCHANGED <<cpc, killed>> \/ kill(lconn)
      BY <1>9 DEF deliverACL, dropAndKill
    <3>2. CASE UNCHANGED <<cpc, killed>>
      BY <3>2 DEF TypeOK
    <3>3. CASE kill(lconn)
      BY <2>1, <3>3, KillType
    <3> QED  BY <3>1, <3>2, <3>3
  <2>3. chInPkt' \in [Conns -> Seq(Kinds)]
    <3>1. Append(chInPkt[lconn], lkind) \in Seq(Kinds)
      BY <2>1, AppendProperties DEF TypeOK
    <3>2. UNCHANGED chInPkt \/ chInPkt' = [chInPkt EXCEPT ![lconn] = Append(@, lkind)]
      BY <1>9 DEF deliverACL, dropAndKill
    <3> QED  BY <2>1, <3>1, <3>2 DEF TypeOK
  <2> QED  BY <1>9, <2>2, <2>3
           DEF deliverACL, LoopNext, TypeOK, connVars, ctrlVars, LoopStates
<1>10. CASE handleDisconnectionComplete
  <2>1. evq # <<>> /\ evq' = Tail(evq) /\ evq \in Seq(Events)
    BY <1>10 DEF handleDisconnectionComplete, Reading, TypeOK
  <2>2. /\ evq' \in Seq(Events) /\ Head(evq) \in Events /\ Head(evq) = evq[1]
        /\ Len(evq) \in Nat \ {0}
    BY <2>1, QueueTail
  <2>3. Head(evq).c \in Conns
    BY <2>2 DEF Events
  <2>4. hdl[Head(evq).c] \in Handles
    BY <2>2, <2>3 DEF HasHandle, TypeOK
  <2> QED  BY <1>10, <2>2, <2>4
           DEF handleDisconnectionComplete, Deregister, Reading, TypeOK, rxVars, LoopStates
<1>11. CASE closeChans
  BY <1>11 DEF closeChans, LoopNext, TypeOK, rxVars, ctrlVars, LoopStates
<1>12. ASSUME NEW c \in Conns, cleanupOne(c)  PROVE TypeOK'
  BY <1>12 DEF cleanupOne, TypeOK, rxVars, ctrlVars
<1>13. CASE closeDone
  BY <1>13 DEF closeDone, LoopNext, TypeOK, connVars, rxVars, ctrlVars, LoopStates
<1>14. CASE cleanupConns
  BY <1>14 DEF cleanupConns, LoopNext, AllRegistered, TypeOK, rxVars, ctrlVars, LoopStates
<1>15. ASSUME NEW c \in Conns, RecombineStep(c)  PROVE TypeOK'
  <2>0. TakePkt(c) => chInPkt' \in [Conns -> Seq(Kinds)] /\ Head(chInPkt[c]) \in Kinds
    <3> SUFFICES ASSUME TakePkt(c)
                 PROVE  chInPkt' \in [Conns -> Seq(Kinds)] /\ Head(chInPkt[c]) \in Kinds
      OBVIOUS
    <3>1. chInPkt[c] \in Seq(Kinds) /\ chInPkt[c] # <<>>
      BY DEF TakePkt, TypeOK
    <3>2. Head(chInPkt[c]) \in Kinds /\ Tail(chInPkt[c]) \in Seq(Kinds)
      BY <3>1, HeadTailProperties
    <3> QED  BY <3>2 DEF TakePkt, TypeOK
  <2>1. CASE recombine(c)
    <3>1. UNCHANGED <<cpc, killed>> \/ kill(c)
      BY <2>1 DEF recombine
    <3>2. CASE UNCHANGED <<cpc, killed>>
      BY <2>0, <2>1, <3>2
      DEF recombine, TypeOK, Kinds, RxStates, connVars, loopVars, ctrlVars
    <3>3. CASE kill(c)
      <4>1. cpc' \in [Conns -> [Closers -> CloseStates]] /\ killed' \in [Conns -> BOOLEAN]
        BY <3>3, KillType
      <4> QED  BY <2>0, <2>1, <4>1
               DEF recombine, TypeOK, Kinds, RxStates, connVars, loopVars, ctrlVars
    <3> QED  BY <3>1, <3>2, <3>3
  <2>2. CASE recombineEOF(c) \/ deliverClosed(c)
    BY <2>2 DEF recombineEOF, deliverClosed, TypeOK, RxStates, connVars, loopVars, ctrlVars
  <2>4. CASE deliverPDU(c)
    <3>1. chInPDU' \in [Conns -> Nat]
      BY <2>4 DEF deliverPDU, TypeOK
    <3> QED  BY <2>4, <3>1 DEF deliverPDU, TypeOK, RxStates, connVars, loopVars, ctrlVars
  <2>3. CASE drain(c)
    BY <2>0, <2>3 DEF drain, TypeOK, connVars, loopVars, ctrlVars
  <2> QED  BY <1>15, <2>1, <2>2, <2>3, <2>4 DEF RecombineStep
<1>16. ASSUME NEW c \in Conns, AppClose(c)  PROVE TypeOK'
  <2>1. cpc' \in [Conns -> [Closers -> CloseStates]]
    BY <1>16, GoToType DEF AppClose, Closers, CloseStates
  <2> QED  BY <1>16, <2>1 DEF AppClose, TypeOK, connVars, rxVars, loopVars, ctrlVars
<1>17. ASSUME NEW c \in Conns, Read(c)  PROVE TypeOK'
  BY <1>17 DEF Read, TypeOK, connVars, loopVars, ctrlVars
<1>18. CASE Next
  BY <1>18, NextCases, <1>1, <1>2, <1>4, <1>5, <1>6, <1>7, <1>8, <1>9, <1>10, <1>11,
     <1>12, <1>13, <1>14, <1>15, <1>16, <1>17
<1> QED  BY <1>0, <1>18
-----------------------------------------------------------------------------
(* What a step may do to the events, the links, the handles and the        *)
(* registrations: one of nine things.                                      *)
Up(c, h) ==
  /\ hdl[c] = None /\ link[h] = None
  /\ link' = [link EXCEPT ![h] = c]
  /\ evq' = Append(evq, [t |-> "conn", c |-> c])
  /\ hdl' = [hdl EXCEPT ![c] = h]
  /\ UNCHANGED <<conns, forced, lpc>>
Packet(h) ==
  /\ link[h] # None
  /\ \E k \in Kinds : evq' = Append(evq, [t |-> "acl", c |-> link[h], k |-> k])
  /\ UNCHANGED <<link, hdl, conns, forced, lpc>>
Down(h) == DropLink(h) /\ UNCHANGED <<hdl, conns, forced, lpc>>
Pop(t) == Reading(t) /\ evq' = Tail(evq) /\ UNCHANGED <<link, hdl, forced>>
PopConn == LET c == Head(evq).c IN
  Pop("conn") /\ conns' = [conns EXCEPT ![hdl[c]] = c]
PopAcl == Pop("acl") /\ UNCHANGED conns
PopDisc == LET c == Head(evq).c IN
  Pop("disc") /\ conns' = [conns EXCEPT ![hdl[c]] = None]
Removal(c) ==
  /\ hdl[c] \in Handles /\ conns[hdl[c]] = c
  /\ conns' = [conns EXCEPT ![hdl[c]] = None] /\ forced' = forced \cup {c}
  /\ UNCHANGED <<evq, link, hdl, lpc>>
Sweep ==
  /\ lpc' = "sweep" /\ conns' = [h \in Handles |-> None]
  /\ UNCHANGED <<evq, link, hdl, forced>>
Quiet == UNCHANGED <<evq, link, hdl, conns, forced>> /\ (Serving' => Serving)

StepKind ==
  \/ \E c \in Conns, h \in Handles : Up(c, h)
  \/ \E h \in Handles : Packet(h) \/ Down(h)
  \/ PopConn \/ PopAcl \/ PopDisc
  \/ \E c \in Conns : Removal(c)
  \/ Sweep \/ Quiet

(* Every step is of one of these kinds. *)
LEMMA StepKinds == TypeOK /\ HasHandle /\ [Next]_vars => StepKind
<1> SUFFICES ASSUME TypeOK, HasHandle, [Next]_vars  PROVE StepKind
  OBVIOUS
<1> USE DEF connVars, rxVars, loopVars, ctrlVars
<1>0. CASE UNCHANGED vars
  BY <1>0 DEF vars, StepKind, Quiet, Serving
<1>1. ASSUME NEW c \in Conns, NEW h \in Handles, LinkUp(c, h)  PROVE StepKind
  <2>1. Up(c, h)
    BY <1>1 DEF LinkUp, Up
  <2> QED  BY <2>1 DEF StepKind
<1>2. ASSUME NEW h \in Handles, NEW k \in Kinds, Receive(h, k)  PROVE StepKind
  <2>1. Packet(h)
    BY <1>2 DEF Receive, Packet
  <2> QED  BY <2>1 DEF StepKind
<1>4. ASSUME NEW h \in Handles, LinkLoss(h)  PROVE StepKind
  <2>1. Down(h)
    BY <1>4 DEF LinkLoss, Down
  <2> QED  BY <2>1 DEF StepKind
<1>5. ASSUME NEW c \in Conns, ExecLate(c)  PROVE StepKind
  <2>1. hdl[c] \in Handles
    BY <1>5 DEF ExecLate, HasHandle, TypeOK
  <2>2. Down(hdl[c]) \/ Quiet
    BY <1>5 DEF ExecLate, ExecDisconnect, Down, Quiet, Serving
  <2> QED  BY <2>1, <2>2 DEF StepKind
<1>6. ASSUME NEW c \in Conns, NEW x \in Closers, CloserStep(c, x)  PROVE StepKind
  <2>a. cpc[c][x] # "idle" => hdl[c] \in Handles
    BY DEF HasHandle, TypeOK
  <2>1. CASE CloseAccepted(c, x)
    <3>1. Down(hdl[c]) /\ hdl[c] \in Handles
      BY <2>1, <2>a DEF CloseAccepted, ExecDisconnect, Down
    <3> QED  BY <3>1 DEF StepKind
  <2>2. CASE cleanupConn(c, x)
    <3>1. Removal(c) \/ Quiet
      BY <2>2, <2>a DEF cleanupConn, Registered, Deregister, Removal, Quiet, Serving
    <3> QED  BY <3>1 DEF StepKind
  <2>3. CASE \/ CloseCheck(c, x) \/ CloseSend(c, x) \/ CloseRefused(c, x)
             \/ CloseUnanswered(c, x) \/ CloseSeesDone(c, x) \/ CloseForced(c, x)
    <3>1. Quiet
      BY <2>3 DEF CloseCheck, CloseSend, CloseRefused, CloseUnanswered, CloseSeesDone,
                  CloseForced, Quiet, Serving
    <3> QED  BY <3>1 DEF StepKind
  <2> QED  BY <1>6, <2>1, <2>2, <2>3 DEF CloserStep
<1>7. CASE handleLEConnectionComplete
  <2>1. PopConn
    BY <1>7 DEF handleLEConnectionComplete, PopConn, Pop
  <2> QED  BY <2>1 DEF StepKind
<1>8. CASE handleACL
  <2>1. PopAcl
    BY <1>8 DEF handleACL, PopAcl, Pop
  <2> QED  BY <2>1 DEF StepKind
<1>9. CASE handleDisconnectionComplete
  <2> DEFINE h == hdl[Head(evq).c]
  <2>1. Pop("disc")
    BY <1>9 DEF handleDisconnectionComplete, Pop
  <2>2. conns' = [conns EXCEPT ![h] = None]
    <3>1. CASE conns[h] = None
      <4>1. UNCHANGED conns
        BY <1>9, <3>1 DEF handleDisconnectionComplete
      <4>2. conns \in [Handles -> Conns \cup {None}]
        BY DEF TypeOK
      <4> HIDE DEF h
      <4> QED  BY <3>1, <4>1, <4>2
    <3>2. CASE conns[h] # None
      BY <1>9, <3>2 DEF handleDisconnectionComplete, Deregister
    <3> QED  BY <3>1, <3>2
  <2>3. PopDisc
    BY <2>1, <2>2 DEF PopDisc
  <2> QED  BY <2>3 DEF StepKind
<1>10. CASE cleanupConns
  <2>1. Sweep
    BY <1>10 DEF cleanupConns, LoopNext, Sweep
  <2> QED  BY <2>1 DEF StepKind
<1>11. CASE deliverACL \/ closeChans \/ closeDone
  <2>1. Quiet
    BY <1>11 DEF deliverACL, closeChans, closeDone, LoopNext, Quiet, Serving
  <2> QED  BY <2>1 DEF StepKind
<1>12. ASSUME NEW c \in Conns, cleanupOne(c) \/ AppClose(c) \/ Read(c)  PROVE StepKind
  <2>1. Quiet
    BY <1>12 DEF cleanupOne, AppClose, Read, Quiet, Serving
  <2> QED  BY <2>1 DEF StepKind
<1>13. ASSUME NEW c \in Conns, RecombineStep(c)  PROVE StepKind
  <2>1. Quiet
    BY <1>13 DEF RecombineStep, recombine, recombineEOF, deliverPDU, deliverClosed, drain,
                 Quiet, Serving
  <2> QED  BY <2>1 DEF StepKind
<1>14. CASE Next
  BY <1>14, NextCases, <1>1, <1>2, <1>4, <1>5, <1>6, <1>7, <1>8, <1>9, <1>10, <1>11,
     <1>12, <1>13
<1> QED  BY <1>0, <1>14

(* Each kind's event and its place.  Up, Packet and Down add one at the    *)
(* end.                                                                    *)
Added(tt, d) ==
  /\ Len(evq) \in Nat /\ Len(evq') = Len(evq) + 1
  /\ \A i \in 1..Len(evq) : evq'[i] = evq[i]
  /\ evq'[Len(evq) + 1].t = tt /\ evq'[Len(evq) + 1].c = d
Removed ==
  /\ Len(evq) \in Nat \ {0} /\ Len(evq') = Len(evq) - 1
  /\ \A i \in 1..(Len(evq) - 1) : evq'[i] = evq[i + 1]
  /\ Head(evq) = evq[1] /\ evq[1].c \in Conns /\ hdl[evq[1].c] \in Handles

(* A connection complete event is queued for the new connection. *)
LEMMA UpAdds ==
  ASSUME TypeOK, NEW c \in Conns, NEW h \in Handles, Up(c, h)
  PROVE  Added("conn", c)
<1>1. [t |-> "conn", c |-> c] \in Events
  BY DEF Events
<1> QED  BY <1>1, QueueAppend DEF Up, TypeOK, Added

(* An ACL packet is queued for the connection of its link. *)
LEMMA PacketAdds ==
  ASSUME TypeOK, NEW h \in Handles, Packet(h)
  PROVE  Added("acl", link[h])
<1>1. PICK k \in Kinds : evq' = Append(evq, [t |-> "acl", c |-> link[h], k |-> k])
  BY DEF Packet
<1>2. [t |-> "acl", c |-> link[h], k |-> k] \in Events
  BY DEF Events, TypeOK, Packet
<1> QED  BY <1>1, <1>2, QueueAppend DEF TypeOK, Added

(* A disconnection complete event is queued for the connection of its      *)
(* link.                                                                   *)
LEMMA DownAdds ==
  ASSUME TypeOK, NEW h \in Handles, Down(h)
  PROVE  Added("disc", link[h])
<1>1. [t |-> "disc", c |-> link[h]] \in Events
  BY DEF Events, TypeOK, Down, DropLink
<1> QED  BY <1>1, QueueAppend DEF Down, DropLink, TypeOK, Added

(* sktLoop takes the first event of the queue, and the controller's state  *)
(* stays as it is.                                                         *)
LEMMA PopRemoves ==
  ASSUME TypeOK, HasHandle, NEW tt, Pop(tt)
  PROVE  Removed /\ evq[1].t = tt /\ UNCHANGED <<link, hdl, forced>>
<1>1. evq \in Seq(Events) /\ evq # <<>> /\ evq' = Tail(evq) /\ Head(evq).t = tt
  BY DEF TypeOK, Pop, Reading
<1>2. /\ Len(evq) \in Nat \ {0} /\ Len(evq') = Len(evq) - 1
      /\ \A i \in 1..(Len(evq) - 1) : evq'[i] = evq[i + 1]
      /\ Head(evq) = evq[1] /\ Head(evq) \in Events
  BY <1>1, QueueTail
<1>3. evq[1].c \in Conns
  BY <1>2 DEF Events
<1>4. hdl[evq[1].c] # None
  BY <1>2 DEF HasHandle
<1> QED  BY <1>1, <1>2, <1>3, <1>4 DEF TypeOK, Pop, Removed

(* The events name connections. *)
LEMMA EventConn == TypeOK => /\ Len(evq) \in Nat
                             /\ \A i \in 1..Len(evq) : evq[i].c \in Conns
  BY ElementOfSeq, LenProperties DEF TypeOK, Events
-----------------------------------------------------------------------------
(* The order of the events survives each kind of step.                     *)
LEMMA HandleStep ==
  ASSUME TypeOK, HasHandle, StepKind
  PROVE  /\ \A c \in Conns : hdl[c] # None => hdl'[c] = hdl[c]
         /\ \A h \in Handles : link'[h] # None => hdl'[link'[h]] = h
         /\ \A i \in 1..Len(evq') : hdl'[evq'[i].c] # None
<1> USE NoneAssumption, EventConn
<1>1. ASSUME NEW c \in Conns, NEW h \in Handles, Up(c, h)
      PROVE  /\ \A d \in Conns : hdl[d] # None => hdl'[d] = hdl[d]
             /\ \A g \in Handles : link'[g] # None => hdl'[link'[g]] = g
             /\ \A i \in 1..Len(evq') : hdl'[evq'[i].c] # None
  <2>1. Added("conn", c)
    BY <1>1, UpAdds
  <2> QED  BY <1>1, <2>1 DEF Up, Added, TypeOK, HasHandle
<1>2. ASSUME NEW h \in Handles, Packet(h)
      PROVE  /\ hdl' = hdl /\ link' = link
             /\ \A i \in 1..Len(evq') : hdl'[evq'[i].c] # None
  <2>1. Added("acl", link[h])
    BY <1>2, PacketAdds
  <2> QED  BY <1>2, <2>1 DEF Packet, Added, TypeOK, HasHandle
<1>3. ASSUME NEW h \in Handles, Down(h)
      PROVE  /\ hdl' = hdl
             /\ \A g \in Handles : link'[g] # None => hdl'[link'[g]] = g
             /\ \A i \in 1..Len(evq') : hdl'[evq'[i].c] # None
  <2>1. Added("disc", link[h])
    BY <1>3, DownAdds
  <2> QED  BY <1>3, <2>1 DEF Down, DropLink, Added, TypeOK, HasHandle
<1>4. ASSUME NEW tt, Pop(tt)
      PROVE  /\ hdl' = hdl /\ link' = link
             /\ \A i \in 1..Len(evq') : hdl'[evq'[i].c] # None
  <2>1. Removed /\ UNCHANGED <<link, hdl>>
    BY <1>4, PopRemoves
  <2> QED  BY <2>1 DEF Removed, HasHandle
<1>5. CASE PopConn \/ PopAcl \/ PopDisc
  BY <1>4, <1>5 DEF PopConn, PopAcl, PopDisc, HasHandle
<1>6. CASE Sweep \/ Quiet \/ \E c \in Conns : Removal(c)
  BY <1>6 DEF Sweep, Quiet, Removal, HasHandle
<1> QED  BY <1>1, <1>2, <1>3, <1>5, <1>6 DEF StepKind, HasHandle

(* A step that only takes an event, or touches no event at all, keeps the  *)
(* four orders.                                                            *)
Orders == ConnFirst /\ DiscLast /\ HandleOrder /\ LinkOrder

(* Removing the first event leaves the others in their order. *)
LEMMA OrdersPop ==
  ASSUME Orders, Removed, UNCHANGED <<link, hdl>>
  PROVE  Orders'
<1> USE DEF Removed
<1>1. ConnFirst'
  <2> SUFFICES ASSUME NEW i \in 1..Len(evq'), NEW j \in 1..Len(evq'),
                      evq'[j].t = "conn", evq'[i].c = evq'[j].c
               PROVE  j <= i
    BY DEF ConnFirst
  <2>1. i + 1 \in 1..Len(evq) /\ j + 1 \in 1..Len(evq)
    OBVIOUS
  <2> QED  BY <2>1 DEF Orders, ConnFirst
<1>2. DiscLast'
  <2> SUFFICES ASSUME NEW i \in 1..Len(evq'), evq'[i].t = "disc"
               PROVE  /\ link[hdl[evq'[i].c]] # evq'[i].c
                      /\ \A j \in 1..Len(evq') : evq'[j].c = evq'[i].c => j <= i
    BY DEF DiscLast
  <2>1. i + 1 \in 1..Len(evq) /\ evq'[i] = evq[i + 1]
    OBVIOUS
  <2>2. link[hdl[evq'[i].c]] # evq'[i].c
    BY <2>1 DEF Orders, DiscLast
  <2>3. ASSUME NEW j \in 1..Len(evq'), evq'[j].c = evq'[i].c  PROVE j <= i
    <3>1. j + 1 \in 1..Len(evq) /\ evq'[j] = evq[j + 1]
      OBVIOUS
    <3>2. j + 1 <= i + 1
      BY <2>1, <2>3, <3>1 DEF Orders, DiscLast
    <3> QED  BY <3>2
  <2> QED  BY <2>2, <2>3
<1>3. HandleOrder'
  <2> SUFFICES ASSUME NEW i \in 1..Len(evq'), NEW j \in 1..Len(evq'),
                      i < j, evq'[i].c # evq'[j].c, hdl[evq'[i].c] = hdl[evq'[j].c]
               PROVE  \E k \in (i + 1)..j : evq'[k].t = "conn" /\ evq'[k].c = evq'[j].c
    BY DEF HandleOrder
  <2>1. /\ i + 1 \in 1..Len(evq) /\ j + 1 \in 1..Len(evq) /\ i + 1 < j + 1
        /\ evq'[i] = evq[i + 1] /\ evq'[j] = evq[j + 1]
    OBVIOUS
  <2>2. PICK k \in (i + 1 + 1)..(j + 1) : evq[k].t = "conn" /\ evq[k].c = evq[j + 1].c
    BY <2>1 DEF Orders, HandleOrder
  <2>3. k - 1 \in (i + 1)..j /\ evq'[k - 1] = evq[k]
    <3>1. /\ k - 1 \in (i + 1)..j /\ k - 1 \in 1..(Len(evq) - 1)
          /\ (k - 1) + 1 = k
      BY <2>1
    <3> QED  BY <3>1
  <2> QED  BY <2>1, <2>2, <2>3
<1>4. LinkOrder'
  <2> SUFFICES ASSUME NEW h \in Handles, NEW i \in 1..Len(evq'),
                      link[h] # None, evq'[i].c # link[h], hdl[evq'[i].c] = h
               PROVE  \E k \in (i + 1)..Len(evq') : evq'[k].t = "conn" /\ evq'[k].c = link[h]
    BY DEF LinkOrder
  <2>1. i + 1 \in 1..Len(evq) /\ evq'[i] = evq[i + 1]
    OBVIOUS
  <2>2. PICK k \in (i + 1 + 1)..Len(evq) : evq[k].t = "conn" /\ evq[k].c = link[h]
    BY <2>1 DEF Orders, LinkOrder
  <2>3. k - 1 \in (i + 1)..Len(evq') /\ evq'[k - 1] = evq[k]
    BY <2>1
  <2> QED  BY <2>2, <2>3
<1> QED  BY <1>1, <1>2, <1>3, <1>4 DEF Orders

(* A new link: its connection has no event yet. *)
LEMMA OrdersUp ==
  ASSUME TypeOK, HasHandle, Orders, NEW c \in Conns, NEW h \in Handles, Up(c, h)
  PROVE  Orders'
<1> DEFINE n == Len(evq)
<1>0. Added("conn", c)
  BY UpAdds
<1>1. /\ n \in Nat /\ Len(evq') = n + 1
      /\ \A i \in 1..n : evq'[i] = evq[i] /\ evq[i].c \in Conns
      /\ evq'[n + 1].t = "conn" /\ evq'[n + 1].c = c
  BY <1>0, EventConn DEF Added
<1>2. \A i \in 1..n : evq[i].c # c /\ hdl'[evq[i].c] = hdl[evq[i].c]
  BY <1>1 DEF Up, HasHandle, TypeOK
<1>3. /\ hdl'[c] = h /\ link'[h] = c
      /\ \A g \in Handles : g # h => link'[g] = link[g]
      /\ \A g \in Handles : link[g] # c
      /\ \A d \in Conns : d # c => hdl'[d] = hdl[d]
  <2>1. \A g \in Handles : link[g] # c
    BY NoneAssumption DEF Up, HasHandle
  <2>2. hdl \in [Conns -> Handles \cup {None}] /\ link \in [Handles -> Conns \cup {None}]
    BY DEF TypeOK
  <2> QED  BY <2>1, <2>2 DEF Up
<1>a. \A i \in 1..n : evq[i].c \in Conns /\ hdl[evq[i].c] \in Handles
  BY <1>1 DEF HasHandle, TypeOK
<1> HIDE DEF n
<1>4. ConnFirst'
  <2> SUFFICES ASSUME NEW i \in 1..(n + 1), NEW j \in 1..(n + 1),
                      evq'[j].t = "conn", evq'[i].c = evq'[j].c
               PROVE  j <= i
    BY <1>1 DEF ConnFirst
  <2>1. CASE i \in 1..n /\ j \in 1..n
    BY <1>1, <2>1 DEF Orders, ConnFirst, n
  <2>2. CASE i = n + 1
    BY <1>1, <2>2
  <2>3. CASE j = n + 1 /\ i \in 1..n
    BY <1>1, <1>2, <2>3
  <2> QED  BY <1>1, <2>1, <2>2, <2>3
<1>5. DiscLast'
  <2> SUFFICES ASSUME NEW i \in 1..(n + 1), evq'[i].t = "disc"
               PROVE  /\ link'[hdl'[evq'[i].c]] # evq'[i].c
                      /\ \A j \in 1..(n + 1) : evq'[j].c = evq'[i].c => j <= i
    BY <1>1 DEF DiscLast
  <2>1. i \in 1..n
    BY <1>1
  <2>2. link[hdl[evq[i].c]] # evq[i].c /\ \A j \in 1..n : evq[j].c = evq[i].c => j <= i
    BY <1>1, <2>1 DEF Orders, DiscLast, n
  <2>3. link'[hdl'[evq'[i].c]] # evq'[i].c
    BY <1>1, <1>2, <1>3, <1>a, <2>1, <2>2
  <2> QED  BY <1>1, <1>2, <2>1, <2>2, <2>3
<1>6. HandleOrder'
  <2> SUFFICES ASSUME NEW i \in 1..(n + 1), NEW j \in 1..(n + 1),
                      i < j, evq'[i].c # evq'[j].c, hdl'[evq'[i].c] = hdl'[evq'[j].c]
               PROVE  \E k \in (i + 1)..j : evq'[k].t = "conn" /\ evq'[k].c = evq'[j].c
    BY <1>1 DEF HandleOrder
  <2>1. CASE j = n + 1
    BY <1>1, <2>1
  <2>2. CASE j \in 1..n
    <3>1. i \in 1..n /\ evq[i].c # evq[j].c /\ hdl[evq[i].c] = hdl[evq[j].c]
      BY <1>1, <1>2, <2>2
    <3>2. PICK k \in (i + 1)..j : evq[k].t = "conn" /\ evq[k].c = evq[j].c
      BY <2>2, <3>1 DEF Orders, HandleOrder, n
    <3>3. k \in 1..n
      BY <2>2, <3>1, <1>1
    <3> QED  BY <1>1, <2>2, <3>2, <3>3
  <2> QED  BY <1>1, <2>1, <2>2
<1>7. LinkOrder'
  <2> SUFFICES ASSUME NEW g \in Handles, NEW i \in 1..(n + 1),
                      link'[g] # None, evq'[i].c # link'[g], hdl'[evq'[i].c] = g
               PROVE  \E k \in (i + 1)..(n + 1) : evq'[k].t = "conn" /\ evq'[k].c = link'[g]
    BY <1>1 DEF LinkOrder
  <2>1. i \in 1..n
    BY <1>1, <1>3
  <2>2. CASE g = h
    <3>1. n + 1 \in (i + 1)..(n + 1)
      BY <1>1, <2>1
    <3> QED  BY <1>1, <1>3, <2>2, <3>1
  <2>3. CASE g # h
    <3>1. PICK k \in (i + 1)..n : evq[k].t = "conn" /\ evq[k].c = link[g]
      BY <1>1, <1>2, <1>3, <2>1, <2>3 DEF Orders, LinkOrder, n
    <3>2. k \in 1..n /\ k \in (i + 1)..(n + 1)
      BY <1>1, <2>1
    <3> QED  BY <1>1, <1>3, <2>3, <3>1, <3>2
  <2> QED  BY <2>2, <2>3
<1> QED  BY <1>4, <1>5, <1>6, <1>7 DEF Orders

(* An event of a link that is up: no disconnect of it is queued, and its   *)
(* LE Connection Complete is behind every other link's event.              *)
LEMMA OrdersAdd ==
  ASSUME TypeOK, HasHandle, Orders, NEW h \in Handles, link[h] # None,
         NEW tt \in {"acl", "disc"}, Added(tt, link[h]), UNCHANGED hdl,
         \/ UNCHANGED link /\ tt = "acl"
         \/ link' = [link EXCEPT ![h] = None]
  PROVE  Orders'
<1> DEFINE n == Len(evq)
           d == link[h]
<1>1. /\ n \in Nat /\ Len(evq') = n + 1
      /\ \A i \in 1..n : evq'[i] = evq[i] /\ evq[i].c \in Conns
      /\ evq'[n + 1].t = tt /\ evq'[n + 1].c = d /\ hdl' = hdl
  BY EventConn DEF Added
<1>2. \A i \in 1..n : evq[i].t = "disc" => evq[i].c # d
  BY <1>1 DEF HasHandle, Orders, DiscLast
<1>3. /\ hdl[d] = h /\ d \in Conns /\ d # None /\ tt # "conn"
      /\ \A g \in Handles : link'[g] \in {link[g], None}
      /\ tt = "disc" => link'[h] = None
  BY DEF HasHandle, TypeOK
<1>a. \A i \in 1..n : hdl[evq[i].c] \in Handles
  BY <1>1 DEF HasHandle, TypeOK
<1> HIDE DEF n, d
<1>4. ConnFirst'
  <2> SUFFICES ASSUME NEW i \in 1..(n + 1), NEW j \in 1..(n + 1),
                      evq'[j].t = "conn", evq'[i].c = evq'[j].c
               PROVE  j <= i
    BY <1>1 DEF ConnFirst
  <2>1. j \in 1..n
    BY <1>1, <1>3
  <2>2. CASE i = n + 1
    BY <1>1, <2>2
  <2>3. CASE i \in 1..n
    BY <1>1, <2>1, <2>3 DEF Orders, ConnFirst, n
  <2> QED  BY <1>1, <2>2, <2>3
<1>5. DiscLast'
  <2> SUFFICES ASSUME NEW i \in 1..(n + 1), evq'[i].t = "disc"
               PROVE  /\ link'[hdl[evq'[i].c]] # evq'[i].c
                      /\ \A j \in 1..(n + 1) : evq'[j].c = evq'[i].c => j <= i
    BY <1>1 DEF DiscLast
  <2>1. CASE i = n + 1
    BY <1>1, <1>3, <2>1
  <2>2. CASE i \in 1..n
    <3>1. link[hdl[evq[i].c]] # evq[i].c /\ \A j \in 1..n : evq[j].c = evq[i].c => j <= i
      BY <1>1, <2>2 DEF Orders, DiscLast, n
    <3>2. link'[hdl[evq'[i].c]] # evq'[i].c
      BY <1>1, <1>3, <1>a, <2>2, <3>1, NoneAssumption
    <3> QED  BY <1>1, <1>2, <2>2, <3>1, <3>2
  <2> QED  BY <1>1, <2>1, <2>2
<1>6. HandleOrder'
  <2> SUFFICES ASSUME NEW i \in 1..(n + 1), NEW j \in 1..(n + 1),
                      i < j, evq'[i].c # evq'[j].c, hdl[evq'[i].c] = hdl[evq'[j].c]
               PROVE  \E k \in (i + 1)..j : evq'[k].t = "conn" /\ evq'[k].c = evq'[j].c
    BY <1>1 DEF HandleOrder
  <2>0. i \in 1..n
    BY <1>1
  <2>1. CASE j = n + 1
    <3>1. evq[i].c # d /\ hdl[evq[i].c] = h
      BY <1>1, <1>3, <2>0, <2>1
    <3>2. PICK k \in (i + 1)..n : evq[k].t = "conn" /\ evq[k].c = d
      BY <1>3, <2>0, <3>1 DEF Orders, LinkOrder, n, d
    <3>3. k \in 1..n /\ k \in (i + 1)..j
      BY <1>1, <2>0, <2>1
    <3> QED  BY <1>1, <2>1, <3>2, <3>3
  <2>2. CASE j \in 1..n
    <3>1. evq[i].c # evq[j].c /\ hdl[evq[i].c] = hdl[evq[j].c]
      BY <1>1, <2>0, <2>2
    <3>2. PICK k \in (i + 1)..j : evq[k].t = "conn" /\ evq[k].c = evq[j].c
      BY <2>0, <2>2, <3>1 DEF Orders, HandleOrder, n
    <3>3. k \in 1..n
      BY <2>0, <2>2, <1>1
    <3> QED  BY <1>1, <2>2, <3>2, <3>3
  <2> QED  BY <1>1, <2>1, <2>2
<1>7. LinkOrder'
  <2> SUFFICES ASSUME NEW g \in Handles, NEW i \in 1..(n + 1),
                      link'[g] # None, evq'[i].c # link'[g], hdl[evq'[i].c] = g
               PROVE  \E k \in (i + 1)..(n + 1) : evq'[k].t = "conn" /\ evq'[k].c = link'[g]
    BY <1>1 DEF LinkOrder
  <2>1. link'[g] = link[g]
    BY <1>3
  <2>2. i \in 1..n
    BY <1>1, <1>3, <2>1 DEF d
  <2>3. PICK k \in (i + 1)..n : evq[k].t = "conn" /\ evq[k].c = link[g]
    BY <1>1, <2>1, <2>2 DEF Orders, LinkOrder, n
  <2>4. k \in 1..n /\ k \in (i + 1)..(n + 1)
    BY <1>1, <2>2
  <2> QED  BY <1>1, <2>1, <2>3, <2>4
<1> QED  BY <1>4, <1>5, <1>6, <1>7 DEF Orders

(* The four orders together. *)
LEMMA OrdersStep ==
  ASSUME TypeOK, HasHandle, Orders, StepKind
  PROVE  Orders'
<1>1. ASSUME NEW c \in Conns, NEW h \in Handles, Up(c, h)  PROVE Orders'
  BY <1>1, OrdersUp
<1>2. ASSUME NEW h \in Handles, Packet(h)  PROVE Orders'
  BY <1>2, PacketAdds, OrdersAdd DEF Packet
<1>3. ASSUME NEW h \in Handles, Down(h)  PROVE Orders'
  BY <1>3, DownAdds, OrdersAdd DEF Down, DropLink
<1>4. CASE PopConn \/ PopAcl \/ PopDisc
  BY <1>4, PopRemoves, OrdersPop DEF PopConn, PopAcl, PopDisc
<1>5. CASE Sweep \/ Quiet \/ \E c \in Conns : Removal(c)
  BY <1>5 DEF Sweep, Quiet, Removal, Orders, ConnFirst, DiscLast, HandleOrder, LinkOrder
<1> QED  BY <1>1, <1>2, <1>3, <1>4, <1>5 DEF StepKind
-----------------------------------------------------------------------------
(* Every queued event, and every event still to come, finds its Conn.      *)
Resolve == EventsResolve /\ LinksResolve

(* Resolves and Announced of the next state, for a given connection. *)
ResolvesNext(c) == conns'[hdl'[c]] = c \/ (conns'[hdl'[c]] = None /\ c \in forced')
AnnouncedNext(c) == \E i \in 1..Len(evq') : evq'[i].t = "conn" /\ evq'[i].c = c

(* A new link: nothing is queued for its connection but the connection     *)
(* complete event that is added.                                           *)
LEMMA ResolveUp ==
  ASSUME TypeOK, HasHandle, Resolve, NEW c \in Conns, NEW h \in Handles, Up(c, h)
  PROVE  Resolve'
<1> DEFINE n == Len(evq)
<1>0. Added("conn", c)
  BY UpAdds
<1>1. /\ n \in Nat /\ Len(evq') = n + 1
      /\ \A i \in 1..n : evq'[i] = evq[i] /\ evq[i].c \in Conns
      /\ evq'[n + 1].t = "conn" /\ evq'[n + 1].c = c
  BY <1>0, EventConn DEF Added
<1>2. /\ \A d \in Conns : hdl[d] # None => hdl'[d] = hdl[d]
      /\ \A g \in Handles : link[g] # None => hdl[link[g]] # None /\ link[g] \in Conns
      /\ \A i \in 1..n : hdl[evq[i].c] # None
      /\ UNCHANGED <<conns, forced, lpc>>
  BY NoneAssumption DEF Up, TypeOK, HasHandle
<1>3. \A d \in Conns : hdl[d] # None /\ Resolves(d) => ResolvesNext(d)
  BY <1>2 DEF Resolves, ResolvesNext
<1>4. \A d : Announced(d) => AnnouncedNext(d)
  BY <1>1 DEF Announced, AnnouncedNext, n
<1>5. AnnouncedNext(c)
  BY <1>1 DEF AnnouncedNext
<1>6. Serving' => Serving
  BY <1>2 DEF Serving
<1>7. link'[h] = c /\ \A g \in Handles : g # h => link'[g] = link[g]
  BY DEF Up, TypeOK
<1>8. LinksResolve'
  <2> SUFFICES ASSUME Serving', NEW g \in Handles, link'[g] # None
               PROVE  ResolvesNext(link'[g]) \/ AnnouncedNext(link'[g])
    BY DEF LinksResolve, Resolves, ResolvesNext, Announced, AnnouncedNext
  <2> QED  BY <1>2, <1>3, <1>4, <1>5, <1>6, <1>7 DEF Resolve, LinksResolve
<1>9. EventsResolve'
  <2> SUFFICES ASSUME Serving', NEW i \in 1..Len(evq'), evq'[i].t # "conn"
               PROVE  \/ ResolvesNext(evq'[i].c)
                      \/ \E j \in 1..(i - 1) : evq'[j].t = "conn" /\ evq'[j].c = evq'[i].c
    BY DEF EventsResolve, Resolves, ResolvesNext
  <2>1. i \in 1..n /\ evq'[i] = evq[i]
    BY <1>1
  <2>2. \/ Resolves(evq[i].c)
        \/ \E j \in 1..(i - 1) : evq[j].t = "conn" /\ evq[j].c = evq[i].c
    BY <1>6, <2>1 DEF Resolve, EventsResolve, n
  <2>3. \A j \in 1..(i - 1) : evq'[j] = evq[j]
    BY <1>1, <2>1
  <2> QED  BY <1>1, <1>2, <1>3, <2>1, <2>2, <2>3
<1> QED  BY <1>8, <1>9 DEF Resolve

(* An event queued for a connection of a live link resolves as the link    *)
(* did.                                                                    *)
LEMMA ResolveAdd ==
  ASSUME TypeOK, HasHandle, Resolve, NEW h \in Handles, link[h] # None,
         NEW tt \in {"acl", "disc"}, Added(tt, link[h]),
         UNCHANGED <<hdl, conns, forced, lpc>>,
         UNCHANGED link \/ link' = [link EXCEPT ![h] = None]
  PROVE  Resolve'
<1> DEFINE n == Len(evq)
<1>1. /\ n \in Nat /\ Len(evq') = n + 1
      /\ \A i \in 1..n : evq'[i] = evq[i]
      /\ evq'[n + 1].t = tt /\ evq'[n + 1].c = link[h]
  BY DEF Added
<1>2. \A d : Resolves(d) => ResolvesNext(d)
  BY DEF Resolves, ResolvesNext
<1>3. \A d : Announced(d) => AnnouncedNext(d)
  BY <1>1 DEF Announced, AnnouncedNext, n
<1>4. Serving' => Serving
  BY DEF Serving
<1>5. \A g \in Handles : link'[g] \in {link[g], None}
  BY DEF TypeOK
<1>6. LinksResolve'
  <2> SUFFICES ASSUME Serving', NEW g \in Handles, link'[g] # None
               PROVE  ResolvesNext(link'[g]) \/ AnnouncedNext(link'[g])
    BY DEF LinksResolve, Resolves, ResolvesNext, Announced, AnnouncedNext
  <2> QED  BY <1>2, <1>3, <1>4, <1>5 DEF Resolve, LinksResolve
<1>7. EventsResolve'
  <2> SUFFICES ASSUME Serving', NEW i \in 1..Len(evq'), evq'[i].t # "conn"
               PROVE  \/ ResolvesNext(evq'[i].c)
                      \/ \E j \in 1..(i - 1) : evq'[j].t = "conn" /\ evq'[j].c = evq'[i].c
    BY DEF EventsResolve, Resolves, ResolvesNext
  <2>1. CASE i \in 1..n
    <3>1. \/ Resolves(evq[i].c)
          \/ \E j \in 1..(i - 1) : evq[j].t = "conn" /\ evq[j].c = evq[i].c
      BY <1>1, <1>4, <2>1 DEF Resolve, EventsResolve, n
    <3>2. \A j \in 1..(i - 1) : evq'[j] = evq[j]
      BY <1>1, <2>1
    <3> QED  BY <1>1, <1>2, <2>1, <3>1, <3>2
  <2>2. CASE i = n + 1
    <3>1. Resolves(link[h]) \/ Announced(link[h])
      BY <1>4 DEF Resolve, LinksResolve
    <3>2. Announced(link[h]) => \E j \in 1..n : evq[j].t = "conn" /\ evq[j].c = link[h]
      BY DEF Announced, n
    <3>3. 1..(i - 1) = 1..n
      BY <1>1, <2>2
    <3> QED  BY <1>1, <1>2, <2>2, <3>1, <3>2, <3>3
  <2> QED  BY <1>1, <2>1, <2>2
<1> QED  BY <1>6, <1>7 DEF Resolve

(* The handler of an LE Connection Complete registers its Conn over the    *)
(* previous one of the handle, whose events are all behind it.  That of a  *)
(* Disconnection Complete removes the handle's Conn, whose events are      *)
(* over; the next one's are announced.                                     *)
LEMMA ResolvePop ==
  ASSUME TypeOK, HasHandle, Orders, Resolve, PopConn \/ PopAcl \/ PopDisc
  PROVE  Resolve'
<1> DEFINE n == Len(evq)
           d == evq[1].c
<1>1. /\ Removed /\ UNCHANGED <<link, hdl, forced>> /\ Serving
      /\ evq[1].t \in {"conn", "acl", "disc"}
      /\ evq[1].t = "conn" => conns' = [conns EXCEPT ![hdl[d]] = d]
      /\ evq[1].t = "acl" => conns' = conns
      /\ evq[1].t = "disc" => conns' = [conns EXCEPT ![hdl[d]] = None]
  <2>1. ASSUME NEW tt, Pop(tt)
        PROVE  Removed /\ evq[1].t = tt /\ UNCHANGED <<link, hdl, forced>> /\ Serving
    BY <2>1, PopRemoves DEF Pop, Reading, Serving
  <2>2. Removed => Head(evq) = evq[1]
    BY DEF Removed
  <2> QED  BY <2>1, <2>2 DEF PopConn, PopAcl, PopDisc
<1>2. /\ n \in Nat \ {0} /\ Len(evq') = n - 1
      /\ \A i \in 1..(n - 1) : evq'[i] = evq[i + 1]
      /\ d \in Conns /\ hdl[d] \in Handles
      /\ \A i \in 1..n : evq[i].c \in Conns
  BY <1>1, EventConn DEF Removed
<1>3. conns \in [Handles -> Conns \cup {None}]
  BY DEF TypeOK
<1>4. \A c \in Conns : hdl[c] # hdl[d] /\ Resolves(c) /\ hdl[c] \in Handles => ResolvesNext(c)
  BY <1>1, <1>2, <1>3 DEF Resolves, ResolvesNext
<1>5. evq[1].t = "conn" => ResolvesNext(d)
  BY <1>1, <1>2, <1>3 DEF Resolves, ResolvesNext
<1>6. evq[1].t = "acl" => \A c \in Conns : Resolves(c) => ResolvesNext(c)
  BY <1>1 DEF Resolves, ResolvesNext
<1>7. \A i \in 1..n : hdl[evq[i].c] \in Handles
  BY <1>2 DEF HasHandle, TypeOK
<1>8. \A g \in Handles : link[g] # None => link[g] \in Conns /\ hdl[link[g]] = g
  BY DEF HasHandle, TypeOK
<1>a. 1 \in 1..n
  BY <1>2
<1>9. ASSUME Serving', NEW i \in 1..Len(evq'), evq'[i].t # "conn"
      PROVE  \/ ResolvesNext(evq'[i].c)
             \/ \E j \in 1..(i - 1) : evq'[j].t = "conn" /\ evq'[j].c = evq'[i].c
  <2> DEFINE e == evq[i + 1]
  <2>1. i + 1 \in 2..n /\ i + 1 \in 1..n /\ evq'[i] = e
    BY <1>2
  <2>2. ASSUME NEW k \in 2..i, evq[k].t = "conn", evq[k].c = e.c
        PROVE  \E j \in 1..(i - 1) : evq'[j].t = "conn" /\ evq'[j].c = evq'[i].c
    <3>1. k - 1 \in 1..(i - 1) /\ evq'[k - 1] = evq[k]
      BY <1>2, <2>1
    <3> QED  BY <2>1, <2>2, <3>1
  <2>3. \/ Resolves(e.c)
        \/ \E j \in 1..((i + 1) - 1) : evq[j].t = "conn" /\ evq[j].c = e.c
    BY <1>1, <1>9, <2>1 DEF Resolve, EventsResolve, n
  <2>4. CASE \E j \in 1..i : evq[j].t = "conn" /\ evq[j].c = e.c
    <3>1. PICK j \in 1..i : evq[j].t = "conn" /\ evq[j].c = e.c
      BY <2>4
    <3>2. CASE j = 1
      BY <1>5, <2>1, <3>1, <3>2
    <3>3. CASE j # 1
      BY <2>2, <3>1, <3>3
    <3> QED  BY <3>2, <3>3
  <2>5. CASE hdl[e.c] # hdl[d] /\ Resolves(e.c)
    BY <1>2, <1>4, <1>7, <2>1, <2>5
  <2>6. CASE e.c = d
    <3>1. evq[1].t # "disc"
      <4>1. evq[1].t = "disc" => i + 1 <= 1
        BY <1>a, <2>1, <2>6 DEF Orders, DiscLast, n
      <4> QED  BY <2>1, <4>1
    <3> QED  BY <1>1, <1>2, <1>5, <1>6, <2>1, <2>3, <2>4, <2>6, <3>1
  <2>7. CASE e.c # d /\ hdl[e.c] = hdl[d]
    <3>1. PICK k \in 2..(i + 1) : evq[k].t = "conn" /\ evq[k].c = e.c
      <4>1. 1 < i + 1 /\ 1 + 1 = 2
        BY <2>1
      <4>2. \E k \in (1 + 1)..(i + 1) : evq[k].t = "conn" /\ evq[k].c = e.c
        BY <1>a, <2>1, <2>7, <4>1 DEF Orders, HandleOrder, n
      <4> QED  BY <4>1, <4>2
    <3>2. k \in 2..i
      BY <1>9, <2>1, <3>1
    <3> QED  BY <2>2, <3>1, <3>2
  <2>8. (i + 1) - 1 = i
    BY <2>1
  <2> QED  BY <2>3, <2>4, <2>5, <2>6, <2>7, <2>8
<1>10. ASSUME Serving', NEW g \in Handles, link[g] # None
       PROVE  ResolvesNext(link[g]) \/ AnnouncedNext(link[g])
  <2> DEFINE l == link[g]
  <2>1. ASSUME NEW k \in 2..n, evq[k].t = "conn", evq[k].c = l  PROVE AnnouncedNext(l)
    <3>1. k - 1 \in 1..(n - 1) /\ evq'[k - 1] = evq[k]
      BY <1>2
    <3> QED  BY <1>2, <2>1, <3>1 DEF AnnouncedNext
  <2>2. Resolves(l) \/ Announced(l)
    BY <1>1, <1>10 DEF Resolve, LinksResolve
  <2>3. CASE Announced(l)
    <3>1. PICK k \in 1..n : evq[k].t = "conn" /\ evq[k].c = l
      BY <2>3 DEF Announced, n
    <3>2. CASE k = 1
      BY <1>1, <1>5, <3>1, <3>2
    <3>3. CASE k # 1
      BY <1>1, <1>2, <2>1, <3>1, <3>3
    <3> QED  BY <3>2, <3>3
  <2>4. CASE hdl[d] # g /\ Resolves(l)
    BY <1>1, <1>4, <1>8, <1>10, <2>4
  <2>5. CASE hdl[d] = g /\ l # d
    <3>1. PICK k \in (1 + 1)..n : evq[k].t = "conn" /\ evq[k].c = l
      BY <1>a, <1>10, <2>5 DEF Orders, LinkOrder, n
    <3>2. k \in 2..n
      BY <1>2
    <3> QED  BY <1>1, <2>1, <3>1, <3>2
  <2>6. CASE l = d
    <3>1. evq[1].t # "disc"
      BY <1>8, <1>10, <1>a, <2>6 DEF Orders, DiscLast, n
    <3> QED  BY <1>1, <1>2, <1>5, <1>6, <2>2, <2>3, <2>6, <3>1
  <2> QED  BY <1>8, <1>10, <2>2, <2>3, <2>4, <2>5, <2>6
<1>11. EventsResolve'
  BY <1>9 DEF EventsResolve, Resolves, ResolvesNext
<1>12. LinksResolve'
  BY <1>1, <1>10 DEF LinksResolve, Resolves, ResolvesNext, Announced, AnnouncedNext
<1> QED  BY <1>11, <1>12 DEF Resolve

(* A forced cleanup removes c only: who else has the handle does not       *)
(* resolve yet, so its LE Connection Complete is still to be handled.      *)
LEMMA ResolveRemoval ==
  ASSUME TypeOK, HasHandle, Resolve, NEW c \in Conns, Removal(c)
  PROVE  Resolve'
<1>1. /\ UNCHANGED <<evq, link, hdl, lpc>> /\ forced' = forced \cup {c}
      /\ conns' = [conns EXCEPT ![hdl[c]] = None]
      /\ conns \in [Handles -> Conns \cup {None}] /\ hdl[c] \in Handles
  BY DEF Removal, TypeOK
<1>2. ASSUME NEW d \in Conns, hdl[d] \in Handles, Resolves(d)  PROVE ResolvesNext(d)
  <2>1. CASE hdl[d] # hdl[c]
    BY <1>1, <1>2, <2>1 DEF Resolves, ResolvesNext
  <2>2. CASE hdl[d] = hdl[c]
    <3>1. d = c
      BY <1>2, <2>2, NoneAssumption DEF Resolves, Removal
    <3> QED  BY <1>1, <3>1 DEF Resolves, ResolvesNext
  <2> QED  BY <2>1, <2>2
<1>3. \A i \in 1..Len(evq) : evq[i].c \in Conns /\ hdl[evq[i].c] \in Handles
  BY EventConn DEF HasHandle, TypeOK
<1>4. \A g \in Handles : link[g] # None => link[g] \in Conns /\ hdl[link[g]] \in Handles
  BY DEF HasHandle, TypeOK
<1>5. (Serving' <=> Serving) /\ \A d : AnnouncedNext(d) <=> Announced(d)
  BY <1>1 DEF Serving, Announced, AnnouncedNext
<1>6. EventsResolve'
  <2> SUFFICES ASSUME Serving', NEW i \in 1..Len(evq), evq[i].t # "conn"
               PROVE  \/ ResolvesNext(evq[i].c)
                      \/ \E j \in 1..(i - 1) : evq[j].t = "conn" /\ evq[j].c = evq[i].c
    BY <1>1 DEF EventsResolve, Resolves, ResolvesNext
  <2> QED  BY <1>2, <1>3, <1>5 DEF Resolve, EventsResolve
<1>7. LinksResolve'
  <2> SUFFICES ASSUME Serving', NEW g \in Handles, link[g] # None
               PROVE  ResolvesNext(link[g]) \/ AnnouncedNext(link[g])
    BY <1>1 DEF LinksResolve, Resolves, ResolvesNext, Announced, AnnouncedNext
  <2> QED  BY <1>2, <1>4, <1>5 DEF Resolve, LinksResolve
<1> QED  BY <1>6, <1>7 DEF Resolve

(* Events and links still resolve to their own connection after any step. *)
LEMMA ResolveStep ==
  ASSUME TypeOK, HasHandle, Orders, Resolve, StepKind
  PROVE  Resolve'
<1>1. ASSUME NEW c \in Conns, NEW h \in Handles, Up(c, h)  PROVE Resolve'
  BY <1>1, ResolveUp
<1>2. ASSUME NEW h \in Handles, Packet(h)  PROVE Resolve'
  BY <1>2, PacketAdds, ResolveAdd DEF Packet
<1>3. ASSUME NEW h \in Handles, Down(h)  PROVE Resolve'
  BY <1>3, DownAdds, ResolveAdd DEF Down, DropLink
<1>4. CASE PopConn \/ PopAcl \/ PopDisc
  BY <1>4, ResolvePop
<1>5. ASSUME NEW c \in Conns, Removal(c)  PROVE Resolve'
  BY <1>5, ResolveRemoval
<1>6. CASE Sweep
  BY <1>6 DEF Sweep, Resolve, EventsResolve, LinksResolve, Serving
<1>7. CASE Quiet
  BY <1>7 DEF Quiet, Resolve, EventsResolve, LinksResolve, Resolves, Announced
<1> QED  BY <1>1, <1>2, <1>3, <1>4, <1>5, <1>6, <1>7 DEF StepKind
-----------------------------------------------------------------------------
(* Registration.  A Conn is registered once, under its own handle; once    *)
(* removed it stays away.                                                  *)
Registry == \A h \in Handles : conns[h] # None => hdl[conns[h]] = h /\ ~Announced(conns[h])

(* Gone of the next state, for a given connection. *)
GoneNext(c) == /\ hdl'[c] # None /\ ~AnnouncedNext(c)
               /\ \A h \in Handles : conns'[h] # c

(* A registered connection has the handle it is registered under and is    *)
(* not announced again; a connection that left the map of connections      *)
(* never returns.                                                          *)
LEMMA RegistryStep ==
  ASSUME TypeOK, HasHandle, Orders, Registry, StepKind
  PROVE  /\ \A h \in Handles : conns'[h] # None =>
              hdl'[conns'[h]] = h /\ ~AnnouncedNext(conns'[h])
         /\ \A c \in Conns : Gone(c) => GoneNext(c)
<1> DEFINE Goal == /\ \A h \in Handles : conns'[h] # None =>
                        hdl'[conns'[h]] = h /\ ~AnnouncedNext(conns'[h])
                   /\ \A c \in Conns : Gone(c) => GoneNext(c)
<1>0. /\ \A h \in Handles : conns[h] \in Conns \cup {None}
      /\ \A c \in Conns : hdl[c] # None => hdl'[c] = hdl[c]
  BY HandleStep DEF TypeOK
<1>a. ASSUME UNCHANGED conns, \A c \in Conns : hdl[c] # None /\ AnnouncedNext(c) => Announced(c)
      PROVE  Goal
  BY <1>0, <1>a, NoneAssumption DEF Registry, Gone, GoneNext
<1>1. ASSUME NEW c \in Conns, NEW h \in Handles, Up(c, h)  PROVE Goal
  <2>1. Added("conn", c)
    BY <1>1, UpAdds
  <2>2. \A d \in Conns : hdl[d] # None /\ AnnouncedNext(d) => Announced(d)
    BY <1>1, <2>1 DEF Up, Added, AnnouncedNext, Announced
  <2> QED  BY <1>1, <1>a, <2>2 DEF Up
<1>2. ASSUME NEW h \in Handles, Packet(h) \/ Down(h)  PROVE Goal
  <2>1. Added("acl", link[h]) \/ Added("disc", link[h])
    BY <1>2, PacketAdds, DownAdds
  <2>2. \A d \in Conns : hdl[d] # None /\ AnnouncedNext(d) => Announced(d)
    BY <2>1 DEF Added, AnnouncedNext, Announced
  <2> QED  BY <1>2, <1>a, <2>2 DEF Packet, Down
<1>b. ASSUME NEW tt, Pop(tt)
      PROVE  /\ Removed /\ UNCHANGED hdl /\ evq[1].t = tt
             /\ \A d \in Conns : AnnouncedNext(d) => Announced(d)
  <2>1. Removed /\ UNCHANGED hdl /\ evq[1].t = tt
    BY <1>b, PopRemoves
  <2>2. ASSUME NEW d \in Conns, AnnouncedNext(d)  PROVE Announced(d)
    <3>1. PICK i \in 1..Len(evq') : evq'[i].t = "conn" /\ evq'[i].c = d
      BY <2>2 DEF AnnouncedNext
    <3>2. i + 1 \in 1..Len(evq) /\ evq'[i] = evq[i + 1]
      BY <2>1 DEF Removed
    <3> QED  BY <3>1, <3>2 DEF Announced
  <2> QED  BY <2>1, <2>2
<1>3. CASE PopConn
  <2> DEFINE d == evq[1].c
  <2>1. /\ Removed /\ UNCHANGED hdl /\ evq[1].t = "conn"
        /\ \A e \in Conns : AnnouncedNext(e) => Announced(e)
        /\ conns' = [conns EXCEPT ![hdl[d]] = d]
        /\ d \in Conns /\ hdl[d] \in Handles /\ 1 \in 1..Len(evq)
    <3>1. Pop("conn") /\ conns' = [conns EXCEPT ![hdl[Head(evq).c]] = Head(evq).c]
      BY <1>3 DEF PopConn
    <3>2. /\ Removed /\ UNCHANGED hdl /\ evq[1].t = "conn"
          /\ \A e \in Conns : AnnouncedNext(e) => Announced(e)
      BY <3>1, <1>b
    <3>3. /\ Head(evq) = evq[1] /\ d \in Conns /\ hdl[d] \in Handles
          /\ 1 \in 1..Len(evq)
      BY <3>2 DEF Removed
    <3> QED  BY <3>1, <3>2, <3>3
  <2>2. Announced(d)
    BY <2>1 DEF Announced
  <2>3. ~AnnouncedNext(d)
    <3> SUFFICES ASSUME AnnouncedNext(d)  PROVE FALSE
      OBVIOUS
    <3>1. PICK i \in 1..Len(evq') : evq'[i].t = "conn" /\ evq'[i].c = d
      BY DEF AnnouncedNext
    <3>2. i + 1 \in 1..Len(evq) /\ evq'[i] = evq[i + 1]
      BY <2>1 DEF Removed
    <3>3. i + 1 <= 1
      BY <2>1, <3>1, <3>2 DEF Orders, ConnFirst
    <3> QED  BY <3>2, <3>3
  <2>4. \A h \in Handles : conns'[h] = IF h = hdl[d] THEN d ELSE conns[h]
    BY <2>1 DEF TypeOK
  <2> HIDE DEF d
  <2> QED  BY <1>0, <2>1, <2>2, <2>3, <2>4, NoneAssumption DEF Registry, Gone, GoneNext
<1>4. CASE PopAcl
  BY <1>4, <1>a, <1>b DEF PopAcl
<1>5. CASE PopDisc
  <2> DEFINE d == evq[1].c
  <2>1. /\ UNCHANGED hdl /\ \A e \in Conns : AnnouncedNext(e) => Announced(e)
        /\ conns' = [conns EXCEPT ![hdl[d]] = None]
    BY <1>5, <1>b DEF PopDisc, Removed
  <2>2. \A h \in Handles : conns'[h] \in {conns[h], None}
    BY <2>1 DEF TypeOK
  <2> HIDE DEF d
  <2> QED  BY <1>0, <2>1, <2>2, NoneAssumption DEF Registry, Gone, GoneNext
<1>6. ASSUME NEW c \in Conns, Removal(c)  PROVE Goal
  <2>1. UNCHANGED hdl /\ \A e \in Conns : AnnouncedNext(e) => Announced(e)
    BY <1>6 DEF Removal, AnnouncedNext, Announced
  <2>2. \A h \in Handles : conns'[h] \in {conns[h], None}
    BY <1>6 DEF TypeOK, Removal
  <2> QED  BY <1>0, <2>1, <2>2, NoneAssumption DEF Registry, Gone, GoneNext
<1>7. CASE Sweep
  <2>1. UNCHANGED hdl /\ \A e \in Conns : AnnouncedNext(e) => Announced(e)
    BY <1>7 DEF Sweep, AnnouncedNext, Announced
  <2> QED  BY <1>7, <2>1, NoneAssumption DEF Sweep, Gone, GoneNext
<1>8. CASE Quiet
  BY <1>8, <1>a DEF Quiet, AnnouncedNext, Announced
<1> QED  BY <1>1, <1>2, <1>3, <1>4, <1>5, <1>6, <1>7, <1>8 DEF StepKind

(* How a connection gets closed, force-removed or swept, and how sktLoop   *)
(* comes to work on it.                                                    *)
Closing ==
  /\ \A c \in Conns : closed'[c] =>
       \/ closed[c] \/ (\E x \in Closers : cpc[c][x] = "force")
       \/ (lpc = "close" /\ c = lconn) \/ (lpc = "sweep" /\ c \in sweep)
  /\ forced \subseteq forced'
  /\ \A c \in forced' : c \in forced \/ Removal(c)
  /\ \A c \in sweep' : c \in sweep \/ (Sweep /\ \E h \in Handles : conns[h] = c)
  /\ \A c \in Conns, x \in Closers :
       cpc'[c][x] = "force" => cpc[c][x] = "force" \/ c \in forced'
  /\ lpc' = "close" => \/ lpc = "close" /\ lconn' = lconn
                       \/ /\ PopDisc /\ lconn' = conns[hdl[Head(evq).c]]
                          /\ lconn' # None /\ UNCHANGED closed
  /\ lpc' = "acl" => \/ lpc = "acl" /\ lconn' = lconn
                     \/ /\ PopAcl /\ lconn' = conns[hdl[Head(evq).c]]
                        /\ lconn' # None /\ UNCHANGED closed

(* What every step of the model may do to the closed receive channels and  *)
(* to the goroutines that close them.                                      *)
LEMMA ClosingStep == TypeOK /\ HasHandle /\ [Next]_vars => Closing
<1> SUFFICES ASSUME TypeOK, HasHandle, [Next]_vars  PROVE Closing
  OBVIOUS
<1> USE DEF connVars, rxVars, loopVars, ctrlVars
<1>a. ASSUME UNCHANGED <<closed, forced, sweep, lpc, lconn>>,
             \A c \in Conns, x \in Closers : cpc'[c][x] = "force" => cpc[c][x] = "force"
      PROVE  Closing
  BY <1>a DEF Closing
<1>b. ASSUME NEW c \in Conns, NEW x \in Closers, NEW l \in CloseStates, GoTo(c, x, l)
      PROVE  /\ cpc'[c][x] = l
             /\ \A d \in Conns, y \in Closers : d # c \/ y # x => cpc'[d][y] = cpc[d][y]
  BY <1>b, GoToType
<1>c. ASSUME NEW c \in Conns, kill(c)
      PROVE  \A d \in Conns, y \in Closers :
               cpc'[d][y] = cpc[d][y] \/ (d = c /\ cpc'[d][y] = "start")
  BY <1>c, KillType
<1>0. CASE UNCHANGED vars
  BY <1>0, <1>a DEF vars
<1>1. CASE \/ \E c \in Conns, h \in Handles : LinkUp(c, h)
           \/ \E h \in Handles, k \in Kinds : Receive(h, k)
           \/ \E h \in Handles : LinkLoss(h)
           \/ \E c \in Conns : ExecLate(c)
           \/ \E c \in Conns : Read(c)
  BY <1>1, <1>a DEF LinkUp, Receive, LinkLoss, ExecLate, Read
<1>2. ASSUME NEW c \in Conns, NEW x \in Closers, CloserStep(c, x)  PROVE Closing
  <2>0. {"idle", "start", "send", "cmd1", "cmd2", "wait", "force"} \subseteq CloseStates
        /\ \A l : AfterFailure(l) \in CloseStates \ {"force"}
    BY DEF CloseStates, AfterFailure
  <2>1. CASE \/ CloseCheck(c, x) \/ CloseSend(c, x) \/ CloseAccepted(c, x)
             \/ CloseRefused(c, x) \/ CloseUnanswered(c, x) \/ CloseSeesDone(c, x)
    <3>1. \E l \in CloseStates \ {"force"} : GoTo(c, x, l)
      BY <2>0, <2>1 DEF CloseCheck, CloseSend, CloseAccepted, CloseRefused, CloseUnanswered,
                        CloseSeesDone
    <3>2. \A d \in Conns, y \in Closers : cpc'[d][y] = "force" => cpc[d][y] = "force"
      BY <3>1, <1>b
    <3> QED  BY <1>a, <2>1, <3>2 DEF CloseCheck, CloseSend, CloseAccepted, CloseRefused,
                CloseUnanswered, CloseSeesDone
  <2>2. CASE cleanupConn(c, x) /\ Registered(c)
    <3>1. GoTo(c, x, "force") /\ forced' = forced \cup {c}
          /\ UNCHANGED <<closed, sweep, lpc, lconn>>
      BY <2>2 DEF cleanupConn
    <3>2. Removal(c)
      BY <2>2 DEF cleanupConn, Registered, Deregister, Removal, HasHandle, TypeOK
    <3>3. \A d \in Conns, y \in Closers :
            cpc'[d][y] = "force" => cpc[d][y] = "force" \/ d = c
      BY <2>0, <3>1, <1>b
    <3> QED  BY <3>1, <3>2, <3>3 DEF Closing
  <2>3. CASE cleanupConn(c, x) /\ ~Registered(c)
    <3>1. GoTo(c, x, "idle") /\ UNCHANGED <<closed, forced, sweep, lpc, lconn>>
      BY <2>3 DEF cleanupConn
    <3>2. \A d \in Conns, y \in Closers : cpc'[d][y] = "force" => cpc[d][y] = "force"
      BY <2>0, <3>1, <1>b
    <3> QED  BY <1>a, <3>1, <3>2
  <2>4. CASE CloseForced(c, x)
    <3>1. GoTo(c, x, "idle") /\ UNCHANGED <<forced, sweep, lpc, lconn>>
          /\ closed' = [closed EXCEPT ![c] = TRUE] /\ cpc[c][x] = "force"
      BY <2>4 DEF CloseForced
    <3>2. \A d \in Conns, y \in Closers : cpc'[d][y] = "force" => cpc[d][y] = "force"
      BY <2>0, <3>1, <1>b
    <3>3. \A d \in Conns : closed'[d] => closed[d] \/ d = c
      BY <3>1 DEF TypeOK
    <3> QED  BY <3>1, <3>2, <3>3 DEF Closing
  <2> QED  BY <1>2, <2>1, <2>2, <2>3, <2>4 DEF CloserStep
<1>3. CASE handleLEConnectionComplete
  <2> DEFINE d == Head(evq).c
  <2>1. UNCHANGED cpc \/ (d \in Conns /\ GoTo(d, "own", "start"))
    <3>1. evq \in Seq(Events) /\ evq # <<>>
      BY <1>3 DEF handleLEConnectionComplete, Reading, TypeOK
    <3>2. d \in Conns
      BY <3>1, HeadTailProperties DEF Events
    <3> QED  BY <1>3, <3>2 DEF handleLEConnectionComplete
  <2>2. "own" \in Closers /\ "start" \in CloseStates
    BY DEF Closers, CloseStates
  <2> HIDE DEF d
  <2>3. \A e \in Conns, y \in Closers : cpc'[e][y] = "force" => cpc[e][y] = "force"
    BY <1>b, <2>1, <2>2
  <2>4. UNCHANGED <<closed, forced, sweep, lpc, lconn>>
    BY <1>3 DEF handleLEConnectionComplete
  <2> QED  BY <1>a, <2>3, <2>4
<1>4. CASE handleACL
  <2>1. PopAcl
    BY <1>4 DEF handleACL, PopAcl, Pop
  <2> QED  BY <1>4, <2>1 DEF handleACL, Closing
<1>5. CASE deliverACL
  <2>1. UNCHANGED cpc \/ (lconn \in Conns /\ kill(lconn))
    BY <1>5 DEF deliverACL, dropAndKill, TypeOK
  <2>2. \A d \in Conns, y \in Closers : cpc'[d][y] = "force" => cpc[d][y] = "force"
    BY <1>c, <2>1
  <2>3. UNCHANGED <<closed, forced, sweep>> /\ lpc' \in {"read", "panic"}
    BY <1>5 DEF deliverACL, LoopNext
  <2> QED  BY <2>2, <2>3 DEF Closing
<1>6. CASE handleDisconnectionComplete
  <2>1. PopDisc
    <3>1. CASE conns[hdl[Head(evq).c]] # None
      BY <1>6, <3>1 DEF handleDisconnectionComplete, PopDisc, Pop, Deregister
    <3>2. CASE conns[hdl[Head(evq).c]] = None
      <4> DEFINE h == hdl[Head(evq).c]
      <4>1. conns \in [Handles -> Conns \cup {None}] /\ conns' = conns /\ conns[h] = None
        BY <1>6, <3>2 DEF handleDisconnectionComplete, TypeOK
      <4>2. Pop("disc")
        BY <1>6 DEF handleDisconnectionComplete, Pop
      <4> HIDE DEF h
      <4>3. conns' = [conns EXCEPT ![h] = None]
        BY <4>1
      <4> QED  BY <4>2, <4>3 DEF PopDisc, h
    <3> QED  BY <3>1, <3>2
  <2> QED  BY <1>6, <2>1 DEF handleDisconnectionComplete, Closing, Reading
<1>7. CASE closeChans
  <2>1. \A d \in Conns : closed'[d] => closed[d] \/ d = lconn
    BY <1>7 DEF closeChans, TypeOK
  <2> QED  BY <1>7, <2>1 DEF closeChans, LoopNext, Closing
<1>8. ASSUME NEW c \in Conns, cleanupOne(c)  PROVE Closing
  <2>1. \A d \in Conns : closed'[d] => closed[d] \/ d = c
    BY <1>8 DEF cleanupOne, TypeOK
  <2> QED  BY <1>8, <2>1 DEF cleanupOne, Closing
<1>9. CASE closeDone
  BY <1>9 DEF closeDone, LoopNext, Closing
<1>10. CASE cleanupConns
  <2>1. Sweep
    BY <1>10 DEF cleanupConns, LoopNext, Sweep
  <2> QED  BY <1>10, <2>1 DEF cleanupConns, LoopNext, AllRegistered, Closing
<1>11. ASSUME NEW c \in Conns, RecombineStep(c)  PROVE Closing
  <2>1. UNCHANGED cpc \/ kill(c)
    BY <1>11 DEF RecombineStep, recombine, recombineEOF, deliverPDU, deliverClosed, drain
  <2>2. \A d \in Conns, y \in Closers : cpc'[d][y] = "force" => cpc[d][y] = "force"
    BY <1>c, <2>1
  <2>3. UNCHANGED <<closed, forced, sweep, lpc, lconn>>
    BY <1>11 DEF RecombineStep, recombine, recombineEOF, deliverPDU, deliverClosed, drain
  <2> QED  BY <1>a, <2>2, <2>3
<1>12. ASSUME NEW c \in Conns, AppClose(c)  PROVE Closing
  <2>1. \A d \in Conns, y \in Closers : cpc'[d][y] = "force" => cpc[d][y] = "force"
    BY <1>12, <1>b DEF AppClose, Closers, CloseStates
  <2> QED  BY <1>12, <1>a, <2>1 DEF AppClose
<1>13. CASE Next
  BY <1>13, NextCases, <1>1, <1>2, <1>3, <1>4, <1>5, <1>6, <1>7, <1>8, <1>9, <1>10, <1>11,
     <1>12
<1> QED  BY <1>0, <1>13
(* RemovedFirst is kept: what is closed, force-removed, swept or being     *)
(* closed by sktLoop was removed from h.conns before.                      *)
LEMMA RemovedFirstStep ==
  ASSUME TypeOK, HasHandle, Orders, RemovedFirst, StepKind, Closing
  PROVE  RemovedFirst'
<1>0. Registry
  BY DEF RemovedFirst, Registry
<1>1. /\ \A h \in Handles : conns'[h] # None =>
           hdl'[conns'[h]] = h /\ ~AnnouncedNext(conns'[h])
      /\ \A c \in Conns : Gone(c) => GoneNext(c)
  BY <1>0, RegistryStep
<1>2. ASSUME NEW c \in Conns, NEW h \in Handles, conns[h] = c,
             UNCHANGED hdl, \A d \in Conns : AnnouncedNext(d) => Announced(d),
             \A g \in Handles : conns'[g] = conns[g] \/ conns'[g] = None, conns'[h] = None
      PROVE  GoneNext(c)
  <2>1. c # None /\ hdl[c] = h /\ ~Announced(c)
    BY <1>0, <1>2, NoneAssumption DEF Registry
  <2>2. ASSUME NEW g \in Handles, conns'[g] = c  PROVE FALSE
    <3>1. conns[g] = c
      BY <1>2, <2>1, <2>2
    <3>2. hdl[c] = g
      BY <1>0, <2>1, <3>1 DEF Registry
    <3> QED  BY <1>2, <2>1, <2>2, <3>2
  <2> QED  BY <1>2, <2>1, <2>2, NoneAssumption DEF GoneNext
<1>3. ASSUME NEW c \in Conns, Removal(c)  PROVE GoneNext(c)
  <2>1. \A d \in Conns : AnnouncedNext(d) => Announced(d)
    BY <1>3 DEF Removal, AnnouncedNext, Announced
  <2> QED  BY <1>2, <1>3, <2>1 DEF Removal, TypeOK
<1>4. ASSUME NEW c \in Conns, NEW h \in Handles, conns[h] = c, Sweep  PROVE GoneNext(c)
  <2>1. \A d \in Conns : AnnouncedNext(d) => Announced(d)
    BY <1>4 DEF Sweep, AnnouncedNext, Announced
  <2> QED  BY <1>2, <1>4, <2>1 DEF Sweep
<1>5. ASSUME PopDisc, conns[hdl[Head(evq).c]] # None
      PROVE  GoneNext(conns[hdl[Head(evq).c]])
  <2> DEFINE h == hdl[Head(evq).c]
  <2>0. Pop("disc") /\ conns' = [conns EXCEPT ![h] = None]
    BY <1>5 DEF PopDisc
  <2>1. Removed /\ UNCHANGED hdl
    BY <2>0, PopRemoves
  <2>2. h \in Handles
    BY <2>1 DEF Removed
  <2>3. ASSUME NEW d \in Conns, AnnouncedNext(d)  PROVE Announced(d)
    <3>1. PICK i \in 1..Len(evq') : evq'[i].t = "conn" /\ evq'[i].c = d
      BY <2>3 DEF AnnouncedNext
    <3>2. i + 1 \in 1..Len(evq) /\ evq'[i] = evq[i + 1]
      BY <2>1 DEF Removed
    <3> QED  BY <3>1, <3>2 DEF Announced
  <2>4. conns[h] \in Conns /\ conns'[h] = None
        /\ \A g \in Handles : conns'[g] = conns[g] \/ conns'[g] = None
    BY <1>5, <2>0, <2>2 DEF TypeOK
  <2> HIDE DEF h
  <2>5. GoneNext(conns[h])
    BY <1>2, <2>1, <2>2, <2>3, <2>4
  <2> QED  BY <2>5 DEF h
<1>6. ASSUME NEW c \in Conns, closed'[c] \/ c \in forced' \/ c \in sweep'
      PROVE  GoneNext(c)
  <2>1. CASE closed'[c]
    BY <1>1, <2>1 DEF Closing, RemovedFirst
  <2>2. CASE c \in forced'
    BY <1>1, <1>3, <2>2 DEF Closing, RemovedFirst
  <2>3. CASE c \in sweep'
    BY <1>1, <1>4, <2>3 DEF Closing, RemovedFirst
  <2> QED  BY <1>6, <2>1, <2>2, <2>3
<1>7. ASSUME lpc' = "close"  PROVE GoneNext(lconn')
  <2>1. CASE lpc = "close" /\ lconn' = lconn
    BY <1>1, <2>1 DEF RemovedFirst, TypeOK
  <2>2. CASE PopDisc /\ lconn' = conns[hdl[Head(evq).c]] /\ lconn' # None
    BY <1>5, <2>2
  <2> QED  BY <1>7, <2>1, <2>2 DEF Closing
<1>8. \A c \in Conns, x \in Closers : cpc'[c][x] = "force" => c \in forced'
  BY DEF Closing, RemovedFirst
<1> QED  BY <1>1, <1>6, <1>7, <1>8 DEF RemovedFirst, Gone, GoneNext, Announced, AnnouncedNext

(* A Conn that handleACL just looked up is registered, so not closed; from *)
(* then on only the forced cleanup can close it.                           *)
LEMMA PanicStep ==
  ASSUME TypeOK, HasHandle, RemovedFirst, PanicNeedsForcedClose, Closing
  PROVE  PanicNeedsForcedClose'
<1> SUFFICES ASSUME lpc' = "acl", closed'[lconn']  PROVE lconn' \in forced'
  BY DEF PanicNeedsForcedClose
<1>1. CASE lpc = "acl" /\ lconn' = lconn
  BY <1>1 DEF Closing, TypeOK, RemovedFirst, PanicNeedsForcedClose
<1>2. CASE PopAcl /\ lconn' = conns[hdl[Head(evq).c]] /\ lconn' # None /\ UNCHANGED closed
  <2>1. Removed
    BY <1>2, PopRemoves DEF PopAcl
  <2>2. hdl[Head(evq).c] \in Handles
    BY <2>1 DEF Removed
  <2> QED  BY <1>2, <2>2 DEF RemovedFirst, Gone, TypeOK
<1> QED  BY <1>1, <1>2 DEF Closing

(* What has a goroutine, a Close or a command has a handle. *)
LEMMA HasHandleStep ==
  ASSUME TypeOK, HasHandle, RemovedFirst, StepKind, [Next]_vars
  PROVE  HasHandle'
<1> USE DEF connVars, rxVars, loopVars, ctrlVars
<1>1. /\ \A c \in Conns : hdl[c] # None => hdl'[c] # None
      /\ \A h \in Handles : link'[h] # None => hdl'[link'[h]] = h
      /\ \A i \in 1..Len(evq') : hdl'[evq'[i].c] # None
  BY HandleStep
<1> DEFINE Rest == /\ \A c \in Conns : rx'[c] # "none" => hdl[c] # None
                   /\ \A c \in Conns, x \in Closers : cpc'[c][x] # "idle" => hdl[c] # None
                   /\ late' \subseteq Conns /\ \A c \in late' : hdl[c] # None
                   /\ lpc' \in {"acl", "close"} => lconn' \in Conns /\ hdl[lconn'] # None
<1>2. SUFFICES Rest
  BY <1>1 DEF HasHandle
<1>a. ASSUME NEW c \in Conns, NEW x \in Closers, NEW l \in CloseStates, GoTo(c, x, l), hdl[c] # None
      PROVE  \A d \in Conns, y \in Closers : cpc'[d][y] # "idle" => hdl[d] # None
  <2>1. \A d \in Conns, y \in Closers : d # c \/ y # x => cpc'[d][y] = cpc[d][y]
    BY <1>a, GoToType
  <2> QED  BY <1>a, <2>1 DEF HasHandle
<1>b. ASSUME NEW c \in Conns, kill(c), hdl[c] # None
      PROVE  \A d \in Conns, y \in Closers : cpc'[d][y] # "idle" => hdl[d] # None
  <2>1. \A d \in Conns, y \in Closers :
          cpc'[d][y] = cpc[d][y] \/ (d = c /\ cpc'[d][y] = "start")
    BY <1>b, KillType
  <2> QED  BY <1>b, <2>1 DEF HasHandle
<1>c. UNCHANGED cpc => \A d \in Conns, y \in Closers : cpc'[d][y] # "idle" => hdl[d] # None
  BY DEF HasHandle
<1>d. ASSUME \A d \in Conns, y \in Closers : cpc'[d][y] # "idle" => hdl[d] # None,
             UNCHANGED <<rx, lpc, lconn>>, late' \subseteq late
      PROVE  Rest
  BY <1>d DEF HasHandle, TypeOK
<1>3. CASE UNCHANGED vars
  BY <1>3, <1>c, <1>d DEF vars
<1>4. CASE \/ \E c \in Conns, h \in Handles : LinkUp(c, h)
           \/ \E h \in Handles, k \in Kinds : Receive(h, k)
           \/ \E h \in Handles : LinkLoss(h)
           \/ \E c \in Conns : ExecLate(c) \/ Read(c)
  BY <1>4, <1>c, <1>d DEF LinkUp, Receive, LinkLoss, ExecLate, Read
<1>5. ASSUME NEW c \in Conns, NEW x \in Closers, CloserStep(c, x)  PROVE Rest
  <2>1. \E l \in CloseStates : GoTo(c, x, l)
    BY <1>5 DEF CloserStep, CloseCheck, CloseSend, CloseAccepted, CloseRefused, CloseUnanswered,
                CloseSeesDone, cleanupConn, CloseForced, CloseStates, AfterFailure
  <2>2. cpc[c][x] # "idle"
    BY <1>5 DEF CloserStep, CloseCheck, CloseSend, CloseAccepted, CloseRefused, CloseUnanswered,
                CloseSeesDone, cleanupConn, CloseForced
  <2>3. hdl[c] # None
    BY <2>2 DEF HasHandle
  <2>4. \A d \in Conns, y \in Closers : cpc'[d][y] # "idle" => hdl[d] # None
    BY <1>a, <2>1, <2>3
  <2>5. UNCHANGED <<rx, lpc, lconn>> /\ late' \subseteq late \cup {c}
    BY <1>5 DEF CloserStep, CloseCheck, CloseSend, CloseAccepted, CloseRefused, CloseUnanswered,
                CloseSeesDone, cleanupConn, CloseForced
  <2> QED  BY <2>3, <2>4, <2>5 DEF HasHandle, TypeOK
<1>6. CASE handleLEConnectionComplete
  <2> DEFINE d == Head(evq).c
  <2>1. PopConn
    BY <1>6 DEF handleLEConnectionComplete, PopConn, Pop
  <2>2. d \in Conns /\ hdl[d] # None
    BY <2>1, PopRemoves, NoneAssumption DEF PopConn, Removed
  <2>3. /\ rx' = [rx EXCEPT ![d] = "recv"] /\ UNCHANGED <<lpc, lconn, late>>
        /\ UNCHANGED cpc \/ GoTo(d, "own", "start")
    BY <1>6 DEF handleLEConnectionComplete
  <2> HIDE DEF d
  <2>4. \A e \in Conns, y \in Closers : cpc'[e][y] # "idle" => hdl[e] # None
    BY <1>a, <1>c, <2>2, <2>3 DEF Closers, CloseStates
  <2>5. \A e \in Conns : rx'[e] # "none" => e = d \/ rx[e] # "none"
    BY <2>2, <2>3 DEF TypeOK
  <2> QED  BY <2>2, <2>3, <2>4, <2>5 DEF HasHandle, TypeOK
<1>7. CASE handleACL \/ handleDisconnectionComplete
  <2> DEFINE h == hdl[Head(evq).c]
  <2>1. \E tt : Pop(tt)
    BY <1>7 DEF handleACL, handleDisconnectionComplete, Pop
  <2>2. h \in Handles
    BY <2>1, PopRemoves DEF Removed
  <2>3. conns[h] # None => conns[h] \in Conns /\ hdl[conns[h]] # None
    BY <2>2, NoneAssumption DEF RemovedFirst, TypeOK
  <2>4. /\ UNCHANGED <<rx, cpc, late>>
        /\ UNCHANGED <<lpc, lconn>> \/ (conns[h] # None /\ lconn' = conns[h])
    BY <1>7 DEF handleACL, handleDisconnectionComplete
  <2> HIDE DEF h
  <2> QED  BY <2>3, <2>4 DEF HasHandle, TypeOK
<1>8. CASE deliverACL
  <2>1. UNCHANGED cpc \/ (lconn \in Conns /\ kill(lconn) /\ hdl[lconn] # None)
    BY <1>8 DEF deliverACL, dropAndKill, TypeOK, HasHandle
  <2>2. \A e \in Conns, y \in Closers : cpc'[e][y] # "idle" => hdl[e] # None
    BY <1>b, <1>c, <2>1
  <2> QED  BY <1>8, <2>2 DEF deliverACL, LoopNext, HasHandle, TypeOK
<1>9. CASE closeChans \/ closeDone \/ cleanupConns
  BY <1>9 DEF closeChans, closeDone, cleanupConns, LoopNext, HasHandle, TypeOK
<1>10. ASSUME NEW c \in Conns, cleanupOne(c)  PROVE Rest
  BY <1>10, <1>c, <1>d DEF cleanupOne
<1>11. ASSUME NEW c \in Conns, RecombineStep(c)  PROVE Rest
  <2>1. UNCHANGED <<lpc, lconn, late>> /\ (UNCHANGED cpc \/ kill(c))
    BY <1>11 DEF RecombineStep, recombine, recombineEOF, deliverPDU, deliverClosed, drain
  <2>2. rx[c] # "none" /\ \A e \in Conns : e # c => rx'[e] = rx[e]
    BY <1>11 DEF RecombineStep, recombine, recombineEOF, deliverPDU, deliverClosed, drain, TypeOK
  <2>3. hdl[c] # None
    BY <2>2 DEF HasHandle
  <2>4. \A e \in Conns, y \in Closers : cpc'[e][y] # "idle" => hdl[e] # None
    BY <1>b, <1>c, <2>1, <2>3
  <2> QED  BY <2>1, <2>2, <2>3, <2>4 DEF HasHandle, TypeOK
<1>12. ASSUME NEW c \in Conns, AppClose(c)  PROVE Rest
  <2>1. hdl[c] # None
    BY <1>12 DEF AppClose, HasHandle
  <2>2. \A e \in Conns, y \in Closers : cpc'[e][y] # "idle" => hdl[e] # None
    BY <1>12, <1>a, <2>1 DEF AppClose, Closers, CloseStates
  <2> QED  BY <1>12, <1>d, <2>2 DEF AppClose
<1>13. CASE Next
  BY <1>13, NextCases, <1>4, <1>5, <1>6, <1>7, <1>8, <1>9, <1>10, <1>11, <1>12
<1> QED  BY <1>3, <1>13
-----------------------------------------------------------------------------
(* The inductive invariant. *)
LEMMA Initially == Init => IInv
<1> SUFFICES ASSUME Init  PROVE IInv
  OBVIOUS
<1>0. Len(evq) = 0 /\ evq \in Seq(Events) /\ 1..0 = {}
  BY DEF Init
<1>1. TypeOK
  <2>1. <<>> \in Seq(Kinds)
    OBVIOUS
  <2>2. cpc \in [Conns -> [Closers -> CloseStates]]
    BY DEF Init, CloseStates
  <2> QED  BY <1>0, <2>1, <2>2 DEF Init, TypeOK, RxStates, LoopStates
<1>2. HasHandle
  BY <1>0 DEF Init, HasHandle
<1>3. ConnFirst /\ DiscLast /\ HandleOrder /\ LinkOrder
  BY <1>0 DEF ConnFirst, DiscLast, HandleOrder, LinkOrder
<1>4. EventsResolve /\ LinksResolve
  BY <1>0 DEF Init, EventsResolve, LinksResolve
<1>5. RemovedFirst /\ PanicNeedsForcedClose
  BY <1>0 DEF Init, RemovedFirst, PanicNeedsForcedClose
<1> QED  BY <1>1, <1>2, <1>3, <1>4, <1>5 DEF IInv

(* IInv is inductive: every step, and every stuttering step, preserves it. *)
LEMMA Inductive == IInv /\ [Next]_vars => IInv'
<1> SUFFICES ASSUME IInv, [Next]_vars  PROVE IInv'
  OBVIOUS
<1>1. /\ TypeOK /\ HasHandle /\ Orders /\ Resolve /\ RemovedFirst /\ PanicNeedsForcedClose
  BY DEF IInv, Orders, Resolve
<1>2. StepKind /\ Closing
  BY <1>1, StepKinds, ClosingStep
<1>3. TypeOK' /\ HasHandle'
  BY <1>1, <1>2, TypeStep, HasHandleStep
<1>4. Orders' /\ Resolve'
  BY <1>1, <1>2, OrdersStep, ResolveStep
<1>5. RemovedFirst' /\ PanicNeedsForcedClose'
  BY <1>1, <1>2, RemovedFirstStep, PanicStep
<1> QED  BY <1>3, <1>4, <1>5 DEF IInv, Orders, Resolve

(* IInv holds in every reachable state of the connection lifecycle:        *)
(* sktLoop, the controller and the goroutines that close a connection, in  *)
(* any order.                                                              *)
THEOREM Invariant == Spec => []IInv
  BY Initially, Inductive, PTL DEF Spec

(* Type correctness: every variable of the connection lifecycle keeps its  *)
(* type, for any connections, handles and capacities.                      *)
THEOREM TypeCorrect == Spec => []TypeOK
<1>1. IInv => TypeOK
  BY DEF IInv
<1> QED  BY <1>1, Invariant, PTL

(* handleACL and handleDisconnectionComplete find the Conn an event is     *)
(* about, or nothing after a forced cleanup: reusing a connection handle   *)
(* never routes an event to another connection.                            *)
THEOREM EventsReachTheirOwner == Spec => []RoutedToOwner
<1>1. IInv => RoutedToOwner
  <2> SUFFICES ASSUME IInv, Reading("acl") \/ Reading("disc")
               PROVE  Resolves(Head(evq).c)
    BY DEF RoutedToOwner, Resolves
  <2>1. evq \in Seq(Events) /\ evq # <<>> /\ Head(evq).t # "conn" /\ Serving
    BY DEF IInv, TypeOK, Reading, Serving
  <2>2. Head(evq) = evq[1] /\ Len(evq) \in Nat \ {0}
    BY <2>1, HeadTailProperties, LenProperties, EmptySeq
  <2>3. 1 \in 1..Len(evq) /\ 1..(1 - 1) = {}
    BY <2>2
  <2> QED  BY <2>1, <2>2, <2>3 DEF IInv, EventsResolve
<1> QED  BY <1>1, Invariant, PTL

(* The channel handleACL sends on is closed between its lookup and its     *)
(* send only by cleanupConn's forced removal: the only way sktLoop can     *)
(* panic.                                                                  *)
THEOREM OnlyForcedCloseRaces == Spec => []PanicNeedsForcedClose
<1>1. IInv => PanicNeedsForcedClose
  BY DEF IInv
<1> QED  BY <1>1, Invariant, PTL
=============================================================================
