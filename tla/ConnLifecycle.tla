---------------------------- MODULE ConnLifecycle ----------------------------
(***************************************************************************)
(* The life of a connection in linux/hci: registration by handle in        *)
(* h.conns, the inbound pipeline (handleACL, chInPkt, recombine, chInPDU), *)
(* Conn.Close and kill with their Disconnect commands, and the three       *)
(* teardown paths: handleDisconnectionComplete and cleanupConns on         *)
(* sktLoop, cleanupConn on the goroutine that called Close.                *)
(*                                                                         *)
(* The controller reuses connection handles.  Its events reach sktLoop in  *)
(* order.  A Disconnect command is answered, or its sender gives up on it  *)
(* (send's cmdTimeout) and it may still execute later.  TX credits are in  *)
(* TxCredits.                                                              *)
(***************************************************************************)
EXTENDS Integers, Sequences, FiniteSets

CONSTANTS Conns,    \* Conn objects; each stands for one link of the controller
          Handles,  \* connection handles
          PktCap,   \* capacity of chInPkt (16 in the code)
          PduCap,   \* capacity of chInPDU (16 in the code)
          EvtCap,   \* bound: events on their way to sktLoop
          Packets,  \* bound: Packets[c], what the packets on c turn out to be
          Owned,    \* bound: the connections their owner (or dispose) may close
          None

(* What recombine makes of a packet: an ATT PDU for the reader, a PDU of   *)
(* another channel, handled in place, or a framing error.                  *)
Kinds == {"att", "other", "corrupt"}

ASSUME CapAssumption == PktCap \in Nat \ {0} /\ PduCap \in Nat \ {0} /\ EvtCap \in Nat \ {0}
ASSUME PacketsAssumption == Packets \in [Conns -> SUBSET Kinds]
ASSUME NoneAssumption == None \notin Conns \cup Handles

(* The goroutines that may run Close on a connection: the one kill starts, *)
(* and the owner's (the application, or dispose's when nobody took the     *)
(* connection).                                                            *)
Closers == {"kill", "own"}

-----------------------------------------------------------------------------
VARIABLES conns,    \* h.conns
          hdl,      \* hdl[c]: the handle of c, None before it exists
          closed,   \* closed[c]: closeChans ran (chInPkt and chDone closed)
          killed,   \* killed[c]: killOnce is spent
          chInPkt,  \* chInPkt[c]: queued packets, as kinds
          chInPDU,  \* chInPDU[c]: number of queued PDUs
          rx,       \* rx[c]: the recombine goroutine
          cpc,      \* cpc[c][x]: where closer x of c is in Close
          lpc,      \* where sktLoop is
          lconn,    \* the Conn sktLoop works on
          lkind,    \* the kind of the ACL packet it handles
          sweep,    \* the map cleanupConns took, still to be closed
          evq,      \* events between the controller and sktLoop
          link,     \* link[h]: the controller's link on h, named by its Conn
          late,     \* connections with an abandoned Disconnect command
          forced    \* history: connections cleanupConn has removed

connVars == <<conns, hdl, closed>>
rxVars == <<chInPkt, chInPDU, rx>>
loopVars == <<lpc, lconn, lkind, sweep>>
ctrlVars == <<evq, link, late>>
vars == <<connVars, rxVars, loopVars, ctrlVars, killed, cpc, forced>>

Init ==
  /\ conns = [h \in Handles |-> None]
  /\ hdl = [c \in Conns |-> None]
  /\ closed = [c \in Conns |-> FALSE]
  /\ killed = [c \in Conns |-> FALSE]
  /\ chInPkt = [c \in Conns |-> <<>>]
  /\ chInPDU = [c \in Conns |-> 0]
  /\ rx = [c \in Conns |-> "none"]
  /\ cpc = [c \in Conns |-> [x \in Closers |-> "idle"]]
  /\ lpc = "read" /\ lconn = None /\ lkind = None
  /\ sweep = {}
  /\ evq = <<>>
  /\ link = [h \in Handles |-> None]
  /\ late = {} /\ forced = {}
-----------------------------------------------------------------------------
(* The controller (external).                                              *)

(* A panic ends the process. *)
Alive == lpc # "panic"

Room == Len(evq) < EvtCap

LinkUp(c, h) ==
  /\ Alive
  /\ Room
  /\ \A g \in Handles : link[g] # c
  /\ hdl[c] = None /\ link[h] = None
  /\ ~ \E i \in 1..Len(evq) : evq[i].c = c
  /\ link' = [link EXCEPT ![h] = c]
  /\ evq' = Append(evq, [t |-> "conn", c |-> c])
  /\ hdl' = [hdl EXCEPT ![c] = h]
  /\ UNCHANGED <<conns, closed, rxVars, loopVars, late, killed, cpc, forced>>

Receive(h, k) ==
  /\ Alive
  /\ Room
  /\ link[h] # None /\ k \in Packets[link[h]]
  /\ evq' = Append(evq, [t |-> "acl", c |-> link[h], k |-> k])
  /\ UNCHANGED <<connVars, rxVars, loopVars, link, late, killed, cpc, forced>>

(* The link on h goes down, for whatever reason. *)
DropLink(h) ==
  /\ link[h] # None
  /\ link' = [link EXCEPT ![h] = None]
  /\ evq' = Append(evq, [t |-> "disc", c |-> link[h]])

LinkLoss(h) ==
  /\ Alive
  /\ Room
  /\ DropLink(h)
  /\ UNCHANGED <<connVars, rxVars, loopVars, late, killed, cpc, forced>>

(* The Disconnect command names a handle; it takes down whatever link is   *)
(* there.                                                                  *)
ExecDisconnect(c) == Room /\ DropLink(hdl[c])

(* An abandoned Disconnect executes after all. *)
ExecLate(c) ==
  /\ Alive
  /\ c \in late
  /\ late' = late \ {c}
  /\ IF link[hdl[c]] = None THEN UNCHANGED <<evq, link>> ELSE ExecDisconnect(c)
  /\ UNCHANGED <<connVars, rxVars, loopVars, killed, cpc, forced>>
-----------------------------------------------------------------------------
(* Conn.Close.  dispose runs it on a goroutine of its own.                 *)

(* The removal of a handle from h.conns under muConns. *)
Deregister(h) == conns' = [conns EXCEPT ![h] = None]

(* h.conns still maps c's handle to c itself. *)
Registered_Any(c) == conns[hdl[c]] # None  \* mutant: whoever has the handle
Registered(c) == conns[hdl[c]] = c

GoTo(c, x, l) == cpc' = [cpc EXCEPT ![c][x] = l]

(* A Close of a closed Conn returns at once and is left out. *)
AppClose(c) ==
  /\ Alive
  /\ c \in Owned
  /\ rx[c] # "none"
  /\ ~closed[c]
  /\ cpc[c]["own"] = "idle"
  /\ GoTo(c, "own", "start")
  /\ UNCHANGED <<connVars, rxVars, loopVars, ctrlVars, killed, forced>>

(* The check of chDone at the top of Close. *)
CloseCheck(c, x) ==
  /\ Alive
  /\ cpc[c][x] = "start"
  /\ GoTo(c, x, IF closed[c] THEN "idle" ELSE "send")
  /\ UNCHANGED <<connVars, rxVars, loopVars, ctrlVars, killed, forced>>

(* The first Disconnect goes out.  (The retry goes out in the step that    *)
(* sees the first one fail.)                                               *)
CloseSend(c, x) ==
  /\ Alive
  /\ cpc[c][x] = "send"
  /\ GoTo(c, x, "cmd1")
  /\ UNCHANGED <<connVars, rxVars, loopVars, ctrlVars, killed, forced>>

AfterFailure(l) == IF l = "cmd1" THEN "cmd2" ELSE "wait"

(* Mutant: Close closes the channels itself once its command is accepted. *)
CloseAccepted_Close(c, x) ==
  /\ Alive
  /\ cpc[c][x] \in {"cmd1", "cmd2"}
  /\ ExecDisconnect(c)
  /\ GoTo(c, x, "idle")
  /\ closed' = [closed EXCEPT ![c] = TRUE]
  /\ UNCHANGED <<conns, hdl, rxVars, loopVars, late, killed, forced>>

(* The command is answered with success, and Close returns: the            *)
(* Disconnection Complete event does the rest.                             *)
CloseAccepted(c, x) ==
  /\ Alive
  /\ cpc[c][x] \in {"cmd1", "cmd2"}
  /\ ExecDisconnect(c)
  /\ GoTo(c, x, "idle")
  /\ UNCHANGED <<connVars, rxVars, loopVars, late, killed, forced>>

(* The command is refused: no link has this handle. *)
CloseRefused(c, x) ==
  /\ Alive
  /\ cpc[c][x] \in {"cmd1", "cmd2"}
  /\ link[hdl[c]] = None
  /\ GoTo(c, x, AfterFailure(cpc[c][x]))
  /\ UNCHANGED <<connVars, rxVars, loopVars, ctrlVars, killed, forced>>

(* No answer in time, or the HCI is done: the command is abandoned. *)
CloseUnanswered(c, x) ==
  /\ Alive
  /\ cpc[c][x] \in {"cmd1", "cmd2"}
  /\ late' = late \cup {c}
  /\ GoTo(c, x, AfterFailure(cpc[c][x]))
  /\ UNCHANGED <<connVars, rxVars, loopVars, evq, link, killed, forced>>

(* The final wait: chDone closes ... *)
CloseSeesDone(c, x) ==
  /\ Alive
  /\ cpc[c][x] = "wait"
  /\ closed[c]
  /\ GoTo(c, x, "idle")
  /\ UNCHANGED <<connVars, rxVars, loopVars, ctrlVars, killed, forced>>

(* Mutant: gives up without cleaning up. *)
cleanupConn_Skip(c, x) ==
  /\ cpc[c][x] = "wait"
  /\ GoTo(c, x, "idle")
  /\ UNCHANGED <<connVars, rxVars, loopVars, ctrlVars, killed, forced>>

(* ... or disconnectTimeout passes and cleanupConn removes c from h.conns, *)
(* unless it is already gone or the handle belongs to another Conn.        *)
cleanupConn(c, x) ==
  /\ Alive
  /\ cpc[c][x] = "wait"
  /\ IF Registered(c)
       THEN /\ Deregister(hdl[c])
            /\ forced' = forced \cup {c}
            /\ GoTo(c, x, "force")
       ELSE /\ GoTo(c, x, "idle")
            /\ UNCHANGED <<conns, forced>>
  /\ UNCHANGED <<hdl, closed, rxVars, loopVars, ctrlVars, killed>>

CloseForced(c, x) ==
  /\ Alive
  /\ cpc[c][x] = "force"
  /\ closed' = [closed EXCEPT ![c] = TRUE]
  /\ GoTo(c, x, "idle")
  /\ UNCHANGED <<conns, hdl, rxVars, loopVars, ctrlVars, killed, forced>>

(* kill: the first call starts the disposal goroutine. *)
kill(c) ==
  /\ killed' = [killed EXCEPT ![c] = TRUE]
  /\ IF killed[c] THEN UNCHANGED cpc ELSE GoTo(c, "kill", "start")
-----------------------------------------------------------------------------
(* sktLoop.                                                                *)

Reading(t) == lpc = "read" /\ evq # <<>> /\ Head(evq).t = t

(* Register a new Conn and start its recombine goroutine, then hand it to  *)
(* Dial or Accept, or dispose of it when nobody waits.                     *)
handleLEConnectionComplete ==
  /\ Reading("conn")
  /\ evq' = Tail(evq)
  /\ LET c == Head(evq).c IN
       /\ conns' = [conns EXCEPT ![hdl[c]] = c]
       /\ rx' = [rx EXCEPT ![c] = "recv"]
       /\ UNCHANGED cpc \/ (c \in Owned /\ GoTo(c, "own", "start"))
  /\ UNCHANGED <<hdl, closed, chInPkt, chInPDU, loopVars, link, late, killed, forced>>

(* handleACL finds the Conn under muConns, and lets go of muConns. *)
handleACL ==
  /\ Reading("acl")
  /\ evq' = Tail(evq)
  /\ LET e == Head(evq)
         c == conns[hdl[e.c]]
     IN IF c = None
          THEN UNCHANGED <<lpc, lconn, lkind>>
          ELSE lpc' = "acl" /\ lconn' = c /\ lkind' = e.k
  /\ UNCHANGED <<connVars, rxVars, sweep, link, late, killed, cpc, forced>>

LoopNext(l) == lpc' = l /\ lconn' = None /\ lkind' = None

HasRoom(c) == Len(chInPkt[c]) < PktCap

(* chInPkt is full: drop the packet and tear the connection down. *)
dropAndKill_Wait(c) == FALSE  \* mutant: wait for room instead
dropAndKill(c) == kill(c) /\ UNCHANGED chInPkt

(* The non-blocking send of handleACL.  On a closed channel it panics.     *)
deliverACL ==
  /\ lpc = "acl"
  /\ IF closed[lconn]
       THEN LoopNext("panic") /\ UNCHANGED <<chInPkt, killed, cpc>>
       ELSE /\ LoopNext("read")
            /\ IF HasRoom(lconn)
                 THEN /\ chInPkt' = [chInPkt EXCEPT ![lconn] = Append(@, lkind)]
                      /\ UNCHANGED <<killed, cpc>>
                 ELSE dropAndKill(lconn)
  /\ UNCHANGED <<connVars, chInPDU, rx, sweep, ctrlVars, forced>>

(* Deregister; an unknown handle is reported and ignored. *)
handleDisconnectionComplete ==
  /\ Reading("disc")
  /\ evq' = Tail(evq)
  /\ LET h == hdl[Head(evq).c] IN
       IF conns[h] = None
         THEN UNCHANGED <<conns, lpc, lconn>>
         ELSE /\ Deregister(h)
              /\ lpc' = "close" /\ lconn' = conns[h]
  /\ UNCHANGED <<hdl, closed, rxVars, lkind, sweep, link, late, killed, cpc, forced>>

closeChans ==
  /\ lpc = "close"
  /\ closed' = [closed EXCEPT ![lconn] = TRUE]
  /\ LoopNext("read")
  /\ UNCHANGED <<conns, hdl, rxVars, sweep, ctrlVars, killed, cpc, forced>>

AllRegistered == {conns[h] : h \in Handles} \ {None}

(* The socket is gone: cleanupConns takes the whole map, closes every Conn *)
(* in it, and h.done closes.                                               *)
cleanupConns ==
  /\ lpc = "read"
  /\ LoopNext("sweep")
  /\ sweep' = AllRegistered
  /\ conns' = [h \in Handles |-> None]
  /\ UNCHANGED <<hdl, closed, rxVars, ctrlVars, killed, cpc, forced>>

cleanupOne(c) ==
  /\ lpc = "sweep"
  /\ c \in sweep
  /\ sweep' = sweep \ {c}
  /\ closed' = [closed EXCEPT ![c] = TRUE]
  /\ UNCHANGED <<conns, hdl, rxVars, lpc, lconn, lkind, ctrlVars, killed, cpc, forced>>

closeDone ==
  /\ lpc = "sweep"
  /\ sweep = {}
  /\ LoopNext("done")
  /\ UNCHANGED <<connVars, rxVars, sweep, ctrlVars, killed, cpc, forced>>
-----------------------------------------------------------------------------
(* The recombine goroutine of c, and the reader of its PDUs.               *)

TakePkt(c) == /\ chInPkt[c] # <<>>
              /\ chInPkt' = [chInPkt EXCEPT ![c] = Tail(@)]

recombine(c) ==
  /\ Alive
  /\ rx[c] = "recv"
  /\ TakePkt(c)
  /\ LET k == Head(chInPkt[c]) IN
       /\ rx' = [rx EXCEPT ![c] = CASE k = "att" -> "deliver"
                                    [] k = "other" -> "recv"
                                    [] k = "corrupt" -> "drain"]
       /\ IF k = "corrupt" THEN kill(c) ELSE UNCHANGED <<killed, cpc>>
  /\ UNCHANGED <<connVars, chInPDU, loopVars, ctrlVars, forced>>

(* chInPkt is closed and empty: io.EOF. *)
recombineEOF(c) ==
  /\ Alive
  /\ rx[c] \in {"recv", "drain"}
  /\ closed[c] /\ chInPkt[c] = <<>>
  /\ rx' = [rx EXCEPT ![c] = "exit"]
  /\ UNCHANGED <<connVars, chInPkt, chInPDU, loopVars, ctrlVars, killed, cpc, forced>>

(* The select that delivers a PDU: to the reader's channel ... *)
deliverPDU(c) ==
  /\ Alive
  /\ rx[c] = "deliver"
  /\ chInPDU[c] < PduCap
  /\ chInPDU' = [chInPDU EXCEPT ![c] = @ + 1]
  /\ rx' = [rx EXCEPT ![c] = "recv"]
  /\ UNCHANGED <<connVars, chInPkt, loopVars, ctrlVars, killed, cpc, forced>>

(* ... or chDone closes. *)

deliverClosed(c) ==
  /\ Alive
  /\ rx[c] = "deliver"
  /\ closed[c]
  /\ rx' = [rx EXCEPT ![c] = "drain"]
  /\ UNCHANGED <<connVars, chInPkt, chInPDU, loopVars, ctrlVars, killed, cpc, forced>>

(* The drain that keeps chInPkt from filling up. *)
drain(c) ==
  /\ Alive
  /\ rx[c] = "drain"
  /\ TakePkt(c)
  /\ UNCHANGED <<connVars, chInPDU, rx, loopVars, ctrlVars, killed, cpc, forced>>

Read(c) ==
  /\ Alive
  /\ chInPDU[c] > 0
  /\ chInPDU' = [chInPDU EXCEPT ![c] = @ - 1]
  /\ UNCHANGED <<connVars, chInPkt, rx, loopVars, ctrlVars, killed, cpc, forced>>
-----------------------------------------------------------------------------
Controller ==
  \/ \E c \in Conns, h \in Handles : LinkUp(c, h)
  \/ \E h \in Handles, k \in Kinds : Receive(h, k)
  \/ \E h \in Handles : LinkLoss(h)
  \/ \E c \in Conns : ExecLate(c)

CloserStep(c, x) ==
  \/ CloseCheck(c, x) \/ CloseSend(c, x)
  \/ CloseAccepted(c, x) \/ CloseRefused(c, x) \/ CloseUnanswered(c, x)
  \/ CloseSeesDone(c, x) \/ cleanupConn(c, x) \/ CloseForced(c, x)

LoopStep ==
  \/ handleLEConnectionComplete \/ handleACL \/ deliverACL
  \/ handleDisconnectionComplete \/ closeChans
  \/ (\E c \in Conns : cleanupOne(c)) \/ closeDone

RecombineStep(c) ==
  recombine(c) \/ recombineEOF(c) \/ deliverPDU(c) \/ deliverClosed(c) \/ drain(c)

Next ==
  \/ Controller
  \/ LoopStep
  \/ cleanupConns
  \/ \E c \in Conns, x \in Closers : CloserStep(c, x)
  \/ \E c \in Conns : RecombineStep(c)
  \/ \E c \in Conns : AppClose(c)
  \/ \E c \in Conns : Read(c)

Spec == Init /\ [][Next]_vars

(* Goroutines that can run do run, and timers fire; nothing is assumed of  *)
(* the controller, of the application's reads or of the socket's death.    *)
Fairness ==
  /\ WF_vars(LoopStep)
  /\ \A c \in Conns : WF_vars(RecombineStep(c))
  /\ \A c \in Conns, x \in Closers : WF_vars(CloserStep(c, x))

FairSpec == Spec /\ Fairness
-----------------------------------------------------------------------------
(* What conn.go's comment on closeChans says: handleACL can never look up  *)
(* a conn whose chInPkt is closed and panic sending on it.                 *)
NeverSendOnClosed == lpc # "panic"

(* That only a forced cleanup can close the channel between the lookup and *)
(* the send of handleACL: on sktLoop itself every removal from h.conns     *)
(* precedes the close.                                                     *)
PanicNeedsForcedClose == lpc = "acl" /\ closed[lconn] => lconn \in forced

(* With handles reused and forced cleanups racing events, the handle of an *)
(* ACL packet or a disconnect event resolves to the Conn of the link it    *)
(* came from, or to nothing if that Conn was force-removed.                *)
RoutedToOwner ==
  Reading("acl") \/ Reading("disc") =>
    LET c == Head(evq).c IN
    conns[hdl[c]] = c \/ (conns[hdl[c]] = None /\ c \in forced)

(* Close and kill always end in a closed chDone: by the event, by the      *)
(* forced cleanup, or by the adapter's death.  (conn.go Close: "Without    *)
(* this, a lost Disconnect left a permanent zombie".)  And then the        *)
(* recombine goroutine ends, although nobody may read its PDUs any more.   *)
CloseCompletes ==
  \A c \in Conns :
    /\ (\E x \in Closers : cpc[c][x] = "start") ~> closed[c] \/ lpc = "panic"
    /\ closed[c] ~> rx[c] = "exit" \/ lpc = "panic"

(* sktLoop never waits for one connection's reader: every handler ends.    *)
LoopReturns == lpc \in {"acl", "close", "sweep"} ~> lpc \in {"read", "done", "panic"}
=============================================================================
