------------------------------ MODULE GapState ------------------------------
(***************************************************************************)
(* The GAP layer: Dial and cancelDial, Scan and StopScanning, Advertise    *)
(* and StopAdvertising of linux/hci/gap.go, the connection events of       *)
(* linux/hci/hci.go, the Device wrappers of linux/device.go and Connect of *)
(* gatt.go, against a controller that keeps its own state.                 *)
(*                                                                         *)
(* Host and controller agree only through commands.  Send lets one         *)
(* command out at a time, matches a reply to it by opcode alone, and       *)
(* abandons a command whose reply is late: the command still executes, and *)
(* its reply may meet the next Send of that opcode.  Every command gets a  *)
(* number here, so that the model can tell; the code cannot.               *)
(*                                                                         *)
(* Dial takes its connection from chMasterConn, an unbuffered channel that *)
(* every Dial shares and on which sktLoop sends only to a Dial that is     *)
(* already waiting; any other connection is disposed of.                   *)
(***************************************************************************)
EXTENDS Integers, Sequences, FiniteSets

CONSTANTS
  Callers,    \* application goroutines
  Peers,      \* addresses
  Calls,      \* the calls they make, a subset of AllCalls
  MaxCalls,   \* bound: calls in a behaviour
  MaxTmo,     \* bound: Sends that time out
  MaxSlaves,  \* bound: inbound connections
  None

AllCalls == {"dial", "scan", "connect", "advertise"}

ASSUME CallsAssumption == Calls \subseteq AllCalls
ASSUME BoundAssumption == {MaxCalls, MaxTmo, MaxSlaves} \subseteq Nat
ASSUME NoneAssumption ==
  None \notin Callers \union Peers \union [id : Nat, status : {"ok", "disallowed"}]
ASSUME CallersAssumption == IsFiniteSet(Callers) /\ "bg" \notin Callers \union {None}

VARIABLES
  pc,        \* pc[c]: where c is; "idle" between calls
  peer,      \* peer[c]: the address c dials, or None
  call,      \* call[c]: the call c is in, or None
  found,     \* found[c]: the advertisement in Connect's found channel, or None
  advTgt,    \* the caller whose handler is registered, or None
  advEnable, \* h.params.advEnable.AdvertisingEnable
  bg,        \* commands that goroutines of sktLoop's handlers are to send
  lock,      \* the sender that holds h.Mutex, or None
  cur,       \* the command it sent: [id, op, arg]
  reply,     \* the reply in its done channel: [id, status], or None
  cmds,      \* commands the controller has not executed, in order
  evq,       \* events on their way to sktLoop, in order
  ctl,       \* controller: [init: a peer or None, scan, adv: BOOLEAN]
  slaves,    \* controller: inbound links up
  dead,      \* the transport is gone: h.done is closed
  got,       \* history: <<asked, got>> of every client a Dial returned
  blame,     \* history: what may explain a surprise (see the properties)
  nCmd, nCall, nTmo, nSlave

app == <<pc, peer, call, found>>
host == <<advTgt, advEnable, bg>>
snd == <<lock, cur, reply>>
vars == <<app, host, snd, cmds, evq, ctl, slaves, dead, got, blame, nCmd, nCall,
          nTmo, nSlave>>

\* The commands a caller sends, by the place it sends them from.
CommandAt ==
  [create |-> "create", create2 |-> "create", cancel0 |-> "cancel",
   cancel |-> "cancel", scan |-> "scanOn", scan2 |-> "scanOn",
   stop0 |-> "scanOff", stop |-> "scanOff", adData |-> "advData",
   srData |-> "scanRsp", advOn |-> "advOn", advOff |-> "advOff"]

\* Enabling and disabling are one opcode.
OpCode(op) ==
  CASE op \in {"scanOn", "scanOff"} -> "LESetScanEnable"
    [] op \in {"advOn", "advOff"} -> "LESetAdvertiseEnable"
    [] OTHER -> op

NoCommand == [id |-> 0, op |-> "none", arg |-> None]

Init ==
  /\ pc = [c \in Callers |-> "idle"]
  /\ peer = [c \in Callers |-> None]
  /\ call = [c \in Callers |-> None]
  /\ found = [c \in Callers |-> None]
  /\ advTgt = None /\ advEnable = FALSE /\ bg = {}
  /\ lock = None /\ cur = NoCommand /\ reply = None
  /\ cmds = <<>> /\ evq = <<>>
  /\ ctl = [init |-> None, scan |-> FALSE, adv |-> FALSE]
  /\ slaves = 0 /\ dead = FALSE
  /\ got = {} /\ blame = {}
  /\ nCmd = 0 /\ nCall = 0 /\ nTmo = 0 /\ nSlave = 0

-----------------------------------------------------------------------------
(* Send.                                                                   *)

\* s takes h.Mutex and writes its command.
Write(s, op, arg) ==
  /\ lock = None /\ ~dead
  /\ lock' = s
  /\ cur' = [id |-> nCmd + 1, op |-> op, arg |-> arg]
  /\ cmds' = Append(cmds, cur')
  /\ nCmd' = nCmd + 1
  /\ UNCHANGED <<reply, evq, ctl, slaves, dead, got, nCall, nTmo, nSlave>>

\* Send returns r to s: the reply's status, a timeout, or the transport error.
SendReturns(s, r) ==
  /\ \/ lock = s /\ reply # None /\ r = reply.status /\ UNCHANGED nTmo
     \/ lock = s /\ reply = None /\ r = "timeout" /\ nTmo < MaxTmo /\ nTmo' = nTmo + 1
     \/ lock \in {s, None} /\ dead /\ r = "error" /\ UNCHANGED nTmo
  /\ lock' = None /\ cur' = NoCommand /\ reply' = None
  /\ UNCHANGED <<cmds, evq, ctl, slaves, dead, got, nCmd, nCall, nSlave>>

Results == {"ok", "disallowed", "timeout", "error"}

SendFrom(c) ==
  /\ pc[c] \in DOMAIN CommandAt
  /\ Write(c, CommandAt[pc[c]], peer[c])
  /\ UNCHANGED <<app, host>>

\* c goes on at "to"; a call that ends leaves nothing behind.
Go(c, to) ==
  /\ pc' = [pc EXCEPT ![c] = to]
  /\ IF to = "idle"
     THEN /\ peer' = [peer EXCEPT ![c] = None]
          /\ call' = [call EXCEPT ![c] = None]
          /\ found' = [found EXCEPT ![c] = None]
     ELSE UNCHANGED <<peer, call, found>>

-----------------------------------------------------------------------------
(* Dial and cancelDial.                                                    *)

InDial == {"create", "cancel0", "create2", "wait", "cancel", "wait2"}
InScan == {"scan", "stop0", "scan2", "scanning", "stop"}
InAdvertise == {"adData", "srData", "advOn", "advertising", "advOff"}

Dial(c, p) ==
  /\ pc[c] = "idle" /\ "dial" \in Calls /\ nCall < MaxCalls
  /\ nCall' = nCall + 1
  /\ pc' = [pc EXCEPT ![c] = "create"]
  /\ peer' = [peer EXCEPT ![c] = p]
  /\ call' = [call EXCEPT ![c] = "dial"]
  /\ UNCHANGED <<found, host, snd, cmds, evq, ctl, slaves, dead, got, nCmd, nTmo, nSlave>>

\* Command Disallowed: the controller initiates a connection the host has
\* forgotten.  Cancel it, whatever comes of that, and retry once.
CreateReturns(c) ==
  /\ pc[c] = "create"
  /\ \E r \in Results : SendReturns(c, r) /\ Go(c,
       IF r = "ok" THEN "wait" ELSE IF r = "disallowed" THEN "cancel0" ELSE "idle")
  /\ UNCHANGED host

StrayCanceled(c) ==
  /\ pc[c] = "cancel0"
  /\ \E r \in Results : SendReturns(c, r) /\ Go(c, "create2")
  /\ UNCHANGED host

RetryReturns(c) ==
  /\ pc[c] = "create2"
  /\ \E r \in Results : SendReturns(c, r) /\ Go(c, IF r = "ok" THEN "wait" ELSE "idle")
  /\ UNCHANGED host

\* A defect: the connection is not cancelled.
DialEnds_NoCancel(c) ==
  /\ pc[c] = "wait"
  /\ Go(c, "idle")
  /\ UNCHANGED <<host, snd, cmds, evq, ctl, slaves, dead, got, nCmd, nCall, nTmo, nSlave>>

\* ctx.Done() or the dialer's timer.
DialEnds(c) ==
  /\ pc[c] = "wait"
  /\ Go(c, "cancel")
  /\ UNCHANGED <<host, snd, cmds, evq, ctl, slaves, dead, got, nCmd, nCall, nTmo, nSlave>>

\* A cancel that is not allowed means that the connection went up: its event
\* should be on its way.
CancelReturns(c) ==
  /\ pc[c] = "cancel"
  /\ \E r \in Results : SendReturns(c, r) /\ Go(c,
       IF r = "disallowed" THEN "wait2" ELSE "idle")
  /\ UNCHANGED host

\* A defect: the wait for the connection is not bounded.
ConnectionNeverArrived_Never(c) == FALSE

\* connCancelTimeout.
ConnectionNeverArrived(c) ==
  /\ pc[c] = "wait2"
  /\ Go(c, "idle")
  /\ UNCHANGED <<host, snd, cmds, evq, ctl, slaves, dead, got, nCmd, nCall, nTmo, nSlave>>

-----------------------------------------------------------------------------
(* Scan, StopScanning, Device.Scan and Connect.                            *)

\* SetAdvHandler, then Scan.  Connect's filter accepts any peer.
Scan(c, kind) ==
  /\ pc[c] = "idle" /\ kind \in Calls \intersect {"scan", "connect"} /\ nCall < MaxCalls
  /\ nCall' = nCall + 1
  /\ pc' = [pc EXCEPT ![c] = "scan"]
  /\ call' = [call EXCEPT ![c] = kind]
  /\ advTgt' = c
  /\ UNCHANGED <<peer, found, advEnable, bg, snd, cmds, evq, ctl, slaves, dead, got,
                 nCmd, nTmo, nSlave>>

\* Scan has returned, with or without an error: Connect drains its found
\* channel and dials what it holds.
AfterScan(c) ==
  IF found[c] = None
  THEN Go(c, "idle")
  ELSE /\ pc' = [pc EXCEPT ![c] = "create"]
       /\ peer' = [peer EXCEPT ![c] = found[c]]
       /\ found' = [found EXCEPT ![c] = None]
       /\ UNCHANGED call

\* A defect: no reconciling stop.
ScanReturns_NoStop(c) ==
  /\ pc[c] = "scan"
  /\ \E r \in Results :
       /\ SendReturns(c, r)
       /\ CASE r = "ok" -> Go(c, "scanning")
            [] r = "disallowed" -> Go(c, "scan2")
            [] OTHER -> AfterScan(c)
  /\ UNCHANGED host

\* Command Disallowed: the controller scans although the host does not know.
\* Stop that scan and enable once more.
ScanReturns(c) ==
  /\ pc[c] = "scan"
  /\ \E r \in Results :
       /\ SendReturns(c, r)
       /\ CASE r = "ok" -> Go(c, "scanning")
            [] r = "disallowed" -> Go(c, "stop0")
            [] OTHER -> AfterScan(c)
  /\ UNCHANGED host

\* StopScanning: not scanning is what was wanted.
ReconcileReturns(c) ==
  /\ pc[c] = "stop0"
  /\ \E r \in Results :
       /\ SendReturns(c, r)
       /\ IF r \in {"ok", "disallowed"} THEN Go(c, "scan2") ELSE AfterScan(c)
  /\ UNCHANGED host

RescanReturns(c) ==
  /\ pc[c] = "scan2"
  /\ \E r \in Results :
       /\ SendReturns(c, r)
       /\ IF r = "ok" THEN Go(c, "scanning") ELSE AfterScan(c)
  /\ UNCHANGED host

\* The context ends: cancelled, or by Connect's handler at its first match.
ScanEnds(c) ==
  /\ pc[c] = "scanning"
  /\ Go(c, "stop")
  /\ UNCHANGED <<host, snd, cmds, evq, ctl, slaves, dead, got, nCmd, nCall, nTmo, nSlave>>

\* Device.Scan ignores the result of StopScanning.
StopReturns(c) ==
  /\ pc[c] = "stop"
  /\ \E r \in Results : SendReturns(c, r)
  /\ AfterScan(c)
  /\ UNCHANGED host

-----------------------------------------------------------------------------
(* Advertise: SetAdvertisement sends the data and the scan response, then  *)
(* the enable; Device.Advertise stops when its context ends.               *)

Advertise(c) ==
  /\ pc[c] = "idle" /\ "advertise" \in Calls /\ nCall < MaxCalls
  /\ nCall' = nCall + 1
  /\ pc' = [pc EXCEPT ![c] = "adData"]
  /\ call' = [call EXCEPT ![c] = "advertise"]
  /\ UNCHANGED <<peer, found, host, snd, cmds, evq, ctl, slaves, dead, got, nCmd,
                 nTmo, nSlave>>

DataReturns(c) ==
  /\ pc[c] = "adData"
  /\ \E r \in Results : SendReturns(c, r) /\ Go(c, IF r = "ok" THEN "srData" ELSE "idle")
  /\ UNCHANGED host

\* The shared parameter is set before the enable is sent.
ScanRspReturns(c) ==
  /\ pc[c] = "srData"
  /\ \E r \in Results :
       /\ SendReturns(c, r)
       /\ Go(c, IF r = "ok" THEN "advOn" ELSE "idle")
       /\ advEnable' = (advEnable \/ r = "ok")
  /\ UNCHANGED <<advTgt, bg>>

AdvertiseReturns(c) ==
  /\ pc[c] = "advOn"
  /\ \E r \in Results :
       SendReturns(c, r) /\ Go(c, IF r = "ok" THEN "advertising" ELSE "idle")
  /\ UNCHANGED host

\* The context ends, and StopAdvertising sets the parameter back.
AdvertiseEnds(c) ==
  /\ pc[c] = "advertising"
  /\ Go(c, "advOff")
  /\ advEnable' = FALSE
  /\ UNCHANGED <<advTgt, bg, snd, cmds, evq, ctl, slaves, dead, got, nCmd, nCall,
                 nTmo, nSlave>>

StopAdvertisingReturns(c) ==
  /\ pc[c] = "advOff"
  /\ \E r \in Results : SendReturns(c, r) /\ Go(c, "idle")
  /\ UNCHANGED host

\* The goroutines that sktLoop's handlers start to switch advertising.
BackgroundSend(op) ==
  /\ op \in bg
  /\ Write("bg", op, None)
  /\ bg' = bg \ {op}
  /\ UNCHANGED <<app, advTgt, advEnable>>

BackgroundReturns ==
  /\ lock = "bg"
  /\ \E r \in Results : SendReturns("bg", r)
  /\ UNCHANGED <<app, host>>

\* h.done is closed: every wait but the two timers ends with the error.
WaitDead(c) ==
  /\ pc[c] \in {"wait", "wait2", "scanning", "advertising"} /\ dead
  /\ IF pc[c] = "scanning" THEN AfterScan(c) ELSE Go(c, "idle")
  /\ UNCHANGED <<host, snd, cmds, evq, ctl, slaves, dead, got, nCmd, nCall, nTmo, nSlave>>

-----------------------------------------------------------------------------
(* The controller.                                                         *)

Status(k) ==
  CASE k.op = "create" /\ ctl.init # None -> "disallowed"
    [] k.op = "cancel" /\ ctl.init = None -> "disallowed"
    [] k.op = "scanOn" /\ ctl.scan -> "disallowed"
    [] k.op = "scanOff" /\ ~ctl.scan -> "disallowed"
    [] k.op = "advOn" /\ ctl.adv -> "disallowed"
    [] OTHER -> "ok"

Effect(k) ==
  CASE k.op = "create" -> [ctl EXCEPT !.init = k.arg]
    [] k.op = "cancel" -> [ctl EXCEPT !.init = None]
    [] k.op \in {"scanOn", "scanOff"} -> [ctl EXCEPT !.scan = (k.op = "scanOn")]
    [] k.op \in {"advOn", "advOff"} -> [ctl EXCEPT !.adv = (k.op = "advOn")]
    [] OTHER -> ctl

\* It executes a command and replies; a cancelled connection also fails.
CtlExecute ==
  /\ cmds # <<>> /\ ~dead
  /\ LET k == Head(cmds)
         st == Status(k)
     IN /\ ctl' = IF st = "ok" THEN Effect(k) ELSE ctl
        /\ evq' = Append(evq, [type |-> "reply", id |-> k.id, op |-> OpCode(k.op),
                               status |-> st])
  /\ cmds' = Tail(cmds)
  /\ UNCHANGED <<app, host, snd, slaves, dead, got, nCmd, nCall, nTmo, nSlave>>

CtlEvent(e) ==
  /\ evq' = Append(evq, e)
  /\ UNCHANGED <<app, host, snd, cmds, dead, got, nCmd, nCall, nTmo>>

\* The connection it initiates is established, or is not and only its event,
\* which the host ignores, tells.
CtlConnect ==
  /\ ctl.init # None /\ ~dead
  /\ ctl' = [ctl EXCEPT !.init = None]
  /\ CtlEvent([type |-> "conn", peer |-> ctl.init])
  /\ UNCHANGED <<slaves, nSlave>>

CtlConnectFails ==
  /\ ctl.init # None /\ ~dead
  /\ ctl' = [ctl EXCEPT !.init = None]
  /\ UNCHANGED <<app, host, snd, cmds, evq, slaves, dead, got, nCmd, nCall, nTmo, nSlave>>

CtlReport(p) ==
  /\ ctl.scan /\ ~dead /\ \A i \in DOMAIN evq : evq[i].type # "adv"
  /\ CtlEvent([type |-> "adv", peer |-> p])
  /\ UNCHANGED <<ctl, slaves, nSlave>>

\* A central connects to us: the controller stops advertising by itself.
CtlSlave ==
  /\ ctl.adv /\ ~dead /\ nSlave < MaxSlaves
  /\ ctl' = [ctl EXCEPT !.adv = FALSE]
  /\ slaves' = slaves + 1 /\ nSlave' = nSlave + 1
  /\ CtlEvent([type |-> "slave"])

CtlSlaveGone ==
  /\ slaves > 0 /\ ~dead
  /\ slaves' = slaves - 1
  /\ CtlEvent([type |-> "gone"])
  /\ UNCHANGED <<ctl, nSlave>>

\* The adapter is gone, with what it knew and everything on its way.
Die ==
  /\ ~dead
  /\ dead' = TRUE
  /\ cmds' = <<>> /\ evq' = <<>> /\ slaves' = 0
  /\ ctl' = [init |-> None, scan |-> FALSE, adv |-> FALSE]
  /\ UNCHANGED <<app, host, snd, got, nCmd, nCall, nTmo, nSlave>>

-----------------------------------------------------------------------------
(* sktLoop.                                                                *)

Event(type) ==
  /\ evq # <<>> /\ ~dead /\ Head(evq).type = type
  /\ evq' = Tail(evq)
  /\ UNCHANGED <<cmds, ctl, slaves, dead, nCmd, nCall, nTmo, nSlave>>

\* A reply goes to the Send of its opcode, if there is one without a reply.
handleReply ==
  /\ Event("reply")
  /\ LET e == Head(evq) IN
     reply' = IF lock # None /\ OpCode(cur.op) = e.op /\ reply = None
              THEN [id |-> e.id, status |-> e.status]
              ELSE reply
  /\ UNCHANGED <<app, host, lock, cur, got>>

\* A defect: a connection is given to any Dial, waiting or not.
HandOver_Any(c) == pc[c] \in InDial

\* A Dial that can take a connection from chMasterConn.
HandOver(c) == pc[c] \in {"wait", "wait2"}

\* handleLEConnectionComplete, master: hand over without blocking, or dispose.
handleLEConnectionComplete ==
  /\ Event("conn")
  /\ \/ \E c \in Callers :
          /\ HandOver(c)
          /\ got' = got \union {<<peer[c], Head(evq).peer>>}
          /\ Go(c, "idle")
     \/ /\ \A c \in Callers : ~HandOver(c)
        /\ UNCHANGED <<app, got>>
  /\ UNCHANGED <<host, snd>>

\* Slave: the accept loop of linux/device.go is always ready.  The goroutine
\* the handler starts sends a disable, whatever its comment says.
handleSlaveComplete ==
  /\ Event("slave")
  /\ bg' = IF advEnable THEN bg \union {"advOff"} ELSE bg
  /\ UNCHANGED <<app, advTgt, advEnable, snd, got>>

\* handleDisconnectionComplete of a slave: re-enable, with a copy of the
\* parameter as it is now.
handleSlaveGone ==
  /\ Event("gone")
  /\ bg' = IF advEnable THEN bg \union {"advOn"} ELSE bg
  /\ UNCHANGED <<app, advTgt, advEnable, snd, got>>

\* An advertisement reaches the registered handler.  Connect's puts the first
\* into its buffered channel, which also ends the scan's context.
handleReport ==
  /\ Event("adv")
  /\ IF /\ advTgt # None /\ call[advTgt] = "connect"
        /\ pc[advTgt] \in InScan /\ found[advTgt] = None
     THEN found' = [found EXCEPT ![advTgt] = Head(evq).peer]
     ELSE UNCHANGED found
  /\ UNCHANGED <<pc, peer, call, host, snd, got>>

-----------------------------------------------------------------------------
\* What may explain a surprise: two Dials or two scans at once, a Send that
\* took another command's reply, a re-enable sent after StopAdvertising.
Surprise ==
  {x \in {"dials", "scans", "misread", "stale"} :
     \/ x = "dials" /\ Cardinality({c \in Callers : pc[c] \in InDial}) > 1
     \/ x = "scans" /\ Cardinality({c \in Callers : pc[c] \in InScan}) > 1
     \/ x = "misread" /\ reply # None /\ reply.id # cur.id
     \/ x = "stale" /\ lock = "bg" /\ cur.op = "advOn" /\ ~advEnable}

Record == blame' = blame \union Surprise'

Steps(c) ==
  \/ SendFrom(c) \/ CreateReturns(c) \/ StrayCanceled(c) \/ RetryReturns(c)
  \/ CancelReturns(c) \/ ConnectionNeverArrived(c) \/ ScanReturns(c)
  \/ ReconcileReturns(c) \/ RescanReturns(c) \/ StopReturns(c)
  \/ DataReturns(c) \/ ScanRspReturns(c) \/ AdvertiseReturns(c)
  \/ StopAdvertisingReturns(c) \/ WaitDead(c)

Ends(c) == DialEnds(c) \/ ScanEnds(c) \/ AdvertiseEnds(c)

Background == (\E op \in bg : BackgroundSend(op)) \/ BackgroundReturns

Loop ==
  \/ handleReply \/ handleLEConnectionComplete \/ handleSlaveComplete
  \/ handleSlaveGone \/ handleReport

Next ==
  /\ \/ \E c \in Callers :
          \/ \E p \in Peers : Dial(c, p)
          \/ \E kind \in {"scan", "connect"} : Scan(c, kind)
          \/ Advertise(c) \/ Steps(c) \/ Ends(c)
     \/ Background \/ CtlExecute \/ CtlConnect \/ CtlConnectFails
     \/ \E p \in Peers : CtlReport(p)
     \/ CtlSlave \/ CtlSlaveGone \/ Die \/ Loop
  /\ Record

Spec == Init /\ [][Next]_vars

\* Goroutines that can step do, the controller executes what it is sent,
\* contexts end.  Nothing obliges a peer to connect or to advertise, and no
\* Send to time out.
FairSpec ==
  /\ Spec
  /\ \A c \in Callers : WF_vars(Steps(c) /\ Record) /\ WF_vars(Ends(c) /\ Record)
  /\ WF_vars(Background /\ Record)
  /\ WF_vars(CtlExecute /\ Record)
  /\ WF_vars(Loop /\ Record)

-----------------------------------------------------------------------------

\* A Dial returns a client of the peer it was asked for, although every Dial
\* shares one channel and earlier Dials may have left the controller
\* initiating or a connection event on its way.  It can be given another
\* one's only if two Dials overlapped, or if a Send took the reply of an
\* abandoned command for its own.
PeerIsAsked ==
  (\E d \in got : d[1] # d[2]) => blame \intersect {"dials", "misread"} # {}

\* Once every call has returned and the controller has nothing to execute, it
\* neither initiates nor scans, whichever calls overlapped and in whichever
\* order contexts ended, unless a Send timed out; and it does not advertise
\* behind the back of the host, unless a disconnection's re-enable was sent
\* after StopAdvertising.
QuietIsIdle ==
  /\ \A c \in Callers : pc[c] = "idle"
  /\ cmds = <<>> /\ bg = {} /\ nTmo = 0 /\ ~dead
  => /\ ctl.init = None /\ ~ctl.scan
     /\ ctl.adv => advEnable \/ "stale" \in blame

\* A Scan recovers from an enable that an earlier call abandoned: it fails with
\* Command Disallowed only if scans overlapped or a Send took the wrong reply.
ScanRecovers ==
  [][\A c \in Callers :
       /\ pc[c] = "scan2" /\ pc'[c] \notin {"scan2", "scanning"} /\ lock = c
       /\ reply # None /\ ~dead
       => blame \intersect {"scans", "misread"} # {}]_vars

\* Every call returns once its context has ended: also a Dial whose connection
\* went up while it was cancelled, and a Connect whose match raced its context.
CallsReturn == \A c \in Callers : pc[c] # "idle" ~> pc[c] = "idle"

=============================================================================
