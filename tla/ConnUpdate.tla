----------------------------- MODULE ConnUpdate -----------------------------
(***************************************************************************)
(* Connection parameter updates and the L2CAP signalling channel of one    *)
(* connection (linux/hci/conn.go, linux/hci/signal.go, and the event       *)
(* handler of linux/hci/hci.go).                                           *)
(*                                                                         *)
(* LE Connection Update Complete names only the connection, never the      *)
(* command that caused it, so the host admits one update at a time: the    *)
(* slot is updateWaiter (an application's UpdateParams) or                 *)
(* updateSignalPending (a peer's request forwarded by signal.go).  Every   *)
(* update command gets a number here, so that the model can tell whose     *)
(* completion a caller adopts; the code cannot.                            *)
(*                                                                         *)
(* Three goroutines meet: the callers of UpdateParams and Signal, the      *)
(* recombine goroutine that runs handleSignal, and sktLoop.                *)
(***************************************************************************)
EXTENDS Integers, Sequences, FiniteSets, Functions

CONSTANTS
  Callers,      \* goroutines that call UpdateParams
  MaxUpdates,   \* bound: update commands sent in a behaviour
  MaxPkts,      \* bound: signalling packets the peer sends
  MaxSignals,   \* bound: calls of Signal
  Packets,      \* signalling packets: sequences of command kinds
  None

ASSUME NoneAssumption == None \notin Callers
ASSUME BoundAssumption == {MaxUpdates, MaxPkts, MaxSignals} \subseteq Nat

\* The kinds of signalling command handleSignal tells apart: "upd" is a
\* Connection Parameter Update Request, "disc" a Disconnect Request that gets
\* an answer (accepted, or rejected for its destination CID), "silent" one that
\* gets none (an unknown source CID, data that does not unmarshal, the two LE
\* credit commands), and "rsp" any other code: a response to Signal, or a
\* command not understood.
Kinds == {"upd", "disc", "silent", "rsp"}

ASSUME PacketAssumption == Packets \subseteq Seq(Kinds)

VARIABLES
  role,          \* param.Role(): "master" or "slave"
  updateWaiter,  \* the caller whose channel is registered, or None
  updateSignalPending,
  ch,            \* ch[c]: the update whose completion lies in c's channel, or 0
  pc,            \* pc[c]: "idle", "send" (in hci.Send) or "wait" (in the select)
  my,            \* my[c]: the number of the update c has sent, or 0
  got,           \* got[c]: <<own, adopted>> of the last call a completion ended
  rpc,           \* recombine goroutine: "idle", "loop" or "send"
  pkt,           \* the packet handleSignal works on
  at,            \* index of the command it is at
  answers,       \* answers[i]: responses sent for command i of pkt
  mySig,         \* the number of the update sent for the peer, or 0
  sigSent,       \* Conn.sigSent: "nil", "open" or "closed"
  spc,           \* Signal: "idle", "write", "wait" or "got"
  panicked,      \* handleSignal sent on a closed channel
  cmds,          \* controller: update commands it has not looked at yet
  owed,          \* controller: accepted updates not yet completed, in order
  evq,           \* completion events on their way to sktLoop
  refused,       \* updates the controller has refused
  abandoned,     \* updates whose sender stopped waiting for them too early
  chDone,        \* the connection is torn down
  dataLen,       \* "default" or "negotiated"
  nUpd, nPkt, nSig \* counters of the bounds

slot == <<updateWaiter, updateSignalPending>>
callers == <<ch, pc, my, got>>
sigRx == <<rpc, pkt, at, answers, mySig>>
sigTx == <<sigSent, spc>>
ctl == <<cmds, owed, evq, refused>>
vars == <<role, slot, callers, sigRx, sigTx, panicked, ctl, abandoned, chDone,
          dataLen, nUpd, nPkt, nSig>>

Busy == updateWaiter # None \/ updateSignalPending

Init ==
  /\ role \in {"master", "slave"}
  /\ updateWaiter = None /\ updateSignalPending = FALSE
  /\ ch = [c \in Callers |-> 0]
  /\ pc = [c \in Callers |-> "idle"]
  /\ my = [c \in Callers |-> 0]
  /\ got = [c \in Callers |-> <<0, 0>>]
  /\ rpc = "idle" /\ pkt = <<>> /\ at = 1 /\ answers = <<>> /\ mySig = 0
  /\ sigSent = "nil" /\ spc = "idle" /\ panicked = FALSE
  /\ cmds = <<>> /\ owed = <<>> /\ evq = <<>> /\ refused = {}
  /\ abandoned = {} /\ chDone = FALSE /\ dataLen = "default"
  /\ nUpd = 0 /\ nPkt = 0 /\ nSig = 0

-----------------------------------------------------------------------------
(* UpdateParams.                                                           *)

\* A defect: a peer's update in flight does not block the call.
UpdateParams_SignalBlind(c) ==
  /\ pc[c] = "idle" /\ nUpd < MaxUpdates
  /\ updateWaiter = None /\ ~chDone
  /\ updateWaiter' = c
  /\ pc' = [pc EXCEPT ![c] = "send"]
  /\ my' = [my EXCEPT ![c] = nUpd + 1]
  /\ cmds' = Append(cmds, nUpd + 1)
  /\ nUpd' = nUpd + 1
  /\ UNCHANGED <<role, updateSignalPending, ch, got, sigRx, sigTx, panicked, owed,
                 evq, refused, abandoned, chDone, dataLen, nPkt, nSig>>

\* Registration under muUpdate.  A busy slot (ErrUpdateInProgress) and a
\* torn-down link (ErrClosed) return at once and change nothing.
UpdateParams(c) ==
  /\ pc[c] = "idle" /\ nUpd < MaxUpdates
  /\ ~Busy /\ ~chDone
  /\ updateWaiter' = c
  /\ pc' = [pc EXCEPT ![c] = "send"]
  /\ my' = [my EXCEPT ![c] = nUpd + 1]
  /\ cmds' = Append(cmds, nUpd + 1)
  /\ nUpd' = nUpd + 1
  /\ UNCHANGED <<role, updateSignalPending, ch, got, sigRx, sigTx, panicked, owed,
                 evq, refused, abandoned, chDone, dataLen, nPkt, nSig>>

\* Whether the controller still has something to say about update u.
Outstanding(u) == u \in Range(cmds) \union Range(owed) \union Range(evq)

\* Its sender stops waiting for u: a completion it still owes will straggle in.
Abandon(u) ==
  abandoned' = IF Outstanding(u) THEN abandoned \union {u} ELSE abandoned

\* The deferred function clears the waiter whichever way the call ends, and the
\* call's channel is gone with it.
Return(c) ==
  /\ pc' = [pc EXCEPT ![c] = "idle"]
  /\ updateWaiter' = None
  /\ my' = [my EXCEPT ![c] = 0]
  /\ ch' = [ch EXCEPT ![c] = 0]

\* Send returns the command status: accepted, and the call goes on to wait.
Accepted(c) ==
  /\ pc[c] = "send" /\ my[c] \notin Range(cmds) \union refused
  /\ pc' = [pc EXCEPT ![c] = "wait"]
  /\ UNCHANGED <<role, slot, ch, my, got, sigRx, sigTx, panicked, ctl,
                 abandoned, chDone, dataLen, nUpd, nPkt, nSig>>

\* Send fails: the controller refused the command, or Send's own timer fired
\* before the status came (the command may still be accepted afterwards).
SendFailed(c) ==
  /\ pc[c] = "send"
  /\ Return(c)
  /\ Abandon(my[c])
  /\ UNCHANGED <<role, updateSignalPending, got, sigRx, sigTx, panicked,
                 ctl, chDone, dataLen, nUpd, nPkt, nSig>>

\* The select receives the completion that sktLoop delivered.
Completed(c) ==
  /\ pc[c] = "wait" /\ ch[c] # 0
  /\ Return(c)
  /\ got' = [got EXCEPT ![c] = <<my[c], ch[c]>>]
  /\ UNCHANGED <<role, updateSignalPending, sigRx, sigTx, panicked, ctl,
                 abandoned, chDone, dataLen, nUpd, nPkt, nSig>>

\* ctx.Done(): at any time.
Cancelled(c) ==
  /\ pc[c] = "wait"
  /\ Return(c)
  /\ Abandon(my[c])
  /\ UNCHANGED <<role, updateSignalPending, got, sigRx, sigTx, panicked,
                 ctl, chDone, dataLen, nUpd, nPkt, nSig>>

\* <-c.chDone: ErrClosed.
WaitClosed(c) ==
  /\ pc[c] = "wait" /\ chDone
  /\ Return(c)
  /\ UNCHANGED <<role, updateSignalPending, got, sigRx, sigTx, panicked,
                 ctl, abandoned, chDone, dataLen, nUpd, nPkt, nSig>>

\* time.After(connUpdateTimeout), whatever the controller is doing.  That its
\* 40 s exceed the longest supervision timeout makes it unlikely to fire over
\* an update the controller still works on; nothing here relies on that.
WaitTimeout(c) ==
  /\ pc[c] = "wait"
  /\ Return(c)
  /\ Abandon(my[c])
  /\ UNCHANGED <<role, updateSignalPending, got, sigRx, sigTx, panicked,
                 ctl, chDone, dataLen, nUpd, nPkt, nSig>>

-----------------------------------------------------------------------------
(* handleSignal, on the recombine goroutine.                               *)

\* A packet arrives.  One longer than sigRxMTU is answered with a single
\* Command Reject and not looked into.
PeerPacket(p) ==
  /\ rpc = "idle" /\ nPkt < MaxPkts /\ ~chDone
  /\ nPkt' = nPkt + 1
  /\ rpc' = "loop" /\ at' = 1 /\ pkt' = p
  /\ answers' = [i \in DOMAIN p |-> 0]
  /\ UNCHANGED <<role, slot, callers, mySig, sigTx, panicked, ctl, abandoned,
                 chDone, dataLen, nUpd, nSig>>

PeerOversize ==
  /\ rpc = "idle" /\ nPkt < MaxPkts /\ ~chDone
  /\ nPkt' = nPkt + 1
  /\ UNCHANGED <<role, slot, callers, sigRx, sigTx, panicked, ctl, abandoned,
                 chDone, dataLen, nUpd, nSig>>

At(kind) == rpc = "loop" /\ at <= Len(pkt) /\ pkt[at] = kind

Answer == answers' = [answers EXCEPT ![at] = @ + 1]

Advance == at' = at + 1

\* A defect: the loop continues without advancing.
AnswerNow_Stays ==
  /\ \/ At("upd") /\ (role = "slave" \/ Busy)
     \/ At("disc")
  /\ Answer
  /\ UNCHANGED <<role, slot, callers, rpc, pkt, at, mySig, sigTx, panicked, ctl,
                 abandoned, chDone, dataLen, nUpd, nPkt, nSig>>

\* The peer's update request is refused: this side is the slave, or the slot
\* is taken.  A Disconnect Request is answered at once.
AnswerNow ==
  /\ \/ At("upd") /\ (role = "slave" \/ Busy)
     \/ At("disc")
  /\ Answer /\ Advance
  /\ UNCHANGED <<role, slot, callers, rpc, pkt, mySig, sigTx, panicked, ctl,
                 abandoned, chDone, dataLen, nUpd, nPkt, nSig>>

PassOver ==
  /\ At("silent")
  /\ Advance
  /\ UNCHANGED <<role, slot, callers, rpc, pkt, answers, mySig, sigTx, panicked,
                 ctl, abandoned, chDone, dataLen, nUpd, nPkt, nSig>>

\* A defect: an application's update in flight does not block the request.
ForwardUpdate_AppBlind ==
  /\ At("upd") /\ role = "master" /\ ~updateSignalPending /\ nUpd < MaxUpdates
  /\ updateSignalPending' = TRUE
  /\ rpc' = "send"
  /\ mySig' = nUpd + 1
  /\ cmds' = Append(cmds, nUpd + 1)
  /\ nUpd' = nUpd + 1
  /\ UNCHANGED <<role, updateWaiter, callers, pkt, at, answers, sigTx, panicked,
                 owed, evq, refused, abandoned, chDone, dataLen, nPkt, nSig>>

\* Otherwise the request claims the slot and the goroutine blocks in hci.Send.
ForwardUpdate ==
  /\ At("upd") /\ role = "master" /\ ~Busy /\ nUpd < MaxUpdates
  /\ updateSignalPending' = TRUE
  /\ rpc' = "send"
  /\ mySig' = nUpd + 1
  /\ cmds' = Append(cmds, nUpd + 1)
  /\ nUpd' = nUpd + 1
  /\ UNCHANGED <<role, updateWaiter, callers, pkt, at, answers, sigTx, panicked,
                 owed, evq, refused, abandoned, chDone, dataLen, nPkt, nSig>>

\* Send returns nil: the peer is told that its request is accepted, and the
\* slot stays taken until the completion event.
ForwardAccepted ==
  /\ rpc = "send" /\ mySig \notin Range(cmds) \union refused
  /\ rpc' = "loop" /\ mySig' = 0 /\ Answer /\ Advance
  /\ UNCHANGED <<role, slot, callers, pkt, sigTx, panicked, ctl,
                 abandoned, chDone, dataLen, nUpd, nPkt, nSig>>

\* A defect: the slot is not released when the command fails.
ForwardFailed_Keeps ==
  /\ rpc = "send"
  /\ Abandon(mySig)
  /\ rpc' = "loop" /\ mySig' = 0 /\ Answer /\ Advance
  /\ UNCHANGED <<role, slot, callers, pkt, sigTx, panicked, ctl,
                 chDone, dataLen, nUpd, nPkt, nSig>>

\* Send fails, by a refusal or by its timer: "the command never took: release
\* the slot", and the peer is told that its request is rejected.
ForwardFailed ==
  /\ rpc = "send"
  /\ updateSignalPending' = FALSE
  /\ Abandon(mySig)
  /\ rpc' = "loop" /\ mySig' = 0 /\ Answer /\ Advance
  /\ UNCHANGED <<role, updateWaiter, callers, pkt, sigTx, panicked, ctl,
                 chDone, dataLen, nUpd, nPkt, nSig>>

\* Any other code is offered to a Signal that waits.  The code then continues
\* without advancing: it meets the same command again.
HandOver ==
  /\ At("rsp") /\ sigSent = "open" /\ spc = "wait"
  /\ spc' = "got"
  /\ UNCHANGED <<role, slot, callers, sigRx, sigSent, panicked, ctl, abandoned,
                 chDone, dataLen, nUpd, nPkt, nSig>>

\* Nobody receives: Command Reject.
NotUnderstood ==
  /\ At("rsp")
  /\ \/ sigSent = "nil"
     \/ sigSent = "open" /\ spc # "wait"
  /\ Answer /\ Advance
  /\ UNCHANGED <<role, slot, callers, rpc, pkt, mySig, sigTx, panicked, ctl,
                 abandoned, chDone, dataLen, nUpd, nPkt, nSig>>

\* Signal has returned and closed sigSent: the send in the select panics, and
\* the process ends.
SendOnClosed ==
  /\ At("rsp") /\ sigSent = "closed"
  /\ panicked' = TRUE
  /\ UNCHANGED <<role, slot, callers, sigRx, sigTx, ctl, abandoned, chDone,
                 dataLen, nUpd, nPkt, nSig>>

PacketDone ==
  /\ rpc = "loop" /\ at > Len(pkt)
  /\ rpc' = "idle" /\ pkt' = <<>> /\ at' = 1 /\ answers' = <<>>
  /\ UNCHANGED <<role, slot, callers, mySig, sigTx, panicked, ctl, abandoned,
                 chDone, dataLen, nUpd, nPkt, nSig>>

handleSignal ==
  \/ AnswerNow \/ PassOver \/ ForwardUpdate \/ ForwardAccepted \/ ForwardFailed
  \/ HandOver \/ NotUnderstood \/ SendOnClosed \/ PacketDone

-----------------------------------------------------------------------------
(* Signal: a fresh sigSent, the write, and one second of waiting.          *)

SignalStep(from, to, chan) ==
  /\ spc = from /\ spc' = to /\ sigSent' = chan
  /\ UNCHANGED <<role, slot, callers, sigRx, panicked, ctl, abandoned, chDone,
                 dataLen, nUpd, nPkt>>

Signal == nSig < MaxSignals /\ nSig' = nSig + 1 /\ SignalStep("idle", "write", "open")

SignalWritten == SignalStep("write", "wait", "open") /\ UNCHANGED nSig

\* A failed write, the timer, or a response (whatever its code and identifier
\* turn out to be) ends the call; the deferred function closes sigSent.
SignalReturns ==
  /\ \E from \in {"write", "wait", "got"} : SignalStep(from, "idle", "closed")
  /\ UNCHANGED nSig

-----------------------------------------------------------------------------
(* The controller, and the events sktLoop handles.                         *)

\* A controller may accept a second update while one is in progress.
CtlAccept ==
  /\ cmds # <<>> /\ ~chDone
  /\ cmds' = Tail(cmds) /\ owed' = Append(owed, Head(cmds))
  /\ UNCHANGED <<role, slot, callers, sigRx, sigTx, panicked, evq, refused,
                 abandoned, chDone, dataLen, nUpd, nPkt, nSig>>

CtlRefuse ==
  /\ cmds # <<>>
  /\ cmds' = Tail(cmds) /\ refused' = refused \union {Head(cmds)}
  /\ UNCHANGED <<role, slot, callers, sigRx, sigTx, panicked, owed, evq,
                 abandoned, chDone, dataLen, nUpd, nPkt, nSig>>

CtlComplete ==
  /\ owed # <<>>
  /\ owed' = Tail(owed) /\ evq' = Append(evq, Head(owed))
  /\ UNCHANGED <<role, slot, callers, sigRx, sigTx, panicked, cmds, refused,
                 abandoned, chDone, dataLen, nUpd, nPkt, nSig>>

\* deliverConnUpdate: a pending peer update consumes the completion, whoever it
\* belongs to; else the registered waiter gets it unless its channel is full.
deliverConnUpdate(u) ==
  /\ updateSignalPending' = FALSE
  /\ ch' = IF ~updateSignalPending /\ updateWaiter # None /\ ch[updateWaiter] = 0
           THEN [ch EXCEPT ![updateWaiter] = u]
           ELSE ch

\* handleLEConnectionUpdateComplete, on sktLoop.
handleLEConnectionUpdateComplete ==
  /\ evq # <<>>
  /\ evq' = Tail(evq)
  /\ deliverConnUpdate(Head(evq))
  /\ UNCHANGED <<role, updateWaiter, pc, my, got, sigRx, sigTx, panicked, cmds,
                 owed, refused, abandoned, chDone, dataLen, nUpd, nPkt, nSig>>

\* handleLEDataLengthChange records what was negotiated.
handleLEDataLengthChange ==
  /\ ~chDone /\ dataLen = "default"
  /\ dataLen' = "negotiated"
  /\ UNCHANGED <<role, slot, callers, sigRx, sigTx, panicked, ctl, abandoned,
                 chDone, nUpd, nPkt, nSig>>

\* sktLoop tears the connection down: by its disconnection event, behind which
\* the controller sends no completion, or because the socket died, and then the
\* events on their way are lost.
Disconnect ==
  /\ ~chDone
  /\ chDone' = TRUE /\ owed' = <<>> /\ evq' = <<>>
  /\ UNCHANGED <<role, slot, callers, sigRx, sigTx, panicked, cmds, refused,
                 abandoned, dataLen, nUpd, nPkt, nSig>>

-----------------------------------------------------------------------------
Next ==
  /\ ~panicked
  /\ \/ \E c \in Callers :
          \/ UpdateParams(c) \/ Accepted(c) \/ SendFailed(c) \/ Completed(c)
          \/ Cancelled(c) \/ WaitClosed(c) \/ WaitTimeout(c)
     \/ \E p \in Packets : PeerPacket(p)
     \/ PeerOversize \/ handleSignal
     \/ Signal \/ SignalWritten \/ SignalReturns
     \/ CtlAccept \/ CtlRefuse
     \/ CtlComplete \/ handleLEConnectionUpdateComplete
     \/ handleLEDataLengthChange \/ Disconnect

Spec == Init /\ [][Next]_vars

\* Every goroutine that can step does, every timer fires, and the controller
\* completes what it accepted.  Nothing obliges a context to be cancelled, a
\* caller to call, the peer to send or the link to drop.
FairSpec ==
  /\ Spec
  /\ \A c \in Callers :
       /\ WF_vars(~panicked /\ (Accepted(c) \/ SendFailed(c)))
       /\ WF_vars(~panicked /\ (Completed(c) \/ WaitClosed(c) \/ WaitTimeout(c)))
  /\ WF_vars(~panicked /\ handleSignal)
  /\ WF_vars(~panicked /\ SignalReturns)
  /\ WF_vars(~panicked /\ (CtlAccept \/ CtlRefuse))
  /\ WF_vars(~panicked /\ CtlComplete)
  /\ WF_vars(~panicked /\ handleLEConnectionUpdateComplete)

-----------------------------------------------------------------------------
Updates == 1..MaxUpdates

\* The one slot keeps the two sources of updates apart: until some update is
\* abandoned (its context cancelled, its command or its wait timed out) while
\* the controller still works on it, the controller never has two updates of
\* this connection, and while it has one the slot is taken.
SlotExclusive ==
  LET out == {u \in Updates : Outstanding(u)} IN
  abandoned = {} =>
    /\ Cardinality(out) <= 1
    /\ out # {} => Busy \/ chDone

\* A caller of UpdateParams adopts the completion of its own update.  It can
\* adopt another one's only if that update, or one before it, was abandoned
\* and its completion straggled in.
AdoptsOwnResult ==
  \A c \in Callers :
    got[c][1] # got[c][2] =>
      /\ got[c][2] < got[c][1]
      /\ \E a \in abandoned : a <= got[c][2]

\* handleSignal answers every request of a packet exactly once and in order,
\* also when the goroutine waited for a command in between or handed a response
\* to Signal; nothing is answered twice and nothing ahead of the loop early.
AnsweredOnce ==
  \A i \in DOMAIN pkt :
    /\ answers[i] <= (IF i < at THEN 1 ELSE 0)
    /\ i < at /\ pkt[i] \in {"upd", "disc"} => answers[i] = 1

\* Every UpdateParams returns although its context is never cancelled, and the
\* slot is not kept for ever by a peer's update: every accepted update ends in
\* a completion, a timeout or a teardown that frees it.
UpdateEnds ==
  /\ \A c \in Callers : pc[c] # "idle" ~> (pc[c] = "idle" \/ panicked)
  /\ updateSignalPending ~> (~updateSignalPending \/ chDone \/ panicked)

=============================================================================
