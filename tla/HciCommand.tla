----------------------------- MODULE HciCommand -----------------------------
(***************************************************************************)
(* The HCI command path of linux/hci/hci.go: Send and send, the command    *)
(* buffers that are the controller's flow-control credits (chCmdBufs), the *)
(* table of sent commands, the two handlers that complete them, and the    *)
(* end of the transport: close, sktLoop's exit, the recorded error and     *)
(* h.done.                                                                 *)
(*                                                                         *)
(* A command's identity is its number; the code has only opcodes.  The     *)
(* controller may answer late, never, or twice.                            *)
(***************************************************************************)
EXTENDS Integers, Sequences, FiniteSets

CONSTANTS Senders,    \* goroutines that call Send
          OpCodes,
          MaxCmds,    \* bound: commands written
          MaxAllowed, \* bound: Num_HCI_Command_Packets of an event
          EvtCap,     \* bound: events not yet read
          BufCap,     \* capacity of chCmdBufs (16 in the code)
          None

ASSUME BoundsAssumption ==
  MaxCmds \in Nat /\ MaxAllowed \in Nat /\ EvtCap \in Nat /\ BufCap \in Nat \ {0}
ASSUME NoneAssumption ==
  None \notin Senders \cup OpCodes \cup Nat \cup {"cause", "skt"}
-----------------------------------------------------------------------------
VARIABLES mu,       \* holder of h.Mutex
          pc,       \* pc[s]: where sender s is in Send
          op,       \* op[s]: its opcode, None outside Send
          num,      \* num[s]: number of the command it writes, 0 without one
          bufs,     \* number of buffers in chCmdBufs
          sent,     \* sent[o]: the sender whose packet is in h.sent, or None
          reply,    \* reply[s]: what p.done of its packet holds, or None
          written,  \* commands written so far
          loose,    \* history: commands whose sender gave up waiting, or whose
                    \* event came twice
          err,      \* h.err: None, "cause" (close(err)) or "skt" (sktLoop)
          open,     \* the socket is open
          quit,     \* history: the application has called HCI.Close
          loop,     \* sktLoop: "read", "found" (has looked a packet up),
                    \* "exit" (out of the loop), "done" (h.done closed)
          hit,      \* what it found: the packet, known by its sender s and its
                    \* own number, and num, the command the event completes
          ctl,      \* commands the controller works on: [op, num]
          evq       \* events sktLoop has not read: [op, num, n]; a NOP (op is
                    \* None) only carries n, the commands allowed

sendVars == <<mu, pc, op, num, written, loose>>
tabVars == <<bufs, sent, reply>>
sktVars == <<err, open, quit, loop, hit>>
ctlVars == <<ctl, evq>>
vars == <<sendVars, tabVars, sktVars, ctlVars>>

(* Init has called setAllowedCommands(1). *)
Init ==
  /\ mu = None
  /\ pc = [s \in Senders |-> "idle"]
  /\ op = [s \in Senders |-> None]
  /\ num = [s \in Senders |-> 0]
  /\ bufs = 1
  /\ sent = [o \in OpCodes |-> None]
  /\ reply = [s \in Senders |-> None]
  /\ written = 0 /\ loose = {}
  /\ err = None /\ open = TRUE /\ quit = FALSE
  /\ loop = "read" /\ hit = None
  /\ ctl = {} /\ evq = <<>>

Done == loop = "done"
-----------------------------------------------------------------------------
(* Send and send.                                                          *)

Goto(s, l) == pc' = [pc EXCEPT ![s] = l]

Call(s, o) ==
  /\ pc[s] = "idle"
  /\ Goto(s, "lock")
  /\ op' = [op EXCEPT ![s] = o]
  /\ UNCHANGED <<mu, num, written, loose, tabVars, sktVars, ctlVars>>

(* send returns, its packet and the packet's channel with it, and Send     *)
(* unlocks.                                                                *)
Return(s) ==
  /\ Goto(s, "idle")
  /\ mu' = None
  /\ op' = [op EXCEPT ![s] = None]
  /\ num' = [num EXCEPT ![s] = 0]
  /\ reply' = [reply EXCEPT ![s] = None]

(* Lock h.Mutex; with no error recorded, make the packet. *)
Lock(s) ==
  /\ pc[s] = "lock"
  /\ mu = None
  /\ err = None
  /\ mu' = s
  /\ Goto(s, "get")
  /\ UNCHANGED <<op, num, written, loose, tabVars, sktVars, ctlVars>>

LockErr(s) ==
  /\ pc[s] = "lock"
  /\ mu = None
  /\ err # None
  /\ Return(s)
  /\ UNCHANGED <<written, loose, bufs, sent, sktVars, ctlVars>>

(* The select on chCmdBufs, and the entry in h.sent. *)
GetBuf(s) ==
  /\ pc[s] = "get"
  /\ bufs > 0
  /\ bufs' = bufs - 1
  /\ written < MaxCmds
  /\ written' = written + 1
  /\ num' = [num EXCEPT ![s] = written + 1]
  /\ sent' = [sent EXCEPT ![op[s]] = s]
  /\ Goto(s, "write")
  /\ UNCHANGED <<mu, op, loose, reply, sktVars, ctlVars>>

GetDone(s) ==
  /\ pc[s] = "get"
  /\ Done
  /\ Return(s)
  /\ UNCHANGED <<written, loose, bufs, sent, sktVars, ctlVars>>

(* close(err): records the error, or erases it if err is nil, and closes   *)
(* the socket.  Only HCI.Close passes nil.                                 *)
close(e) == err' = e /\ open' = FALSE /\ quit' = (quit \/ e = None)

GetTimeout_Never(s) == FALSE  \* mutant: waits for a buffer without a timer

GetTimeout(s) ==
  /\ pc[s] = "get"
  /\ close("cause")
  /\ Return(s)
  /\ UNCHANGED <<written, loose, bufs, sent, loop, hit, ctlVars>>

(* The command cannot be marshalled: close(err), and the buffer is gone. *)
MarshalFails(s) ==
  /\ pc[s] = "get"
  /\ bufs > 0
  /\ bufs' = bufs - 1
  /\ close("cause")
  /\ Return(s)
  /\ UNCHANGED <<written, loose, sent, loop, hit, ctlVars>>

(* The command goes out ... *)
Write(s) ==
  /\ pc[s] = "write"
  /\ open
  /\ ctl' = ctl \cup {[op |-> op[s], num |-> num[s]]}
  /\ Goto(s, "wait")
  /\ UNCHANGED <<mu, op, num, written, loose, tabVars, sktVars, evq>>

(* delete(h.sent, opcode). *)
Clear(s) == sent' = [sent EXCEPT ![op[s]] = None]

(* ... or the write fails: close(err), and the entry is removed. *)
WriteFails(s) ==
  /\ pc[s] = "write"
  /\ close("cause")
  /\ Clear(s)
  /\ Return(s)
  /\ UNCHANGED <<written, loose, bufs, loop, hit, ctlVars>>

(* The select on the reply, h.done and the timer. *)
WaitReply(s) ==
  /\ pc[s] = "wait"
  /\ reply[s] # None
  /\ Clear(s)
  /\ Return(s)
  /\ UNCHANGED <<written, loose, bufs, sktVars, ctlVars>>

(* h.done: send returns h.Error(). *)
WaitDone(s) ==
  /\ pc[s] = "wait"
  /\ Done
  /\ Clear(s)
  /\ Return(s)
  /\ UNCHANGED <<written, loose, bufs, sktVars, ctlVars>>

WaitTimeout(s) ==
  /\ pc[s] = "wait"
  /\ Clear(s)
  /\ loose' = loose \cup {[op |-> op[s], num |-> num[s]]}
  /\ Return(s)
  /\ UNCHANGED <<written, bufs, sktVars, ctlVars>>

(* HCI.Close: close(nil). *)
Close ==
  /\ close(None)
  /\ UNCHANGED <<sendVars, tabVars, loop, hit, ctlVars>>
-----------------------------------------------------------------------------
(* sktLoop.                                                                *)

(* setAllowedCommands: buffers are added until there are n of them.        *)
setAllowedCommands(n) ==
  LET m == IF n > BufCap THEN BufCap ELSE n
  IN bufs' = IF bufs < m THEN m ELSE bufs

(* The packet of an opcode: h.sent[opcode]. *)
Lookup_Any(o) ==  \* mutant: the one packet there is, whatever its opcode
  LET P == {p \in OpCodes : sent[p] # None}
  IN IF P = {} THEN None ELSE sent[CHOOSE p \in P : TRUE]
Lookup(o) == sent[o]

(* handleCommandComplete and handleCommandStatus look the opcode up; an    *)
(* event nobody waits for is reported and ignored.                         *)
handleCommandComplete ==
  /\ loop = "read" /\ open
  /\ evq # <<>>
  /\ LET e == Head(evq) IN
       /\ setAllowedCommands(e.n)
       /\ IF e.op = None \/ Lookup(e.op) = None
            THEN UNCHANGED <<loop, hit>>
            ELSE /\ loop' = "found"
                 /\ hit' = [s |-> Lookup(e.op), own |-> num[Lookup(e.op)], num |-> e.num]
  /\ evq' = Tail(evq)
  /\ UNCHANGED <<sendVars, sent, reply, err, open, quit, ctl>>

(* Mutant: waits until the packet's channel has room. *)
deliver_Block ==
  /\ loop = "found"
  /\ num[hit.s] = hit.own /\ pc[hit.s] = "wait" /\ reply[hit.s] = None
  /\ reply' = [reply EXCEPT ![hit.s] = hit.num]
  /\ loop' = "read" /\ hit' = None
  /\ UNCHANGED <<sendVars, bufs, sent, err, open, quit, ctlVars>>

(* The non-blocking send on p.done.  The packet may have been given up     *)
(* since the lookup; a reply parked in its channel is then lost.           *)
deliver ==
  /\ loop = "found"
  /\ reply' = IF num[hit.s] = hit.own /\ reply[hit.s] = None
                THEN [reply EXCEPT ![hit.s] = hit.num] ELSE reply
  /\ loop' = "read" /\ hit' = None
  /\ UNCHANGED <<sendVars, bufs, sent, err, open, quit, ctlVars>>

setErrIfAbsent_Not(e) == UNCHANGED err  \* mutant
setErrIfAbsent(e) == err' = IF err = None THEN e ELSE err

(* Read fails: the socket was closed, or died. *)
LoopExit ==
  /\ loop = "read"
  /\ setErrIfAbsent("skt")
  /\ loop' = "exit"
  /\ UNCHANGED <<sendVars, tabVars, open, quit, hit, ctlVars>>

(* The deferred cleanupConns has run; h.done closes. *)
CloseDone ==
  /\ loop = "exit"
  /\ loop' = "done"
  /\ UNCHANGED <<sendVars, tabVars, err, open, quit, hit, ctlVars>>
-----------------------------------------------------------------------------
(* The controller (external).                                              *)

Complete(c, n) ==
  /\ c \in ctl
  /\ Len(evq) < EvtCap
  /\ evq' = Append(evq, [op |-> c.op, num |-> c.num, n |-> n])
  /\ ctl' = ctl \ {c}
  /\ UNCHANGED <<sendVars, tabVars, sktVars>>

Nop(n) ==
  /\ Len(evq) < EvtCap
  /\ evq' = Append(evq, [op |-> None, num |-> 0, n |-> n])
  /\ UNCHANGED <<sendVars, tabVars, sktVars, ctl>>

(* The controller answers a command that it will answer again. *)
Duplicate(c, n) ==
  /\ c \in ctl
  /\ Len(evq) < EvtCap
  /\ evq' = Append(evq, [op |-> c.op, num |-> c.num, n |-> n])
  /\ loose' = loose \cup {c}
  /\ UNCHANGED <<mu, pc, op, num, written, tabVars, sktVars, ctl>>
-----------------------------------------------------------------------------
Begin(s) == Lock(s) \/ LockErr(s)
Proceed(s) ==
  \/ GetBuf(s) \/ GetDone(s) \/ MarshalFails(s) \/ Write(s) \/ WriteFails(s)
  \/ WaitReply(s) \/ WaitDone(s)
Timer(s) == GetTimeout(s) \/ WaitTimeout(s)

Next ==
  \/ \E s \in Senders, o \in OpCodes : Call(s, o)
  \/ \E s \in Senders : Begin(s)
  \/ \E s \in Senders : Proceed(s)
  \/ \E s \in Senders : Timer(s)
  \/ Close
  \/ handleCommandComplete \/ deliver \/ LoopExit \/ CloseDone
  \/ \E c \in ctl, n \in 0..MaxAllowed : Complete(c, n) \/ Duplicate(c, n)
  \/ \E n \in 0..MaxAllowed : Nop(n)

Spec == Init /\ [][Next]_vars

(* Goroutines run, sync.Mutex serves every waiter, timers fire.  Nothing   *)
(* is assumed of the controller.                                           *)
Fairness ==
  /\ \A s \in Senders : SF_vars(Begin(s)) /\ WF_vars(Proceed(s)) /\ WF_vars(Timer(s))
  /\ WF_vars(handleCommandComplete \/ deliver)

FairSpec == Spec /\ Fairness
-----------------------------------------------------------------------------
(* h.done never closes before an error is recorded, so that a Send woken   *)
(* by it does not report success without a reply (sktLoop: "so Error() is  *)
(* accurate for anyone woken by either").  HCI.Close is the exception: it  *)
(* erases a recorded error.                                                *)
ErrorBeforeDone == Done /\ ~quit => err # None

(* Replies are matched by opcode, so a Send can get the reply of another   *)
(* command.  That starts only with a command of the same opcode whose own  *)
(* Send gave up waiting for it, or which the controller answers twice.     *)
(* (From there on the replies may stay one command behind.)                *)
MismatchExplained ==
  [][\A s \in Senders : WaitReply(s) =>
       \/ reply[s] = num[s]
       \/ \E l \in loose : l.op = op[s] /\ l.num <= reply[s]]_vars

(* Every Send returns, whatever the controller does or fails to do. *)
SendReturns == \A s \in Senders : pc[s] = "lock" ~> pc[s] = "idle"

(* sktLoop is never held by a reply nobody reads. *)
LoopNeverBlocks == loop = "found" ~> loop # "found"
=============================================================================
