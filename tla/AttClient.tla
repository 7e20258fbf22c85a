------------------------------ MODULE AttClient ------------------------------
(***************************************************************************)
(* The ATT client of linux/att/client.go: requests serialized by the       *)
(* transmit buffer (chTxBuf), the read loop that hands responses over      *)
(* (rspc), the bookkeeping of abandoned and timed-out transactions, the    *)
(* MTU exchanges of both sides, and the dispatcher of asynchronous PDUs.   *)
(*                                                                         *)
(* Processes: callers of request methods, Loop, the goroutine Loop starts  *)
(* for asynchronous work, and the peer.  The peer is a sequential server:  *)
(* it answers each request at most once and in order, or never.  It may    *)
(* also send notifications and indications ("ntf"), MTU requests, PDUs     *)
(* without an opcode or a handle ("runt"), and requests this client does   *)
(* not implement ("stray"), which Loop cannot tell from responses.         *)
(*                                                                         *)
(* A request's identity is its number on the wire; the code has only       *)
(* opcodes.                                                                *)
(***************************************************************************)
EXTENDS Integers, Sequences, FiniteSets

CONSTANTS Callers,     \* goroutines that call request methods
          MaxReqs,     \* bound: requests written to the wire
          InCap,       \* bound: inbound PDUs not yet read
          AsyncCap,    \* capacity of the async queue (16 in the code)
          MTUs,        \* possible transmit MTUs
          PeerOps,     \* what the peer may send besides responses
          None

ASSUME MTUsAssumption == MTUs \subseteq Nat /\ MTUs # {} /\ IsFiniteSet(MTUs)
ASSUME BoundsAssumption == MaxReqs \in Nat /\ InCap \in Nat /\ AsyncCap \in Nat
ASSUME PeerOpsAssumption == PeerOps \subseteq {"stray", "ntf", "mtuReq", "runt"}
ASSUME NoneAssumption == None \notin Callers \cup Nat \cup {"req", "mtu"}

DefaultMTU == CHOOSE m \in MTUs : \A k \in MTUs : m <= k
-----------------------------------------------------------------------------
VARIABLES pc,        \* pc[c]: where caller c is
          op,        \* op[c]: what c does: "req", "mtu" (ExchangeMTU), "cmd"
          need,      \* need[c]: bytes of the transmit buffer it slices
          id,        \* id[c]: number of the request c wrote, 0 without one
          slot,      \* who holds the transmit buffer; None: it is in chTxBuf
          bufLen,    \* length of the transmit buffer
          txMTU,     \* l2c.TxMTU()
          count,     \* requests written so far
          rspc,      \* the response channel, capacity 1
          chErr,     \* the error channel, capacity 1, holds an error
          bearerClosed,
          abandoned, \* abandonedRsp: the opcode of an abandoned request, or None
          loop,      \* Loop: "read", "confirm" (it writes a confirmation) or "exit"
          async,     \* the queue of asynchronous work
          work,      \* what the dispatcher works on, or None
          peer,      \* requests the peer has not answered
          inq,       \* inbound PDUs Loop has not read
          unrefused  \* history: a stray request could not be refused, and its
                     \* transaction was left open and unrecorded

callVars == <<pc, op, need, id>>
bufVars == <<slot, bufLen, txMTU>>
txnVars == <<count, bearerClosed, abandoned>>
chanVars == <<rspc, chErr>>
asyncVars == <<async, work>>
vars == <<callVars, bufVars, txnVars, chanVars, loop, asyncVars, peer, inq, unrefused>>

ReqOps == {"req", "mtu"}
(* A response carries the opcode of its request, or is an Error Response;  *)
(* a stray request has an opcode of its own, a runt none that counts.      *)
Response == [op : ReqOps \cup {"error"}, id : 1..MaxReqs]
Stray == [op |-> "stray", id |-> 0]
Runt == [op |-> "runt", id |-> 0]
Async == {[op |-> o, id |-> 0] : o \in {"ntf", "mtuReq"}}

Init ==
  /\ pc = [c \in Callers |-> "idle"]
  /\ op = [c \in Callers |-> "req"]
  /\ need = [c \in Callers |-> DefaultMTU]
  /\ id = [c \in Callers |-> 0]
  /\ slot = None /\ bufLen = DefaultMTU /\ txMTU = DefaultMTU
  /\ count = 0 /\ bearerClosed = FALSE /\ abandoned = None
  /\ rspc = <<>> /\ chErr = FALSE
  /\ loop = "read"
  /\ async = <<>> /\ work = None
  /\ peer = <<>> /\ inq = <<>> /\ unrefused = FALSE

(* A slice past the buffer's end ends the process. *)
Alive == \A c \in Callers : pc[c] # "panic"
-----------------------------------------------------------------------------
(* Callers.                                                                *)

Goto(c, l) == pc' = [pc EXCEPT ![c] = l]

(* Every request method.  Write, WriteCommand and their like check the     *)
(* value against the current MTU before they have the buffer; the other    *)
(* methods need no more than the default MTU.                              *)
Call(c, o, n) ==
  /\ Alive
  /\ pc[c] = "idle"
  /\ n <= txMTU
  /\ o = "mtu" => n = DefaultMTU
  /\ Goto(c, "acquire")
  /\ op' = [op EXCEPT ![c] = o]
  /\ need' = [need EXCEPT ![c] = n]
  /\ UNCHANGED <<id, bufVars, txnVars, chanVars, loop, asyncVars, peer, inq, unrefused>>

(* The method returns. *)
Leave(c) ==
  /\ Goto(c, "idle")
  /\ op' = [op EXCEPT ![c] = "req"]
  /\ need' = [need EXCEPT ![c] = DefaultMTU]
  /\ id' = [id EXCEPT ![c] = 0]

(* The return of a method that holds the buffer. *)
Return(c) == Leave(c) /\ slot' = None

(* acquireTxBuf, the marshalling of the PDU into the buffer, and the       *)
(* checks at the top of sendReq and sendCmd.  bearerClosed and abandonedRsp *)
(* change only under the buffer.                                           *)
acquireTxBuf(c) ==
  /\ Alive
  /\ pc[c] = "acquire"
  /\ slot = None
  /\ need[c] <= bufLen
  /\ ~bearerClosed /\ op[c] # "cmd"
  /\ slot' = c
  /\ Goto(c, IF abandoned # None THEN "resolve" ELSE "drain")
  /\ UNCHANGED <<op, need, id, bufLen, txMTU, txnVars, chanVars, loop, asyncVars, peer, inq, unrefused>>

(* The slice txBuf[:n] with n beyond the buffer. *)
SlicePanic(c) ==
  /\ Alive
  /\ pc[c] = "acquire"
  /\ slot = None
  /\ need[c] > bufLen
  /\ Goto(c, "panic")
  /\ UNCHANGED <<op, need, id, bufVars, txnVars, chanVars, loop, asyncVars, peer, inq, unrefused>>

(* sendCmd, refused or written, and ErrBearerClosed of sendReq: the buffer *)
(* is taken and released.                                                  *)
sendCmd(c) ==
  /\ Alive
  /\ pc[c] = "acquire"
  /\ slot = None
  /\ need[c] <= bufLen
  /\ bearerClosed \/ op[c] = "cmd"
  /\ Leave(c)
  /\ UNCHANGED <<bufVars, txnVars, chanVars, loop, asyncVars, peer, inq, unrefused>>

(* The context ends before the buffer is free. *)
AcquireCtx(c) ==
  /\ Alive
  /\ pc[c] = "acquire"
  /\ Leave(c)
  /\ UNCHANGED <<bufVars, txnVars, chanVars, loop, asyncVars, peer, inq, unrefused>>

(* What sendReq and resolveAbandoned accept as the answer to opcode o. *)
Matches(p, o) == p.op = "error" \/ p.op = o

Receive == rspc # <<>> /\ rspc' = <<>>

(* resolveAbandoned: the late response arrives ... *)
ResolveRsp(c) ==
  /\ Alive
  /\ pc[c] = "resolve"
  /\ Receive
  /\ IF Matches(rspc[1], abandoned)
       THEN abandoned' = None /\ Goto(c, "drain")
       ELSE UNCHANGED abandoned /\ Goto(c, "refuseOld")
  /\ UNCHANGED <<op, need, id, bufVars, count, bearerClosed, chErr, loop, asyncVars, peer, inq, unrefused>>

(* ... or Loop has failed: the bearer is poisoned ... *)
ResolveErr(c) ==
  /\ Alive
  /\ pc[c] = "resolve"
  /\ chErr
  /\ chErr' = FALSE
  /\ bearerClosed' = TRUE
  /\ Return(c)
  /\ UNCHANGED <<bufLen, txMTU, count, abandoned, rspc, loop, asyncVars, peer, inq, unrefused>>

(* ... or the context ends, and the abandoned transaction remains ... *)
ResolveCtx(c) ==
  /\ Alive
  /\ pc[c] = "resolve"
  /\ Return(c)
  /\ UNCHANGED <<bufLen, txMTU, txnVars, chanVars, loop, asyncVars, peer, inq, unrefused>>

(* ... or its deadline passes: the bearer is poisoned and closed.          *)
ResolveTimeout(c) ==
  /\ Alive
  /\ pc[c] = "resolve"
  /\ bearerClosed' = TRUE
  /\ Return(c)
  /\ UNCHANGED <<bufLen, txMTU, count, abandoned, chanVars, loop, asyncVars, peer, inq, unrefused>>

(* The non-blocking receive before the write. *)
Drain(c) ==
  /\ Alive
  /\ pc[c] = "drain"
  /\ rspc' = <<>>
  /\ Goto(c, "write")
  /\ UNCHANGED <<op, need, id, bufVars, txnVars, chErr, loop, asyncVars, peer, inq, unrefused>>

(* The request reaches the wire ... *)
WriteReq(c) ==
  /\ Alive
  /\ pc[c] = "write"
  /\ count < MaxReqs
  /\ count' = count + 1
  /\ id' = [id EXCEPT ![c] = count + 1]
  /\ peer' = IF loop # "exit" THEN Append(peer, [op |-> op[c], id |-> count + 1]) ELSE peer
  /\ Goto(c, "wait")
  /\ UNCHANGED <<op, need, bufVars, bearerClosed, abandoned, chanVars, loop, asyncVars, inq, unrefused>>

(* ... or the write fails, and it does not. *)
WriteFails(c) ==
  /\ Alive
  /\ pc[c] = "write"
  /\ Return(c)
  /\ UNCHANGED <<bufLen, txMTU, txnVars, chanVars, loop, asyncVars, peer, inq, unrefused>>

(* ExchangeMTU adopts MTU m: a buffer of that length already is taken as a *)
(* sign that the connection knows.                                         *)
Adopt(m) == bufLen' = m /\ txMTU' = IF bufLen = m THEN txMTU ELSE m

(* sendReq takes a PDU.  A response ends the request, and ExchangeMTU      *)
(* adopts the MTU it agreed on; after an Error Response or an invalid MTU  *)
(* nothing changes.                                                        *)
WaitRsp(c) ==
  /\ Alive
  /\ pc[c] = "wait"
  /\ Receive
  /\ IF Matches(rspc[1], op[c])
       THEN /\ Return(c)
            /\ \/ UNCHANGED <<bufLen, txMTU>>
               \/ /\ op[c] = "mtu" /\ rspc[1].op = "mtu"
                  /\ \E m \in MTUs : Adopt(m)
       ELSE Goto(c, "refuse") /\ UNCHANGED <<op, need, id, bufVars>>
  /\ UNCHANGED <<txnVars, chErr, loop, asyncVars, peer, inq, unrefused>>

WaitErr(c) ==
  /\ Alive
  /\ pc[c] = "wait"
  /\ chErr
  /\ chErr' = FALSE
  /\ Return(c)
  /\ UNCHANGED <<bufLen, txMTU, txnVars, rspc, loop, asyncVars, peer, inq, unrefused>>

(* The context ends: the transaction is recorded as abandoned. *)
WaitCtx_NoRecord(c) ==  \* mutant
  /\ pc[c] = "wait"
  /\ Return(c)
  /\ UNCHANGED <<bufLen, txMTU, txnVars, chanVars, loop, asyncVars, peer, inq, unrefused>>

WaitCtx(c) ==
  /\ Alive
  /\ pc[c] = "wait"
  /\ abandoned' = op[c]
  /\ Return(c)
  /\ UNCHANGED <<bufLen, txMTU, count, bearerClosed, chanVars, loop, asyncVars, peer, inq, unrefused>>

(* The 30 s are over: the bearer is poisoned and closed. *)
WaitTimeout_Never(c) == FALSE  \* mutant: no transaction timer

WaitTimeout(c) ==
  /\ Alive
  /\ pc[c] = "wait"
  /\ bearerClosed' = TRUE
  /\ Return(c)
  /\ UNCHANGED <<bufLen, txMTU, count, abandoned, chanVars, loop, asyncVars, peer, inq, unrefused>>

(* A stray request is refused with an Error Response, and the wait goes on. *)
Refuse(c) ==
  /\ Alive
  /\ pc[c] \in {"refuse", "refuseOld"}
  /\ Goto(c, IF pc[c] = "refuse" THEN "wait" ELSE "resolve")
  /\ UNCHANGED <<op, need, id, bufVars, txnVars, chanVars, loop, asyncVars, peer, inq, unrefused>>

(* The refusal's write fails: sendReq returns and forgets its transaction; *)
(* resolveAbandoned returns with the abandoned one still recorded.         *)
RefuseFails(c) ==
  /\ Alive
  /\ pc[c] \in {"refuse", "refuseOld"}
  /\ Return(c)
  /\ unrefused' = (unrefused \/ pc[c] = "refuse")
  /\ UNCHANGED <<bufLen, txMTU, txnVars, chanVars, loop, asyncVars, peer, inq>>
-----------------------------------------------------------------------------
(* Loop.                                                                   *)

Reads(P) == loop = "read" /\ inq # <<>> /\ Head(inq) \in P /\ inq' = Tail(inq)

(* A response, or what looks like one: handed over without blocking. *)
LoopRsp ==
  /\ Alive
  /\ Reads(Response \cup {Stray})
  /\ rspc' = IF rspc = <<>> THEN <<Head(inq)>> ELSE rspc
  /\ UNCHANGED <<callVars, bufVars, txnVars, chErr, loop, asyncVars, peer, unrefused>>

(* Where Loop goes after PDU p: a notification and an indication differ in *)
(* the confirmation, which a runt indication gets as well.                 *)
AfterRead(p) == IF p.op \in {"ntf", "runt"} THEN {"read", "confirm"} ELSE {"read"}

(* Asynchronous work: queued, or dropped when the queue is full.           *)
LoopAsync_Block ==  \* mutant: waits for room
  /\ Reads(Async)
  /\ Len(async) < AsyncCap
  /\ async' = Append(async, Head(inq))
  /\ loop' \in AfterRead(Head(inq))
  /\ UNCHANGED <<callVars, bufVars, txnVars, chanVars, work, peer, unrefused>>

LoopAsync ==
  /\ Alive
  /\ Reads(Async)
  /\ async' = IF Len(async) < AsyncCap THEN Append(async, Head(inq)) ELSE async
  /\ loop' \in AfterRead(Head(inq))
  /\ UNCHANGED <<callVars, bufVars, txnVars, chanVars, work, peer, unrefused>>

(* No opcode, or a notification or indication without a handle: dropped. *)
LoopRunt ==
  /\ Alive
  /\ Reads({Runt})
  /\ loop' \in AfterRead(Head(inq))
  /\ UNCHANGED <<callVars, bufVars, txnVars, chanVars, asyncVars, peer, unrefused>>

(* The confirmation's Write returns, within its own time limit; whether it *)
(* succeeded is not looked at.                                             *)
LoopConfirm ==
  /\ Alive
  /\ loop = "confirm"
  /\ loop' = "read"
  /\ UNCHANGED <<callVars, bufVars, txnVars, chanVars, asyncVars, peer, inq, unrefused>>

(* Read fails: the connection is gone, or sent what Read cannot take.      *)
(* What the peer sends from then on nobody reads.                          *)
LoopExit ==
  /\ Alive
  /\ loop = "read"
  /\ loop' = "exit"
  /\ chErr' = TRUE
  /\ peer' = <<>> /\ inq' = <<>>
  /\ UNCHANGED <<callVars, bufVars, txnVars, rspc, asyncVars, unrefused>>

(* The goroutine that does the asynchronous work. *)
Dispatch ==
  /\ Alive
  /\ work = None
  /\ async # <<>>
  /\ work' = Head(async)
  /\ async' = Tail(async)
  /\ UNCHANGED <<callVars, bufVars, txnVars, chanVars, loop, peer, inq, unrefused>>

HandleNotification ==
  /\ Alive
  /\ work # None /\ work.op = "ntf"
  /\ work' = None
  /\ UNCHANGED <<callVars, bufVars, txnVars, chanVars, loop, async, peer, inq, unrefused>>

(* The peer's MTU request: takes the buffer, adopts the MTU (or refuses an *)
(* invalid one), puts a buffer of that length back, and answers.           *)
handleExchangeMTURequest_Keep ==  \* mutant: the old buffer goes back
  /\ work # None /\ work.op = "mtuReq"
  /\ slot = None
  /\ \E m \in MTUs : txMTU' = m
  /\ work' = None
  /\ UNCHANGED <<callVars, slot, bufLen, txnVars, chanVars, loop, async, peer, inq, unrefused>>

handleExchangeMTURequest ==
  /\ Alive
  /\ work # None /\ work.op = "mtuReq"
  /\ slot = None
  /\ \/ UNCHANGED <<bufLen, txMTU>>
     \/ \E m \in MTUs : bufLen' = m /\ txMTU' = m
  /\ work' = None
  /\ UNCHANGED <<callVars, slot, txnVars, chanVars, loop, async, peer, inq, unrefused>>
-----------------------------------------------------------------------------
(* The peer (external).                                                    *)

PeerAnswers ==
  /\ Alive
  /\ peer # <<>>
  /\ Len(inq) < InCap
  /\ \E o \in {Head(peer).op, "error"} :
       inq' = Append(inq, [op |-> o, id |-> Head(peer).id])
  /\ peer' = Tail(peer)
  /\ UNCHANGED <<callVars, bufVars, txnVars, chanVars, loop, asyncVars, unrefused>>

PeerSends(p) ==
  /\ Alive
  /\ loop # "exit" /\ p.op \in PeerOps
  /\ Len(inq) < InCap
  /\ inq' = Append(inq, p)
  /\ UNCHANGED <<callVars, bufVars, txnVars, chanVars, loop, asyncVars, peer, unrefused>>
-----------------------------------------------------------------------------
Begin(c) == acquireTxBuf(c) \/ SlicePanic(c) \/ sendCmd(c)

Proceed(c) ==
  \/ ResolveRsp(c) \/ ResolveErr(c) \/ Drain(c) \/ WriteReq(c) \/ WriteFails(c)
  \/ WaitRsp(c) \/ WaitErr(c) \/ Refuse(c) \/ RefuseFails(c)

Timer(c) == ResolveTimeout(c) \/ WaitTimeout(c)

CtxDone(c) == AcquireCtx(c) \/ ResolveCtx(c) \/ WaitCtx(c)

Next ==
  \/ \E c \in Callers, o \in ReqOps \cup {"cmd"}, n \in MTUs : Call(c, o, n)
  \/ \E c \in Callers : Begin(c)
  \/ \E c \in Callers : Proceed(c)
  \/ \E c \in Callers : Timer(c)
  \/ \E c \in Callers : CtxDone(c)
  \/ LoopRsp \/ LoopAsync \/ LoopRunt \/ LoopConfirm \/ LoopExit
  \/ Dispatch \/ HandleNotification \/ handleExchangeMTURequest
  \/ PeerAnswers
  \/ \E p \in {Stray, Runt} \cup Async : PeerSends(p)

Spec == Init /\ [][Next]_vars

(* Goroutines run; waiters on chTxBuf are served in order; a timer that    *)
(* has fired stays ready, and select, which picks at random among what is  *)
(* ready, takes it in the end; a confirmation's Write returns, as every    *)
(* Write does (WriteReturns of TxCredits).  Nothing is assumed of          *)
(* contexts, of the peer, or of the handlers.                              *)
Fairness ==
  /\ \A c \in Callers : SF_vars(Begin(c)) /\ WF_vars(Proceed(c)) /\ SF_vars(Timer(c))
  /\ WF_vars(LoopRsp \/ LoopAsync \/ LoopRunt \/ LoopConfirm)

FairSpec == Spec /\ Fairness
-----------------------------------------------------------------------------
(* What a waiting request takes from rspc as its answer is its own         *)
(* response, however many requests before it were abandoned, timed out or  *)
(* failed, unless the refusal of a stray request failed in sendReq, which  *)
(* returned with its transaction open and unrecorded.  (README: "a         *)
(* canceled request can never cause a later one to consume a stale         *)
(* response".)                                                             *)
NoStaleResponse ==
  \A c \in Callers :
    ~unrefused /\ pc[c] = "wait" /\ rspc # <<>> /\ Matches(rspc[1], op[c])
      => rspc[1].id = id[c]

(* Whoever takes the buffer finds it as long as the connection's MTU. *)
BufferFitsMTU == slot = None => bufLen = txMTU

(* Loop drops the response of a waiting request only if a request of the   *)
(* peer sits in rspc, or a refusal failed in sendReq before.  (The comment *)
(* on RspDropped promises more: "no request was waiting for them".)        *)
DroppedBehindStray ==
  [][LoopRsp /\ rspc # <<>> /\ ~unrefused
       /\ (\E c \in Callers : pc[c] \in {"wait", "refuse"} /\ id[c] = Head(inq).id)
       => rspc[1] = Stray]_vars

(* Every request returns, even if the peer and the context never end it.   *)
RequestReturns == \A c \in Callers : pc[c] = "acquire" ~> pc[c] = "idle" \/ ~Alive

(* Loop never waits, but for its own confirmation to be written: not for a *)
(* request that nobody makes any more, not for a handler that takes its    *)
(* time, not for the buffer.                                               *)
LoopNeverStalls ==
  Len(inq) = InCap ~> Len(inq) < InCap \/ loop = "exit" \/ ~Alive
=============================================================================
