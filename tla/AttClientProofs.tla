--------------------------- MODULE AttClientProofs ---------------------------
(***************************************************************************)
(* Proofs about AttClient, for any callers, MTUs, queue capacities and     *)
(* number of requests: the transmit buffer is always as long as the MTU,   *)
(* and at most one response is on its way to the client, the last          *)
(* request's, so that no request takes another one's response for its own. *)
(***************************************************************************)
EXTENDS AttClient, SequenceTheorems, WellFoundedInduction, TLAPS

(* Where a caller holds the transmit buffer: with an abandoned transaction *)
(* still to be resolved, before its own request is written, and after.     *)
Resolving == {"resolve", "refuseOld"}
Preparing == {"drain", "write"}
Waiting == {"wait", "refuse"}
Holding == Resolving \cup Preparing \cup Waiting

TypeOK ==
  /\ pc \in [Callers -> {"idle", "acquire", "panic"} \cup Holding]
  /\ op \in [Callers -> ReqOps \cup {"cmd"}]
  /\ need \in [Callers -> MTUs]
  /\ id \in [Callers -> 0..MaxReqs]
  /\ slot \in Callers \cup {None}
  /\ bufLen \in MTUs /\ txMTU \in MTUs
  /\ count \in 0..MaxReqs
  /\ bearerClosed \in BOOLEAN
  /\ abandoned \in ReqOps \cup {None}
  /\ rspc \in Seq(Response \cup {Stray}) /\ Len(rspc) <= 1
  /\ chErr \in BOOLEAN
  /\ loop \in {"read", "confirm", "exit"}
  /\ async \in Seq(Async)
  /\ work \in Async \cup {None}
  /\ peer \in Seq(Response)
  /\ inq \in Seq(Response \cup {Stray, Runt} \cup Async)
  /\ unrefused \in BOOLEAN

(* chTxBuf holds one buffer: whoever is in a transaction has it. *)
Holder == \A c \in Callers : pc[c] \in Holding <=> slot = c

(* Only a request holds an open transaction, only a canceled one leaves it *)
(* abandoned, and a poisoned bearer takes no request.                      *)
Transaction ==
  /\ bearerClosed => slot = None
  /\ \A c \in Callers :
       /\ op[c] = "cmd" => pc[c] \notin Holding
       /\ pc[c] \in Resolving => abandoned # None
       /\ pc[c] \in Preparing \cup Waiting => abandoned = None
       /\ pc[c] \in Waiting => id[c] = count /\ count > 0
  /\ loop = "exit" => peer = <<>> /\ inq = <<>>
  /\ chErr => loop = "exit"

(* Where the response of the last request may be. *)
AtPeer == peer # <<>>
InQueue == \E i \in 1..Len(inq) : inq[i].id # 0
InChannel == rspc # <<>> /\ rspc[1].id # 0

(* A response under way is the last request's, and there is one at most. *)
OneResponse ==
  /\ Len(peer) <= 1
  /\ \A i \in 1..Len(peer) : peer[i].id = count
  /\ \A i \in 1..Len(inq) : inq[i].id # 0 => inq[i].id = count
  /\ \A i, j \in 1..Len(inq) : inq[i].id # 0 /\ inq[j].id # 0 => i = j
  /\ InChannel => rspc[1].id = count
  /\ ~(AtPeer /\ InQueue) /\ ~(AtPeer /\ InChannel) /\ ~(InQueue /\ InChannel)

(* It is under way only while its transaction is open, abandoned, or ended *)
(* the bearer; in the channel it may also outlive a request that Loop's    *)
(* end has failed, until the next one drains it.                           *)
Open == bearerClosed \/ abandoned # None \/ \E c \in Callers : pc[c] \in Waiting
Expected ==
  /\ AtPeer \/ InQueue => Open
  /\ InChannel => Open \/ (loop = "exit" /\ \A c \in Callers : pc[c] # "write")

IInv == /\ TypeOK /\ Holder /\ Transaction /\ bufLen = txMTU
        /\ ~unrefused => OneResponse /\ Expected
-----------------------------------------------------------------------------
(* The default MTU is one of the MTUs: a set of naturals has a least one. *)
LEMMA DefaultIsMTU == DefaultMTU \in MTUs
<1> DEFINE less == {p \in Nat \X Nat : p[1] < p[2]}
<1>1. IsWellFoundedOn(less, Nat)
  <2>1. less = OpToRel(<, Nat)
    BY DEF OpToRel
  <2> QED  BY <2>1, NatLessThanWellFounded
<1>2. \E m \in MTUs : \A k \in MTUs : <<k, m>> \notin less
  <2> HIDE DEF less
  <2> QED  BY <1>1, WFMin, MTUsAssumption
<1>3. \A k, m \in Nat : <<k, m>> \in less <=> k < m
  OBVIOUS
<1>4. \E m \in MTUs : \A k \in MTUs : m <= k
  <2> HIDE DEF less
  <2>1. PICK m \in MTUs : \A k \in MTUs : <<k, m>> \notin less
    BY <1>2
  <2>2. ASSUME NEW k \in MTUs  PROVE m <= k
    <3>1. k \in Nat /\ m \in Nat
      BY MTUsAssumption
    <3>2. ~(k < m)
      BY <1>3, <2>1, <3>1, Zenon
    <3> QED  BY <3>1, <3>2
  <2> QED  BY <2>2
<1> QED  BY <1>4 DEF DefaultMTU

(* What a step of a caller is. *)
CallerStep(c) ==
  \/ \E o \in ReqOps \cup {"cmd"}, n \in MTUs : Call(c, o, n)
  \/ acquireTxBuf(c) \/ SlicePanic(c) \/ sendCmd(c) \/ AcquireCtx(c)
  \/ ResolveRsp(c) \/ ResolveErr(c) \/ ResolveCtx(c) \/ ResolveTimeout(c)
  \/ Drain(c) \/ WriteReq(c) \/ WriteFails(c)
  \/ WaitRsp(c) \/ WaitErr(c) \/ WaitCtx(c) \/ WaitTimeout(c)
  \/ Refuse(c) \/ RefuseFails(c)

OtherStep ==
  \/ LoopRsp \/ LoopAsync \/ LoopRunt \/ LoopConfirm \/ LoopExit
  \/ Dispatch \/ HandleNotification \/ handleExchangeMTURequest
  \/ PeerAnswers \/ \E p \in {Stray, Runt} \cup Async : PeerSends(p)

(* The steps of the next-state relation, by who takes them. *)
LEMMA NextCases ==
  ASSUME [Next]_vars
  PROVE  (\E c \in Callers : CallerStep(c)) \/ OtherStep \/ UNCHANGED vars
  BY DEF Next, Begin, Proceed, Timer, CtxDone, CallerStep, OtherStep

(* Asynchronous PDUs and stray requests carry no request's number. *)
LEMMA PDUs ==
  /\ \A p \in Async : p.id = 0
  /\ Stray.id = 0 /\ Stray.op = "stray" /\ Runt.id = 0
  /\ \A p \in Response : p.id \in 1..MaxReqs /\ p.id # 0 /\ p.op \in ReqOps \cup {"error"}
  /\ \A p \in Response : p # Stray
  /\ \A p \in Async : p.op \in {"ntf", "mtuReq"} /\ p \notin Response \cup {Stray}
  BY BoundsAssumption DEF Async, Stray, Runt, Response, ReqOps

(* A return leaves the caller's own state well formed. *)
LEMMA LeaveType ==
  ASSUME TypeOK, NEW c \in Callers, Leave(c)
  PROVE  /\ pc' \in [Callers -> {"idle", "acquire", "panic"} \cup Holding]
         /\ op' \in [Callers -> ReqOps \cup {"cmd"}]
         /\ need' \in [Callers -> MTUs]
         /\ id' \in [Callers -> 0..MaxReqs]
<1>1. 0 \in 0..MaxReqs
  BY BoundsAssumption
<1> QED  BY <1>1, DefaultIsMTU DEF TypeOK, Leave, Goto, ReqOps

(* Every step of a caller keeps the types. *)
LEMMA CallerType ==
  ASSUME TypeOK, Transaction, NEW c \in Callers, CallerStep(c)
  PROVE  TypeOK'
<1> USE DEF callVars, bufVars, txnVars, chanVars, asyncVars
<1>1. CASE \E o \in ReqOps \cup {"cmd"}, n \in MTUs : Call(c, o, n)
  BY <1>1 DEF Call, Goto, TypeOK
<1>2. CASE acquireTxBuf(c) \/ SlicePanic(c) \/ Refuse(c)
  BY <1>2 DEF acquireTxBuf, SlicePanic, Refuse, Goto, TypeOK, Holding, Resolving, Preparing, Waiting
<1>3. CASE sendCmd(c) \/ AcquireCtx(c)
  BY <1>3, LeaveType DEF sendCmd, AcquireCtx, TypeOK
<1>4. CASE ResolveErr(c) \/ ResolveCtx(c) \/ ResolveTimeout(c)
  BY <1>4, LeaveType DEF ResolveErr, ResolveCtx, ResolveTimeout, Return, TypeOK
<1>5. CASE WriteFails(c) \/ WaitErr(c) \/ WaitTimeout(c) \/ RefuseFails(c)
  BY <1>5, LeaveType DEF WriteFails, WaitErr, WaitTimeout, RefuseFails, Return, TypeOK
<1>6. CASE ResolveRsp(c) \/ Drain(c)
  <2>1. rspc' \in Seq(Response \cup {Stray}) /\ Len(rspc') <= 1
    <3>1. rspc' = <<>>
      BY <1>6 DEF ResolveRsp, Drain, Receive
    <3> QED  BY <3>1
  <2>2. pc' \in [Callers -> {"idle", "acquire", "panic"} \cup Holding]
        /\ abandoned' \in ReqOps \cup {None}
    BY <1>6 DEF ResolveRsp, Drain, Goto, TypeOK, Holding, Resolving, Preparing, Waiting
  <2> QED  BY <1>6, <2>1, <2>2 DEF ResolveRsp, Drain, TypeOK
<1>7. CASE WaitRsp(c)
  <2>1. rspc' \in Seq(Response \cup {Stray}) /\ Len(rspc') <= 1
    BY <1>7 DEF WaitRsp, Receive
  <2>2. CASE Matches(rspc[1], op[c])
    <3>1. Return(c)
      BY <1>7, <2>2 DEF WaitRsp
    <3>2. bufLen' \in MTUs /\ txMTU' \in MTUs
      BY <1>7, <2>2 DEF WaitRsp, Adopt, TypeOK
    <3> QED  BY <1>7, <2>1, <3>1, <3>2, LeaveType DEF WaitRsp, Return, TypeOK
  <2>3. CASE ~Matches(rspc[1], op[c])
    BY <1>7, <2>1, <2>3 DEF WaitRsp, Goto, TypeOK, Holding, Waiting
  <2> QED  BY <2>2, <2>3
<1>8. CASE WaitCtx(c)
  <2>1. op[c] \in ReqOps
    BY <1>8 DEF WaitCtx, TypeOK, Transaction, Holding, Waiting
  <2> QED  BY <1>8, <2>1, LeaveType DEF WaitCtx, Return, TypeOK
<1>9. CASE WriteReq(c)
  <2>1. count' \in 0..MaxReqs /\ count + 1 \in 1..MaxReqs
    BY <1>9, BoundsAssumption DEF WriteReq, TypeOK
  <2>2. id' \in [Callers -> 0..MaxReqs] /\ pc' \in [Callers -> {"idle", "acquire", "panic"} \cup Holding]
    BY <1>9, <2>1 DEF WriteReq, Goto, TypeOK, Holding, Waiting
  <2>3. op[c] \in ReqOps
    BY <1>9 DEF WriteReq, TypeOK, Transaction, Holding, Preparing
  <2>4. peer' \in Seq(Response)
    <3>1. [op |-> op[c], id |-> count + 1] \in Response
      BY <2>1, <2>3 DEF Response
    <3> QED  BY <1>9, <3>1 DEF WriteReq, TypeOK
  <2> QED  BY <1>9, <2>1, <2>2, <2>4 DEF WriteReq, TypeOK
<1> QED  BY <1>1, <1>2, <1>3, <1>4, <1>5, <1>6, <1>7, <1>8, <1>9 DEF CallerStep

(* Every step of Loop, its dispatcher and the peer keeps the types. *)
LEMMA OtherType ==
  ASSUME TypeOK, OtherStep
  PROVE  TypeOK'
<1> USE DEF callVars, bufVars, txnVars, chanVars, asyncVars
<1> DEFINE PDU == Response \cup {Stray, Runt} \cup Async
<1>0. /\ inq # <<>> => Head(inq) \in PDU /\ Tail(inq) \in Seq(PDU)
      /\ peer # <<>> => Head(peer) \in Response /\ Tail(peer) \in Seq(Response)
      /\ async # <<>> => Head(async) \in Async /\ Tail(async) \in Seq(Async)
  BY DEF TypeOK
<1> HIDE DEF PDU
<1>1. CASE LoopRsp
  <2>1. inq' \in Seq(PDU)
    BY <1>0, <1>1 DEF LoopRsp, Reads
  <2>2. rspc' \in Seq(Response \cup {Stray}) /\ Len(rspc') <= 1
    <3> DEFINE h == Head(inq)
    <3>1. h \in Response \cup {Stray} /\ (rspc' = rspc \/ rspc' = <<h>>)
      BY <1>1 DEF LoopRsp, Reads
    <3> HIDE DEF h
    <3>2. <<h>> \in Seq(Response \cup {Stray}) /\ Len(<<h>>) = 1
      BY <3>1
    <3>3. rspc \in Seq(Response \cup {Stray}) /\ Len(rspc) <= 1
      BY DEF TypeOK
    <3>4. CASE rspc' = rspc
      BY <3>3, <3>4
    <3>5. CASE rspc' = <<h>>
      BY <3>2, <3>5
    <3> QED  BY <3>1, <3>4, <3>5
  <2> QED  BY <1>1, <2>1, <2>2 DEF LoopRsp, TypeOK, PDU
<1>2. CASE LoopAsync
  <2>1. inq' \in Seq(PDU)
    BY <1>0, <1>2 DEF LoopAsync, Reads
  <2>2. async' \in Seq(Async)
    BY <1>2 DEF LoopAsync, Reads, TypeOK
  <2>3. loop' \in {"read", "confirm"}
    BY <1>2 DEF LoopAsync, AfterRead
  <2> QED  BY <1>2, <2>1, <2>2, <2>3 DEF LoopAsync, TypeOK, PDU
<1>8. CASE LoopRunt
  <2>1. inq' \in Seq(PDU)
    BY <1>0, <1>8 DEF LoopRunt, Reads
  <2>2. loop' \in {"read", "confirm"}
    BY <1>8 DEF LoopRunt, AfterRead
  <2> QED  BY <1>8, <2>1, <2>2 DEF LoopRunt, TypeOK, PDU
<1>9. CASE LoopConfirm
  BY <1>9 DEF LoopConfirm, TypeOK
<1>3. CASE LoopExit
  <2>1. peer' \in Seq(Response) /\ inq' \in Seq(PDU)
    BY <1>3 DEF LoopExit
  <2> QED  BY <1>3, <2>1 DEF LoopExit, TypeOK, PDU
<1>4. CASE Dispatch \/ HandleNotification
  BY <1>0, <1>4 DEF Dispatch, HandleNotification, TypeOK
<1>5. CASE handleExchangeMTURequest
  BY <1>5 DEF handleExchangeMTURequest, TypeOK
<1>6. CASE PeerAnswers
  <2>1. Head(peer) \in Response /\ peer' \in Seq(Response)
    BY <1>0, <1>6 DEF PeerAnswers
  <2>2. ASSUME NEW o \in {Head(peer).op, "error"}  PROVE [op |-> o, id |-> Head(peer).id] \in PDU
    BY <2>1 DEF Response, PDU
  <2>3. inq \in Seq(PDU)
    BY DEF TypeOK, PDU
  <2>4. inq' \in Seq(PDU)
    BY <1>6, <2>2, <2>3 DEF PeerAnswers
  <2> QED  BY <1>6, <2>1, <2>4 DEF PeerAnswers, TypeOK, PDU
<1>7. ASSUME NEW p \in {Stray, Runt} \cup Async, PeerSends(p)
      PROVE  TypeOK'
  <2>1. inq \in Seq(PDU) /\ p \in PDU
    BY <1>7 DEF TypeOK, PDU
  <2>2. inq' \in Seq(PDU)
    BY <1>7, <2>1 DEF PeerSends
  <2> QED  BY <1>7, <2>2 DEF PeerSends, TypeOK, PDU
<1> QED  BY <1>1, <1>2, <1>3, <1>4, <1>5, <1>6, <1>7, <1>8, <1>9 DEF OtherStep

(* Type correctness is preserved by every step. *)
LEMMA TypeStep == TypeOK /\ Transaction /\ [Next]_vars => TypeOK'
<1> SUFFICES ASSUME TypeOK, Transaction, [Next]_vars  PROVE TypeOK'
  OBVIOUS
<1>1. CASE UNCHANGED vars
  BY <1>1 DEF vars, callVars, bufVars, txnVars, chanVars, asyncVars, TypeOK
<1> QED  BY <1>1, NextCases, CallerType, OtherType

-----------------------------------------------------------------------------
(* After the holder's return nobody holds the buffer. *)
LEMMA ReturnFrees ==
  ASSUME TypeOK, Holder, NEW c \in Callers, pc[c] \in Holding, Return(c)
  PROVE  slot' = None /\ \A d \in Callers : pc'[d] \notin Holding /\ slot' # d
<1>1. slot = c /\ pc' = [pc EXCEPT ![c] = "idle"] /\ slot' = None
  BY DEF Holder, Return, Leave, Goto
<1>2. "idle" \notin Holding
  BY DEF Holding, Resolving, Preparing, Waiting
<1>3. ASSUME NEW d \in Callers  PROVE pc'[d] \notin Holding
  BY <1>1, <1>2 DEF Holder, TypeOK
<1> QED  BY <1>1, <1>3, NoneAssumption

(* The buffer passes from hand to hand, and with it the bookkeeping of the *)
(* open transaction.                                                       *)
LEMMA CallerControl ==
  ASSUME TypeOK, Holder, Transaction, NEW c \in Callers, CallerStep(c)
  PROVE  Holder' /\ Transaction'
<1> USE NoneAssumption DEF TypeOK, Holder, Transaction, Holding, Resolving, Preparing, Waiting,
        Goto, callVars, bufVars, txnVars, chanVars, asyncVars
<1>0. ASSUME pc[c] \in Holding, Return(c), UNCHANGED <<peer, inq, loop>>, chErr' => chErr
      PROVE  Holder' /\ Transaction'
  <2>1. slot' = None /\ \A d \in Callers : pc'[d] \notin Holding /\ slot' # d
    BY <1>0, ReturnFrees
  <2> QED  BY <1>0, <2>1
<1>1. CASE \E o \in ReqOps \cup {"cmd"}, n \in MTUs : Call(c, o, n)
  BY <1>1 DEF Call
<1>2. CASE acquireTxBuf(c)
  BY <1>2 DEF acquireTxBuf
<1>3. CASE SlicePanic(c)
  BY <1>3 DEF SlicePanic
<1>4. CASE sendCmd(c) \/ AcquireCtx(c)
  BY <1>4 DEF sendCmd, AcquireCtx, Leave
<1>5. CASE ResolveRsp(c)
  BY <1>5 DEF ResolveRsp
<1>6. CASE ResolveErr(c) \/ ResolveCtx(c) \/ ResolveTimeout(c)
  BY <1>0, <1>6 DEF ResolveErr, ResolveCtx, ResolveTimeout
<1>7. CASE Drain(c)
  BY <1>7 DEF Drain
<1>8. CASE WriteReq(c)
  BY <1>8 DEF WriteReq
<1>9. CASE WriteFails(c) \/ WaitErr(c) \/ WaitTimeout(c) \/ RefuseFails(c)
  BY <1>0, <1>9 DEF WriteFails, WaitErr, WaitTimeout, RefuseFails
<1>10. CASE WaitRsp(c)
  <2>1. CASE Matches(rspc[1], op[c])
    BY <1>0, <1>10, <2>1 DEF WaitRsp
  <2>2. CASE ~Matches(rspc[1], op[c])
    BY <1>10, <2>2 DEF WaitRsp
  <2> QED  BY <2>1, <2>2
<1>11. CASE WaitCtx(c)
  BY <1>0, <1>11 DEF WaitCtx
<1>12. CASE Refuse(c)
  BY <1>12 DEF Refuse
<1> QED  BY <1>1, <1>2, <1>3, <1>4, <1>5, <1>6, <1>7, <1>8, <1>9, <1>10, <1>11, <1>12
         DEF CallerStep

(* Loop, the dispatcher and the peer leave the transaction to its holder. *)
LEMMA OtherControl ==
  ASSUME TypeOK, Holder, Transaction, OtherStep
  PROVE  Holder' /\ Transaction'
<1> USE DEF callVars, bufVars, txnVars, chanVars, asyncVars
<1>1. CASE LoopRsp \/ LoopAsync \/ LoopRunt \/ LoopConfirm
  <2>1. /\ loop \in {"read", "confirm"} /\ loop' \in {"read", "confirm"}
        /\ UNCHANGED <<callVars, bufVars, txnVars, chErr>>
    BY <1>1 DEF LoopRsp, LoopAsync, LoopRunt, LoopConfirm, AfterRead, Reads
  <2> QED  BY <2>1 DEF Holder, Transaction
<1>2. CASE LoopExit
  BY <1>2 DEF LoopExit, Holder, Transaction
<1>3. CASE Dispatch \/ HandleNotification \/ handleExchangeMTURequest
  BY <1>3 DEF Dispatch, HandleNotification, handleExchangeMTURequest, Holder, Transaction
<1>4. CASE PeerAnswers
  <2>1. loop # "exit"
    BY <1>4 DEF PeerAnswers, Transaction, TypeOK
  <2> QED  BY <1>4, <2>1 DEF PeerAnswers, Holder, Transaction
<1>5. CASE \E p \in {Stray, Runt} \cup Async : PeerSends(p)
  BY <1>5 DEF PeerSends, Holder, Transaction
<1> QED  BY <1>1, <1>2, <1>3, <1>4, <1>5 DEF OtherStep

(* The buffer and the MTU change together: in WaitRsp and in               *)
(* handleExchangeMTURequest, both times by the holder of the buffer.       *)
LEMMA BufferStep == bufLen = txMTU /\ [Next]_vars => (bufLen = txMTU)'
<1> SUFFICES ASSUME bufLen = txMTU, [Next]_vars  PROVE (bufLen = txMTU)'
  OBVIOUS
<1> USE DEF callVars, bufVars, txnVars, chanVars, asyncVars
<1>1. ASSUME NEW c \in Callers, CallerStep(c)  PROVE bufLen' = txMTU'
  BY <1>1 DEF CallerStep, Call, acquireTxBuf, SlicePanic, sendCmd, AcquireCtx, ResolveRsp,
     ResolveErr, ResolveCtx, ResolveTimeout, Drain, WriteReq, WriteFails, WaitRsp, Adopt, WaitErr,
     WaitCtx, WaitTimeout, Refuse, RefuseFails
<1>2. CASE OtherStep
  BY <1>2 DEF OtherStep, LoopRsp, LoopAsync, LoopRunt, LoopConfirm, LoopExit, Dispatch,
     HandleNotification, handleExchangeMTURequest, PeerAnswers, PeerSends
<1> QED  BY NextCases, <1>1, <1>2 DEF vars

-----------------------------------------------------------------------------
(* A response that is under way stays where it is while its transaction    *)
(* stays open.                                                             *)
LEMMA StillExpected ==
  ASSUME OneResponse, Expected, UNCHANGED <<rspc, inq, peer, count, loop>>,
         bearerClosed => bearerClosed', abandoned # None => abandoned' # None,
         \A c \in Callers : pc[c] \in Waiting => pc'[c] \in Waiting \/ bearerClosed' \/ abandoned' # None,
         \A c \in Callers : pc'[c] = "write" => pc[c] = "write"
  PROVE  OneResponse' /\ Expected'
<1>1. AtPeer' = AtPeer /\ InQueue' = InQueue /\ InChannel' = InChannel
  BY DEF AtPeer, InQueue, InChannel
<1>2. OneResponse'
  BY <1>1 DEF OneResponse
<1>3. Open => Open'
  BY DEF Open
<1> QED  BY <1>1, <1>2, <1>3 DEF Expected

(* Before a request is written no response is under way; one that a        *)
(* request failed by Loop's end has left in the channel is drained.        *)
LEMMA NothingUnderWay ==
  ASSUME TypeOK, Holder, Transaction, OneResponse, Expected,
         NEW c \in Callers, pc[c] \in Preparing
  PROVE  ~AtPeer /\ ~InQueue /\ (pc[c] = "write" => ~InChannel)
<1>1. slot = c /\ abandoned = None
  BY DEF Holder, Transaction, Holding
<1>2. ~bearerClosed
  BY <1>1, NoneAssumption DEF Transaction
<1>3. ASSUME NEW d \in Callers  PROVE pc[d] \notin Waiting
  BY <1>1 DEF Holder, Holding, Preparing, Waiting
<1> QED  BY <1>1, <1>2, <1>3 DEF Expected, Open

(* What is taken from the channel as an answer was the one response under  *)
(* way.                                                                    *)
LEMMA TheResponse ==
  ASSUME TypeOK, OneResponse, NEW o \in ReqOps \cup {"cmd"}, rspc # <<>>, Matches(rspc[1], o)
  PROVE  InChannel /\ ~AtPeer /\ ~InQueue
<1>1. rspc[1] \in Response \cup {Stray}
  BY DEF TypeOK
<1>2. rspc[1] # Stray
  BY PDUs DEF Matches, ReqOps
<1>3. rspc[1].id # 0
  BY <1>1, <1>2, PDUs
<1> QED  BY <1>3 DEF InChannel, OneResponse

(* Every step of a caller keeps at most one response under way. *)
LEMMA CallerResponse ==
  ASSUME TypeOK, Holder, Transaction, ~unrefused', OneResponse, Expected,
         NEW c \in Callers, CallerStep(c)
  PROVE  OneResponse' /\ Expected'
<1> USE DEF callVars, bufVars, txnVars, chanVars, asyncVars
<1>1. CASE \/ (\E o \in ReqOps \cup {"cmd"}, n \in MTUs : Call(c, o, n))
           \/ acquireTxBuf(c) \/ SlicePanic(c) \/ sendCmd(c) \/ AcquireCtx(c)
           \/ Refuse(c) \/ ResolveErr(c) \/ ResolveCtx(c) \/ ResolveTimeout(c)
  <2>1. /\ UNCHANGED <<rspc, inq, peer, count, loop, abandoned>>
        /\ bearerClosed => bearerClosed'
    BY <1>1 DEF Call, acquireTxBuf, SlicePanic, sendCmd, AcquireCtx, Refuse, ResolveErr,
       ResolveCtx, ResolveTimeout
  <2>2. /\ \A d \in Callers \ {c} : pc'[d] = pc[d]
        /\ pc'[c] # "write" /\ (pc[c] \in Waiting => pc'[c] \in Waiting)
    BY <1>1 DEF Call, acquireTxBuf, SlicePanic, sendCmd, AcquireCtx, Refuse, ResolveErr,
       ResolveCtx, ResolveTimeout, Return, Leave, Goto, Waiting, TypeOK
  <2> QED  BY <2>1, <2>2, StillExpected
<1>2. CASE WaitCtx(c) \/ WaitTimeout(c)
  <2>1. /\ UNCHANGED <<rspc, inq, peer, count, loop>>
        /\ bearerClosed' \/ abandoned' # None
        /\ bearerClosed => bearerClosed'
        /\ abandoned # None => abandoned' # None
        /\ pc' = [pc EXCEPT ![c] = "idle"]
    <3>1. op[c] \in ReqOps
      BY <1>2 DEF WaitCtx, WaitTimeout, Transaction, Holding, Waiting, TypeOK
    <3>2. op[c] # None
      BY <3>1, NoneAssumption DEF ReqOps
    <3> QED  BY <1>2, <3>2 DEF WaitCtx, WaitTimeout, Return, Leave, Goto
  <2> QED  BY <2>1, StillExpected DEF TypeOK
<1>3. CASE WriteFails(c)
  <2>1. ~AtPeer /\ ~InQueue /\ ~InChannel
    BY <1>3, NothingUnderWay DEF WriteFails, Preparing
  <2>2. UNCHANGED <<rspc, inq, peer, count>>
    BY <1>3 DEF WriteFails
  <2> QED  BY <2>1, <2>2 DEF OneResponse, Expected, AtPeer, InQueue, InChannel
<1>4. CASE WaitErr(c)
  <2>1. /\ loop = "exit" /\ peer = <<>> /\ inq = <<>>
        /\ UNCHANGED <<rspc, inq, peer, count, loop>>
    BY <1>4 DEF WaitErr, Transaction
  <2>2. \A d \in Callers : pc'[d] \notin Holding
    BY <1>4, ReturnFrees DEF WaitErr, Holding, Waiting
  <2>3. \A d \in Callers : pc'[d] # "write"
    BY <2>2 DEF Holding, Preparing
  <2> QED  BY <2>1, <2>3 DEF OneResponse, Expected, AtPeer, InQueue, InChannel
<1>5. CASE RefuseFails(c)
  <2>1. /\ UNCHANGED <<rspc, inq, peer, count, loop, abandoned, bearerClosed>>
        /\ pc[c] = "refuseOld" /\ pc' = [pc EXCEPT ![c] = "idle"]
    BY <1>5 DEF RefuseFails, Return, Leave, Goto
  <2>2. /\ \A d \in Callers : pc[d] \in Waiting => pc'[d] \in Waiting
        /\ \A d \in Callers : pc'[d] = "write" => pc[d] = "write"
    BY <2>1 DEF Waiting, TypeOK
  <2> QED  BY <2>1, <2>2, StillExpected
<1>6. CASE Drain(c)
  <2>1. ~AtPeer /\ ~InQueue
    BY <1>6, NothingUnderWay DEF Drain, Preparing
  <2>2. rspc' = <<>> /\ UNCHANGED <<inq, peer, count>>
    BY <1>6 DEF Drain
  <2> QED  BY <2>1, <2>2 DEF OneResponse, Expected, AtPeer, InQueue, InChannel
<1>7. CASE ResolveRsp(c)
  <2>1. rspc # <<>> /\ rspc' = <<>> /\ UNCHANGED <<inq, peer, count>>
    BY <1>7 DEF ResolveRsp, Receive
  <2>2. CASE Matches(rspc[1], abandoned)
    <3>1. abandoned \in ReqOps
      BY <1>7 DEF ResolveRsp, Transaction, Resolving, TypeOK
    <3>2. ~AtPeer /\ ~InQueue
      BY <2>1, <2>2, <3>1, TheResponse
    <3> QED  BY <2>1, <3>2 DEF OneResponse, Expected, AtPeer, InQueue, InChannel
  <2>3. CASE ~Matches(rspc[1], abandoned)
    <3>1. abandoned' # None
      BY <1>7, <2>3 DEF ResolveRsp, Transaction, Resolving
    <3> QED  BY <2>1, <3>1 DEF OneResponse, Expected, AtPeer, InQueue, InChannel, Open
  <2> QED  BY <2>2, <2>3
<1>8. CASE WaitRsp(c)
  <2>1. rspc # <<>> /\ rspc' = <<>> /\ UNCHANGED <<inq, peer, count>>
    BY <1>8 DEF WaitRsp, Receive
  <2>2. CASE Matches(rspc[1], op[c])
    <3>1. ~AtPeer /\ ~InQueue
      BY <2>1, <2>2, TheResponse DEF TypeOK
    <3> QED  BY <2>1, <3>1 DEF OneResponse, Expected, AtPeer, InQueue, InChannel
  <2>3. CASE ~Matches(rspc[1], op[c])
    <3>1. pc'[c] \in Waiting
      BY <1>8, <2>3 DEF WaitRsp, Goto, TypeOK, Waiting
    <3> QED  BY <2>1, <3>1 DEF OneResponse, Expected, AtPeer, InQueue, InChannel, Open
  <2> QED  BY <2>2, <2>3
<1>9. CASE WriteReq(c)
  <2>1. ~AtPeer /\ ~InQueue /\ ~InChannel
    BY <1>9, NothingUnderWay DEF WriteReq, Preparing
  <2>2. rspc' = rspc /\ inq' = inq /\ count' = count + 1 /\ pc'[c] \in Waiting
    BY <1>9 DEF WriteReq, Goto, TypeOK, Waiting
  <2>3. ~InQueue' /\ ~InChannel' /\ Open'
    BY <2>1, <2>2 DEF InQueue, InChannel, Open
  <2>4. Len(peer') <= 1 /\ \A i \in 1..Len(peer') : peer'[i].id = count'
    <3> DEFINE r == [op |-> op[c], id |-> count + 1]
    <3>1. peer = <<>> /\ r.id = count + 1
      BY <2>1 DEF AtPeer
    <3> HIDE DEF r
    <3>2. peer' = <<>> \/ peer' = <<r>>
      BY <1>9, <3>1 DEF WriteReq, r
    <3>3. Len(<<r>>) = 1 /\ <<r>>[1] = r /\ Len(<<>>) = 0
      OBVIOUS
    <3>4. CASE peer' = <<>>
      BY <3>3, <3>4
    <3>5. CASE peer' = <<r>>
      BY <2>2, <3>1, <3>3, <3>5
    <3> QED  BY <3>2, <3>4, <3>5
  <2>5. \A i \in 1..Len(inq) : inq[i].id = 0
    BY <2>1 DEF InQueue
  <2> QED  BY <2>2, <2>3, <2>4, <2>5 DEF OneResponse, Expected
<1> QED  BY <1>1, <1>2, <1>3, <1>4, <1>5, <1>6, <1>7, <1>8, <1>9 DEF CallerStep

(* Loop and the peer move the response along, from the peer into the queue *)
(* and from there into the channel, or lose it.                            *)
LEMMA OtherResponse ==
  ASSUME TypeOK, Transaction, OneResponse, Expected, OtherStep
  PROVE  OneResponse' /\ Expected'
<1> USE DEF callVars, bufVars, txnVars, chanVars, asyncVars
<1>0. /\ inq # <<>> => /\ Len(Tail(inq)) = Len(inq) - 1 /\ Head(inq) = inq[1]
                        /\ \A i \in 1..Len(Tail(inq)) : Tail(inq)[i] = inq[i + 1]
      /\ Len(inq) \in Nat /\ Len(peer) \in Nat
      /\ peer # <<>> => /\ Head(peer) = peer[1] /\ Len(peer) # 0
                         /\ Len(Tail(peer)) = Len(peer) - 1
  BY DEF TypeOK
<1>1. CASE LoopRsp \/ LoopAsync \/ LoopRunt
  <2>1. /\ UNCHANGED <<peer, count, pc, bearerClosed, abandoned>>
        /\ loop = "read" /\ inq # <<>> /\ inq' = Tail(inq)
        /\ rspc' = rspc \/ (rspc' = <<Head(inq)>> /\ rspc = <<>>)
    BY <1>1 DEF LoopRsp, LoopAsync, LoopRunt, Reads
  <2>2. AtPeer' = AtPeer /\ Open' = Open
    BY <2>1 DEF AtPeer, Open
  <2>3. InQueue' => InQueue /\ inq[1].id = 0
    <3> SUFFICES ASSUME NEW i \in 1..Len(Tail(inq)), Tail(inq)[i].id # 0
                 PROVE  InQueue /\ inq[1].id = 0
      BY <2>1 DEF InQueue
    <3>1. i + 1 \in 1..Len(inq) /\ inq[i + 1].id # 0 /\ i + 1 # 1 /\ 1 \in 1..Len(inq)
      BY <1>0, <2>1
    <3> QED  BY <3>1 DEF InQueue, OneResponse
  <2>4. /\ \A i \in 1..Len(inq') : inq'[i].id # 0 => inq'[i].id = count
        /\ \A i, j \in 1..Len(inq') : inq'[i].id # 0 /\ inq'[j].id # 0 => i = j
    <3>1. \A i \in 1..Len(inq') : i + 1 \in 1..Len(inq) /\ inq'[i] = inq[i + 1]
      BY <1>0, <2>1
    <3>2. \A i \in 1..Len(inq') : inq'[i].id # 0 => inq'[i].id = count
      BY <3>1 DEF OneResponse
    <3>3. ASSUME NEW i \in 1..Len(inq'), NEW j \in 1..Len(inq'),
                 inq'[i].id # 0, inq'[j].id # 0
          PROVE  i = j
      <4>1. i + 1 = j + 1
        BY <3>1, <3>3 DEF OneResponse
      <4>2. i \in Int /\ j \in Int
        OBVIOUS
      <4> QED  BY <4>1, <4>2
    <3> QED  BY <3>2, <3>3
  <2>5. CASE rspc' = rspc
    BY <2>1, <2>2, <2>3, <2>4, <2>5 DEF OneResponse, Expected, InChannel
  <2>6. CASE rspc' = <<Head(inq)>> /\ rspc = <<>>
    <3>1. rspc'[1] = inq[1] /\ 1 \in 1..Len(inq)
      BY <1>0, <2>1, <2>6
    <3>2. InChannel' => InQueue /\ inq[1].id = count /\ inq[1].id # 0
      BY <3>1 DEF InChannel, InQueue, OneResponse
    <3>3. InQueue => Open
      BY DEF Expected
    <3>4. InChannel' => rspc'[1].id = count' /\ Open' /\ ~AtPeer' /\ ~InQueue'
      BY <2>1, <2>2, <2>3, <3>1, <3>2, <3>3 DEF OneResponse
    <3>5. ~(AtPeer' /\ InQueue') /\ (AtPeer' \/ InQueue' => Open')
      BY <2>2, <2>3 DEF OneResponse, Expected
    <3> QED  BY <2>1, <2>4, <3>4, <3>5 DEF OneResponse, Expected
  <2> QED  BY <2>1, <2>5, <2>6
<1>2. CASE LoopExit
  <2>1. /\ UNCHANGED <<rspc, count, pc, bearerClosed, abandoned>>
        /\ peer' = <<>> /\ inq' = <<>> /\ loop = "read"
    BY <1>2 DEF LoopExit
  <2>2. ~AtPeer' /\ ~InQueue' /\ InChannel' = InChannel /\ Open' = Open
    BY <2>1 DEF AtPeer, InQueue, InChannel, Open
  <2> QED  BY <2>1, <2>2 DEF OneResponse, Expected
<1>3. CASE Dispatch \/ HandleNotification \/ handleExchangeMTURequest
  BY <1>3, StillExpected DEF Dispatch, HandleNotification, handleExchangeMTURequest
<1>6. CASE LoopConfirm
  <2>1. /\ UNCHANGED <<rspc, inq, peer, count, pc, bearerClosed, abandoned>>
        /\ loop # "exit"
    BY <1>6 DEF LoopConfirm
  <2>2. /\ AtPeer' = AtPeer /\ InQueue' = InQueue /\ InChannel' = InChannel
        /\ Open' = Open
    BY <2>1 DEF AtPeer, InQueue, InChannel, Open
  <2> QED  BY <2>1, <2>2 DEF OneResponse, Expected
<1>4. CASE PeerAnswers
  <2>1. PICK o \in {Head(peer).op, "error"} :
             inq' = Append(inq, [op |-> o, id |-> Head(peer).id])
    BY <1>4 DEF PeerAnswers
  <2> DEFINE r == [op |-> o, id |-> Head(peer).id]
  <2>2. /\ UNCHANGED <<rspc, count, pc, bearerClosed, abandoned, loop>>
        /\ peer # <<>> /\ peer' = Tail(peer) /\ inq' = Append(inq, r)
    BY <1>4, <2>1 DEF PeerAnswers
  <2>3. AtPeer /\ ~InQueue /\ ~InChannel /\ r.id = count /\ peer' = <<>>
    BY <1>0, <2>2 DEF OneResponse, AtPeer, TypeOK
  <2> HIDE DEF r
  <2>4. /\ Len(inq') = Len(inq) + 1 /\ inq'[Len(inq) + 1] = r
        /\ \A i \in 1..Len(inq) : inq'[i] = inq[i] /\ inq'[i].id = 0
    BY <2>2, <2>3 DEF TypeOK, InQueue
  <2>5. /\ \A i \in 1..Len(inq') : inq'[i].id # 0 => i = Len(inq) + 1
        /\ \A i \in 1..Len(inq') : inq'[i].id # 0 => inq'[i].id = count
    BY <1>0, <2>3, <2>4
  <2>6. ~AtPeer' /\ ~InChannel' /\ Open'
    BY <2>2, <2>3 DEF AtPeer, InChannel, Open, Expected
  <2> QED  BY <2>2, <2>3, <2>5, <2>6 DEF OneResponse, Expected
<1>5. ASSUME NEW p \in {Stray, Runt} \cup Async, PeerSends(p)
      PROVE  OneResponse' /\ Expected'
  <2>1. p.id = 0 /\ inq' = Append(inq, p)
        /\ UNCHANGED <<rspc, peer, count, pc, bearerClosed, abandoned, loop>>
    BY <1>5, PDUs DEF PeerSends
  <2>2. /\ Len(inq') = Len(inq) + 1 /\ inq'[Len(inq) + 1] = p
        /\ \A i \in 1..Len(inq) : inq'[i] = inq[i]
    BY <2>1 DEF TypeOK
  <2>3. \A i \in 1..Len(inq') : inq'[i].id # 0 => i \in 1..Len(inq) /\ inq[i] = inq'[i]
    BY <1>0, <2>1, <2>2
  <2>4. InQueue' => InQueue
    BY <2>3 DEF InQueue
  <2>5. AtPeer' = AtPeer /\ InChannel' = InChannel /\ Open' = Open
    BY <2>1 DEF AtPeer, InChannel, Open
  <2> QED  BY <2>1, <2>3, <2>4, <2>5 DEF OneResponse, Expected
<1> QED  BY <1>1, <1>2, <1>3, <1>4, <1>5, <1>6 DEF OtherStep

-----------------------------------------------------------------------------
(* The failure of a refusal is remembered. *)
LEMMA Remembered == [Next]_vars /\ unrefused => unrefused'
<1> SUFFICES ASSUME [Next]_vars, unrefused  PROVE unrefused'
  OBVIOUS
<1>1. ASSUME NEW c \in Callers, CallerStep(c)  PROVE unrefused'
  BY <1>1 DEF CallerStep, Call, acquireTxBuf, SlicePanic, sendCmd, AcquireCtx, ResolveRsp,
     ResolveErr, ResolveCtx, ResolveTimeout, Drain, WriteReq, WriteFails, WaitRsp, WaitErr,
     WaitCtx, WaitTimeout, Refuse, RefuseFails
<1>2. CASE OtherStep
  BY <1>2 DEF OtherStep, LoopRsp, LoopAsync, LoopRunt, LoopConfirm, LoopExit, Dispatch,
     HandleNotification, handleExchangeMTURequest, PeerAnswers, PeerSends
<1> QED  BY NextCases, <1>1, <1>2 DEF vars

(* Initially nothing is open and nothing is under way. *)
LEMMA Initially == Init => IInv
<1> SUFFICES ASSUME Init  PROVE IInv
  OBVIOUS
<1>0. 0 \in 0..MaxReqs
  BY BoundsAssumption
<1>1. TypeOK
  <2>1. /\ rspc \in Seq(Response \cup {Stray}) /\ Len(rspc) <= 1 /\ async \in Seq(Async)
        /\ peer \in Seq(Response) /\ inq \in Seq(Response \cup {Stray, Runt} \cup Async)
    BY DEF Init
  <2>2. /\ pc \in [Callers -> {"idle", "acquire", "panic"} \cup Holding]
        /\ op \in [Callers -> ReqOps \cup {"cmd"}]
        /\ need \in [Callers -> MTUs] /\ id \in [Callers -> 0..MaxReqs]
    BY <1>0, DefaultIsMTU DEF Init, ReqOps
  <2>3. bearerClosed \in BOOLEAN /\ chErr \in BOOLEAN /\ unrefused \in BOOLEAN
    BY Zenon DEF Init
  <2>4. /\ slot \in Callers \cup {None} /\ bufLen \in MTUs /\ txMTU \in MTUs
        /\ count \in 0..MaxReqs /\ abandoned \in ReqOps \cup {None}
        /\ loop \in {"read", "confirm", "exit"} /\ work \in Async \cup {None}
    BY <1>0, DefaultIsMTU DEF Init
  <2> QED  BY <2>1, <2>2, <2>3, <2>4 DEF TypeOK
<1>2. Holder /\ Transaction /\ bufLen = txMTU
  BY NoneAssumption DEF Init, Holder, Transaction, Holding, Resolving, Preparing, Waiting
<1>3. OneResponse /\ Expected
  BY DEF Init, OneResponse, Expected, AtPeer, InQueue, InChannel
<1> QED  BY <1>1, <1>2, <1>3 DEF IInv

(* Every step preserves the invariant. *)
LEMMA Inductive == IInv /\ [Next]_vars => IInv'
<1> SUFFICES ASSUME IInv, [Next]_vars  PROVE IInv'
  OBVIOUS
<1>1. TypeOK' /\ (bufLen = txMTU)'
  BY TypeStep, BufferStep DEF IInv
<1>2. CASE UNCHANGED vars
  BY <1>2 DEF IInv, vars, callVars, bufVars, txnVars, chanVars, asyncVars, TypeOK, Holder,
     Transaction, OneResponse, Expected, AtPeer, InQueue, InChannel, Open
<1>3. ASSUME NEW c \in Callers, CallerStep(c)  PROVE IInv'
  <2>1. Holder' /\ Transaction'
    BY <1>3, CallerControl DEF IInv
  <2>2. ~unrefused' => OneResponse' /\ Expected'
    BY <1>3, CallerResponse, Remembered DEF IInv
  <2> QED  BY <1>1, <2>1, <2>2 DEF IInv
<1>4. CASE OtherStep
  <2>1. Holder' /\ Transaction'
    BY <1>4, OtherControl DEF IInv
  <2>2. ~unrefused' => OneResponse' /\ Expected'
    BY <1>4, OtherResponse, Remembered DEF IInv
  <2> QED  BY <1>1, <2>1, <2>2 DEF IInv
<1> QED  BY NextCases, <1>2, <1>3, <1>4

(* The inductive invariant. *)
THEOREM Invariant == Spec => []IInv
  BY Initially, Inductive, PTL DEF Spec

(* Type correctness of the callers, the channels and both loops. *)
THEOREM TypeCorrect == Spec => []TypeOK
<1>1. IInv => TypeOK
  BY DEF IInv
<1> QED  BY <1>1, Invariant, PTL

(* Whoever takes the transmit buffer from chTxBuf finds it as long as the  *)
(* connection's MTU, whichever side agreed on that MTU.                    *)
THEOREM BufferAsLongAsMTU == Spec => []BufferFitsMTU
<1>1. IInv => BufferFitsMTU
  BY DEF IInv, BufferFitsMTU
<1> QED  BY <1>1, Invariant, PTL

(* sendReq never takes for its answer the response to an earlier request,  *)
(* unless a refusal of a stray request has failed in sendReq before: any   *)
(* number of requests may have been canceled, timed out or failed, also    *)
(* while resolveAbandoned waited or refused.                               *)
THEOREM OwnResponseOnly == Spec => []NoStaleResponse
<1>1. IInv => NoStaleResponse
  <2> SUFFICES ASSUME IInv, NEW c \in Callers, ~unrefused, pc[c] = "wait", rspc # <<>>,
                      Matches(rspc[1], op[c])
               PROVE  rspc[1].id = id[c]
    BY DEF NoStaleResponse
  <2>1. InChannel
    BY TheResponse DEF IInv, TypeOK
  <2>2. id[c] = count
    BY DEF IInv, Transaction, Waiting
  <2> QED  BY <2>1, <2>2 DEF IInv, OneResponse
<1> QED  BY <1>1, Invariant, PTL

(* Loop drops the response of a request that waits for it only behind a    *)
(* request of the peer, unless a refusal has failed before.                *)
THEOREM DropsBehindStrayOnly == Spec => DroppedBehindStray
<1>1. IInv /\ [Next]_vars
        => [LoopRsp /\ rspc # <<>> /\ ~unrefused
              /\ (\E c \in Callers : pc[c] \in {"wait", "refuse"} /\ id[c] = Head(inq).id)
              => rspc[1] = Stray]_vars
  <2> SUFFICES ASSUME IInv, LoopRsp, rspc # <<>>, ~unrefused, NEW c \in Callers,
                      pc[c] \in Waiting, id[c] = Head(inq).id
               PROVE  rspc[1] = Stray
    BY DEF Waiting
  <2>1. inq # <<>> /\ Head(inq) = inq[1] /\ 1 \in 1..Len(inq)
    BY DEF LoopRsp, Reads, IInv, TypeOK
  <2>2. inq[1].id # 0
    BY <2>1 DEF IInv, Transaction, TypeOK
  <2>3. ~InChannel
    BY <2>1, <2>2 DEF IInv, OneResponse, InQueue
  <2>4. rspc[1] \in Response \cup {Stray} /\ rspc[1].id = 0
    BY <2>3 DEF IInv, TypeOK, InChannel
  <2> QED  BY <2>4, PDUs
<1> QED  BY <1>1, Invariant, PTL DEF Spec, DroppedBehindStray
=============================================================================
