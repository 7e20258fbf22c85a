-------------------------- MODULE ConnUpdateProofs --------------------------
(***************************************************************************)
(* Proofs about ConnUpdate, for any number of callers, updates, packets    *)
(* and signals: the one update slot keeps the completions apart, a caller  *)
(* adopts another update's result only behind an abandoned one, and        *)
(* handleSignal answers every request once and in order.                   *)
(***************************************************************************)
EXTENDS ConnUpdate, SequenceTheorems, FiniteSetTheorems, TLAPS

TypeOK ==
  /\ role \in {"master", "slave"}
  /\ updateWaiter \in Callers \cup {None}
  /\ updateSignalPending \in BOOLEAN
  /\ ch \in [Callers -> Nat]
  /\ pc \in [Callers -> {"idle", "send", "wait"}]
  /\ my \in [Callers -> Nat]
  /\ got \in [Callers -> Nat \X Nat]
  /\ rpc \in {"idle", "loop", "send"}
  /\ pkt \in Seq(Kinds)
  /\ at \in Nat \ {0}
  /\ answers \in [1..Len(pkt) -> Nat]
  /\ mySig \in Nat
  /\ sigSent \in {"nil", "open", "closed"}
  /\ spc \in {"idle", "write", "wait", "got"}
  /\ panicked \in BOOLEAN
  /\ cmds \in Seq(Nat) /\ owed \in Seq(Nat) /\ evq \in Seq(Nat)
  /\ refused \in SUBSET Nat
  /\ abandoned \in SUBSET Nat
  /\ chDone \in BOOLEAN
  /\ dataLen \in {"default", "negotiated"}
  /\ nUpd \in Nat /\ nPkt \in Nat /\ nSig \in Nat

(* The controller takes the updates in the order they were sent, and       *)
(* completes them in that order: what is on its way to sktLoop is older    *)
(* than what the controller owes, and that is older than what it has not   *)
(* looked at.                                                              *)
Ascending(s) == \A i, j \in 1..Len(s) : i < j => s[i] < s[j]
Below(A, B) == \A a \in A, b \in B : a < b

InOrder ==
  /\ Ascending(evq) /\ Ascending(owed) /\ Ascending(cmds)
  /\ Below(Range(evq), Range(owed)) /\ Below(Range(evq), Range(cmds))
  /\ Below(Range(owed), Range(cmds))
  /\ \A u \in Range(evq) \cup Range(owed) \cup Range(cmds) : u <= nUpd

(* The slot is held by one side at a time, for the latest update there is. *)
SlotHeld ==
  /\ ~(updateWaiter # None /\ updateSignalPending)
  /\ \A c \in Callers : pc[c] # "idle" <=> updateWaiter = c
  /\ \A c \in Callers : IF pc[c] = "idle" THEN ch[c] = 0 ELSE my[c] = nUpd
  /\ \A c \in Callers : pc[c] = "wait" => my[c] \notin Range(cmds)
  /\ rpc = "send" /\ updateSignalPending => mySig = nUpd
  /\ chDone => owed = <<>> /\ evq = <<>>

(* Behind an abandoned update anything may be misattributed. *)
Strayed(u) == \E a \in abandoned : a <= u

(* What the controller still has is the slot holder's, or has strayed. *)
Attributed == \A u \in Nat : Outstanding(u) => (Busy /\ u = nUpd) \/ Strayed(u)

(* What lies in a channel has been overtaken by nothing, is not younger    *)
(* than its reader's own update, and is it unless it strayed.              *)
Delivered ==
  \A c \in Callers : ch[c] # 0 =>
    /\ ch[c] <= my[c]
    /\ ch[c] # my[c] => Strayed(ch[c])
    /\ \A u \in Nat : Outstanding(u) => ch[c] < u

(* The goroutine waits for a command only at an update request. *)
SignalPlace == /\ rpc = "send" => at <= Len(pkt) /\ pkt[at] = "upd"
               /\ rpc = "idle" => pkt = <<>>

IInv == /\ TypeOK /\ InOrder /\ SlotHeld /\ Attributed /\ Delivered
        /\ AdoptsOwnResult /\ SignalPlace /\ AnsweredOnce
-----------------------------------------------------------------------------
(* The elements of a queue, before and after an end is added or its head   *)
(* is taken.                                                               *)
LEMMA QueueElements ==
  ASSUME NEW S, NEW s \in Seq(S)
  PROVE  /\ \A x : x \in Range(s) <=> \E i \in 1..Len(s) : x = s[i]
         /\ Range(s) \subseteq S
<1>1. DOMAIN s = 1..Len(s)
  BY LenProperties
<1>2. \A i \in 1..Len(s) : s[i] \in S
  BY ElementOfSeq
<1>3. Range(s) = {s[i] : i \in 1..Len(s)}
  BY <1>1 DEF Range
<1> QED  BY <1>2, <1>3

(* A number above all others of a queue goes to its end. *)
LEMMA AppendOrder ==
  ASSUME NEW s \in Seq(Nat), Ascending(s), NEW e \in Nat, Below(Range(s), {e})
  PROVE  /\ Append(s, e) \in Seq(Nat) /\ Ascending(Append(s, e))
         /\ Range(Append(s, e)) = Range(s) \cup {e}
<1> DEFINE t == Append(s, e)
<1>1. /\ Len(s) \in Nat /\ t \in Seq(Nat) /\ Len(t) = Len(s) + 1
      /\ \A i \in 1..Len(s) : t[i] = s[i] /\ s[i] \in Nat
      /\ t[Len(s) + 1] = e
  BY AppendProperties, LenProperties, ElementOfSeq
<1>2. /\ \A x : x \in Range(s) <=> \E i \in 1..Len(s) : x = s[i]
      /\ \A x : x \in Range(t) <=> \E i \in 1..Len(t) : x = t[i]
  <2> HIDE DEF t
  <2> QED  BY <1>1, QueueElements
<1> HIDE DEF t
<1>3. Range(t) = Range(s) \cup {e}
  <2>1. \A i \in 1..Len(t) : i \in 1..Len(s) \/ i = Len(s) + 1
    BY <1>1
  <2>2. \A i \in 1..Len(s) : i \in 1..Len(t)
    BY <1>1
  <2>3. Len(s) + 1 \in 1..Len(t)
    BY <1>1
  <2>4. ASSUME NEW x \in Range(t)  PROVE x \in Range(s) \cup {e}
    <3>1. PICK i \in 1..Len(t) : x = t[i]
      BY <1>2
    <3> QED  BY <1>1, <1>2, <2>1, <3>1
  <2>5. ASSUME NEW x \in Range(s)  PROVE x \in Range(t)
    <3>1. PICK i \in 1..Len(s) : x = s[i]
      BY <1>2
    <3> QED  BY <1>1, <1>2, <2>2, <3>1
  <2> QED  BY <1>1, <1>2, <2>3, <2>4, <2>5
<1>4. Ascending(t)
  <2> SUFFICES ASSUME NEW i \in 1..Len(t), NEW j \in 1..Len(t), i < j  PROVE t[i] < t[j]
    BY DEF Ascending
  <2>0. Len(s) \in Nat /\ Len(t) = Len(s) + 1
    BY <1>1
  <2>1. i \in 1..Len(s) /\ (j \in 1..Len(s) \/ j = Len(s) + 1)
    BY <2>0
  <2>2. CASE j \in 1..Len(s)
    BY <1>1, <2>1, <2>2 DEF Ascending
  <2>3. CASE j = Len(s) + 1
    <3>1. s[i] \in Range(s)
      BY <1>2, <2>1
    <3> QED  BY <1>1, <2>1, <2>3, <3>1 DEF Below
  <2> QED  BY <2>1, <2>2, <2>3
<1> QED  BY <1>1, <1>3, <1>4 DEF t

(* The head of a queue in order is below all that follow it. *)
LEMMA TailOrder ==
  ASSUME NEW s \in Seq(Nat), s # <<>>, Ascending(s)
  PROVE  /\ Tail(s) \in Seq(Nat) /\ Ascending(Tail(s))
         /\ Head(s) \in Nat
         /\ Range(s) = Range(Tail(s)) \cup {Head(s)}
         /\ Below({Head(s)}, Range(Tail(s)))
<1> DEFINE t == Tail(s)
<1>1. /\ t \in Seq(Nat) /\ Len(s) \in Nat \ {0} /\ Len(t) = Len(s) - 1
      /\ \A i \in 1..Len(t) : t[i] = s[i + 1]
      /\ Head(s) = s[1] /\ \A i \in 1..Len(s) : s[i] \in Nat
  BY HeadTailProperties, LenProperties, EmptySeq, ElementOfSeq
<1>2. /\ \A x : x \in Range(s) <=> \E i \in 1..Len(s) : x = s[i]
      /\ \A x : x \in Range(t) <=> \E i \in 1..Len(t) : x = t[i]
  <2> HIDE DEF t
  <2> QED  BY <1>1, QueueElements
<1> HIDE DEF t
<1>3. Range(s) = Range(t) \cup {Head(s)}
  <2>1. ASSUME NEW x \in Range(s)  PROVE x \in Range(t) \cup {Head(s)}
    <3>1. PICK i \in 1..Len(s) : x = s[i]
      BY <1>2
    <3>2. CASE i = 1
      BY <1>1, <3>1, <3>2
    <3>3. CASE i # 1
      <4>1. i - 1 \in 1..Len(t) /\ t[i - 1] = s[i]
        BY <1>1, <3>3
      <4> QED  BY <1>2, <3>1, <4>1
    <3> QED  BY <3>2, <3>3
  <2>2. ASSUME NEW x \in Range(t)  PROVE x \in Range(s)
    <3>1. PICK i \in 1..Len(t) : x = t[i]
      BY <1>2
    <3>2. i + 1 \in 1..Len(s) /\ t[i] = s[i + 1]
      BY <1>1
    <3> QED  BY <1>2, <3>1, <3>2
  <2>3. Head(s) \in Range(s)
    BY <1>1, <1>2
  <2> QED  BY <2>1, <2>2, <2>3
<1>4. Ascending(t)
  <2> SUFFICES ASSUME NEW i \in 1..Len(t), NEW j \in 1..Len(t), i < j  PROVE t[i] < t[j]
    BY DEF Ascending
  <2>1. i + 1 \in 1..Len(s) /\ j + 1 \in 1..Len(s) /\ i + 1 < j + 1
    BY <1>1
  <2> QED  BY <1>1, <2>1 DEF Ascending
<1>5. Below({Head(s)}, Range(t))
  <2> SUFFICES ASSUME NEW x \in Range(t)  PROVE Head(s) < x
    BY DEF Below
  <2>1. PICK i \in 1..Len(t) : x = t[i]
    BY <1>2
  <2>2. i + 1 \in 1..Len(s) /\ 1 \in 1..Len(s) /\ 1 < i + 1
    BY <1>1
  <2> QED  BY <1>1, <2>1, <2>2 DEF Ascending
<1> QED  BY <1>1, <1>3, <1>4, <1>5 DEF t

(* The empty queue is in order. *)
LEMMA EmptyOrder == Ascending(<<>>) /\ Range(<<>>) = {} /\ <<>> \in Seq(Nat)
  BY DEF Ascending, Range

(* The next-state relation, action by action. *)
CallerStep(c) ==
  \/ UpdateParams(c) \/ Accepted(c) \/ SendFailed(c) \/ Completed(c)
  \/ Cancelled(c) \/ WaitClosed(c) \/ WaitTimeout(c)
SigRxStep == \/ (\E p \in Packets : PeerPacket(p)) \/ PeerOversize
             \/ AnswerNow \/ PassOver \/ HandOver \/ NotUnderstood \/ SendOnClosed
             \/ PacketDone \/ ForwardUpdate \/ ForwardAccepted \/ ForwardFailed
SigTxStep == Signal \/ SignalWritten \/ SignalReturns
CtlStep == CtlAccept \/ CtlRefuse \/ CtlComplete \/ handleLEConnectionUpdateComplete
           \/ Disconnect

(* Next is one step of one of the goroutines or of the controller. *)
LEMMA NextCases ==
  ASSUME [Next]_vars
  PROVE  \/ \E c \in Callers : CallerStep(c)
         \/ SigRxStep \/ SigTxStep \/ CtlStep \/ handleLEDataLengthChange
         \/ UNCHANGED vars
  BY DEF Next, handleSignal, CallerStep, SigRxStep, SigTxStep, CtlStep
-----------------------------------------------------------------------------
(* The controller's queues.  Every update the controller still has.        *)
Out == Range(cmds) \cup Range(owed) \cup Range(evq)

(* What a step may do to the queues. *)
SendNew == /\ cmds' = Append(cmds, nUpd + 1) /\ nUpd' = nUpd + 1
           /\ UNCHANGED <<owed, evq>>
Still == UNCHANGED <<cmds, owed, evq, nUpd>>

(* A command with a new number keeps the queues in order. *)
LEMMA SendNewOrder ==
  ASSUME TypeOK, InOrder, SendNew
  PROVE  /\ cmds' \in Seq(Nat) /\ InOrder' /\ Out' = Out \cup {nUpd + 1}
         /\ Range(cmds') = Range(cmds) \cup {nUpd + 1}
<1>1. /\ cmds \in Seq(Nat) /\ nUpd \in Nat /\ nUpd + 1 \in Nat /\ Ascending(cmds)
      /\ Range(cmds) \subseteq Nat /\ Range(owed) \subseteq Nat /\ Range(evq) \subseteq Nat
  <2>1. cmds \in Seq(Nat) /\ owed \in Seq(Nat) /\ evq \in Seq(Nat) /\ nUpd \in Nat
    BY DEF TypeOK
  <2>2. Ascending(cmds)
    BY DEF InOrder
  <2> QED  BY <2>1, <2>2, QueueElements
<1>2. \A u \in Out : u \in Nat /\ u < nUpd + 1
  BY <1>1 DEF InOrder, Out
<1>3. Below(Range(cmds), {nUpd + 1})
  BY <1>2 DEF Below, Out
<1>4. /\ cmds' \in Seq(Nat) /\ Ascending(cmds')
      /\ Range(cmds') = Range(cmds) \cup {nUpd + 1}
  BY <1>1, <1>3, AppendOrder DEF SendNew
<1>5. InOrder'
  <2>1. Below(Range(evq), Range(cmds')) /\ Below(Range(owed), Range(cmds'))
    BY <1>2, <1>4 DEF InOrder, Below, Out
  <2>2. \A u \in Range(evq) \cup Range(owed) \cup Range(cmds') : u <= nUpd + 1
    BY <1>1, <1>2, <1>4 DEF Out
  <2> QED  BY <1>4, <2>1, <2>2 DEF InOrder, SendNew
<1> QED  BY <1>4, <1>5 DEF Out, SendNew

(* The controller and the event loop keep the queues in order, and add no  *)
(* number to them.                                                         *)
LEMMA CtlOrder ==
  ASSUME TypeOK, InOrder, CtlStep
  PROVE  /\ cmds' \in Seq(Nat) /\ owed' \in Seq(Nat) /\ evq' \in Seq(Nat)
         /\ InOrder' /\ Out' \subseteq Out /\ Range(cmds') \subseteq Range(cmds)
         /\ nUpd' = nUpd
<1> USE DEF ctl
<1>0. /\ cmds \in Seq(Nat) /\ owed \in Seq(Nat) /\ evq \in Seq(Nat) /\ nUpd \in Nat
      /\ Range(cmds) \subseteq Nat /\ Range(owed) \subseteq Nat /\ Range(evq) \subseteq Nat
  BY QueueElements DEF TypeOK
<1>1. CASE CtlAccept
  <2>1. /\ cmds # <<>> /\ cmds' = Tail(cmds) /\ owed' = Append(owed, Head(cmds))
        /\ UNCHANGED <<evq, nUpd>>
    BY <1>1 DEF CtlAccept
  <2>2. /\ cmds' \in Seq(Nat) /\ Ascending(cmds') /\ Head(cmds) \in Nat
        /\ Range(cmds) = Range(cmds') \cup {Head(cmds)}
        /\ Below({Head(cmds)}, Range(cmds'))
    BY <1>0, <2>1, TailOrder DEF InOrder
  <2>3. Below(Range(owed), {Head(cmds)})
    BY <2>2 DEF InOrder, Below
  <2>4. /\ owed' \in Seq(Nat) /\ Ascending(owed')
        /\ Range(owed') = Range(owed) \cup {Head(cmds)}
    BY <1>0, <2>1, <2>2, <2>3, AppendOrder DEF InOrder
  <2>5. InOrder'
    BY <1>0, <2>1, <2>2, <2>4 DEF InOrder, Below
  <2> QED  BY <1>0, <2>1, <2>2, <2>4, <2>5 DEF Out
<1>2. CASE CtlRefuse
  <2>1. cmds # <<>> /\ cmds' = Tail(cmds) /\ UNCHANGED <<owed, evq, nUpd>>
    BY <1>2 DEF CtlRefuse
  <2>2. /\ cmds' \in Seq(Nat) /\ Ascending(cmds') /\ Range(cmds') \subseteq Range(cmds)
    BY <1>0, <2>1, TailOrder DEF InOrder
  <2>3. InOrder'
    BY <2>1, <2>2 DEF InOrder, Below
  <2> QED  BY <1>0, <2>1, <2>2, <2>3 DEF Out
<1>3. CASE CtlComplete
  <2>1. /\ owed # <<>> /\ owed' = Tail(owed) /\ evq' = Append(evq, Head(owed))
        /\ UNCHANGED <<cmds, nUpd>>
    BY <1>3 DEF CtlComplete
  <2>2. /\ owed' \in Seq(Nat) /\ Ascending(owed') /\ Head(owed) \in Nat
        /\ Range(owed) = Range(owed') \cup {Head(owed)}
        /\ Below({Head(owed)}, Range(owed'))
    BY <1>0, <2>1, TailOrder DEF InOrder
  <2>3. Below(Range(evq), {Head(owed)})
    BY <2>2 DEF InOrder, Below
  <2>4. /\ evq' \in Seq(Nat) /\ Ascending(evq')
        /\ Range(evq') = Range(evq) \cup {Head(owed)}
    BY <1>0, <2>1, <2>2, <2>3, AppendOrder DEF InOrder
  <2>5. InOrder'
    BY <1>0, <2>1, <2>2, <2>4 DEF InOrder, Below
  <2> QED  BY <1>0, <2>1, <2>2, <2>4, <2>5 DEF Out
<1>4. CASE handleLEConnectionUpdateComplete
  <2>1. evq # <<>> /\ evq' = Tail(evq) /\ UNCHANGED <<cmds, owed, nUpd>>
    BY <1>4 DEF handleLEConnectionUpdateComplete
  <2>2. /\ evq' \in Seq(Nat) /\ Ascending(evq') /\ Range(evq') \subseteq Range(evq)
    BY <1>0, <2>1, TailOrder DEF InOrder
  <2>3. InOrder'
    BY <2>1, <2>2 DEF InOrder, Below
  <2> QED  BY <1>0, <2>1, <2>2, <2>3 DEF Out
<1>5. CASE Disconnect
  <2>1. owed' = <<>> /\ evq' = <<>> /\ UNCHANGED <<cmds, nUpd>>
    BY <1>5 DEF Disconnect
  <2>2. Ascending(<<>>) /\ Range(<<>>) = {} /\ <<>> \in Seq(Nat)
    BY EmptyOrder
  <2>3. InOrder'
    BY <2>1, <2>2 DEF InOrder, Below
  <2> QED  BY <1>0, <2>1, <2>2, <2>3 DEF Out
<1> QED  BY <1>1, <1>2, <1>3, <1>4, <1>5 DEF CtlStep

(* The update whose completion is delivered was the oldest. *)
LEMMA DeliverOldest ==
  ASSUME TypeOK, InOrder, handleLEConnectionUpdateComplete
  PROVE  /\ Head(evq) \in Out /\ Head(evq) \in Nat
         /\ \A u \in Out' : Head(evq) < u
<1>1. evq # <<>> /\ evq' = Tail(evq) /\ UNCHANGED <<cmds, owed>> /\ evq \in Seq(Nat)
  BY DEF handleLEConnectionUpdateComplete, TypeOK
<1>2. /\ Head(evq) \in Nat /\ Head(evq) \in Range(evq) /\ Below({Head(evq)}, Range(evq'))
  BY <1>1, TailOrder DEF InOrder
<1> QED  BY <1>1, <1>2 DEF InOrder, Below, Out

(* Every other step leaves the queues alone. *)
LEMMA QueueStep ==
  ASSUME TypeOK, InOrder, [Next]_vars
  PROVE  /\ SendNew \/ CtlStep \/ Still
         /\ InOrder'
<1>1. SendNew \/ CtlStep \/ Still
  BY NextCases DEF CallerStep, SigRxStep, SigTxStep, UpdateParams, Accepted, SendFailed,
     Completed, Cancelled, WaitClosed, WaitTimeout, PeerPacket, PeerOversize, AnswerNow,
     PassOver, HandOver, NotUnderstood, SendOnClosed, PacketDone, ForwardUpdate,
     ForwardAccepted, ForwardFailed, Signal, SignalWritten, SignalReturns, SignalStep,
     handleLEDataLengthChange, vars, ctl, SendNew, Still
<1>2. Still => InOrder'
  BY DEF Still, InOrder
<1> QED  BY <1>1, <1>2, SendNewOrder, CtlOrder
-----------------------------------------------------------------------------
(* Type correctness, by the groups of variables that a step changes. *)
SlotType == updateWaiter \in Callers \cup {None} /\ updateSignalPending \in BOOLEAN
CallersType ==
  /\ ch \in [Callers -> Nat] /\ pc \in [Callers -> {"idle", "send", "wait"}]
  /\ my \in [Callers -> Nat] /\ got \in [Callers -> Nat \X Nat]
SigRxType ==
  /\ rpc \in {"idle", "loop", "send"} /\ pkt \in Seq(Kinds) /\ at \in Nat \ {0}
  /\ answers \in [1..Len(pkt) -> Nat] /\ mySig \in Nat
SigTxType == sigSent \in {"nil", "open", "closed"} /\ spc \in {"idle", "write", "wait", "got"}
CtlType == /\ cmds \in Seq(Nat) /\ owed \in Seq(Nat) /\ evq \in Seq(Nat)
           /\ refused \in SUBSET Nat
LinkType ==
  /\ role \in {"master", "slave"} /\ panicked \in BOOLEAN /\ abandoned \in SUBSET Nat
  /\ chDone \in BOOLEAN /\ dataLen \in {"default", "negotiated"}
  /\ nUpd \in Nat /\ nPkt \in Nat /\ nSig \in Nat

(* The groups make up TypeOK, and one that a step leaves alone keeps its   *)
(* type.                                                                   *)
LEMMA TypeGroups ==
  ASSUME TypeOK
  PROVE  /\ SlotType /\ CallersType /\ SigRxType /\ SigTxType /\ CtlType /\ LinkType
         /\ SlotType' /\ CallersType' /\ SigRxType' /\ SigTxType' /\ CtlType' /\ LinkType'
              => TypeOK'
         /\ UNCHANGED slot => SlotType'
         /\ UNCHANGED callers => CallersType'
         /\ UNCHANGED sigRx => SigRxType'
         /\ UNCHANGED sigTx => SigTxType'
         /\ UNCHANGED ctl => CtlType'
         /\ UNCHANGED <<role, panicked, abandoned, chDone, dataLen, nUpd, nPkt, nSig>>
              => LinkType'
<1>1. SlotType /\ CallersType /\ SigRxType /\ SigTxType /\ CtlType /\ LinkType
  BY DEF TypeOK, SlotType, CallersType, SigRxType, SigTxType, CtlType, LinkType
<1>2. SlotType' /\ CallersType' /\ SigRxType' /\ SigTxType' /\ CtlType' /\ LinkType' => TypeOK'
  BY DEF TypeOK, SlotType, CallersType, SigRxType, SigTxType, CtlType, LinkType
<1>3. UNCHANGED slot => SlotType'
  BY <1>1 DEF slot, SlotType
<1>4. UNCHANGED callers => CallersType'
  BY <1>1 DEF callers, CallersType
<1>5. UNCHANGED sigRx => SigRxType'
  BY <1>1 DEF sigRx, SigRxType
<1>6. UNCHANGED sigTx => SigTxType'
  BY <1>1 DEF sigTx, SigTxType
<1>7. UNCHANGED ctl => CtlType'
  BY <1>1 DEF ctl, CtlType
<1>8. UNCHANGED <<role, panicked, abandoned, chDone, dataLen, nUpd, nPkt, nSig>> => LinkType'
  BY <1>1 DEF LinkType
<1> QED  BY <1>1, <1>2, <1>3, <1>4, <1>5, <1>6, <1>7, <1>8

(* A new command has the next number. *)
LEMMA SendNewType ==
  ASSUME TypeOK, InOrder, SendNew, UNCHANGED refused
  PROVE  CtlType'
<1>1. cmds' \in Seq(Nat)
  BY SendNewOrder
<1> QED  BY <1>1, TypeGroups DEF SendNew, CtlType

(* The calls of UpdateParams. *)
LEMMA CallerKeepsType ==
  ASSUME TypeOK, InOrder, NEW c \in Callers, CallerStep(c)
  PROVE  TypeOK'
<1>0. /\ SlotType /\ CallersType /\ LinkType
      /\ nUpd \in Nat /\ nUpd + 1 \in Nat /\ my[c] \in Nat
  BY TypeGroups DEF LinkType, CallersType
<1>r. Return(c) /\ UNCHANGED updateSignalPending => SlotType'
  BY <1>0 DEF Return, SlotType
<1>s. Return(c) /\ UNCHANGED got => CallersType'
  BY <1>0 DEF Return, CallersType
<1>a. ASSUME Abandon(my[c]), UNCHANGED <<role, panicked, chDone, dataLen, nUpd, nPkt, nSig>>
      PROVE  LinkType'
  <2>1. abandoned' \in SUBSET Nat
    BY <1>0, <1>a DEF Abandon, LinkType
  <2> QED  BY <1>0, <1>a, <2>1 DEF LinkType
<1>1. CASE UpdateParams(c)
  <2>1. SlotType' /\ LinkType'
    BY <1>0, <1>1 DEF UpdateParams, SlotType, LinkType
  <2>2. CallersType'
    BY <1>0, <1>1 DEF UpdateParams, CallersType
  <2>3. CtlType'
    BY <1>1, SendNewType DEF UpdateParams, SendNew
  <2> QED  BY <1>1, <2>1, <2>2, <2>3, TypeGroups DEF UpdateParams
<1>2. CASE Accepted(c)
  <2>1. CallersType'
    BY <1>0, <1>2 DEF Accepted, CallersType
  <2> QED  BY <1>2, <2>1, TypeGroups DEF Accepted
<1>3. CASE SendFailed(c) \/ Cancelled(c) \/ WaitTimeout(c)
  BY <1>3, <1>r, <1>s, <1>a, TypeGroups DEF SendFailed, Cancelled, WaitTimeout
<1>4. CASE Completed(c)
  <2>1. CallersType'
    BY <1>0, <1>4 DEF Completed, Return, CallersType
  <2> QED  BY <1>4, <1>r, <2>1, TypeGroups DEF Completed
<1>5. CASE WaitClosed(c)
  BY <1>5, <1>r, <1>s, TypeGroups DEF WaitClosed
<1> QED  BY <1>1, <1>2, <1>3, <1>4, <1>5 DEF CallerStep

(* The signalling loop. *)
LEMMA SigRxKeepsType ==
  ASSUME TypeOK, InOrder, SignalPlace, SigRxStep
  PROVE  TypeOK'
<1>0. /\ SlotType /\ SigRxType /\ SigTxType /\ LinkType
      /\ nPkt + 1 \in Nat /\ nUpd + 1 \in Nat /\ at \in Nat /\ Len(pkt) \in Nat
  BY TypeGroups, LenProperties DEF LinkType, SigRxType
<1>a. ASSUME at <= Len(pkt), Answer, Advance, UNCHANGED pkt,
             \/ UNCHANGED <<rpc, mySig>>
             \/ rpc' = "loop" /\ mySig' = 0
      PROVE  SigRxType'
  <2>1. at \in 1..Len(pkt) /\ at + 1 \in Nat \ {0}
    BY <1>0, <1>a DEF SigRxType
  <2>2. answers' \in [1..Len(pkt) -> Nat]
    BY <1>0, <1>a, <2>1 DEF Answer, SigRxType
  <2>3. at' \in Nat \ {0} /\ rpc' \in {"idle", "loop", "send"} /\ mySig' \in Nat
    BY <1>0, <1>a, <2>1 DEF Advance, SigRxType
  <2> QED  BY <1>0, <1>a, <2>2, <2>3 DEF SigRxType
<1>1. ASSUME NEW p \in Packets, PeerPacket(p)  PROVE TypeOK'
  <2>1. p \in Seq(Kinds) /\ DOMAIN p = 1..Len(p)
    BY PacketAssumption, LenProperties
  <2>2. pkt' = p /\ answers' = [i \in 1..Len(p) |-> 0] /\ at' = 1 /\ rpc' = "loop"
    BY <1>1, <2>1 DEF PeerPacket
  <2>3. answers' \in [1..Len(pkt') -> Nat]
    BY <2>2
  <2>4. SigRxType'
    BY <1>0, <1>1, <2>1, <2>2, <2>3 DEF PeerPacket, SigRxType
  <2>5. LinkType'
    BY <1>0, <1>1 DEF PeerPacket, LinkType
  <2> QED  BY <1>1, <2>4, <2>5, TypeGroups DEF PeerPacket
<1>2. CASE PeerOversize
  <2>1. LinkType'
    BY <1>0, <1>2 DEF PeerOversize, LinkType
  <2> QED  BY <1>2, <2>1, TypeGroups DEF PeerOversize
<1>3. CASE AnswerNow \/ NotUnderstood
  <2>1. SigRxType'
    BY <1>3, <1>a DEF AnswerNow, NotUnderstood, At
  <2> QED  BY <1>3, <2>1, TypeGroups DEF AnswerNow, NotUnderstood
<1>4. CASE PassOver
  <2>1. SigRxType'
    BY <1>0, <1>4 DEF PassOver, Advance, SigRxType
  <2> QED  BY <1>4, <2>1, TypeGroups DEF PassOver
<1>5. CASE HandOver
  <2>1. SigTxType'
    BY <1>0, <1>5 DEF HandOver, SigTxType
  <2> QED  BY <1>5, <2>1, TypeGroups DEF HandOver
<1>6. CASE SendOnClosed
  <2>1. LinkType'
    BY <1>0, <1>6 DEF SendOnClosed, LinkType
  <2> QED  BY <1>6, <2>1, TypeGroups DEF SendOnClosed
<1>7. CASE PacketDone
  <2>1. pkt' = <<>> /\ answers' = <<>> /\ at' = 1 /\ rpc' = "idle" /\ UNCHANGED mySig
    BY <1>7 DEF PacketDone
  <2>2. <<>> \in Seq(Kinds) /\ <<>> \in [1..0 -> Nat] /\ Len(<<>>) = 0
    OBVIOUS
  <2>3. SigRxType'
    BY <1>0, <2>1, <2>2 DEF SigRxType
  <2> QED  BY <1>7, <2>3, TypeGroups DEF PacketDone
<1>8. CASE ForwardUpdate
  <2>1. SlotType' /\ LinkType'
    BY <1>0, <1>8 DEF ForwardUpdate, SlotType, LinkType
  <2>2. SigRxType'
    BY <1>0, <1>8 DEF ForwardUpdate, SigRxType
  <2>3. CtlType'
    BY <1>8, SendNewType DEF ForwardUpdate, SendNew
  <2> QED  BY <1>8, <2>1, <2>2, <2>3, TypeGroups DEF ForwardUpdate
<1>9. CASE ForwardAccepted
  <2>1. SigRxType'
    BY <1>9, <1>a DEF ForwardAccepted, SignalPlace
  <2> QED  BY <1>9, <2>1, TypeGroups DEF ForwardAccepted
<1>10. CASE ForwardFailed
  <2>1. SigRxType'
    BY <1>10, <1>a DEF ForwardFailed, SignalPlace
  <2>2. abandoned' \in SUBSET Nat
    BY <1>0, <1>10 DEF ForwardFailed, Abandon, SigRxType, LinkType
  <2>3. SlotType' /\ LinkType'
    BY <1>0, <1>10, <2>2 DEF ForwardFailed, SlotType, LinkType
  <2> QED  BY <1>10, <2>1, <2>3, TypeGroups DEF ForwardFailed
<1> QED  BY <1>1, <1>2, <1>3, <1>4, <1>5, <1>6, <1>7, <1>8, <1>9, <1>10 DEF SigRxStep

(* Signal, the controller and sktLoop. *)
LEMMA OthersKeepType ==
  ASSUME TypeOK, InOrder, SigTxStep \/ CtlStep \/ handleLEDataLengthChange
  PROVE  TypeOK'
<1>0. SlotType /\ CallersType /\ SigTxType /\ CtlType /\ LinkType
  BY TypeGroups
<1>1. CASE SigTxStep
  <2>1. SigTxType'
    <3>1. CASE Signal \/ SignalWritten
      BY <3>1 DEF Signal, SignalWritten, SignalStep, SigTxType
    <3>2. CASE SignalReturns
      BY <3>2 DEF SignalReturns, SignalStep, SigTxType
    <3> QED  BY <1>1, <3>1, <3>2 DEF SigTxStep
  <2>2. LinkType'
    <3>1. nSig' \in Nat
      BY <1>0, <1>1 DEF SigTxStep, Signal, SignalWritten, SignalReturns, LinkType
    <3>2. UNCHANGED <<role, panicked, abandoned, chDone, dataLen, nUpd, nPkt>>
      BY <1>1 DEF SigTxStep, Signal, SignalWritten, SignalReturns, SignalStep
    <3> QED  BY <1>0, <3>1, <3>2 DEF LinkType
  <2>3. UNCHANGED <<slot, callers, sigRx, ctl>>
    BY <1>1 DEF SigTxStep, Signal, SignalWritten, SignalReturns, SignalStep
  <2> QED  BY <2>1, <2>2, <2>3, TypeGroups
<1>2. ASSUME CtlStep  PROVE cmds' \in Seq(Nat) /\ owed' \in Seq(Nat) /\ evq' \in Seq(Nat)
  BY <1>2, CtlOrder
<1>3. CASE CtlAccept \/ CtlComplete
  <2>1. CtlType'
    BY <1>0, <1>2, <1>3 DEF CtlStep, CtlAccept, CtlComplete, CtlType
  <2> QED  BY <1>3, <2>1, TypeGroups DEF CtlAccept, CtlComplete
<1>4. CASE Disconnect
  <2>1. CtlType'
    BY <1>0, <1>2, <1>4 DEF CtlStep, Disconnect, CtlType
  <2>2. LinkType'
    BY <1>0, <1>4 DEF Disconnect, LinkType
  <2> QED  BY <1>4, <2>1, <2>2, TypeGroups DEF Disconnect
<1>5. CASE CtlRefuse
  <2>1. Head(cmds) \in Nat
    BY <1>0, <1>5, HeadTailProperties DEF CtlRefuse, CtlType
  <2>2. refused' \in SUBSET Nat
    BY <1>0, <1>5, <2>1 DEF CtlRefuse, CtlType
  <2>3. CtlType'
    BY <1>2, <1>5, <2>2 DEF CtlStep, CtlType
  <2> QED  BY <1>5, <2>3, TypeGroups DEF CtlRefuse
<1>6. CASE handleLEConnectionUpdateComplete
  <2>1. Head(evq) \in Nat
    BY <1>6, DeliverOldest
  <2>2. CallersType'
    BY <1>0, <1>6, <2>1 DEF handleLEConnectionUpdateComplete, deliverConnUpdate, CallersType
  <2>3. SlotType'
    BY <1>0, <1>6 DEF handleLEConnectionUpdateComplete, deliverConnUpdate, SlotType
  <2>4. CtlType'
    BY <1>0, <1>2, <1>6 DEF CtlStep, handleLEConnectionUpdateComplete, CtlType
  <2> QED  BY <1>6, <2>2, <2>3, <2>4, TypeGroups DEF handleLEConnectionUpdateComplete
<1>7. CASE handleLEDataLengthChange
  <2>1. LinkType'
    BY <1>0, <1>7 DEF handleLEDataLengthChange, LinkType
  <2> QED  BY <1>7, <2>1, TypeGroups DEF handleLEDataLengthChange
<1> QED  BY <1>1, <1>3, <1>4, <1>5, <1>6, <1>7 DEF CtlStep

(* Every step preserves type correctness. *)
LEMMA TypeStep == TypeOK /\ InOrder /\ SignalPlace /\ [Next]_vars => TypeOK'
<1>1. TypeOK /\ UNCHANGED vars => TypeOK'
  BY TypeGroups DEF vars
<1> QED  BY <1>1, NextCases, CallerKeepsType, SigRxKeepsType, OthersKeepType

(* The slot.  Registering needs it free, so the holder's update is the     *)
(* latest; the call that ends frees it.                                    *)
LEMMA SlotStep == TypeOK /\ InOrder /\ SlotHeld /\ [Next]_vars => SlotHeld'
<1> SUFFICES ASSUME TypeOK, InOrder, SlotHeld, [Next]_vars  PROVE SlotHeld'
  OBVIOUS
<1> USE NoneAssumption DEF slot, callers, sigRx, sigTx, ctl
<1>0. CASE UNCHANGED <<slot, pc, my, ch, cmds, owed, evq, nUpd, chDone>>
           /\ (rpc' = "send" => rpc = "send" /\ mySig' = mySig)
  BY <1>0 DEF SlotHeld
<1>1. ASSUME NEW c \in Callers, CallerStep(c)  PROVE SlotHeld'
  <2>1. CASE UpdateParams(c)
    <3>1. /\ updateWaiter = None /\ ~updateSignalPending /\ pc[c] = "idle" /\ ~chDone
          /\ updateWaiter' = c /\ updateSignalPending' = updateSignalPending
          /\ pc' = [pc EXCEPT ![c] = "send"] /\ my' = [my EXCEPT ![c] = nUpd + 1]
          /\ nUpd' = nUpd + 1 /\ UNCHANGED <<ch, rpc, mySig, chDone, owed, evq>>
      BY <2>1 DEF UpdateParams, Busy
    <3>2. \A d \in Callers : pc[d] = "idle"
      BY <3>1 DEF SlotHeld
    <3> QED  BY <3>1, <3>2 DEF SlotHeld, TypeOK
  <2>2. CASE Accepted(c)
    BY <2>2 DEF Accepted, SlotHeld, TypeOK
  <2>3. CASE SendFailed(c) \/ Completed(c) \/ Cancelled(c) \/ WaitClosed(c) \/ WaitTimeout(c)
    <3>1. /\ Return(c) /\ pc[c] # "idle"
          /\ UNCHANGED <<updateSignalPending, rpc, mySig, chDone, cmds, owed, evq, nUpd>>
      BY <2>3 DEF SendFailed, Completed, Cancelled, WaitClosed, WaitTimeout
    <3>2. \A d \in Callers : d # c => pc[d] = "idle"
      BY <3>1 DEF SlotHeld
    <3> QED  BY <3>1, <3>2 DEF Return, SlotHeld, TypeOK
  <2> QED  BY <1>1, <2>1, <2>2, <2>3 DEF CallerStep
<1>2. CASE SigRxStep
  <2>1. CASE ForwardUpdate
    <3>1. /\ updateWaiter = None /\ ~updateSignalPending
          /\ updateSignalPending' /\ UNCHANGED <<updateWaiter, callers, chDone, owed, evq>>
          /\ mySig' = nUpd + 1 /\ nUpd' = nUpd + 1
      BY <2>1 DEF ForwardUpdate, Busy
    <3>2. \A d \in Callers : pc[d] = "idle"
      BY <3>1 DEF SlotHeld
    <3> QED  BY <3>1, <3>2 DEF SlotHeld
  <2>2. CASE ForwardFailed
    BY <2>2 DEF ForwardFailed, SlotHeld
  <2>3. CASE ForwardAccepted \/ (\E p \in Packets : PeerPacket(p)) \/ PacketDone
    BY <1>0, <2>3 DEF ForwardAccepted, PeerPacket, PacketDone
  <2>4. CASE PeerOversize \/ AnswerNow \/ PassOver \/ HandOver \/ NotUnderstood \/ SendOnClosed
    BY <1>0, <2>4 DEF PeerOversize, AnswerNow, PassOver, HandOver, NotUnderstood, SendOnClosed
  <2> QED  BY <1>2, <2>1, <2>2, <2>3, <2>4 DEF SigRxStep
<1>3. CASE SigTxStep \/ handleLEDataLengthChange \/ UNCHANGED vars
  BY <1>0, <1>3 DEF SigTxStep, Signal, SignalWritten, SignalReturns, SignalStep,
                    handleLEDataLengthChange, vars
<1>4. CASE CtlStep
  <2>0. Range(cmds') \subseteq Range(cmds) /\ nUpd' = nUpd
    BY <1>4, CtlOrder
  <2>1. CASE CtlAccept \/ CtlRefuse \/ CtlComplete
    <3>1. chDone => owed' = <<>> /\ evq' = <<>>
      BY <2>1 DEF CtlAccept, CtlRefuse, CtlComplete, SlotHeld
    <3> QED  BY <2>0, <2>1, <3>1 DEF CtlAccept, CtlRefuse, CtlComplete, SlotHeld
  <2>2. CASE handleLEConnectionUpdateComplete
    <3>1. /\ updateSignalPending' = FALSE /\ UNCHANGED <<updateWaiter, pc, my, rpc, chDone>>
          /\ ~chDone
      BY <2>2 DEF handleLEConnectionUpdateComplete, deliverConnUpdate, SlotHeld
    <3>2. \A d \in Callers : pc[d] = "idle" => ch'[d] = 0
      BY <2>2 DEF handleLEConnectionUpdateComplete, deliverConnUpdate, SlotHeld, TypeOK
    <3> QED  BY <2>0, <3>1, <3>2 DEF SlotHeld
  <2>3. CASE Disconnect
    BY <2>0, <2>3 DEF Disconnect, SlotHeld
  <2> QED  BY <1>4, <2>1, <2>2, <2>3 DEF CtlStep
<1> QED  BY NextCases, <1>1, <1>2, <1>3, <1>4
-----------------------------------------------------------------------------
(* Whose completion is whose.                                              *)
LEMMA AttributedStep ==
  TypeOK /\ InOrder /\ SlotHeld /\ Attributed /\ Delivered /\ [Next]_vars => Attributed'
<1> SUFFICES ASSUME TypeOK, InOrder, SlotHeld, Attributed, Delivered, [Next]_vars
             PROVE  Attributed'
  OBVIOUS
<1> USE NoneAssumption DEF slot, callers, sigRx, sigTx, ctl
<1>a. /\ \A u \in Out : (Busy /\ u = nUpd) \/ \E x \in abandoned : x <= u
      /\ \A u \in Out : u \in Nat /\ u <= nUpd
      /\ nUpd \in Nat /\ abandoned \subseteq Nat
  <2>1. Out \subseteq Nat
    BY QueueElements DEF TypeOK, Out
  <2> QED  BY <2>1 DEF Attributed, Strayed, Outstanding, Out, TypeOK, InOrder
<1>b. SUFFICES \A u \in Out' : (Busy' /\ u = nUpd') \/ \E x \in abandoned' : x <= u
  BY DEF Attributed, Strayed, Outstanding, Out
<1>0. CASE UNCHANGED <<slot, nUpd, abandoned>> /\ Out' \subseteq Out
  BY <1>0, <1>a DEF Busy
<1>s. CASE UNCHANGED <<slot, cmds, owed, evq, nUpd, abandoned>>
  BY <1>0, <1>s DEF Out
<1>1. ASSUME ~Busy, Busy', SendNew, UNCHANGED abandoned
      PROVE  \A u \in Out' : (Busy' /\ u = nUpd') \/ \E x \in abandoned' : x <= u
  <2>1. Out' = Out \cup {nUpd + 1} /\ nUpd' = nUpd + 1
    BY <1>1, SendNewOrder DEF SendNew
  <2> QED  BY <1>1, <1>a, <2>1
<1>c. UNCHANGED <<cmds, owed, evq>> => Out' = Out
  BY DEF Out
<1>d. ASSUME NEW n, n = nUpd, Abandon(n), UNCHANGED <<cmds, owed, evq, nUpd>>
      PROVE  \A u \in Out' : \E x \in abandoned' : x <= u
  <2>1. Out' = Out /\ abandoned \subseteq abandoned' /\ (nUpd \in Out => nUpd \in abandoned')
    BY <1>c, <1>d DEF Abandon, Outstanding, Out
  <2> QED  BY <1>a, <2>1
<1>2. ASSUME NEW c \in Callers, CallerStep(c)
      PROVE  \A u \in Out' : (Busy' /\ u = nUpd') \/ \E x \in abandoned' : x <= u
  <2>0. pc[c] # "idle" => my[c] = nUpd
    BY DEF SlotHeld
  <2>1. CASE UpdateParams(c)
    BY <1>1, <2>1 DEF UpdateParams, Busy, SendNew
  <2>2. CASE Accepted(c)
    BY <1>s, <2>2, <1>b DEF Accepted
  <2>3. CASE SendFailed(c) \/ Cancelled(c) \/ WaitTimeout(c)
    BY <1>d, <2>0, <2>3 DEF SendFailed, Cancelled, WaitTimeout
  <2>4. CASE Completed(c)
    <3>1. /\ ch[c] # 0 /\ my[c] = nUpd /\ Out' = Out /\ UNCHANGED abandoned
          /\ ch[c] \in Nat
      BY <1>c, <2>0, <2>4 DEF Completed, TypeOK
    <3>2. \A u \in Out : ch[c] < u
      BY <1>a, <3>1 DEF Delivered, Outstanding, Out
    <3>3. CASE ch[c] = my[c]
      <4>1. \A u \in Out : FALSE
        BY <1>a, <3>1, <3>2, <3>3
      <4> QED  BY <3>1, <4>1
    <3>4. CASE ch[c] # my[c]
      <4>1. PICK x \in abandoned : x <= ch[c]
        BY <3>1, <3>4 DEF Delivered, Strayed
      <4>2. \A u \in Out : x <= u
        BY <1>a, <3>1, <3>2, <4>1
      <4> QED  BY <3>1, <4>1, <4>2
    <3> QED  BY <3>3, <3>4
  <2>5. CASE WaitClosed(c)
    <3>1. /\ Out' = Out /\ UNCHANGED abandoned /\ chDone /\ pc[c] = "wait"
      BY <1>c, <2>5 DEF WaitClosed
    <3>2. nUpd \notin Out
      BY <2>0, <3>1, EmptyOrder DEF SlotHeld, Out
    <3> QED  BY <1>a, <3>1, <3>2
  <2> QED  BY <1>2, <2>1, <2>2, <2>3, <2>4, <2>5 DEF CallerStep
<1>3. CASE SigRxStep
  <2>1. CASE ForwardUpdate
    BY <1>1, <2>1 DEF ForwardUpdate, Busy, SendNew
  <2>2. CASE ForwardFailed
    <3>1. CASE updateSignalPending
      BY <1>d, <2>2, <3>1 DEF ForwardFailed, SlotHeld
    <3>2. CASE ~updateSignalPending
      <4>1. /\ (Busy' <=> Busy) /\ UNCHANGED nUpd /\ Out' = Out /\ abandoned \subseteq abandoned'
        BY <1>c, <2>2, <3>2 DEF ForwardFailed, Busy, Abandon
      <4> QED  BY <1>a, <4>1
    <3> QED  BY <3>1, <3>2
  <2>3. CASE ForwardAccepted \/ (\E p \in Packets : PeerPacket(p)) \/ PacketDone
    BY <1>s, <1>b, <2>3 DEF ForwardAccepted, PeerPacket, PacketDone
  <2>4. CASE PeerOversize \/ AnswerNow \/ PassOver \/ HandOver \/ NotUnderstood \/ SendOnClosed
    BY <1>s, <1>b, <2>4 DEF PeerOversize, AnswerNow, PassOver, HandOver, NotUnderstood, SendOnClosed
  <2> QED  BY <1>3, <2>1, <2>2, <2>3, <2>4 DEF SigRxStep
<1>4. CASE SigTxStep \/ handleLEDataLengthChange \/ UNCHANGED vars
  BY <1>s, <1>4 DEF SigTxStep, Signal, SignalWritten, SignalReturns, SignalStep,
                    handleLEDataLengthChange, vars
<1>5. CASE CtlStep
  <2>0. Out' \subseteq Out /\ nUpd' = nUpd
    BY <1>5, CtlOrder
  <2>1. CASE CtlAccept \/ CtlRefuse \/ CtlComplete \/ Disconnect
    BY <1>0, <2>0, <2>1 DEF CtlAccept, CtlRefuse, CtlComplete, Disconnect
  <2>2. CASE handleLEConnectionUpdateComplete
    <3> DEFINE v == Head(evq)
    <3>1. /\ v \in Out /\ v \in Nat /\ \A u \in Out' : v < u
      BY <2>2, DeliverOldest
    <3>2. UNCHANGED <<updateWaiter, abandoned>> /\ updateSignalPending' = FALSE
      BY <2>2 DEF handleLEConnectionUpdateComplete, deliverConnUpdate
    <3> HIDE DEF v
    <3>3. CASE v = nUpd
      <4>1. \A u \in Out' : FALSE
        BY <1>a, <2>0, <3>1, <3>3
      <4> QED  BY <4>1
    <3>4. CASE v # nUpd
      <4>1. PICK x \in abandoned : x <= v
        BY <1>a, <3>1, <3>4
      <4>2. \A u \in Out' : x <= u
        BY <1>a, <2>0, <3>1, <4>1
      <4> QED  BY <3>2, <4>1, <4>2
    <3> QED  BY <3>3, <3>4
  <2> QED  BY <1>5, <2>1, <2>2 DEF CtlStep
<1> QED  BY NextCases, <1>2, <1>3, <1>4, <1>5

(* A completion delivered to a caller is its own or follows an abandoned   *)
(* one, and is below all that are still to come.                           *)
LEMMA DeliveredStep ==
  TypeOK /\ InOrder /\ SlotHeld /\ Attributed /\ Delivered /\ [Next]_vars => Delivered'
<1> SUFFICES ASSUME TypeOK, InOrder, SlotHeld, Attributed, Delivered, [Next]_vars,
                    NEW d \in Callers, ch'[d] # 0
             PROVE  /\ ch'[d] <= my'[d]
                    /\ ch'[d] # my'[d] => \E x \in abandoned' : x <= ch'[d]
                    /\ \A u \in Out' : ch'[d] < u
  BY DEF Delivered, Strayed, Outstanding, Out
<1> DEFINE Goal == /\ ch'[d] <= my'[d]
                   /\ ch'[d] # my'[d] => \E x \in abandoned' : x <= ch'[d]
                   /\ \A u \in Out' : ch'[d] < u
<1> USE NoneAssumption DEF slot, callers, sigRx, sigTx, ctl
<1>a. Out \subseteq Nat
  BY QueueElements DEF TypeOK, Out
<1>0. ASSUME ch'[d] = ch[d], my'[d] = my[d], abandoned \subseteq abandoned', Out' \subseteq Out
      PROVE  Goal
  BY <1>0, <1>a DEF Delivered, Strayed, Outstanding, Out
<1>c. UNCHANGED <<cmds, owed, evq>> => Out' = Out
  BY DEF Out
<1>1. ASSUME NEW c \in Callers, CallerStep(c)  PROVE Goal
  <2>1. CASE UpdateParams(c)
    <3>1. updateWaiter = None /\ ch' = ch
      BY <2>1 DEF UpdateParams, Busy
    <3>2. ch[d] = 0
      BY <3>1 DEF SlotHeld
    <3> QED  BY <3>1, <3>2
  <2>2. CASE Accepted(c)
    BY <1>0, <1>c, <2>2 DEF Accepted
  <2>3. CASE SendFailed(c) \/ Completed(c) \/ Cancelled(c) \/ WaitClosed(c) \/ WaitTimeout(c)
    <3>1. Return(c) /\ pc[c] # "idle"
      BY <2>3 DEF SendFailed, Completed, Cancelled, WaitClosed, WaitTimeout
    <3>2. pc[d] # "idle" => d = c
      BY <3>1 DEF SlotHeld
    <3>3. ch'[d] = 0
      BY <3>1, <3>2 DEF Return, SlotHeld, TypeOK
    <3> QED  BY <3>3
  <2> QED  BY <1>1, <2>1, <2>2, <2>3 DEF CallerStep
<1>2. CASE SigRxStep
  <2>1. CASE ForwardUpdate
    <3>1. updateWaiter = None /\ ch' = ch
      BY <2>1 DEF ForwardUpdate, Busy
    <3>2. ch[d] = 0
      BY <3>1 DEF SlotHeld
    <3> QED  BY <3>1, <3>2
  <2>2. CASE ForwardFailed
    BY <1>0, <1>c, <2>2 DEF ForwardFailed, Abandon
  <2>3. CASE ForwardAccepted \/ (\E p \in Packets : PeerPacket(p)) \/ PacketDone
    BY <1>0, <1>c, <2>3 DEF ForwardAccepted, PeerPacket, PacketDone
  <2>4. CASE PeerOversize \/ AnswerNow \/ PassOver \/ HandOver \/ NotUnderstood \/ SendOnClosed
    BY <1>0, <1>c, <2>4 DEF PeerOversize, AnswerNow, PassOver, HandOver, NotUnderstood, SendOnClosed
  <2> QED  BY <1>2, <2>1, <2>2, <2>3, <2>4 DEF SigRxStep
<1>3. CASE SigTxStep \/ handleLEDataLengthChange \/ UNCHANGED vars
  BY <1>0, <1>c, <1>3 DEF SigTxStep, Signal, SignalWritten, SignalReturns, SignalStep,
                    handleLEDataLengthChange, vars
<1>4. CASE CtlStep
  <2>0. Out' \subseteq Out
    BY <1>4, CtlOrder
  <2>1. CASE CtlAccept \/ CtlRefuse \/ CtlComplete \/ Disconnect
    BY <1>0, <2>0, <2>1 DEF CtlAccept, CtlRefuse, CtlComplete, Disconnect
  <2>2. CASE handleLEConnectionUpdateComplete
    <3> DEFINE v == Head(evq)
    <3>1. /\ v \in Out /\ v \in Nat /\ \A u \in Out' : v < u
      BY <2>2, DeliverOldest
    <3>2. /\ UNCHANGED <<my, abandoned>>
          /\ ch' = ch \/ (ch' = [ch EXCEPT ![updateWaiter] = v] /\ ~updateSignalPending)
      BY <2>2 DEF handleLEConnectionUpdateComplete, deliverConnUpdate
    <3> HIDE DEF v
    <3>3. CASE ch'[d] = ch[d]
      BY <1>0, <2>0, <3>2, <3>3
    <3>4. CASE ch'[d] # ch[d]
      <4>1. ch'[d] = v /\ updateWaiter = d
        BY <3>2, <3>4 DEF TypeOK
      <4>2. my[d] = nUpd
        BY <4>1 DEF SlotHeld
      <4>3. v <= nUpd /\ (v = nUpd \/ \E x \in abandoned : x <= v)
        BY <3>1 DEF Attributed, Strayed, Outstanding, Out, InOrder
      <4> QED  BY <3>1, <3>2, <4>1, <4>2, <4>3
    <3> QED  BY <3>3, <3>4
  <2> QED  BY <1>4, <2>1, <2>2 DEF CtlStep
<1> QED  BY NextCases, <1>1, <1>2, <1>3, <1>4

(* A caller that takes a completion takes its own or one that follows an   *)
(* abandoned update.                                                       *)
LEMMA AdoptsStep ==
  TypeOK /\ Delivered /\ AdoptsOwnResult /\ [Next]_vars => AdoptsOwnResult'
<1> SUFFICES ASSUME TypeOK, Delivered, AdoptsOwnResult, [Next]_vars
             PROVE  AdoptsOwnResult'
  OBVIOUS
<1> USE DEF slot, callers, sigRx, sigTx, ctl
<1>0. ASSUME UNCHANGED got, abandoned \subseteq abandoned'  PROVE AdoptsOwnResult'
  BY <1>0 DEF AdoptsOwnResult
<1>1. ASSUME NEW c \in Callers, Completed(c)  PROVE AdoptsOwnResult'
  <2>1. /\ ch[c] # 0 /\ UNCHANGED abandoned
        /\ got' = [got EXCEPT ![c] = <<my[c], ch[c]>>]
    BY <1>1 DEF Completed
  <2>2. /\ ch[c] \in Nat /\ my[c] \in Nat /\ ch[c] <= my[c]
        /\ ch[c] # my[c] => \E x \in abandoned : x <= ch[c]
    BY <2>1 DEF Delivered, Strayed, TypeOK
  <2>3. got'[c] = <<my[c], ch[c]>> /\ \A d \in Callers : d # c => got'[d] = got[d]
    BY <2>1 DEF TypeOK
  <2>4. got'[c][1] = my[c] /\ got'[c][2] = ch[c]
    BY <2>3
  <2> QED  BY <2>1, <2>2, <2>3, <2>4 DEF AdoptsOwnResult
<1>2. ASSUME NEW c \in Callers, CallerStep(c)  PROVE AdoptsOwnResult'
  BY <1>0, <1>1, <1>2 DEF CallerStep, UpdateParams, Accepted, SendFailed, Cancelled, WaitClosed,
                          WaitTimeout, Abandon
<1>3. CASE SigRxStep
  BY <1>0, <1>3 DEF SigRxStep, PeerPacket, PeerOversize, AnswerNow, PassOver, HandOver,
     NotUnderstood, SendOnClosed, PacketDone, ForwardUpdate, ForwardAccepted, ForwardFailed, Abandon
<1>4. CASE SigTxStep \/ handleLEDataLengthChange \/ UNCHANGED vars
  BY <1>0, <1>4 DEF SigTxStep, Signal, SignalWritten, SignalReturns, SignalStep,
                    handleLEDataLengthChange, vars
<1>5. CASE CtlStep
  BY <1>0, <1>5 DEF CtlStep, CtlAccept, CtlRefuse, CtlComplete, Disconnect,
                    handleLEConnectionUpdateComplete
<1> QED  BY NextCases, <1>2, <1>3, <1>4, <1>5
-----------------------------------------------------------------------------
(* The signalling packet. *)
LEMMA PacketStep ==
  TypeOK /\ SignalPlace /\ AnsweredOnce /\ [Next]_vars => SignalPlace' /\ AnsweredOnce'
<1> SUFFICES ASSUME TypeOK, SignalPlace, AnsweredOnce, [Next]_vars
             PROVE  SignalPlace' /\ AnsweredOnce'
  OBVIOUS
<1> USE DEF slot, callers, sigRx, sigTx, ctl
<1>a. /\ pkt \in Seq(Kinds) /\ DOMAIN pkt = 1..Len(pkt) /\ Len(pkt) \in Nat
      /\ at \in Nat \ {0} /\ answers \in [1..Len(pkt) -> Nat]
  BY LenProperties DEF TypeOK
<1>b. \A i \in 1..Len(pkt) : /\ answers[i] <= (IF i < at THEN 1 ELSE 0)
                             /\ i < at /\ pkt[i] \in {"upd", "disc"} => answers[i] = 1
  BY <1>a DEF AnsweredOnce
<1>0. CASE UNCHANGED <<rpc, pkt, at, answers>>
  BY <1>0 DEF SignalPlace, AnsweredOnce
<1>1. ASSUME at <= Len(pkt), Answer, Advance, UNCHANGED pkt, rpc' = "loop"
      PROVE  SignalPlace' /\ AnsweredOnce'
  <2>1. at \in 1..Len(pkt) /\ at' = at + 1 /\ answers' = [answers EXCEPT ![at] = answers[at] + 1]
    BY <1>1, <1>a DEF Answer, Advance
  <2>2. answers[at] = 0
    <3>1. answers[at] <= 0 /\ answers[at] \in Nat
      BY <1>a, <1>b, <2>1
    <3> QED  BY <3>1
  <2>3. ASSUME NEW i \in 1..Len(pkt)
        PROVE  /\ answers'[i] <= (IF i < at' THEN 1 ELSE 0)
               /\ i < at' /\ pkt[i] \in {"upd", "disc"} => answers'[i] = 1
    <3>1. CASE i = at
      BY <1>a, <2>1, <2>2, <3>1
    <3>2. CASE i # at
      <4>1. answers'[i] = answers[i] /\ (i < at' <=> i < at)
        BY <1>a, <2>1, <3>2
      <4> QED  BY <1>b, <4>1
    <3> QED  BY <3>1, <3>2
  <2> QED  BY <1>1, <1>a, <2>3 DEF SignalPlace, AnsweredOnce
<1>2. CASE SigRxStep
  <2>1. ASSUME NEW p \in Packets, PeerPacket(p)  PROVE SignalPlace' /\ AnsweredOnce'
    <3>1. p \in Seq(Kinds) /\ DOMAIN p = 1..Len(p) /\ Len(p) \in Nat
      BY PacketAssumption, LenProperties
    <3>2. pkt' = p /\ answers' = [i \in 1..Len(p) |-> 0] /\ at' = 1 /\ rpc' = "loop"
      BY <2>1, <3>1 DEF PeerPacket
    <3>3. \A i \in 1..Len(p) : answers'[i] = 0 /\ ~(i < at')
      BY <3>1, <3>2
    <3> QED  BY <3>1, <3>2, <3>3 DEF SignalPlace, AnsweredOnce
  <2>2. CASE PeerOversize \/ HandOver \/ SendOnClosed
    BY <1>0, <2>2 DEF PeerOversize, HandOver, SendOnClosed
  <2>3. CASE AnswerNow \/ NotUnderstood
    BY <1>1, <2>3 DEF AnswerNow, NotUnderstood, At
  <2>4. CASE PassOver
    <3>1. /\ at <= Len(pkt) /\ pkt[at] = "silent" /\ at' = at + 1 /\ rpc = "loop"
          /\ UNCHANGED <<rpc, pkt, answers>>
      BY <2>4 DEF PassOver, At, Advance
    <3>2. \A i \in 1..Len(pkt) : /\ answers[i] <= (IF i < at + 1 THEN 1 ELSE 0)
                                 /\ i < at + 1 /\ pkt[i] \in {"upd", "disc"} => answers[i] = 1
      <4> TAKE i \in 1..Len(pkt)
      <4>1. i < at + 1 <=> i < at \/ i = at
        BY <1>a
      <4>2. answers[i] \in Nat
        BY <1>a
      <4> QED  BY <1>b, <3>1, <4>1, <4>2
    <3> QED  BY <1>a, <3>1, <3>2 DEF SignalPlace, AnsweredOnce
  <2>5. CASE PacketDone
    <3>1. pkt' = <<>> /\ rpc' = "idle"
      BY <2>5 DEF PacketDone
    <3> QED  BY <3>1 DEF SignalPlace, AnsweredOnce
  <2>6. CASE ForwardUpdate
    BY <2>6 DEF ForwardUpdate, At, SignalPlace, AnsweredOnce
  <2>7. CASE ForwardAccepted \/ ForwardFailed
    BY <1>1, <2>7 DEF ForwardAccepted, ForwardFailed, SignalPlace
  <2> QED  BY <1>2, <2>1, <2>2, <2>3, <2>4, <2>5, <2>6, <2>7 DEF SigRxStep
<1>3. CASE \/ SigTxStep \/ handleLEDataLengthChange \/ UNCHANGED vars
           \/ \E c \in Callers : CallerStep(c)
  BY <1>0, <1>3 DEF SigTxStep, Signal, SignalWritten, SignalReturns, SignalStep,
     handleLEDataLengthChange, vars, CallerStep, UpdateParams, Accepted, SendFailed, Completed,
     Cancelled, WaitClosed, WaitTimeout
<1>4. CASE CtlStep
  BY <1>0, <1>4 DEF CtlStep, CtlAccept, CtlRefuse, CtlComplete, Disconnect,
                    handleLEConnectionUpdateComplete
<1> QED  BY NextCases, <1>2, <1>3, <1>4
-----------------------------------------------------------------------------
(* IInv holds initially: no update was asked for and the queues are empty. *)
LEMMA Initially == Init => IInv
<1> SUFFICES ASSUME Init  PROVE IInv
  OBVIOUS
<1>0. /\ cmds = <<>> /\ owed = <<>> /\ evq = <<>> /\ pkt = <<>> /\ answers = <<>>
      /\ Ascending(<<>>) /\ Range(<<>>) = {} /\ <<>> \in Seq(Nat) /\ Len(<<>>) = 0
      /\ <<>> \in Seq(Kinds) /\ <<>> \in [1..0 -> Nat] /\ DOMAIN <<>> = {}
  BY EmptyOrder DEF Init
<1>1. TypeOK
  <2>1. got \in [Callers -> Nat \X Nat]
    <3>1. <<0, 0>> \in Nat \X Nat
      OBVIOUS
    <3> QED  BY <3>1 DEF Init
  <2>2. ch \in [Callers -> Nat] /\ my \in [Callers -> Nat]
        /\ pc \in [Callers -> {"idle", "send", "wait"}]
    BY DEF Init
  <2>3. pkt \in Seq(Kinds) /\ answers \in [1..Len(pkt) -> Nat]
    BY <1>0
  <2>4. /\ cmds \in Seq(Nat) /\ owed \in Seq(Nat) /\ evq \in Seq(Nat)
        /\ refused \in SUBSET Nat /\ abandoned \in SUBSET Nat
    BY <1>0 DEF Init
  <2>5. at \in Nat \ {0} /\ mySig \in Nat /\ nUpd \in Nat /\ nPkt \in Nat /\ nSig \in Nat
    BY DEF Init
  <2>6. /\ role \in {"master", "slave"} /\ rpc \in {"idle", "loop", "send"}
        /\ sigSent \in {"nil", "open", "closed"} /\ spc \in {"idle", "write", "wait", "got"}
        /\ dataLen \in {"default", "negotiated"}
    BY DEF Init
  <2>7. /\ updateWaiter \in Callers \cup {None} /\ updateSignalPending \in BOOLEAN
        /\ panicked \in BOOLEAN /\ chDone \in BOOLEAN
    BY Zenon DEF Init
  <2> QED  BY <2>1, <2>2, <2>3, <2>4, <2>5, <2>6, <2>7 DEF TypeOK
<1>2. InOrder
  BY <1>0 DEF InOrder, Below
<1>3. SlotHeld
  BY <1>0, NoneAssumption DEF Init, SlotHeld
<1>4. Attributed /\ Delivered
  BY <1>0 DEF Init, Attributed, Delivered, Outstanding
<1>5. AdoptsOwnResult
  BY DEF Init, AdoptsOwnResult
<1>6. SignalPlace /\ AnsweredOnce
  BY <1>0 DEF Init, SignalPlace, AnsweredOnce
<1> QED  BY <1>1, <1>2, <1>3, <1>4, <1>5, <1>6 DEF IInv

(* The inductive invariant. *)
THEOREM Invariant == Spec => []IInv
<1>1. IInv /\ [Next]_vars => IInv'
  <2> SUFFICES ASSUME IInv, [Next]_vars  PROVE IInv'
    OBVIOUS
  <2> QED  BY TypeStep, QueueStep, SlotStep, AttributedStep, DeliveredStep, AdoptsStep, PacketStep
           DEF IInv
<1> QED  BY <1>1, Initially, PTL DEF Spec

(* Type correctness of the update slot, the controller's queues and the    *)
(* signalling loop.                                                        *)
THEOREM TypeCorrect == Spec => []TypeOK
<1>1. IInv => TypeOK
  BY DEF IInv
<1> QED  BY <1>1, Invariant, PTL

(* muUpdate's one slot: unless an update was abandoned while the           *)
(* controller worked on it, the controller has at most one update of the   *)
(* connection, and the slot is taken while it has one.                     *)
THEOREM OneUpdateAtATime == Spec => []SlotExclusive
<1>1. IInv => SlotExclusive
  <2> SUFFICES ASSUME IInv, abandoned = {}
               PROVE  LET out == {u \in Updates : Outstanding(u)} IN
                      Cardinality(out) <= 1 /\ (out # {} => Busy \/ chDone)
    BY DEF SlotExclusive
  <2> DEFINE out == {u \in Updates : Outstanding(u)}
  <2>1. Updates \subseteq Nat
    BY BoundAssumption DEF Updates
  <2>2. \A u \in out : Busy /\ u = nUpd
    BY <2>1 DEF IInv, Attributed, Strayed
  <2>3. out = {} \/ out = {nUpd}
    BY <2>2
  <2>4. Cardinality(out) <= 1
    <3>1. Cardinality({}) = 0
      BY FS_EmptySet
    <3>2. Cardinality({nUpd}) = 1
      BY FS_Singleton
    <3> HIDE DEF out
    <3> QED  BY <2>3, <3>1, <3>2
  <2> QED  BY <2>2, <2>4
<1> QED  BY <1>1, Invariant, PTL

(* UpdateParams adopts the completion of its own update, or one that       *)
(* straggles in behind an abandoned update; never a later one.             *)
THEOREM CallersAdoptTheirOwn == Spec => []AdoptsOwnResult
<1>1. IInv => AdoptsOwnResult
  BY DEF IInv
<1> QED  BY <1>1, Invariant, PTL

(* handleSignal answers every request of a packet exactly once, in order,  *)
(* for packets of any length and any mix of commands.                      *)
THEOREM RequestsAnsweredOnce == Spec => []AnsweredOnce
<1>1. IInv => AnsweredOnce
  BY DEF IInv
<1> QED  BY <1>1, Invariant, PTL
=============================================================================
