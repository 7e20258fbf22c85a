-------------------------- MODULE HciCommandProofs --------------------------
(***************************************************************************)
(* Proofs about HciCommand, for any senders, opcodes, buffers and bounds:  *)
(* h.done never closes without a recorded error, and a Send takes another  *)
(* command's reply only behind a command of its opcode that was given up   *)
(* or answered twice.                                                      *)
(*                                                                         *)
(* And about AdvReports, the other half of what sktLoop handles, for every *)
(* length of the history ring, any addresses and any queue: the ring holds *)
(* the latest advertisements, and the search that runs backwards through   *)
(* it pairs a scan response with the latest one of its address.            *)
(***************************************************************************)
EXTENDS HciCommand, AdvReports, SequenceTheorems, TLAPS

Command == [op : OpCodes, num : 1..MaxCmds]
Event == [op : OpCodes, num : 1..MaxCmds, n : 0..MaxAllowed]
         \cup [op : {None}, num : {0}, n : 0..MaxAllowed]
Packet == [s : Senders, own : 1..MaxCmds, num : 1..MaxCmds]

(* A sender's command has its number, and its packet is in h.sent or has   *)
(* been.                                                                   *)
Numbered == {"write", "wait"}

TypeOK ==
  /\ mu \in Senders \cup {None}
  /\ pc \in [Senders -> {"idle", "lock", "get"} \cup Numbered]
  /\ op \in [Senders -> OpCodes \cup {None}]
  /\ num \in [Senders -> 0..MaxCmds]
  /\ bufs \in 0..BufCap
  /\ sent \in [OpCodes -> Senders \cup {None}]
  /\ reply \in [Senders -> 1..MaxCmds \cup {None}]
  /\ written \in 0..MaxCmds
  /\ loose \in SUBSET Command
  /\ err \in {None, "cause", "skt"}
  /\ open \in BOOLEAN /\ quit \in BOOLEAN
  /\ loop \in {"read", "found", "exit", "done"}
  /\ loop = "found" => hit \in Packet
  /\ ctl \in SUBSET Command
  /\ evq \in Seq(Event)

(* h.Mutex is held over all of send; what it holds of the sender: its      *)
(* number is the last one given, and the table has no other packet.        *)
OneSender ==
  /\ \A s \in Senders :
       /\ pc[s] \in {"get"} \cup Numbered <=> mu = s
       /\ pc[s] # "idle" => op[s] \in OpCodes
       /\ pc[s] \in Numbered => num[s] = written /\ num[s] # 0
       /\ pc[s] \notin Numbered => num[s] = 0 /\ reply[s] = None
  /\ \A o \in OpCodes : sent[o] # None => pc[sent[o]] \in Numbered /\ op[sent[o]] = o

(* Command n of opcode o was given up or answered twice, or an earlier one *)
(* of its opcode was.                                                      *)
Explained(o, n) == \E l \in loose : l.op = o /\ l.num <= n

(* The command some Send waits for. *)
Awaited(o, n) == \E s \in Senders : pc[s] = "wait" /\ op[s] = o /\ num[s] = n

(* No number is given before its time. *)
Bounded ==
  /\ \A c \in ctl : c.num <= written
  /\ \A i \in 1..Len(evq) : evq[i].num <= written
  /\ loop = "found" => hit.own <= written /\ hit.num <= written
  /\ \A s \in Senders : reply[s] # None => reply[s] <= written

(* The packet that sktLoop has found is still the sender's. *)
Current == loop = "found" /\ num[hit.s] = hit.own

(* What the controller, the event queue, sktLoop and the channel hold of a *)
(* command is awaited or explained.                                        *)
Attributed ==
  /\ loop \in {"read", "found"} =>
       /\ \A c \in ctl : Awaited(c.op, c.num) \/ Explained(c.op, c.num)
       /\ \A i \in 1..Len(evq) : evq[i].op # None =>
            Awaited(evq[i].op, evq[i].num) \/ Explained(evq[i].op, evq[i].num)
  /\ Current => Awaited(op[hit.s], hit.num) \/ Explained(op[hit.s], hit.num)
  /\ \A s \in Senders : reply[s] # None =>
       Awaited(op[s], reply[s]) \/ Explained(op[s], reply[s])

(* The places where command n of opcode o may be. *)
AtController(o, n) == [op |-> o, num |-> n] \in ctl
InQueue(o, n, i) == evq[i].op = o /\ evq[i].num = n
InHand(o, n) == Current /\ op[hit.s] = o /\ hit.num = n
InChannel(o, n) == \E s \in Senders : op[s] = o /\ reply[s] = n

(* A command that is in two places was answered twice. *)
OnePlace ==
  \A o \in OpCodes, n \in 1..MaxCmds : ~Explained(o, n) =>
    /\ loop \in {"read", "found"} =>
         /\ \A i \in 1..Len(evq) : InQueue(o, n, i) =>
              /\ ~AtController(o, n) /\ ~InHand(o, n) /\ ~InChannel(o, n)
              /\ \A j \in 1..Len(evq) : InQueue(o, n, j) => i = j
         /\ AtController(o, n) => ~InHand(o, n) /\ ~InChannel(o, n)
    /\ ~(InHand(o, n) /\ InChannel(o, n))

(* sktLoop records an error before it closes h.done; only HCI.Close        *)
(* removes one.                                                            *)
ErrorRecorded == loop \in {"exit", "done"} /\ ~quit => err # None

IInv == TypeOK /\ OneSender /\ Bounded /\ Attributed /\ OnePlace /\ ErrorRecorded
-----------------------------------------------------------------------------
(* A step of a sender, and the others, by what they do to its command. *)
Returns(s) ==
  \/ LockErr(s) \/ GetDone(s) \/ GetTimeout(s) \/ MarshalFails(s) \/ WriteFails(s)
  \/ WaitReply(s) \/ WaitDone(s) \/ WaitTimeout(s)

ControllerStep ==
  \/ \E c \in ctl, n \in 0..MaxAllowed : Complete(c, n) \/ Duplicate(c, n)
  \/ \E n \in 0..MaxAllowed : Nop(n)

LoopStep == Close \/ handleCommandComplete \/ deliver \/ LoopExit \/ CloseDone

(* The steps of the next-state relation. *)
LEMMA NextCases ==
  ASSUME [Next]_vars
  PROVE  \/ \E s \in Senders : \/ \E o \in OpCodes : Call(s, o)
                               \/ Lock(s) \/ GetBuf(s) \/ Write(s) \/ Returns(s)
         \/ LoopStep \/ ControllerStep \/ UNCHANGED vars
  BY DEF Next, Begin, Proceed, Timer, Returns, ControllerStep, LoopStep

(* What every return does to the sender and to h.Mutex. *)
LEMMA ReturnDoes ==
  ASSUME NEW s \in Senders, Returns(s)
  PROVE  /\ Return(s)
         /\ UNCHANGED <<written, loop, hit, ctl, evq>>
         /\ loose \subseteq loose'
         /\ pc[s] = "lock" => mu = None
         /\ pc[s] \in {"lock", "get"} \cup Numbered
         /\ pc[s] \in Numbered => Clear(s)
         /\ pc[s] \notin Numbered => sent' = sent
  BY DEF Returns, LockErr, GetDone, GetTimeout, MarshalFails, WriteFails, WaitReply, WaitDone,
         WaitTimeout, sktVars, ctlVars, Numbered

(* A return keeps the types. *)
LEMMA ReturnType ==
  ASSUME TypeOK, OneSender, NEW s \in Senders, Returns(s)
  PROVE  TypeOK'
<1> USE DEF sktVars, ctlVars
<1>0. Return(s) /\ UNCHANGED <<written, loop, hit, ctl, evq>> /\ (Clear(s) \/ sent' = sent)
  BY ReturnDoes
<1>1. /\ mu' \in Senders \cup {None} /\ pc' \in [Senders -> {"idle", "lock", "get"} \cup Numbered]
      /\ op' \in [Senders -> OpCodes \cup {None}]
      /\ reply' \in [Senders -> 1..MaxCmds \cup {None}]
  BY <1>0 DEF Return, Goto, TypeOK
<1>2. num' \in [Senders -> 0..MaxCmds]
  <2>1. 0 \in 0..MaxCmds
    BY BoundsAssumption
  <2> QED  BY <1>0, <2>1 DEF Return, TypeOK
<1>3. sent' \in [OpCodes -> Senders \cup {None}]
  BY <1>0 DEF Clear, TypeOK
<1>4. loose' \in SUBSET Command
  <2>1. CASE WaitTimeout(s)
    <3>1. op[s] \in OpCodes /\ num[s] \in 1..MaxCmds
      BY <2>1, BoundsAssumption DEF WaitTimeout, OneSender, Numbered, TypeOK
    <3> QED  BY <2>1, <3>1 DEF WaitTimeout, TypeOK, Command
  <2>2. CASE ~WaitTimeout(s)
    BY <2>2 DEF Returns, LockErr, GetDone, GetTimeout, MarshalFails, WriteFails, WaitReply,
       WaitDone, TypeOK
  <2> QED  BY <2>1, <2>2
<1>5. bufs' \in 0..BufCap
  BY BoundsAssumption DEF Returns, LockErr, GetDone, GetTimeout, MarshalFails, WriteFails, WaitReply,
     WaitDone, WaitTimeout, TypeOK
<1>6. err' \in {None, "cause", "skt"} /\ open' \in BOOLEAN /\ quit' \in BOOLEAN
  BY DEF Returns, LockErr, GetDone, GetTimeout, MarshalFails, WriteFails, WaitReply,
     WaitDone, WaitTimeout, close, TypeOK
<1> QED  BY <1>0, <1>1, <1>2, <1>3, <1>4, <1>5, <1>6 DEF TypeOK

(* The way to the wire keeps the types. *)
LEMMA SendType ==
  ASSUME TypeOK, OneSender, NEW s \in Senders,
         (\E o \in OpCodes : Call(s, o)) \/ Lock(s) \/ GetBuf(s) \/ Write(s)
  PROVE  TypeOK'
<1> USE DEF tabVars, sktVars, ctlVars, Goto, Numbered
<1>1. CASE \E o \in OpCodes : Call(s, o)
  BY <1>1 DEF Call, TypeOK
<1>2. CASE Lock(s)
  BY <1>2 DEF Lock, TypeOK
<1>3. CASE GetBuf(s)
  <2>1. written' \in 0..MaxCmds /\ bufs' \in 0..BufCap /\ num' \in [Senders -> 0..MaxCmds]
    BY <1>3, BoundsAssumption DEF GetBuf, TypeOK
  <2>2. sent' \in [OpCodes -> Senders \cup {None}]
    BY <1>3 DEF GetBuf, TypeOK
  <2>3. pc' \in [Senders -> {"idle", "lock", "get"} \cup Numbered]
    BY <1>3 DEF GetBuf, TypeOK
  <2> QED  BY <1>3, <2>1, <2>2, <2>3 DEF GetBuf, TypeOK
<1>4. CASE Write(s)
  <2>1. op[s] \in OpCodes /\ num[s] \in 1..MaxCmds
    BY <1>4, BoundsAssumption DEF Write, OneSender, TypeOK
  <2>2. ctl' \in SUBSET Command
    BY <1>4, <2>1 DEF Write, TypeOK, Command
  <2> QED  BY <1>4, <2>2 DEF Write, TypeOK
<1> QED  BY <1>1, <1>2, <1>3, <1>4

(* sktLoop keeps the types. *)
LEMMA LoopType ==
  ASSUME TypeOK, OneSender, LoopStep
  PROVE  TypeOK'
<1> USE DEF tabVars, sendVars, ctlVars
<1>1. CASE Close
  BY <1>1 DEF Close, close, TypeOK
<1>2. CASE LoopExit \/ CloseDone
  BY <1>2 DEF LoopExit, CloseDone, setErrIfAbsent, TypeOK
<1>3. CASE handleCommandComplete
  <2> DEFINE e == Head(evq)
  <2>1. e \in Event /\ evq' \in Seq(Event)
    BY <1>3 DEF handleCommandComplete, TypeOK
  <2>2. bufs' \in 0..BufCap
    <3>1. e.n \in Nat
      BY <2>1, BoundsAssumption DEF Event
    <3> HIDE DEF e
    <3>2. setAllowedCommands(e.n)
      BY <1>3 DEF handleCommandComplete, e
    <3> QED  BY <3>1, <3>2, BoundsAssumption DEF setAllowedCommands, TypeOK
  <2>3. loop' \in {"read", "found"} /\ (loop' = "found" => hit' \in Packet)
    <3>1. CASE e.op = None \/ Lookup(e.op) = None
      BY <1>3, <3>1 DEF handleCommandComplete
    <3>2. CASE e.op # None /\ Lookup(e.op) # None
      <4>1. e.op \in OpCodes /\ e.num \in 1..MaxCmds
        BY <2>1, <3>2 DEF Event
      <4>2. Lookup(e.op) \in Senders
        BY <3>2, <4>1 DEF Lookup, TypeOK
      <4>3. num[Lookup(e.op)] \in 1..MaxCmds
        BY <3>2, <4>1, <4>2, BoundsAssumption DEF Lookup, TypeOK, OneSender
      <4>4. loop' = "found" /\ hit' = [s |-> Lookup(e.op), own |-> num[Lookup(e.op)], num |-> e.num]
        BY <1>3, <3>2 DEF handleCommandComplete
      <4> QED  BY <4>1, <4>2, <4>3, <4>4 DEF Packet
    <3> QED  BY <3>1, <3>2
  <2> HIDE DEF e
  <2> QED  BY <1>3, <2>1, <2>2, <2>3 DEF handleCommandComplete, TypeOK
<1>4. CASE deliver
  <2>1. hit \in Packet /\ hit.s \in Senders /\ hit.num \in 1..MaxCmds
    BY <1>4 DEF deliver, TypeOK, Packet
  <2>2. reply' \in [Senders -> 1..MaxCmds \cup {None}]
    BY <1>4, <2>1 DEF deliver, TypeOK
  <2> QED  BY <1>4, <2>2 DEF deliver, TypeOK
<1> QED  BY <1>1, <1>2, <1>3, <1>4 DEF LoopStep

(* The controller keeps the types. *)
LEMMA ControllerType ==
  ASSUME TypeOK, ControllerStep
  PROVE  TypeOK'
<1> USE DEF tabVars, sendVars, sktVars
<1>1. ASSUME NEW c \in ctl, NEW n \in 0..MaxAllowed, Complete(c, n) \/ Duplicate(c, n)
      PROVE  TypeOK'
  <2>1. c \in Command
    BY DEF TypeOK
  <2> DEFINE e == [op |-> c.op, num |-> c.num, n |-> n]
  <2>2. e \in Event
    BY <2>1 DEF Command, Event
  <2>3. evq' \in Seq(Event)
    <3>1. evq' = Append(evq, e)
      BY <1>1 DEF Complete, Duplicate
    <3> HIDE DEF e
    <3> QED  BY <2>2, <3>1 DEF TypeOK
  <2> HIDE DEF e
  <2>4. ctl' \in SUBSET Command /\ loose' \in SUBSET Command
    BY <1>1, <2>1 DEF Complete, Duplicate, TypeOK
  <2> QED  BY <1>1, <2>3, <2>4 DEF Complete, Duplicate, TypeOK
<1>2. ASSUME NEW n \in 0..MaxAllowed, Nop(n)  PROVE TypeOK'
  <2>1. [op |-> None, num |-> 0, n |-> n] \in Event
    BY DEF Event
  <2>2. evq' \in Seq(Event)
    BY <1>2, <2>1 DEF Nop, TypeOK
  <2> QED  BY <1>2, <2>2 DEF Nop, TypeOK
<1> QED  BY <1>1, <1>2 DEF ControllerStep

(* Type correctness is preserved by every step. *)
LEMMA TypeStep == TypeOK /\ OneSender /\ [Next]_vars => TypeOK'
<1> SUFFICES ASSUME TypeOK, OneSender, [Next]_vars  PROVE TypeOK'
  OBVIOUS
<1>1. CASE UNCHANGED vars
  BY <1>1 DEF vars, sendVars, tabVars, sktVars, ctlVars, TypeOK
<1> QED  BY <1>1, NextCases, ReturnType, SendType, LoopType, ControllerType

-----------------------------------------------------------------------------
(* When a sender returns, nobody has a number, a packet or a reply. *)
LEMMA AfterReturn ==
  ASSUME TypeOK, OneSender, NEW s \in Senders, Returns(s)
  PROVE  /\ mu' = None
         /\ \A t \in Senders : /\ pc'[t] \in {"idle", "lock"} /\ num'[t] = 0 /\ reply'[t] = None
                               /\ t # s => pc'[t] = pc[t] /\ op'[t] = op[t]
         /\ \A o \in OpCodes : sent'[o] = None
         /\ \A t \in Senders \ {s} : pc[t] \notin {"get"} \cup Numbered
<1>1. \A t \in Senders \ {s} : pc[t] \notin {"get"} \cup Numbered
  BY ReturnDoes, NoneAssumption DEF OneSender
<1>2. \A t \in Senders : /\ pc'[t] \in {"idle", "lock"} /\ num'[t] = 0 /\ reply'[t] = None
                         /\ t # s => pc'[t] = pc[t] /\ op'[t] = op[t]
  BY <1>1, ReturnDoes DEF OneSender, Return, Goto, TypeOK, Numbered
<1>3. ASSUME NEW o \in OpCodes  PROVE sent'[o] = None
  <2>1. sent[o] # None => sent[o] = s /\ o = op[s] /\ pc[s] \in Numbered
    BY <1>1 DEF OneSender, TypeOK
  <2> QED  BY <2>1, ReturnDoes DEF Clear, TypeOK
<1> QED  BY <1>1, <1>2, <1>3, ReturnDoes DEF Return

(* h.Mutex lets one sender at a time into send. *)
LEMMA SenderStep == TypeOK /\ OneSender /\ [Next]_vars => OneSender'
<1> SUFFICES ASSUME TypeOK, OneSender, [Next]_vars  PROVE OneSender'
  OBVIOUS
<1> USE DEF sendVars, tabVars, sktVars, ctlVars
<1>1. ASSUME NEW s \in Senders, Returns(s)  PROVE OneSender'
  <2>1. \A t \in Senders : pc'[t] # "idle" => t # s /\ op'[t] \in OpCodes
    BY <1>1, AfterReturn, ReturnDoes DEF Return, Goto, OneSender, TypeOK
  <2>2. /\ mu' = None /\ \A o \in OpCodes : sent'[o] = None
        /\ \A t \in Senders : pc'[t] \in {"idle", "lock"} /\ num'[t] = 0 /\ reply'[t] = None
    BY <1>1, AfterReturn
  <2>3. \A t \in Senders : mu' # t /\ pc'[t] \notin {"get"} \cup Numbered
    BY <2>2, NoneAssumption DEF Numbered
  <2> QED  BY <2>1, <2>2, <2>3 DEF OneSender
<1>2. ASSUME NEW s \in Senders, NEW o \in OpCodes, Call(s, o)  PROVE OneSender'
  BY <1>2 DEF Call, Goto, OneSender, TypeOK, Numbered
<1>3. ASSUME NEW s \in Senders, Lock(s)  PROVE OneSender'
  BY <1>3, NoneAssumption DEF Lock, Goto, OneSender, TypeOK, Numbered
<1>4. ASSUME NEW s \in Senders, GetBuf(s)  PROVE OneSender'
  <2>1. /\ \A t \in Senders \ {s} : pc[t] \notin {"get"} \cup Numbered
        /\ op[s] \in OpCodes /\ mu = s
    BY <1>4 DEF GetBuf, OneSender
  <2>2. \A o \in OpCodes : sent[o] = None
    BY <1>4, <2>1 DEF GetBuf, OneSender, TypeOK, Numbered
  <2>3. /\ \A t \in Senders \ {s} : pc'[t] = pc[t] /\ num'[t] = num[t]
        /\ pc'[s] = "write" /\ num'[s] = written' /\ written' # 0
        /\ mu' = mu /\ op' = op /\ reply' = reply
    BY <1>4 DEF GetBuf, Goto, TypeOK
  <2>4. \A o \in OpCodes : sent'[o] # None => sent'[o] = s /\ o = op[s]
    BY <1>4, <2>1, <2>2 DEF GetBuf, TypeOK
  <2> QED  BY <2>1, <2>3, <2>4 DEF OneSender, Numbered
<1>5. ASSUME NEW s \in Senders, Write(s)  PROVE OneSender'
  BY <1>5 DEF Write, Goto, OneSender, TypeOK, Numbered
<1>6. CASE deliver
  <2>1. hit \in Packet /\ hit.s \in Senders /\ hit.own # 0
    BY <1>6, BoundsAssumption DEF deliver, TypeOK, Packet
  <2>2. \A t \in Senders : pc[t] \notin Numbered => reply'[t] = reply[t]
    BY <1>6, <2>1 DEF deliver, OneSender, TypeOK
  <2> QED  BY <1>6, <2>2 DEF deliver, OneSender
<1>7. CASE Close \/ handleCommandComplete \/ LoopExit \/ CloseDone \/ UNCHANGED vars
  BY <1>7 DEF Close, handleCommandComplete, LoopExit, CloseDone, vars, OneSender
<1>8. CASE ControllerStep
  BY <1>8 DEF ControllerStep, Complete, Duplicate, Nop, OneSender
<1> QED  BY NextCases, <1>1, <1>2, <1>3, <1>4, <1>5, <1>6, <1>7, <1>8 DEF LoopStep

(* Numbers are given in order. *)
LEMMA BoundedStep == TypeOK /\ OneSender /\ Bounded /\ [Next]_vars => Bounded'
<1> SUFFICES ASSUME TypeOK, OneSender, Bounded, [Next]_vars  PROVE Bounded'
  OBVIOUS
<1> USE DEF sendVars, tabVars, sktVars, ctlVars
<1>1. ASSUME NEW s \in Senders, Returns(s)  PROVE Bounded'
  <2>1. \A t \in Senders : reply'[t] = None
    BY <1>1, AfterReturn
  <2>2. UNCHANGED <<written, loop, hit, ctl, evq>>
    BY <1>1, ReturnDoes
  <2> QED  BY <2>1, <2>2 DEF Bounded
<1>2. ASSUME NEW s \in Senders, (\E o \in OpCodes : Call(s, o)) \/ Lock(s)  PROVE Bounded'
  BY <1>2 DEF Call, Lock, Bounded
<1>3. ASSUME NEW s \in Senders, GetBuf(s)  PROVE Bounded'
  <2>1. UNCHANGED <<ctl, evq, hit, loop, reply>> /\ written' = written + 1 /\ written \in Nat
    BY <1>3 DEF GetBuf, TypeOK
  <2>2. /\ \A c \in ctl : c.num \in Nat
        /\ \A i \in 1..Len(evq) : evq[i].num \in Nat
        /\ loop = "found" => hit.own \in Nat /\ hit.num \in Nat
        /\ \A t \in Senders : reply[t] # None => reply[t] \in Nat
    <3>1. \A i \in 1..Len(evq) : evq[i] \in Event
      BY DEF TypeOK
    <3> QED  BY <3>1, BoundsAssumption DEF TypeOK, Command, Event, Packet
  <2> QED  BY <2>1, <2>2 DEF Bounded
<1>4. ASSUME NEW s \in Senders, Write(s)  PROVE Bounded'
  <2>1. num[s] <= written
    BY <1>4 DEF Write, OneSender, Numbered, TypeOK
  <2> QED  BY <1>4, <2>1 DEF Write, Bounded
<1>5. CASE deliver
  BY <1>5 DEF deliver, Bounded, TypeOK, Packet
<1>6. CASE handleCommandComplete
  <2>1. /\ 1 \in 1..Len(evq) /\ Head(evq) = evq[1]
        /\ \A i \in 1..Len(evq') : i + 1 \in 1..Len(evq) /\ evq'[i] = evq[i + 1]
    BY <1>6 DEF handleCommandComplete, TypeOK
  <2>2. \A i \in 1..Len(evq') : evq'[i].num <= written
    BY <2>1 DEF Bounded
  <2>3. loop' = "found" => hit'.own <= written /\ hit'.num <= written
    <3> SUFFICES ASSUME loop' = "found"  PROVE hit'.own <= written /\ hit'.num <= written
      OBVIOUS
    <3> DEFINE t == Lookup(evq[1].op)
    <3>1. /\ evq[1].op # None /\ t # None
          /\ hit' = [s |-> t, own |-> num[t], num |-> evq[1].num]
      BY <1>6, <2>1 DEF handleCommandComplete
    <3>2. evq[1].op \in OpCodes
      BY <2>1, <3>1 DEF TypeOK, Event
    <3>3. t \in Senders /\ num[t] = written
      BY <3>1, <3>2 DEF Lookup, OneSender, TypeOK
    <3>4. evq[1].num <= written /\ written \in Nat
      BY <2>1 DEF Bounded, TypeOK
    <3>5. hit'.own = num[t] /\ hit'.num = evq[1].num
      BY <3>1
    <3> HIDE DEF t
    <3> QED  BY <3>3, <3>4, <3>5
  <2> QED  BY <1>6, <2>2, <2>3 DEF handleCommandComplete, Bounded
<1>7. CASE Close \/ LoopExit \/ CloseDone \/ UNCHANGED vars
  BY <1>7 DEF Close, LoopExit, CloseDone, vars, Bounded
<1>8. ASSUME NEW e, evq' = Append(evq, e), e.num <= written, ctl' \subseteq ctl,
             UNCHANGED <<written, loop, hit, reply>>
      PROVE  Bounded'
  BY <1>8 DEF Bounded, TypeOK
<1>9. CASE ControllerStep
  <2>1. ASSUME NEW c \in ctl, NEW n \in 0..MaxAllowed, Complete(c, n) \/ Duplicate(c, n)
        PROVE  Bounded'
    BY <1>8, <2>1 DEF Complete, Duplicate, Bounded
  <2>2. ASSUME NEW n \in 0..MaxAllowed, Nop(n)  PROVE Bounded'
    BY <1>8, <2>2 DEF Nop, TypeOK
  <2> QED  BY <1>9, <2>1, <2>2 DEF ControllerStep
<1> QED  BY NextCases, <1>1, <1>2, <1>3, <1>4, <1>5, <1>6, <1>7, <1>9 DEF LoopStep

-----------------------------------------------------------------------------
(* While no sender waits, and none has a reply or a packet in sktLoop's    *)
(* hand, it is enough that what is left behind is explained.               *)
AllExplained ==
  /\ \A c \in ctl : Explained(c.op, c.num)
  /\ \A i \in 1..Len(evq) : evq[i].op # None => Explained(evq[i].op, evq[i].num)

Quiet ==
  /\ ~Current /\ \A s \in Senders : reply[s] = None
  /\ loop \in {"read", "found"} => AllExplained

(* In a quiet state every reply is attributed and in one place at most. *)
LEMMA LeftBehind == Quiet => Attributed /\ OnePlace
<1> SUFFICES ASSUME ~Current, \A s \in Senders : reply[s] = None,
                    loop \in {"read", "found"} => AllExplained
             PROVE  Attributed /\ OnePlace
  BY DEF Quiet
<1>1. Attributed
  BY DEF Attributed, AllExplained
<1>2. ASSUME NEW o \in OpCodes, NEW n \in 1..MaxCmds, ~Explained(o, n)
      PROVE  ~InHand(o, n) /\ ~InChannel(o, n)
  BY NoneAssumption, BoundsAssumption DEF InHand, InChannel
<1>3. ASSUME NEW o \in OpCodes, NEW n \in 1..MaxCmds, ~Explained(o, n), loop \in {"read", "found"}
      PROVE  ~AtController(o, n) /\ \A i \in 1..Len(evq) : ~InQueue(o, n, i)
  <2>1. ~AtController(o, n)
    <3> SUFFICES ASSUME [op |-> o, num |-> n] \in ctl  PROVE FALSE
      BY DEF AtController
    <3>1. Explained([op |-> o, num |-> n].op, [op |-> o, num |-> n].num)
      BY <1>3 DEF AllExplained
    <3> QED  BY <1>3, <3>1
  <2>2. ASSUME NEW i \in 1..Len(evq), InQueue(o, n, i)  PROVE FALSE
    BY <1>3, <2>2, NoneAssumption DEF AllExplained, InQueue
  <2> QED  BY <2>1, <2>2
<1>4. OnePlace
  BY <1>2, <1>3 DEF OnePlace
<1> QED  BY <1>1, <1>4

(* A sender that waits is the only one, and awaits the last number. *)
LEMMA TheWaiter ==
  ASSUME TypeOK, OneSender, NEW s \in Senders, pc[s] \in {"get"} \cup Numbered,
         NEW o, NEW n, Awaited(o, n)
  PROVE  pc[s] = "wait" /\ o = op[s] /\ n = num[s]
  BY DEF Awaited, OneSender, Numbered

(* What is explained stays explained. *)
LEMMA StaysExplained ==
  ASSUME NEW o, NEW n, loose \subseteq loose', Explained(o, n)
  PROVE  Explained(o, n)'
  BY DEF Explained

(* A sender returns: what the controller still has of its command was      *)
(* given up or answered twice, or the command got the reply of one that    *)
(* was; a reply to the command itself leaves nothing behind.               *)
LEMMA ReturnAttributed ==
  ASSUME TypeOK, OneSender, Bounded, Attributed, OnePlace, TypeOK',
         NEW s \in Senders, Returns(s)
  PROVE  Attributed' /\ OnePlace'
<1>1. /\ UNCHANGED <<written, loop, hit, ctl, evq>> /\ loose \subseteq loose'
      /\ pc[s] \in {"lock", "get"} \cup Numbered
      /\ pc[s] = "lock" => mu = None
  BY ReturnDoes
<1>2. /\ \A t \in Senders : num'[t] = 0 /\ reply'[t] = None
      /\ \A t \in Senders \ {s} : pc[t] \notin {"get"} \cup Numbered
  BY AfterReturn
<1>3. ~Current'
  BY <1>2, BoundsAssumption DEF Current, TypeOK, Packet
<1>4. ASSUME loop \in {"read", "found"}, NEW o \in OpCodes, NEW n \in 1..MaxCmds,
             Awaited(o, n), AtController(o, n) \/ \E i \in 1..Len(evq) : InQueue(o, n, i)
      PROVE  Explained(o, n)'
  <2>1. pc[s] = "wait" /\ o = op[s] /\ n = num[s] /\ n = written
    BY <1>2, <1>4 DEF Awaited, OneSender, Numbered
  <2>2. WaitReply(s) \/ WaitTimeout(s)
    BY <1>4, <2>1 DEF Returns, LockErr, GetDone, GetTimeout, MarshalFails, WriteFails, WaitDone, Done
  <2>3. CASE WaitTimeout(s)
    <3>1. [op |-> o, num |-> n] \in loose'
      BY <2>1, <2>3 DEF WaitTimeout
    <3>2. [op |-> o, num |-> n].op = o /\ [op |-> o, num |-> n].num <= n
      OBVIOUS
    <3> QED  BY <3>1, <3>2 DEF Explained
  <2>4. CASE WaitReply(s)
    <3>1. reply[s] # None /\ reply[s] \in 1..MaxCmds /\ reply[s] <= n
      BY <2>1, <2>4 DEF WaitReply, TypeOK, Bounded
    <3>2. CASE reply[s] = n
      <4>1. InChannel(o, n)
        BY <2>1, <3>2 DEF InChannel
      <4>2. Explained(o, n)
        BY <1>4, <4>1 DEF OnePlace
      <4> QED  BY <1>1, <4>2, StaysExplained
    <3>3. CASE reply[s] # n
      <4>1. ~Awaited(o, reply[s])
        BY <1>2, <2>1, <3>3 DEF Awaited, Numbered
      <4>2. Explained(o, reply[s])
        BY <2>1, <3>1, <4>1 DEF Attributed
      <4>3. PICK l \in loose : l.op = o /\ l.num <= reply[s]
        BY <4>2 DEF Explained
      <4>4. l.num <= n
        BY <3>1, <4>3 DEF TypeOK, Command
      <4> QED  BY <1>1, <4>3, <4>4 DEF Explained
    <3> QED  BY <3>2, <3>3
  <2> QED  BY <2>2, <2>3, <2>4
<1>5. ASSUME loop \in {"read", "found"}, NEW c \in ctl
      PROVE  Explained(c.op, c.num)'
  <2>1. c.op \in OpCodes /\ c.num \in 1..MaxCmds /\ AtController(c.op, c.num)
    BY DEF TypeOK, Command, AtController
  <2>2. Awaited(c.op, c.num) \/ Explained(c.op, c.num)
    BY <1>5 DEF Attributed
  <2> QED  BY <1>1, <1>4, <1>5, <2>1, <2>2, StaysExplained
<1>6. ASSUME loop \in {"read", "found"}, NEW i \in 1..Len(evq), evq[i].op # None
      PROVE  Explained(evq[i].op, evq[i].num)'
  <2>1. evq[i].op \in OpCodes /\ evq[i].num \in 1..MaxCmds /\ InQueue(evq[i].op, evq[i].num, i)
    BY <1>6 DEF TypeOK, Event, InQueue
  <2>2. Awaited(evq[i].op, evq[i].num) \/ Explained(evq[i].op, evq[i].num)
    BY <1>6 DEF Attributed
  <2>3. CASE Explained(evq[i].op, evq[i].num)
    BY <1>1, <2>3, StaysExplained DEF Explained
  <2>4. CASE Awaited(evq[i].op, evq[i].num)
    <3>1. PICK o \in OpCodes, n \in 1..MaxCmds : o = evq[i].op /\ n = evq[i].num
      BY <2>1
    <3>2. Awaited(o, n) /\ InQueue(o, n, i)
      BY <2>1, <2>4, <3>1
    <3>3. Explained(o, n)'
      BY <1>4, <1>6, <3>2
    <3> QED  BY <1>1, <3>1, <3>3 DEF Explained
  <2> QED  BY <2>2, <2>3, <2>4
<1>7. (loop \in {"read", "found"})' => AllExplained'
  BY <1>1, <1>5, <1>6 DEF AllExplained, Explained
<1>8. \A t \in Senders : reply'[t] = None
  BY <1>2
<1>9. Quiet'
  BY <1>3, <1>7, <1>8 DEF Quiet
<1> QED  BY <1>9, LeftBehind, PTL

(* The way to the wire: a call, the lock, the buffer and the write. *)
LEMMA SendAttributed ==
  ASSUME TypeOK, OneSender, Bounded, Attributed, OnePlace, NEW s \in Senders,
         (\E o \in OpCodes : Call(s, o)) \/ Lock(s) \/ GetBuf(s) \/ Write(s)
  PROVE  Attributed' /\ OnePlace'
<1> USE DEF tabVars, sktVars, ctlVars, Goto
<1>0. loop = "found" => hit.s \in Senders /\ hit.own \in Nat /\ hit.own # 0 /\ hit.own <= written
  BY BoundsAssumption DEF TypeOK, Packet, Bounded
<1>1. CASE (\E o \in OpCodes : Call(s, o)) \/ Lock(s)
  <2>1. /\ UNCHANGED <<num, written, loose, reply, loop, hit, ctl, evq>>
        /\ pc[s] = "lock" \/ pc[s] = "idle"
        /\ \A t \in Senders \ {s} : op'[t] = op[t] /\ pc'[t] = pc[t]
        /\ pc'[s] # "wait"
    BY <1>1 DEF Call, Lock, TypeOK
  <2>2. num[s] = 0 /\ reply[s] = None
    BY <2>1 DEF OneSender, Numbered
  <2>3. \A o, n : Awaited(o, n)' = Awaited(o, n) /\ Explained(o, n)' = Explained(o, n)
    BY <2>1 DEF Awaited, Explained
  <2>4. Current' = Current /\ (Current => hit.s # s /\ op'[hit.s] = op[hit.s])
    BY <1>0, <2>1, <2>2 DEF Current
  <2>5. \A o, n : InHand(o, n)' = InHand(o, n)
    BY <2>1, <2>4 DEF InHand
  <2>6. \A o \in OpCodes, n \in 1..MaxCmds : InChannel(o, n)' => InChannel(o, n)
    BY <2>1, <2>2, NoneAssumption, BoundsAssumption DEF InChannel
  <2>7. \A o, n : /\ AtController(o, n)' = AtController(o, n)
                  /\ \A i \in 1..Len(evq) : InQueue(o, n, i)' = InQueue(o, n, i)
    BY <2>1 DEF AtController, InQueue
  <2>8. Attributed'
    <3>1. \A t \in Senders : reply'[t] # None => reply[t] # None /\ op'[t] = op[t]
      BY <2>1, <2>2
    <3> QED  BY <2>1, <2>3, <2>4, <3>1 DEF Attributed
  <2>9. OnePlace'
    BY <2>1, <2>3, <2>5, <2>6, <2>7 DEF OnePlace
  <2> QED  BY <2>8, <2>9
<1>2. ASSUME GetBuf(s) \/ Write(s), NEW o, NEW n  PROVE ~Awaited(o, n)
  BY <1>2 DEF GetBuf, Write, Awaited, OneSender, Numbered
<1>3. CASE GetBuf(s)
  <2>1. \A t \in Senders : num[t] = 0 /\ reply[t] = None
    BY <1>3 DEF GetBuf, OneSender, Numbered
  <2>2. /\ UNCHANGED <<loose, reply, loop, hit, ctl, evq>>
        /\ \A t \in Senders : num'[t] = 0 \/ num'[t] = written + 1
    BY <1>3, <2>1 DEF GetBuf, TypeOK
  <2>3. ~Current'
    BY <1>0, <2>2 DEF Current, TypeOK
  <2>4. loop \in {"read", "found"} => AllExplained
    BY <1>2, <1>3 DEF Attributed, AllExplained
  <2>5. (loop \in {"read", "found"})' => AllExplained'
    BY <2>2, <2>4 DEF AllExplained, Explained
  <2>6. Quiet'
    BY <2>1, <2>2, <2>3, <2>5 DEF Quiet
  <2> QED  BY <2>6, LeftBehind, PTL
<1>4. CASE Write(s)
  <2> DEFINE c == [op |-> op[s], num |-> num[s]]
  <2>1. /\ UNCHANGED <<op, num, written, loose, reply, loop, hit, evq>>
        /\ ctl' = ctl \cup {c}
        /\ pc'[s] = "wait"
    BY <1>4 DEF Write, TypeOK
  <2>2. \A o, n : Explained(o, n)' = Explained(o, n)
    BY <2>1 DEF Explained
  <2>3. Awaited(op[s], num[s])'
    BY <2>1 DEF Awaited
  <2>4. c.op = op[s] /\ c.num = num[s]
    OBVIOUS
  <2> HIDE DEF c
  <2>5. Attributed'
    <3>1. \A d \in ctl' : d \in ctl \/ d = c
      BY <2>1
    <3>2. Current' = Current
      BY <2>1 DEF Current
    <3>3. ASSUME loop \in {"read", "found"}, NEW d \in ctl'
          PROVE  Awaited(d.op, d.num)' \/ Explained(d.op, d.num)'
      <4>1. CASE d \in ctl
        BY <1>2, <1>4, <2>2, <3>3, <4>1 DEF Attributed
      <4>2. CASE d = c
        BY <2>1, <2>3, <2>4, <4>2
      <4> QED  BY <3>1, <4>1, <4>2
    <3> QED  BY <1>2, <1>4, <2>1, <2>2, <3>2, <3>3 DEF Attributed, Explained
  <2>6. OnePlace'
    <3> SUFFICES ASSUME NEW o \in OpCodes, NEW n \in 1..MaxCmds, ~Explained(o, n)
                 PROVE  /\ loop \in {"read", "found"} => \A i \in 1..Len(evq) : ~InQueue(o, n, i)'
                        /\ ~InHand(o, n)' /\ ~InChannel(o, n)'
      BY <2>1, <2>2 DEF OnePlace
    <3>1. loop \in {"read", "found"} => \A i \in 1..Len(evq) : ~InQueue(o, n, i)'
      BY <1>2, <1>4, <2>1, NoneAssumption DEF InQueue, Attributed
    <3>2. ~InHand(o, n)'
      BY <1>2, <1>4, <2>1 DEF InHand, Current, Attributed
    <3>3. ~InChannel(o, n)'
      BY <1>2, <1>4, <2>1, NoneAssumption, BoundsAssumption DEF InChannel, Attributed
    <3> QED  BY <3>1, <3>2, <3>3
  <2> QED  BY <2>5, <2>6
<1> QED  BY <1>1, <1>3, <1>4

(* The reply's way: from the controller into the queue, into sktLoop's     *)
(* hand, and into the channel.                                             *)
LEMMA ControllerAttributed ==
  ASSUME TypeOK, Attributed, OnePlace, ControllerStep
  PROVE  Attributed' /\ OnePlace'
<1> USE DEF sendVars, tabVars, sktVars
<1>0. UNCHANGED <<pc, op, num, reply, loop, hit>> /\ loose \subseteq loose' /\ ctl' \subseteq ctl
  BY DEF ControllerStep, Complete, Duplicate, Nop
<1>1. \A o, n : /\ Awaited(o, n)' = Awaited(o, n) /\ (Explained(o, n) => Explained(o, n)')
                /\ InHand(o, n)' = InHand(o, n) /\ InChannel(o, n)' = InChannel(o, n)
                /\ AtController(o, n)' => AtController(o, n)
  BY <1>0 DEF Awaited, Explained, InHand, InChannel, AtController, Current
<1>2. Current' = Current
  BY <1>0 DEF Current
<1>3. ASSUME NEW e \in Event, evq' = Append(evq, e),
             loop \in {"read", "found"} /\ e.op # None =>
               /\ Awaited(e.op, e.num) \/ Explained(e.op, e.num)
               /\ AtController(e.op, e.num)
               /\ Explained(e.op, e.num)' \/ ~AtController(e.op, e.num)'
      PROVE  Attributed' /\ OnePlace'
  <2>1. /\ Len(evq) \in Nat /\ Len(evq') = Len(evq) + 1 /\ evq'[Len(evq) + 1] = e
        /\ \A i \in 1..Len(evq) : evq'[i] = evq[i]
    BY <1>3 DEF TypeOK
  <2>2. \A i \in 1..Len(evq') : \/ i \in 1..Len(evq) /\ evq'[i] = evq[i]
                                \/ i = Len(evq) + 1 /\ evq'[i] = e
    BY <2>1
  <2>3. Attributed'
    <3>1. ASSUME loop \in {"read", "found"}, NEW i \in 1..Len(evq'), evq'[i].op # None
          PROVE  Awaited(evq'[i].op, evq'[i].num) \/ Explained(evq'[i].op, evq'[i].num)
      BY <1>3, <2>2, <3>1 DEF Attributed
    <3>2. \A o, n : Awaited(o, n) \/ Explained(o, n) => Awaited(o, n)' \/ Explained(o, n)'
      BY <1>1
    <3>3. /\ \A c \in ctl' : loop \in {"read", "found"} => Awaited(c.op, c.num) \/ Explained(c.op, c.num)
          /\ Current => Awaited(op[hit.s], hit.num) \/ Explained(op[hit.s], hit.num)
          /\ \A s \in Senders : reply[s] # None => Awaited(op[s], reply[s]) \/ Explained(op[s], reply[s])
      BY <1>0 DEF Attributed
    <3> QED  BY <1>0, <1>2, <3>1, <3>2, <3>3 DEF Attributed, Awaited, Explained
  <2>4. OnePlace'
    <3> SUFFICES ASSUME NEW o \in OpCodes, NEW n \in 1..MaxCmds, ~Explained(o, n)'
                 PROVE  /\ loop \in {"read", "found"} =>
                             /\ \A i \in 1..Len(evq') : InQueue(o, n, i)' =>
                                  /\ ~AtController(o, n)' /\ ~InHand(o, n) /\ ~InChannel(o, n)
                                  /\ \A j \in 1..Len(evq') : InQueue(o, n, j)' => i = j
                             /\ AtController(o, n)' => ~InHand(o, n) /\ ~InChannel(o, n)
                        /\ ~(InHand(o, n) /\ InChannel(o, n))
      BY <1>0, <1>1 DEF OnePlace
    <3>1. ~Explained(o, n)
      BY <1>1
    <3>2. \A i \in 1..Len(evq) : InQueue(o, n, i)' = InQueue(o, n, i)
      BY <2>1 DEF InQueue
    <3>k. PICK k \in Nat : k = Len(evq) + 1
      BY <2>1
    <3>3. ASSUME loop \in {"read", "found"}, InQueue(o, n, k)'
          PROVE  AtController(o, n) /\ ~AtController(o, n)'
      <4>1. e.op = o /\ e.num = n /\ o # None
        BY <2>1, <3>k, <3>3, NoneAssumption DEF InQueue
      <4> QED  BY <1>3, <3>3, <4>1
    <3>4. loop \in {"read", "found"} /\ AtController(o, n) =>
             ~InHand(o, n) /\ ~InChannel(o, n) /\ \A i \in 1..Len(evq) : ~InQueue(o, n, i)
      BY <3>1 DEF OnePlace
    <3>5. ~(InHand(o, n) /\ InChannel(o, n))
      BY <3>1 DEF OnePlace
    <3>6. ASSUME loop \in {"read", "found"}, NEW i \in 1..Len(evq'), InQueue(o, n, i)'
          PROVE  /\ ~AtController(o, n)' /\ ~InHand(o, n) /\ ~InChannel(o, n)
                 /\ \A j \in 1..Len(evq') : InQueue(o, n, j)' => i = j
      <4>0. \A j \in 1..Len(evq') : j \in 1..Len(evq) \/ j = k
        BY <2>2, <3>k
      <4>1. CASE i = k
        <5>1. AtController(o, n) /\ ~AtController(o, n)'
          BY <3>3, <3>6, <4>1
        <5>2. \A j \in 1..Len(evq) : ~InQueue(o, n, j)'
          BY <3>2, <3>4, <3>6, <5>1
        <5> QED  BY <3>4, <3>6, <4>0, <4>1, <5>1, <5>2
      <4>2. CASE i \in 1..Len(evq)
        <5>1. InQueue(o, n, i)
          BY <3>2, <3>6, <4>2
        <5>2. /\ ~AtController(o, n) /\ ~InHand(o, n) /\ ~InChannel(o, n)
              /\ \A j \in 1..Len(evq) : InQueue(o, n, j) => i = j
          BY <3>1, <3>6, <4>2, <5>1 DEF OnePlace
        <5>3. ~InQueue(o, n, k)'
          BY <3>3, <3>6, <5>2
        <5> QED  BY <1>1, <3>2, <4>0, <5>2, <5>3
      <4> QED  BY <3>6, <4>0, <4>1, <4>2
    <3> QED  BY <1>1, <3>4, <3>5, <3>6
  <2> QED  BY <2>3, <2>4
<1>4. ASSUME NEW c \in ctl, NEW n \in 0..MaxAllowed, Complete(c, n) \/ Duplicate(c, n)
      PROVE  Attributed' /\ OnePlace'
  <2> DEFINE e == [op |-> c.op, num |-> c.num, n |-> n]
  <2>0. c \in Command /\ c = [op |-> c.op, num |-> c.num] /\ c.num \in Nat
    BY BoundsAssumption DEF TypeOK, Command
  <2>1. e \in Event /\ e.op = c.op /\ e.num = c.num /\ evq' = Append(evq, e)
    BY <1>4, <2>0 DEF Complete, Duplicate, Command, Event
  <2> HIDE DEF e
  <2>2. AtController(e.op, e.num)
    BY <2>0, <2>1 DEF AtController
  <2>3. Explained(e.op, e.num)' \/ ~AtController(e.op, e.num)'
    <3>1. CASE Complete(c, n)
      BY <2>0, <2>1, <3>1 DEF Complete, AtController
    <3>2. CASE Duplicate(c, n)
      BY <2>0, <2>1, <3>2 DEF Duplicate, Explained
    <3> QED  BY <1>4, <3>1, <3>2
  <2>4. loop \in {"read", "found"} => Awaited(e.op, e.num) \/ Explained(e.op, e.num)
    BY <2>1 DEF Attributed
  <2> QED  BY <1>3, <2>1, <2>2, <2>3, <2>4
<1>5. ASSUME NEW n \in 0..MaxAllowed, Nop(n)  PROVE Attributed' /\ OnePlace'
  <2> DEFINE e == [op |-> None, num |-> 0, n |-> n]
  <2>1. e \in Event /\ e.op = None /\ evq' = Append(evq, e)
    BY <1>5 DEF Nop, Event
  <2> HIDE DEF e
  <2> QED  BY <1>3, <2>1
<1> QED  BY <1>4, <1>5 DEF ControllerStep

(* sktLoop moves a reply along, drops it, or ends. *)
LEMMA LoopAttributed ==
  ASSUME TypeOK, OneSender, Attributed, OnePlace, LoopStep
  PROVE  Attributed' /\ OnePlace'
<1> USE DEF sendVars, tabVars, ctlVars
<1>0. UNCHANGED <<pc, op, num, loose, ctl>>
  BY DEF LoopStep, Close, handleCommandComplete, deliver, LoopExit, CloseDone
<1>1. \A o, n : /\ Awaited(o, n)' = Awaited(o, n) /\ Explained(o, n)' = Explained(o, n)
                /\ AtController(o, n)' = AtController(o, n)
  BY <1>0 DEF Awaited, Explained, AtController
<1>2. CASE Close
  <2>1. UNCHANGED <<reply, evq, loop, hit>>
    BY <1>2 DEF Close
  <2> QED  BY <1>0, <2>1 DEF Attributed, OnePlace, Awaited, Explained, AtController, InQueue,
               InHand, InChannel, Current
<1>3. CASE LoopExit \/ CloseDone
  <2>1. UNCHANGED <<reply, evq, hit>> /\ loop # "found" /\ loop' \in {"exit", "done"}
    BY <1>3 DEF LoopExit, CloseDone
  <2>2. ~Current' /\ \A o, n : ~InHand(o, n)'
    BY <2>1 DEF Current, InHand
  <2>3. Attributed'
    BY <1>0, <2>1, <2>2 DEF Attributed, Awaited, Explained
  <2>4. OnePlace'
    BY <2>1, <2>2 DEF OnePlace
  <2> QED  BY <2>3, <2>4
<1>4. CASE deliver
  <2>1. /\ UNCHANGED evq /\ loop = "found" /\ loop' = "read"
        /\ reply' = IF Current /\ reply[hit.s] = None
                    THEN [reply EXCEPT ![hit.s] = hit.num] ELSE reply
    BY <1>4 DEF deliver, Current
  <2>2. hit.s \in Senders /\ hit.num # None
    BY <2>1, NoneAssumption, BoundsAssumption DEF TypeOK, Packet
  <2>3. ~Current' /\ \A o, n : ~InHand(o, n)'
    BY <2>1 DEF Current, InHand
  <2>4. \A t \in Senders : reply'[t] # reply[t] => t = hit.s /\ reply'[t] = hit.num /\ Current
    BY <2>1, <2>2 DEF TypeOK
  <2>5. Attributed'
    <3>1. \A t \in Senders : reply'[t] # None =>
             Awaited(op[t], reply'[t]) \/ Explained(op[t], reply'[t])
      BY <2>4 DEF Attributed
    <3> QED  BY <1>0, <2>1, <2>3, <3>1 DEF Attributed, Awaited, Explained
  <2>6. \A o, n : InChannel(o, n)' => InChannel(o, n) \/ InHand(o, n)
    BY <1>0, <2>4 DEF InChannel, InHand
  <2>7. \A o, n, i : InQueue(o, n, i)' = InQueue(o, n, i)
    BY <2>1 DEF InQueue
  <2>8. OnePlace'
    BY <1>1, <2>1, <2>3, <2>6, <2>7 DEF OnePlace
  <2> QED  BY <2>5, <2>8
<1>5. CASE handleCommandComplete
  <2>1. /\ UNCHANGED reply /\ loop = "read" /\ evq # <<>> /\ evq' = Tail(evq)
        /\ loop' \in {"read", "found"}
    BY <1>5 DEF handleCommandComplete
  <2>2. /\ 1 \in 1..Len(evq) /\ Head(evq) = evq[1]
        /\ \A i \in 1..Len(evq') : i + 1 \in 1..Len(evq) /\ evq'[i] = evq[i + 1] /\ i + 1 # 1
    BY <2>1 DEF TypeOK
  <2>3. ~Current /\ \A o, n : ~InHand(o, n)
    BY <2>1 DEF Current, InHand
  <2>4. Current' => evq[1].op # None /\ op[hit'.s] = evq[1].op /\ hit'.num = evq[1].num
    <3> SUFFICES ASSUME Current'
                 PROVE  evq[1].op # None /\ op[hit'.s] = evq[1].op /\ hit'.num = evq[1].num
      OBVIOUS
    <3> DEFINE t == Lookup(evq[1].op)
    <3>1. /\ evq[1].op # None /\ t # None
          /\ hit' = [s |-> t, own |-> num[t], num |-> evq[1].num]
      BY <1>5, <2>1, <2>2 DEF handleCommandComplete, Current
    <3>2. evq[1].op \in OpCodes
      BY <2>2, <3>1 DEF TypeOK, Event
    <3>3. op[t] = evq[1].op
      BY <3>1, <3>2 DEF Lookup, OneSender
    <3> QED  BY <3>1, <3>3
  <2>5. \A o, n : InHand(o, n)' => InQueue(o, n, 1) /\ o # None
    BY <1>0, <2>4 DEF InHand, InQueue
  <2>6. \A o, n : \A i \in 1..Len(evq') : InQueue(o, n, i)' => InQueue(o, n, i + 1)
    BY <2>2 DEF InQueue
  <2>7. \A o, n : InChannel(o, n)' = InChannel(o, n)
    BY <1>0, <2>1 DEF InChannel
  <2>8. Attributed'
    <3>1. Current' => Awaited(op[hit'.s], hit'.num) \/ Explained(op[hit'.s], hit'.num)
      BY <2>1, <2>2, <2>4 DEF Attributed
    <3>2. \A i \in 1..Len(evq') : evq'[i].op # None =>
             Awaited(evq'[i].op, evq'[i].num) \/ Explained(evq'[i].op, evq'[i].num)
      BY <2>1, <2>2 DEF Attributed
    <3> QED  BY <1>0, <2>1, <3>1, <3>2 DEF Attributed, Awaited, Explained
  <2>9. OnePlace'
    <3> SUFFICES ASSUME NEW o \in OpCodes, NEW n \in 1..MaxCmds, ~Explained(o, n)
                 PROVE  /\ \A i \in 1..Len(evq') : InQueue(o, n, i)' =>
                             /\ ~AtController(o, n) /\ ~InHand(o, n)' /\ ~InChannel(o, n)
                             /\ \A j \in 1..Len(evq') : InQueue(o, n, j)' => i = j
                        /\ AtController(o, n) => ~InHand(o, n)' /\ ~InChannel(o, n)
                        /\ ~(InHand(o, n)' /\ InChannel(o, n))
      BY <1>1, <2>7 DEF OnePlace
    <3>1. /\ \A i \in 1..Len(evq) : InQueue(o, n, i) =>
               /\ ~AtController(o, n) /\ ~InChannel(o, n)
               /\ \A j \in 1..Len(evq) : InQueue(o, n, j) => i = j
          /\ AtController(o, n) => ~InChannel(o, n)
      BY <2>1 DEF OnePlace
    <3>2. ASSUME NEW i \in 1..Len(evq'), InQueue(o, n, i)'
          PROVE  /\ ~AtController(o, n) /\ ~InHand(o, n)' /\ ~InChannel(o, n)
                 /\ \A j \in 1..Len(evq') : InQueue(o, n, j)' => i = j
      <4>1. i + 1 \in 1..Len(evq) /\ InQueue(o, n, i + 1) /\ i + 1 # 1
        BY <2>2, <2>6, <3>2
      <4>2. ~AtController(o, n) /\ ~InChannel(o, n) /\ ~InHand(o, n)'
        BY <2>2, <2>5, <3>1, <4>1
      <4>3. ASSUME NEW j \in 1..Len(evq'), InQueue(o, n, j)'  PROVE i = j
        <5>1. i + 1 = j + 1
          BY <2>2, <2>6, <3>1, <4>1, <4>3
        <5>2. i \in Int /\ j \in Int
          OBVIOUS
        <5> QED  BY <5>1, <5>2
      <4> QED  BY <4>2, <4>3
    <3> QED  BY <2>2, <2>5, <3>1, <3>2
  <2> QED  BY <2>8, <2>9
<1> QED  BY <1>2, <1>3, <1>4, <1>5 DEF LoopStep

-----------------------------------------------------------------------------
(* sktLoop sets the error before it leaves its loop; what follows only     *)
(* replaces it, until HCI.Close.                                           *)
LEMMA ErrorStep == ErrorRecorded /\ [Next]_vars => ErrorRecorded'
<1> SUFFICES ASSUME ErrorRecorded, [Next]_vars  PROVE ErrorRecorded'
  OBVIOUS
<1> USE NoneAssumption DEF ErrorRecorded, sktVars
<1>1. ASSUME NEW s \in Senders, Returns(s)  PROVE ErrorRecorded'
  BY <1>1 DEF Returns, LockErr, GetDone, GetTimeout, MarshalFails, WriteFails, WaitReply,
     WaitDone, WaitTimeout, close
<1>2. ASSUME NEW s \in Senders, (\E o \in OpCodes : Call(s, o)) \/ Lock(s) \/ GetBuf(s) \/ Write(s)
      PROVE  ErrorRecorded'
  BY <1>2 DEF Call, Lock, GetBuf, Write
<1>3. CASE LoopStep
  BY <1>3 DEF LoopStep, Close, close, handleCommandComplete, deliver, LoopExit, CloseDone,
     setErrIfAbsent
<1>4. CASE ControllerStep
  BY <1>4 DEF ControllerStep, Complete, Duplicate, Nop
<1>5. CASE UNCHANGED vars
  BY <1>5 DEF vars
<1> QED  BY NextCases, <1>1, <1>2, <1>3, <1>4, <1>5

(* Initially no command has a number. *)
LEMMA Initially == Init => IInv
<1> SUFFICES ASSUME Init  PROVE IInv
  OBVIOUS
<1>1. TypeOK
  <2>1. num \in [Senders -> 0..MaxCmds] /\ written \in 0..MaxCmds /\ bufs \in 0..BufCap
    BY BoundsAssumption DEF Init
  <2>2. /\ pc \in [Senders -> {"idle", "lock", "get"} \cup Numbered]
        /\ op \in [Senders -> OpCodes \cup {None}]
        /\ sent \in [OpCodes -> Senders \cup {None}]
        /\ reply \in [Senders -> 1..MaxCmds \cup {None}]
    BY DEF Init
  <2>3. evq \in Seq(Event) /\ ctl \in SUBSET Command /\ loose \in SUBSET Command
    BY DEF Init
  <2>4. open \in BOOLEAN /\ quit \in BOOLEAN
    BY Zenon DEF Init
  <2>5. /\ mu \in Senders \cup {None} /\ err \in {None, "cause", "skt"}
        /\ loop \in {"read", "found", "exit", "done"} /\ (loop = "found" => hit \in Packet)
    BY DEF Init
  <2> QED  BY <2>1, <2>2, <2>3, <2>4, <2>5 DEF TypeOK
<1>2. OneSender
  BY NoneAssumption DEF Init, OneSender, Numbered
<1>3. Bounded /\ ErrorRecorded
  BY DEF Init, Bounded, ErrorRecorded
<1>4. Quiet
  BY DEF Init, Quiet, Current, AllExplained
<1> QED  BY <1>1, <1>2, <1>3, <1>4, LeftBehind DEF IInv

(* Every step preserves the invariant. *)
LEMMA Inductive == IInv /\ [Next]_vars => IInv'
<1> SUFFICES ASSUME IInv, [Next]_vars  PROVE IInv'
  OBVIOUS
<1>1. TypeOK' /\ OneSender' /\ Bounded' /\ ErrorRecorded'
  BY TypeStep, SenderStep, BoundedStep, ErrorStep DEF IInv
<1>2. TypeOK /\ OneSender /\ Bounded /\ Attributed /\ OnePlace
  BY DEF IInv
<1>3. CASE UNCHANGED vars
  <2>1. Attributed' /\ OnePlace'
    BY <1>2, <1>3 DEF vars, sendVars, tabVars, sktVars, ctlVars, Attributed, OnePlace, Awaited,
       Explained, AtController, InQueue, InHand, InChannel, Current
  <2> QED  BY <1>1, <2>1 DEF IInv
<1>4. (Attributed' /\ OnePlace') \/ UNCHANGED vars
  BY <1>1, <1>2, NextCases, ReturnAttributed, SendAttributed, LoopAttributed, ControllerAttributed
<1> QED  BY <1>1, <1>3, <1>4 DEF IInv

(* The inductive invariant. *)
THEOREM Invariant == Spec => []IInv
  BY Initially, Inductive, PTL DEF Spec

(* Type correctness of the senders, the table and sktLoop; the buffers in  *)
(* chCmdBufs never exceed its capacity.                                    *)
THEOREM TypeCorrect == Spec => []TypeOK
<1>1. IInv => TypeOK
  BY DEF IInv
<1> QED  BY <1>1, Invariant, PTL

(* When h.done closes, Error() has an error to report, unless the          *)
(* application has closed the HCI itself.                                  *)
THEOREM DoneHasError == Spec => []ErrorBeforeDone
<1>1. IInv => ErrorBeforeDone
  BY DEF IInv, ErrorRecorded, ErrorBeforeDone, Done
<1> QED  BY <1>1, Invariant, PTL

(* A Send takes the reply of its own command, unless a command of its      *)
(* opcode up to the replied one was given up or answered twice.            *)
THEOREM RepliesExplained == Spec => MismatchExplained
<1>1. IInv /\ [Next]_vars
        => [\A s \in Senders : WaitReply(s) =>
              \/ reply[s] = num[s]
              \/ \E l \in loose : l.op = op[s] /\ l.num <= reply[s]]_vars
  <2> SUFFICES ASSUME IInv, NEW s \in Senders, WaitReply(s)
               PROVE  \/ reply[s] = num[s]
                      \/ \E l \in loose : l.op = op[s] /\ l.num <= reply[s]
    OBVIOUS
  <2>1. Awaited(op[s], reply[s]) \/ Explained(op[s], reply[s])
    BY DEF IInv, Attributed, WaitReply
  <2>2. Awaited(op[s], reply[s]) => reply[s] = num[s]
    BY DEF Awaited, IInv, OneSender, Numbered, WaitReply
  <2> QED  BY <2>1, <2>2 DEF Explained
<1> QED  BY <1>1, Invariant, PTL DEF Spec, MismatchExplained

-----------------------------------------------------------------------------
(* The history ring: type correctness. *)
RingTypeOK ==
  /\ adHist \in [Slots -> Addrs \cup {Nil}]
  /\ adLast \in Slots
  /\ recent \in Seq(Addrs) /\ Len(recent) <= HistLen
  /\ advTgt \in Nat /\ gens \in Nat
  /\ sr \in Addrs \cup {Nil}
  /\ idx \in -1..(HistLen - 1)
  /\ evTgt \in Nat
  /\ outcome \in Slots \cup {Orphan, Nil}
  /\ chAdv \in Seq(Nat)
  /\ call \in Nat

(* The slots the search has passed, the newer ones, do not hold the        *)
(* address it looks for.                                                   *)
RingSearched ==
  sr # Nil => \A j \in Slots : Age(j) < Age(At) => adHist[j] # sr

(* The inductive invariant of the ring. *)
RingIInv == RingTypeOK /\ HistoryIsRecent /\ RingSearched
-----------------------------------------------------------------------------
(* The age of a slot, without the remainder: the slots below adLast are    *)
(* the newest, then come those from the top of the ring downwards.         *)
LEMMA AgeIs ==
  ASSUME adLast \in Slots, NEW i \in Slots
  PROVE  Age(i) = IF i < adLast THEN adLast - 1 - i ELSE adLast - 1 - i + HistLen
<1>1. /\ HistLen \in Nat \ {0} /\ adLast \in Int /\ i \in Int
      /\ 0 <= i /\ i < HistLen /\ 0 <= adLast /\ adLast < HistLen
  BY SizesAssumption DEF Slots
<1>2. CASE i < adLast
  <2>1. adLast - 1 - i \in 0..(HistLen - 1)
    BY <1>1, <1>2
  <2> QED  BY <1>1, <1>2, <2>1 DEF Age
<1>3. CASE ~(i < adLast)
  <2>1. adLast - 1 - i + HistLen \in 0..(HistLen - 1)
    BY <1>1, <1>3
  <2>2. (adLast - 1 - i) % HistLen = (adLast - 1 - i + HistLen) % HistLen
    BY <1>1
  <2> QED  BY <1>1, <1>3, <2>1, <2>2 DEF Age
<1> QED  BY <1>2, <1>3

(* Storing an entry makes every other one older by one, and the oldest     *)
(* slot is the one that is overwritten.                                    *)
LEMMA NextSlotAges ==
  ASSUME adLast \in Slots, adLast' = NextSlot
  PROVE  /\ adLast' \in Slots
         /\ Age(adLast) = HistLen - 1
         /\ \A i \in Slots : Age(i) \in 0..(HistLen - 1)
         /\ \A i \in Slots : i # adLast => Age(i) < HistLen - 1 /\ Age(i)' = Age(i) + 1
         /\ (adLast' - 1 - adLast) % HistLen = 0
<1>1. HistLen \in Nat \ {0} /\ adLast \in Int /\ 0 <= adLast /\ adLast < HistLen
  BY SizesAssumption DEF Slots
<1>2. /\ adLast' \in Slots
      /\ adLast' = IF adLast + 1 = HistLen THEN 0 ELSE adLast + 1
  BY <1>1 DEF NextSlot, Slots
<1>3. \A i \in Slots :
        Age(i) = IF i < adLast THEN adLast - 1 - i ELSE adLast - 1 - i + HistLen
  BY AgeIs
<1>4. \A i \in Slots :
        Age(i)' = IF i < adLast' THEN adLast' - 1 - i ELSE adLast' - 1 - i + HistLen
  <2> SUFFICES ASSUME NEW i \in Slots
               PROVE  (adLast' - 1 - i) % HistLen =
                        IF i < adLast' THEN adLast' - 1 - i ELSE adLast' - 1 - i + HistLen
    BY DEF Age
  <2>1. i \in Int /\ 0 <= i /\ i < HistLen /\ adLast' \in Int /\ 0 <= adLast' /\ adLast' < HistLen
    BY <1>1, <1>2 DEF Slots
  <2>2. CASE i < adLast'
    <3>1. adLast' - 1 - i \in 0..(HistLen - 1)
      BY <1>1, <2>1, <2>2
    <3> QED  BY <1>1, <2>1, <2>2, <3>1
  <2>3. CASE ~(i < adLast')
    <3>1. adLast' - 1 - i + HistLen \in 0..(HistLen - 1)
      BY <1>1, <2>1, <2>3
    <3>2. (adLast' - 1 - i) % HistLen = (adLast' - 1 - i + HistLen) % HistLen
      BY <1>1, <2>1
    <3> QED  BY <1>1, <2>1, <2>3, <3>1, <3>2
  <2> QED  BY <2>2, <2>3
<1>5. \A i \in Slots : i \in Int /\ 0 <= i /\ i < HistLen
  BY <1>1 DEF Slots
<1>6. (adLast' - 1 - adLast) % HistLen = 0
  BY <1>1, <1>2, <1>4, <1>5 DEF Age
<1>7. ASSUME NEW i \in Slots
      PROVE  Age(i) \in 0..(HistLen - 1)
             /\ (i # adLast => Age(i) < HistLen - 1 /\ Age(i)' = Age(i) + 1)
  BY <1>1, <1>2, <1>3, <1>4, <1>5
<1> QED  BY <1>1, <1>2, <1>3, <1>6, <1>7

(* Two slots of the same age are the same slot. *)
LEMMA AgeInjective ==
  ASSUME adLast \in Slots, NEW i \in Slots, NEW j \in Slots, Age(i) = Age(j)
  PROVE  i = j
<1>1. HistLen \in Nat \ {0} /\ adLast \in Int /\ i \in 0..(HistLen - 1) /\ j \in 0..(HistLen - 1)
  BY SizesAssumption DEF Slots
<1> QED  BY <1>1, AgeIs DEF Slots

(* Type correctness is kept by every step. *)
LEMMA RingTypeStep == RingTypeOK /\ [ReportsNext]_reportsVars => RingTypeOK'
<1> SUFFICES ASSUME RingTypeOK, [ReportsNext]_reportsVars  PROVE RingTypeOK'
  OBVIOUS
<1> USE SizesAssumption DEF histVars, searchVars, tgtVars
<1>a. HistLen \in Nat \ {0} /\ Slots = 0..(HistLen - 1)
  BY DEF Slots
<1>b. \A t \in Nat : Enqueue(t) => chAdv' \in Seq(Nat)
  BY AppendProperties DEF Enqueue, RingTypeOK
<1>c. At \in Slots
  BY <1>a DEF At, RingTypeOK
<1>0. CASE UNCHANGED reportsVars
  BY <1>0 DEF reportsVars, RingTypeOK
<1>1. CASE SetAdvHandler \/ SetAdvHandlerNil
  BY <1>1 DEF SetAdvHandler, SetAdvHandlerNil, RingTypeOK
<1>2. CASE resetAdHistory
  <2>1. recent' \in Seq(Addrs) /\ Len(recent') <= HistLen /\ adLast' \in Slots
    BY <1>2, <1>a DEF resetAdHistory
  <2>2. adHist' \in [Slots -> Addrs \cup {Nil}]
    BY <1>2 DEF resetAdHistory
  <2> QED  BY <1>2, <2>1, <2>2 DEF resetAdHistory, RingTypeOK
<1>3. ASSUME NEW a \in Addrs, Advertise(a)  PROVE RingTypeOK'
  <2>1. adLast' \in Slots
    BY <1>3, NextSlotAges DEF Advertise, RingTypeOK
  <2>2. adHist' \in [Slots -> Addrs \cup {Nil}]
    BY <1>3 DEF Advertise, RingTypeOK
  <2>3. recent' \in Seq(Addrs) /\ Len(recent') <= HistLen
    <3>1. recent \in Seq(Addrs) /\ Len(recent) \in Nat /\ Len(recent) <= HistLen
      BY LenProperties DEF RingTypeOK
    <3>2. CASE Len(recent) < HistLen
      BY <1>3, <3>1, <3>2, <1>a, AppendProperties DEF Advertise
    <3>3. CASE ~(Len(recent) < HistLen)
      <4>1. recent # <<>>
        BY <3>1, <3>3, <1>a, EmptySeq
      <4>2. Tail(recent) \in Seq(Addrs) /\ Len(Tail(recent)) = Len(recent) - 1
        BY <3>1, <4>1, HeadTailProperties
      <4> QED  BY <1>3, <3>1, <3>3, <1>a, <4>2, AppendProperties DEF Advertise
    <3> QED  BY <3>2, <3>3
  <2>4. chAdv' \in Seq(Nat)
    BY <1>3, <1>b DEF Advertise, RingTypeOK
  <2> QED  BY <1>3, <2>1, <2>2, <2>3, <2>4 DEF Advertise, RingTypeOK
<1>4. CASE AdvertiseOther
  BY <1>4, <1>b DEF AdvertiseOther, RingTypeOK
<1>5. ASSUME NEW a \in Addrs, ScanRsp(a)  PROVE RingTypeOK'
  BY <1>5, <1>a DEF ScanRsp, RingTypeOK
<1>6. CASE SearchStep
  <2>1. CASE SearchNext
    <3>1. idx' \in -1..(HistLen - 1)
      BY <2>1, <1>a, <1>c DEF SearchNext, StepBack
    <3> QED  BY <2>1, <3>1 DEF SearchNext, RingTypeOK
  <2>2. CASE SearchHit
    BY <2>2, <1>a, <1>b, <1>c DEF SearchHit, EndSearch, RingTypeOK
  <2>3. CASE SearchEmpty \/ SearchOut
    BY <2>3, <1>a DEF SearchEmpty, SearchOut, EndSearch, RingTypeOK
  <2> QED  BY <1>6, <2>1, <2>2, <2>3 DEF SearchStep
<1>7. CASE Dispatch
  <2>1. chAdv \in Seq(Nat) /\ chAdv # <<>>
    BY <1>7 DEF Dispatch, RingTypeOK
  <2>2. Tail(chAdv) \in Seq(Nat)
    BY <2>1, HeadTailProperties
  <2> QED  BY <1>7, <2>2 DEF Dispatch, RingTypeOK
<1>8. CASE HandlerReturns
  BY <1>8 DEF HandlerReturns, RingTypeOK
<1> QED  BY <1>0, <1>1, <1>2, <1>3, <1>4, <1>5, <1>6, <1>7, <1>8 DEF ReportsNext
-----------------------------------------------------------------------------
(* The ring after an advertisement: its slot has the newest entry, every   *)
(* other slot the entry that is now one older.                             *)
LEMMA AdvertiseKeepsHistory ==
  ASSUME RingTypeOK, HistoryIsRecent, NEW a \in Addrs, Advertise(a)
  PROVE  HistoryIsRecent'
<1> DEFINE n == Len(recent)
<1>1. /\ adLast \in Slots /\ HistLen \in Nat \ {0} /\ n \in Nat /\ n <= HistLen
      /\ recent \in Seq(Addrs)
  BY SizesAssumption, LenProperties DEF RingTypeOK
<1>2. /\ adHist' = [adHist EXCEPT ![adLast] = a] /\ adLast' = NextSlot
      /\ recent' = Append(IF n < HistLen THEN recent ELSE Tail(recent), a)
  BY DEF Advertise
<1>3. /\ \A i \in Slots : Age(i) \in 0..(HistLen - 1)
      /\ \A i \in Slots : i # adLast => Age(i) < HistLen - 1 /\ Age(i)' = Age(i) + 1
      /\ Age(adLast) = HistLen - 1 /\ (adLast' - 1 - adLast) % HistLen = 0
  BY <1>1, <1>2, NextSlotAges
<1>4. /\ n < HistLen => /\ Len(recent') = n + 1
                        /\ \A k \in 1..n : recent'[k] = recent[k]
      /\ n = HistLen => /\ Len(recent') = n
                        /\ \A k \in 1..(n - 1) : recent'[k] = recent[k + 1]
      /\ recent'[Len(recent')] = a
  <2>1. CASE n < HistLen
    <3>1. recent' = Append(recent, a)
      BY <1>2, <2>1
    <3> QED  BY <1>1, <2>1, <3>1, AppendProperties
  <2>2. CASE n = HistLen
    <3>1. recent' = Append(Tail(recent), a) /\ recent # <<>>
      BY <1>1, <1>2, <2>2, EmptySeq
    <3>2. /\ Tail(recent) \in Seq(Addrs) /\ Len(Tail(recent)) = n - 1
          /\ \A k \in 1..(n - 1) : Tail(recent)[k] = recent[k + 1]
      BY <1>1, <3>1, HeadTailProperties
    <3> QED  BY <1>1, <2>2, <3>1, <3>2, AppendProperties
  <2> QED  BY <1>1, <2>1, <2>2
<1>5. ASSUME NEW i \in Slots
      PROVE  adHist'[i] = IF Age(i)' < Len(recent')
                            THEN recent'[Len(recent') - Age(i)'] ELSE Nil
  <2>1. CASE i = adLast
    <3>1. Age(i)' = 0
      BY <1>3, <2>1 DEF Age
    <3>2. Len(recent') \in Nat \ {0} /\ Len(recent') - 0 = Len(recent')
      BY <1>1, <1>4
    <3>3. adHist'[i] = a
      BY <1>1, <1>2, <2>1 DEF RingTypeOK
    <3>4. Age(i)' < Len(recent') /\ Len(recent') - Age(i)' = Len(recent')
      BY <3>1, <3>2
    <3>5. recent'[Len(recent') - Age(i)'] = a
      BY <1>4, <3>4
    <3> QED  BY <3>3, <3>4, <3>5
  <2>2. CASE i # adLast
    <3>1. /\ Age(i) \in 0..(HistLen - 1) /\ Age(i) < HistLen - 1 /\ Age(i)' = Age(i) + 1
          /\ adHist'[i] = adHist[i]
          /\ adHist[i] = IF Age(i) < n THEN recent[n - Age(i)] ELSE Nil
      BY <1>2, <1>3, <2>2 DEF RingTypeOK, HistoryIsRecent
    <3> HIDE DEF n
    <3>2. CASE n < HistLen /\ Age(i) < n
      <4>1. n - Age(i) \in 1..n /\ Len(recent') - (Age(i) + 1) = n - Age(i)
            /\ Age(i) + 1 < Len(recent')
        BY <1>1, <1>4, <3>1, <3>2
      <4>2. recent'[n - Age(i)] = recent[n - Age(i)]
        BY <1>4, <3>2, <4>1
      <4> QED  BY <3>1, <3>2, <4>1, <4>2
    <3>3. CASE n < HistLen /\ ~(Age(i) < n)
      <4>1. ~(Age(i) + 1 < Len(recent'))
        BY <1>1, <1>4, <3>1, <3>3
      <4> QED  BY <3>1, <3>3, <4>1
    <3>4. CASE n = HistLen
      <4>1. /\ n - Age(i) - 1 \in 1..(n - 1) /\ Len(recent') - (Age(i) + 1) = n - Age(i) - 1
            /\ Age(i) + 1 < Len(recent') /\ Age(i) < n /\ n - Age(i) - 1 + 1 = n - Age(i)
        <5>1. Len(recent') = n
          BY <1>4, <3>4
        <5> QED  BY <1>1, <3>1, <3>4, <5>1
      <4>2. recent'[n - Age(i) - 1] = recent[n - Age(i)]
        BY <1>4, <3>4, <4>1
      <4> QED  BY <3>1, <4>1, <4>2
    <3> QED  BY <1>1, <3>2, <3>3, <3>4
  <2> QED  BY <2>1, <2>2
<1> QED  BY <1>5 DEF HistoryIsRecent, Age

(* The ring holds the latest advertisements after every step. *)
LEMMA HistoryStep == RingTypeOK /\ HistoryIsRecent /\ [ReportsNext]_reportsVars => HistoryIsRecent'
<1> SUFFICES ASSUME RingTypeOK, HistoryIsRecent, [ReportsNext]_reportsVars  PROVE HistoryIsRecent'
  OBVIOUS
<1> USE DEF histVars, searchVars, tgtVars
<1>1. CASE resetAdHistory
  <2>1. \A i \in Slots : ((0 - 1 - i) % HistLen) \in 0..(HistLen - 1)
    BY SizesAssumption DEF Slots
  <2>2. recent' = <<>> /\ adLast' = 0 /\ \A i \in Slots : adHist'[i] = Nil
    BY <1>1 DEF resetAdHistory
  <2>3. \A i \in Slots : ~(Age(i)' < Len(recent'))
    BY <2>1, <2>2, SizesAssumption DEF Age
  <2> QED  BY <2>2, <2>3 DEF HistoryIsRecent
<1>2. ASSUME NEW a \in Addrs, Advertise(a)  PROVE HistoryIsRecent'
  BY <1>2, AdvertiseKeepsHistory
<1>3. CASE UNCHANGED histVars
  BY <1>3 DEF HistoryIsRecent, Age
<1>4. CASE UNCHANGED reportsVars
  BY <1>3, <1>4 DEF reportsVars
<1>5. CASE ReportsNext
  <2>1. \/ resetAdHistory \/ (\E a \in Addrs : Advertise(a))
        \/ SetAdvHandler \/ SetAdvHandlerNil \/ AdvertiseOther
        \/ (\E a \in Addrs : ScanRsp(a)) \/ Dispatch \/ HandlerReturns
        \/ SearchNext \/ SearchHit \/ SearchEmpty \/ SearchOut
    BY <1>5 DEF ReportsNext, SearchStep
  <2> QED  BY <1>1, <1>2, <1>3, <2>1
           DEF SetAdvHandler, SetAdvHandlerNil, AdvertiseOther, ScanRsp, Dispatch,
               HandlerReturns, SearchNext, SearchHit, SearchEmpty, SearchOut
<1> QED  BY <1>4, <1>5

(* The slot looked at next is one older, or the newest again after the     *)
(* oldest.                                                                 *)
LEMMA StepBackAge ==
  ASSUME RingTypeOK, SearchNext
  PROVE  At' \in Slots /\ (Age(At)' = Age(At) + 1 \/ Age(At)' = 0)
<1>1. /\ HistLen \in Nat \ {0} /\ adLast \in 0..(HistLen - 1) /\ idx \in -1..(HistLen - 1)
      /\ Slots = 0..(HistLen - 1)
  BY SizesAssumption DEF RingTypeOK, Slots
<1>2. /\ At \in 0..(HistLen - 1) /\ adLast' = adLast
      /\ idx' = At - 1
      /\ At' = IF At = 0 THEN HistLen - 1 ELSE At - 1
  BY <1>1 DEF SearchNext, StepBack, At, histVars
<1>3. \A i \in Slots :
        Age(i) = IF i < adLast THEN adLast - 1 - i ELSE adLast - 1 - i + HistLen
  BY <1>1, AgeIs
<1>4. Age(At)' = (adLast - 1 - At') % HistLen
  BY <1>2 DEF Age
<1>5. (adLast - 1 - At') % HistLen =
        IF At' < adLast THEN adLast - 1 - At' ELSE adLast - 1 - At' + HistLen
  BY <1>1, <1>2, <1>3 DEF Age
<1> QED  BY <1>1, <1>2, <1>3, <1>4, <1>5

(* The search passes only slots that do not hold its address.              *)
LEMMA SearchedStep == RingTypeOK /\ RingSearched /\ [ReportsNext]_reportsVars => RingSearched'
<1> SUFFICES ASSUME RingTypeOK, RingSearched, [ReportsNext]_reportsVars, sr' # Nil,
                    NEW j \in Slots, Age(j)' < Age(At)'
             PROVE  adHist'[j] # sr'
  BY DEF RingSearched
<1> USE DEF histVars, searchVars, tgtVars
<1>0. /\ HistLen \in Nat \ {0} /\ adLast \in 0..(HistLen - 1) /\ Slots = 0..(HistLen - 1)
      /\ At \in Slots
      /\ \A i \in Slots :
           Age(i) = IF i < adLast THEN adLast - 1 - i ELSE adLast - 1 - i + HistLen
  BY SizesAssumption, AgeIs DEF RingTypeOK, Slots, At
<1>1. CASE SearchNext
  <2>1. /\ adHist' = adHist /\ sr' = sr /\ adLast' = adLast /\ sr # Nil /\ adHist[At] # sr
        /\ Age(j)' = Age(j)
    BY <1>1 DEF SearchNext, SearchMore, Age
  <2>2. Age(j) < Age(At) + 1 /\ Age(j) \in Int /\ Age(At) \in Int /\ Age(j) >= 0
    BY <1>0, <1>1, <2>1, StepBackAge
  <2>3. Age(j) < Age(At) \/ Age(j) = Age(At)
    BY <2>2
  <2> QED  BY <1>0, <2>1, <2>3, AgeInjective DEF RingSearched, RingTypeOK
<1>2. CASE \E a \in Addrs : ScanRsp(a)
  <2>1. adLast' = adLast /\ idx' = adLast - 1
    BY <1>2 DEF ScanRsp
  <2>2. At' = (IF adLast = 0 THEN HistLen - 1 ELSE adLast - 1) /\ At' \in Slots
    BY <1>0, <2>1 DEF At
  <2>3. Age(At)' = (adLast - 1 - At') % HistLen /\ Age(j)' = Age(j)
    BY <2>1 DEF Age
  <2>4. (adLast - 1 - At') % HistLen =
          IF At' < adLast THEN adLast - 1 - At' ELSE adLast - 1 - At' + HistLen
    BY <1>0, <2>2 DEF Age
  <2>5. Age(At)' = 0
    BY <1>0, <2>2, <2>3, <2>4
  <2> QED  BY <1>0, <2>3, <2>5
<1>3. CASE UNCHANGED <<histVars, sr, idx>>
  <2>1. Age(j)' = Age(j) /\ Age(At)' = Age(At)
    BY <1>3 DEF Age, At
  <2> QED  BY <1>3, <2>1 DEF RingSearched
<1>4. CASE ReportsNext
  <2>1. \/ (sr = Nil /\ UNCHANGED sr) \/ sr' = Nil
        \/ SearchNext \/ (\E a \in Addrs : ScanRsp(a)) \/ UNCHANGED <<histVars, sr, idx>>
    BY <1>4 DEF ReportsNext, SearchStep, SetAdvHandler, SetAdvHandlerNil, resetAdHistory, Advertise,
                AdvertiseOther, SearchHit, SearchEmpty, SearchOut, EndSearch, Dispatch,
                HandlerReturns
  <2> QED  BY <1>1, <1>2, <1>3, <2>1
<1>5. CASE UNCHANGED reportsVars
  BY <1>3, <1>5 DEF reportsVars
<1> QED  BY <1>4, <1>5

(* How a search ends. *)
LEMMA EndIsRight ==
  ASSUME RingIInv, ReportsNext, Ends
  PROVE  LET own == {j \in Slots : adHist[j] = sr} IN
         IF outcome' = Orphan THEN own \subseteq {adLast}
         ELSE outcome' \in own /\ \A j \in own : Age(outcome') <= Age(j)
<1> DEFINE own == {j \in Slots : adHist[j] = sr}
<1>0. /\ HistLen \in Nat \ {0} /\ adLast \in 0..(HistLen - 1) /\ Slots = 0..(HistLen - 1)
      /\ At \in Slots /\ sr # Nil
      /\ \A i \in Slots :
           Age(i) = IF i < adLast THEN adLast - 1 - i ELSE adLast - 1 - i + HistLen
  BY SizesAssumption, AgeIs DEF RingIInv, RingTypeOK, Slots, At, Ends
<1>1. \A i \in Slots : Age(i) \in 0..(HistLen - 1)
  BY <1>0
<1>2. \A j \in own : Age(At) <= Age(j)
  <2> SUFFICES ASSUME NEW j \in own  PROVE Age(At) <= Age(j)
    OBVIOUS
  <2>1. j \in Slots /\ ~(Age(j) < Age(At))
    BY <1>0 DEF RingIInv, RingSearched
  <2>2. Age(At) \in Int /\ Age(j) \in Int
    BY <1>0, <1>1, <2>1
  <2> QED  BY <2>1, <2>2
<1>3. SearchHit \/ SearchEmpty \/ SearchOut
  BY DEF ReportsNext, SearchStep, Ends, SetAdvHandler, SetAdvHandlerNil, resetAdHistory, Advertise,
         AdvertiseOther, ScanRsp, SearchNext, Dispatch, HandlerReturns, searchVars
<1>4. CASE SearchHit
  <2>1. outcome' = At /\ At \in own /\ At # Orphan
    BY <1>0, <1>4 DEF SearchHit, EndSearch, Orphan
  <2> QED  BY <1>2, <2>1
<1>5. CASE SearchEmpty
  <2>1. outcome' = Orphan /\ adHist[At] = Nil
    BY <1>5 DEF SearchEmpty, EndSearch
  <2>2. Len(recent) \in Nat /\ recent \in Seq(Addrs)
    BY LenProperties DEF RingIInv, RingTypeOK
  <2>3. ~(Age(At) < Len(recent))
    <3> SUFFICES ASSUME Age(At) < Len(recent)  PROVE FALSE
      OBVIOUS
    <3>1. Len(recent) - Age(At) \in 1..Len(recent)
      BY <1>0, <1>1, <2>2
    <3>2. recent[Len(recent) - Age(At)] \in Addrs
      BY <2>2, <3>1, ElementOfSeq
    <3>3. recent[Len(recent) - Age(At)] = Nil
      BY <1>0, <2>1 DEF RingIInv, HistoryIsRecent
    <3> QED  BY <3>2, <3>3, NilAssumption
  <2>4. own = {}
    <3> SUFFICES ASSUME NEW j \in own  PROVE FALSE
      OBVIOUS
    <3>1. ~(Age(j) < Len(recent))
      <4>1. j \in Slots /\ Age(At) <= Age(j)
        BY <1>2
      <4>2. Age(j) \in Int /\ Age(At) \in Int
        BY <1>0, <1>1, <4>1
      <4> QED  BY <2>2, <2>3, <4>1, <4>2
    <3>2. adHist[j] = Nil
      BY <3>1 DEF RingIInv, HistoryIsRecent
    <3> QED  BY <1>0, <3>2
  <2> QED  BY <2>1, <2>4
<1>6. CASE SearchOut
  <2>1. outcome' = Orphan /\ At = adLast
    BY <1>0, <1>6 DEF SearchOut, EndSearch, At
  <2>2. \A j \in own : Age(j) = Age(adLast)
    BY <1>0, <1>1, <1>2, <2>1
  <2>3. own \subseteq {adLast}
    BY <1>0, <2>2, AgeInjective
  <2> QED  BY <2>1, <2>3
<1> QED  BY <1>3, <1>4, <1>5, <1>6
-----------------------------------------------------------------------------
(* RingIInv holds initially: the ring is empty and no search runs. *)
LEMMA RingInitially == ReportsInit => RingIInv
<1> SUFFICES ASSUME ReportsInit  PROVE RingIInv
  OBVIOUS
<1>1. RingTypeOK
  <2>1. 0 \in Slots /\ 0 \in -1..(HistLen - 1) /\ 0 <= HistLen
    BY SizesAssumption DEF Slots
  <2>2. <<>> \in Seq(Addrs) /\ <<>> \in Seq(Nat) /\ Len(<<>>) = 0
    OBVIOUS
  <2> QED  BY <2>1, <2>2 DEF ReportsInit, RingTypeOK
<1>2. HistoryIsRecent
  <2>1. Len(recent) = 0 /\ \A i \in Slots : Age(i) >= 0
    BY <1>1, AgeIs, SizesAssumption DEF ReportsInit, RingTypeOK, Slots
  <2>2. \A i \in Slots : ~(Age(i) < Len(recent))
    <3>1. \A i \in Slots : Age(i) \in Int
      BY <1>1, AgeIs, SizesAssumption DEF RingTypeOK, Slots
    <3> QED  BY <2>1, <3>1
  <2> QED  BY <2>2 DEF ReportsInit, HistoryIsRecent
<1>3. RingSearched
  BY DEF ReportsInit, RingSearched
<1> QED  BY <1>1, <1>2, <1>3 DEF RingIInv

(* The inductive invariant. *)
THEOREM RingInvariant == ReportsSpec => []RingIInv
<1>1. RingIInv /\ [ReportsNext]_reportsVars => RingIInv'
  BY RingTypeStep, HistoryStep, SearchedStep DEF RingIInv
<1> QED  BY <1>1, RingInitially, PTL DEF ReportsSpec

(* Type correctness: the slots and indices of the history stay inside the  *)
(* ring, for any length of it.                                             *)
THEOREM RingTypeCorrect == ReportsSpec => []RingTypeOK
<1>1. RingIInv => RingTypeOK
  BY DEF RingIInv
<1> QED  BY <1>1, RingInvariant, PTL

(* handleLEAdvertisingReport's ring holds the last HistLen advertisements  *)
(* since the reset, in the order of their age, for any length of the ring. *)
THEOREM RingHoldsTheLatest == ReportsSpec => []HistoryIsRecent
<1>1. RingIInv => HistoryIsRecent
  BY DEF RingIInv
<1> QED  BY <1>1, RingInvariant, PTL

(* The backward search of handleLEAdvertisingReport pairs a scan response  *)
(* with the latest advertisement of its address, and reports an orphan     *)
(* only if there is none outside the one slot it need not reach.           *)
THEOREM ScanResponsesPaired == ReportsSpec => PairedWithLatest
<1>1. RingIInv /\ [ReportsNext]_reportsVars =>
        [Ends => LET own == {j \in Slots : adHist[j] = sr} IN
                 IF outcome' = Orphan THEN own \subseteq {adLast}
                 ELSE outcome' \in own /\ \A j \in own : Age(outcome') <= Age(j)]_reportsVars
  BY EndIsRight
<1> QED  BY <1>1, RingInvariant, PTL DEF ReportsSpec, PairedWithLatest

=============================================================================
