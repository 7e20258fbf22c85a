----------------------------- MODULE GapProofs ------------------------------
(***************************************************************************)
(* Proofs about GapState, for any finite set of callers, any peers, calls  *)
(* and bounds: a Dial returns a client of the peer it was asked for, a     *)
(* quiet controller is idle, and a Scan recovers from an enable that was   *)
(* abandoned.  The argument follows the number of a command through Send's *)
(* queue, the controller and the events back to the Send that waits for    *)
(* the reply.                                                              *)
(***************************************************************************)
EXTENDS GapState, SequenceTheorems, FiniteSetTheorems, TLAPS

(* What the variables hold: statuses of replies, commands, places of a     *)
(* caller, and events.                                                     *)
Statuses == {"ok", "disallowed"}
Ops == {"create", "cancel", "scanOn", "scanOff", "advData", "scanRsp", "advOn", "advOff"}
Places == {"idle"} \cup InDial \cup InScan \cup InAdvertise

Commands == [id : Nat, op : Ops, arg : Peers \cup {None}]

Events ==
  [type : {"reply"}, id : Nat, op : {OpCode(op) : op \in Ops}, status : Statuses]
  \cup [type : {"conn", "adv"}, peer : Peers] \cup [type : {"slave", "gone"}]

(* Type correctness, in the groups that actions change together. *)
AppType ==
  /\ pc \in [Callers -> Places]
  /\ peer \in [Callers -> Peers \cup {None}]
  /\ call \in [Callers -> Calls \cup {None}]
  /\ found \in [Callers -> Peers \cup {None}]

HostType ==
  advTgt \in Callers \cup {None} /\ advEnable \in BOOLEAN /\ bg \subseteq {"advOn", "advOff"}

SendType ==
  /\ lock \in Callers \cup {"bg", None}
  /\ cur \in Commands \cup {NoCommand}
  /\ reply \in [id : Nat, status : Statuses] \cup {None}

QueueType == cmds \in Seq(Commands) /\ evq \in Seq(Events)

CtlType ==
  /\ ctl \in [init : Peers \cup {None}, scan : BOOLEAN, adv : BOOLEAN]
  /\ slaves \in Nat /\ dead \in BOOLEAN
  /\ got \subseteq (Peers \cup {None}) \X Peers

CountType ==
  /\ blame \subseteq {"dials", "scans", "misread", "stale"}
  /\ nCmd \in Nat /\ nCall \in Nat /\ nTmo \in Nat /\ nSlave \in Nat

TypeOK == AppType /\ HostType /\ SendType /\ QueueType /\ CtlType /\ CountType
-----------------------------------------------------------------------------
(* Commands leave Send with rising numbers and are executed in order, so   *)
(* a reply on its way, or in the done channel, is of an older command than *)
(* any still to be executed; the Send that holds h.Mutex sent the latest.  *)
CmdsRise ==
  /\ \A i \in DOMAIN cmds : cmds[i].id \in 1..nCmd
  /\ \A i, j \in DOMAIN cmds : i < j => cmds[i].id < cmds[j].id

RepliesOlder ==
  /\ \A i \in DOMAIN evq : evq[i].type = "reply" =>
       evq[i].id \in 1..nCmd /\ \A j \in DOMAIN cmds : evq[i].id < cmds[j].id
  /\ reply # None => \A j \in DOMAIN cmds : reply.id < cmds[j].id

LatestHeld ==
  /\ lock # None =>
       /\ cur.id = nCmd /\ nCmd > 0
       /\ \A j \in DOMAIN cmds : cmds[j].id = cur.id => cmds[j] = cur
  /\ lock = None => reply = None

Numbered == CmdsRise /\ RepliesOlder /\ LatestHeld

(* The command of a Send is the one its caller sends at its place.         *)
Owned ==
  /\ \A c \in Callers : lock = c =>
       pc[c] \in DOMAIN CommandAt /\ cur.op = CommandAt[pc[c]] /\ cur.arg = peer[c]
  /\ lock = "bg" => cur.op \in {"advOn", "advOff"} /\ cur.arg = None

(* A surprise is on record for good.                                       *)
Blamed == Surprise \subseteq blame

(* A reply of the command the current Send waits for.                      *)
Mine(i) == evq[i].type = "reply" /\ evq[i].id = cur.id

(* No two Dials overlapped, and no Send took a wrong reply.                *)
DialClean == blame \cap {"dials", "misread"} = {}

(* The controller initiates a connection to nobody but p; the events from  *)
(* i on bring no connection of another peer; no create is left to execute. *)
InitFor(p) == ctl.init \in {None, p}
ConnsAfter(i, p) == \A j \in DOMAIN evq : j > i /\ evq[j].type = "conn" => evq[j].peer = p
NoCreate == \A i \in DOMAIN cmds : cmds[i].op # "create"

(* Of a Dial that can be given a connection, or will once its cancel is    *)
(* refused: whatever connection is up, or comes up, is to its peer.        *)
Expecting ==
  \A c \in Callers : pc[c] \in {"wait", "cancel", "wait2"} =>
    NoCreate /\ InitFor(peer[c]) /\ ConnsAfter(0, peer[c])

(* The same, from the moment the controller grants its create, for the     *)
(* connections that come after the reply: those before it find no Dial     *)
(* that waits.                                                             *)
Promised ==
  \A c \in Callers : lock = c /\ pc[c] \in {"create", "create2"} =>
    /\ \A i \in DOMAIN evq : Mine(i) /\ evq[i].status = "ok" =>
         InitFor(peer[c]) /\ ConnsAfter(i, peer[c])
    /\ reply # None /\ reply.status = "ok" => InitFor(peer[c]) /\ ConnsAfter(0, peer[c])

(* Why PeerIsAsked holds.                                                  *)
DialTrue == DialClean => (\A d \in got : d[1] = d[2]) /\ Expecting /\ Promised

(* No event of type t is on its way.                                       *)
NoneOf(t) == \A i \in DOMAIN evq : evq[i].type # t

(* The three stages of a Send that no timeout disturbs: its command is all *)
(* there is to execute, its reply is the only one on its way, or it is in  *)
(* the done channel.                                                       *)
Sent == cmds = <<cur>> /\ reply = None /\ NoneOf("reply")
Answered(i) ==
  /\ cmds = <<>> /\ reply = None
  /\ Mine(i) /\ evq[i].op = OpCode(cur.op)
  /\ \A j \in DOMAIN evq : evq[j].type = "reply" => j = i
Done == cmds = <<>> /\ NoneOf("reply") /\ reply # None /\ reply.id = cur.id

(* Without timeouts one command is in flight, and none between two Sends.  *)
Sequential ==
  /\ lock = None => cmds = <<>> /\ NoneOf("reply")
  /\ lock # None => Sent \/ (\E i \in DOMAIN evq : Answered(i)) \/ Done

(* The current Send has been, or will be, answered with success; and, for  *)
(* a create, its connection has not come up since.                         *)
Granted ==
  \/ \E i \in DOMAIN evq : Answered(i) /\ evq[i].status = "ok"
  \/ Done /\ reply.status = "ok"

GrantedFresh ==
  \/ \E i \in DOMAIN evq : /\ Answered(i) /\ evq[i].status = "ok"
                           /\ \A j \in DOMAIN evq : j > i => evq[j].type # "conn"
  \/ Done /\ reply.status = "ok" /\ NoneOf("conn")

(* The command that c sends at its place has had no effect yet.            *)
Unexecuted(c) == lock # c \/ Sent

(* The calls that answer for a controller that initiates, scans or         *)
(* advertises: the enabling command is granted, the call runs, or it is    *)
(* about to switch the controller off.                                     *)
Connects(c) ==
  \/ lock = c /\ pc[c] \in {"create", "create2"} /\ GrantedFresh
  \/ pc[c] = "wait" /\ NoneOf("conn")
  \/ pc[c] = "cancel" /\ NoneOf("conn") /\ Unexecuted(c)

Scans(c) ==
  \/ lock = c /\ pc[c] \in {"scan", "scan2"} /\ Granted
  \/ pc[c] = "scanning"
  \/ pc[c] = "stop" /\ Unexecuted(c)

Advertises(c) ==
  \/ lock = c /\ pc[c] = "advOn" /\ Granted
  \/ pc[c] = "advertising"
  \/ pc[c] = "advOff" /\ Unexecuted(c)

(* No Send timed out and the transport is up; the controller advertises    *)
(* although the host believes that it does not.                            *)
Prompt == nTmo = 0 /\ ~dead
Unseen == ctl.adv /\ ~advEnable /\ "stale" \notin blame

(* Why QuietIsIdle holds: every activity of the controller has a call that *)
(* is not over.                                                            *)
Held ==
  /\ ctl.init # None => \E c \in Callers : Connects(c)
  /\ ctl.scan => \E c \in Callers : Scans(c)
  /\ Unseen => \E c \in Callers : Advertises(c)

Attended == Prompt => Sequential /\ Held

(* No two scans overlapped, and no Send took a wrong reply.                *)
ScanClean == blame \cap {"scans", "misread"} = {}
NoScanOn == \A i \in DOMAIN cmds : cmds[i].op # "scanOn"

(* Scan's reconciling stop, the place after it, and the second enable. Once *)
(* the stop is executed the controller does not scan; nothing enables it   *)
(* before the second enable does, which therefore succeeds.                *)
Stopped ==
  \A c \in Callers :
    /\ pc[c] = "stop0" /\ lock = c
    /\ (\E i \in DOMAIN evq : Mine(i)) \/ reply # None
    => ~ctl.scan

Ready == \A c \in Callers : pc[c] = "scan2" /\ lock # c => ~ctl.scan /\ NoScanOn

Rescanning ==
  \A c \in Callers : pc[c] = "scan2" /\ lock = c =>
    /\ \A i \in DOMAIN cmds : cmds[i].op = "scanOn" => cmds[i].id = cur.id
    /\ \A i \in DOMAIN cmds : cmds[i].id = cur.id => ~ctl.scan
    /\ \A i \in DOMAIN evq : Mine(i) => evq[i].status = "ok"
    /\ reply # None => reply.status = "ok"

(* Why ScanRecovers holds.                                                 *)
Reconciled == ScanClean => Stopped /\ Ready /\ Rescanning

(* The inductive invariant.                                                *)
IInv == TypeOK /\ Numbered /\ Owned /\ Blamed /\ DialTrue /\ Reconciled /\ Attended
-----------------------------------------------------------------------------
(* A queue to whose end an element is added. *)
LEMMA QueueAppend ==
  ASSUME NEW S, NEW s \in Seq(S), NEW e \in S
  PROVE  /\ Append(s, e) \in Seq(S) /\ Append(s, e) # <<>>
         /\ Len(s) \in Nat /\ DOMAIN s = 1..Len(s)
         /\ DOMAIN Append(s, e) = 1..(Len(s) + 1)
         /\ Append(s, e)[Len(s) + 1] = e
         /\ \A i \in DOMAIN s : /\ i \in DOMAIN Append(s, e) /\ i < Len(s) + 1
                                /\ Append(s, e)[i] = s[i]
         /\ \A i \in DOMAIN Append(s, e) : i \in DOMAIN s \/ i = Len(s) + 1
<1>1. Len(s) \in Nat /\ DOMAIN s = 1..Len(s)
  BY LenProperties
<1>2. /\ Append(s, e) \in Seq(S) /\ Append(s, e) # <<>>
      /\ Len(Append(s, e)) = Len(s) + 1
      /\ \A i \in 1..Len(s) : Append(s, e)[i] = s[i]
      /\ Append(s, e)[Len(s) + 1] = e
  BY AppendProperties
<1>3. DOMAIN Append(s, e) = 1..(Len(s) + 1)
  BY <1>2, LenProperties
<1> QED  BY <1>1, <1>2, <1>3

(* A queue whose head is taken. *)
LEMMA QueueTail ==
  ASSUME NEW S, NEW s \in Seq(S), s # <<>>
  PROVE  /\ Tail(s) \in Seq(S) /\ Head(s) \in S
         /\ 1 \in DOMAIN s /\ Head(s) = s[1] /\ DOMAIN s = 1..Len(s) /\ Len(s) \in Nat
         /\ DOMAIN Tail(s) \subseteq DOMAIN s /\ DOMAIN Tail(s) \subseteq Nat
         /\ \A i \in DOMAIN Tail(s) : i + 1 \in DOMAIN s /\ Tail(s)[i] = s[i + 1]
         /\ \A i \in DOMAIN s : i # 1 => /\ i - 1 \in DOMAIN Tail(s)
                                         /\ Tail(s)[i - 1] = s[i] /\ 1 < i
<1>1. Len(s) \in Nat /\ DOMAIN s = 1..Len(s) /\ Len(s) # 0
  BY LenProperties, EmptySeq
<1>2. /\ Head(s) \in S /\ Tail(s) \in Seq(S) /\ Len(Tail(s)) = Len(s) - 1
      /\ \A i \in 1..Len(Tail(s)) : Tail(s)[i] = s[i + 1]
  BY HeadTailProperties
<1>3. DOMAIN Tail(s) = 1..(Len(s) - 1)
  BY <1>2, LenProperties
<1>4. Head(s) = s[1]
  OBVIOUS
<1>5. \A i \in DOMAIN s : i # 1 => i - 1 \in DOMAIN Tail(s) /\ i - 1 + 1 = i /\ 1 < i
  BY <1>1, <1>3
<1>6. \A i \in DOMAIN s : i # 1 => Tail(s)[i - 1] = s[i]
  BY <1>2, <1>3, <1>5
<1>7. \A i \in DOMAIN Tail(s) : i \in Nat /\ i \in 1..Len(s) /\ i + 1 \in 1..Len(s)
  BY <1>1, <1>3
<1>8. \A i \in DOMAIN Tail(s) : Tail(s)[i] = s[i + 1]
  BY <1>2, <1>3
<1> QED  BY <1>1, <1>2, <1>4, <1>5, <1>6, <1>7, <1>8

(* Two different callers at places of a kind are more than one. *)
LEMMA TwoAreMany ==
  ASSUME NEW S, NEW c \in Callers, NEW d \in Callers, c # d, pc[c] \in S, pc[d] \in S
  PROVE  Cardinality({x \in Callers : pc[x] \in S}) > 1
<1> DEFINE A == {x \in Callers : pc[x] \in S}
<1>1. IsFiniteSet(A)
  BY CallersAssumption, FS_Subset
<1>2. {c, d} \subseteq A
  OBVIOUS
<1>3. IsFiniteSet({c}) /\ Cardinality({c}) = 1
  BY FS_Singleton
<1>4. Cardinality({c} \cup {d}) = 2
  BY <1>3, FS_AddElement
<1>5. {c} \cup {d} = {c, d}
  OBVIOUS
<1>6. Cardinality({c, d}) <= Cardinality(A)
  BY <1>1, <1>2, FS_Subset
<1>7. Cardinality(A) \in Nat
  BY <1>1, FS_CardinalityType
<1> QED  BY <1>4, <1>5, <1>6, <1>7
-----------------------------------------------------------------------------
(* What the steps of a caller have in common: it goes on at a place of its *)
(* own choice, and keeps its peer unless the call ends or Connect dials.   *)
Frame(c) ==
  /\ \A d \in Callers : d # c => pc'[d] = pc[d] /\ peer'[d] = peer[d]
  /\ pc'[c] \in {"idle", "create"} \/ peer'[c] = peer[c]

(* The places that the result r of a Send leads to. *)
Leads(from, r, to) ==
  /\ to = "wait" => from \in {"create", "create2"} /\ r = "ok"
  /\ to = "wait2" => from = "cancel" /\ r = "disallowed"
  /\ to = "scan2" => from = "stop0" /\ r \in Statuses
  /\ to \notin {"cancel", "stop", "advOff"}
  /\ r = "ok" => /\ from \in {"create", "create2"} => to = "wait"
                 /\ from \in {"scan", "scan2"} => to = "scanning"
                 /\ from = "advOn" => to = "advertising"

(* The return of a Send to c. *)
Returned(c) ==
  /\ pc[c] \in DOMAIN CommandAt
  /\ \E r \in Results : SendReturns(c, r) /\ Leads(pc[c], r, pc'[c])
  /\ Frame(c)
  /\ advEnable' \in {advEnable, TRUE} /\ UNCHANGED bg

(* Its start, by a caller at one of its places or in the background. *)
Writes(s, op, arg) ==
  /\ Write(s, op, arg) /\ UNCHANGED <<pc, peer, advEnable>>
  /\ s \in Callers => pc[s] \in DOMAIN CommandAt /\ op = CommandAt[pc[s]]
  /\ s = "bg" => op \in {"advOn", "advOff"}

(* A step of c outside Send. *)
Walked(c) ==
  /\ pc[c] \notin DOMAIN CommandAt
  /\ pc'[c] \notin {"wait", "wait2", "scan2"}
  /\ pc'[c] = "cancel" => pc[c] = "wait"
  /\ ~dead => /\ pc[c] = "wait" => pc'[c] = "cancel"
              /\ pc[c] = "scanning" => pc'[c] = "stop"
              /\ pc[c] = "advertising" => pc'[c] = "advOff"
  /\ Frame(c)
  /\ advEnable' = advEnable \/ (pc'[c] = "advOff" /\ ~advEnable')
  /\ UNCHANGED <<snd, cmds, evq, ctl, dead, got, nCmd, nTmo, bg>>

(* An event is queued that is neither a reply nor an outgoing connection,  *)
(* and one of these is handled.                                            *)
Reported ==
  /\ \E e \in Events : e.type \notin {"reply", "conn"} /\ evq' = Append(evq, e)
  /\ ctl'.init = ctl.init /\ ctl'.scan = ctl.scan /\ (ctl'.adv => ctl.adv)
  /\ ctl'.adv \in BOOLEAN
  /\ UNCHANGED <<pc, peer, advEnable, snd, cmds, dead, got, nCmd, nTmo, bg>>

Noted ==
  /\ evq # <<>> /\ Head(evq).type \notin {"reply", "conn"}
  /\ evq' = Tail(evq)
  /\ UNCHANGED <<pc, peer, advEnable, snd, cmds, ctl, dead, got, nCmd, nTmo>>

(* A caller that goes on at a place, or whose call ends. *)
LEMMA GoFrame ==
  ASSUME AppType, NEW c \in Callers, NEW to \in Places, Go(c, to)
  PROVE  AppType' /\ Frame(c) /\ pc'[c] = to
<1>1. pc' \in [Callers -> Places] /\ pc'[c] = to /\ \A d \in Callers : d # c => pc'[d] = pc[d]
  BY DEF AppType, Go
<1>2. CASE to = "idle"
  <2>1. /\ peer' = [peer EXCEPT ![c] = None]
        /\ call' = [call EXCEPT ![c] = None]
        /\ found' = [found EXCEPT ![c] = None]
    BY <1>2 DEF Go
  <2> QED  BY <1>1, <1>2, <2>1 DEF AppType, Frame
<1>3. CASE to # "idle"
  BY <1>1, <1>3 DEF AppType, Frame, Go
<1> QED  BY <1>2, <1>3

(* A Connect that has found an advertisement dials it, any other scan ends. *)
LEMMA AfterScanFrame ==
  ASSUME AppType, NEW c \in Callers, AfterScan(c)
  PROVE  AppType' /\ Frame(c) /\ pc'[c] \in {"idle", "create"}
<1> "idle" \in Places /\ "create" \in Places
  BY DEF Places, InDial
<1>1. CASE found[c] = None
  BY <1>1, GoFrame DEF AfterScan
<1>2. CASE found[c] # None
  <2>1. /\ pc' = [pc EXCEPT ![c] = "create"] /\ peer' = [peer EXCEPT ![c] = found[c]]
        /\ found' = [found EXCEPT ![c] = None] /\ call' = call
    BY <1>2 DEF AfterScan
  <2> QED  BY <1>2, <2>1 DEF AppType, Frame
<1> QED  BY <1>1, <1>2

(* A caller that starts a call. *)
LEMMA StartFrame ==
  ASSUME AppType, NEW c \in Callers,
         \/ \E p \in Peers : Dial(c, p)
         \/ \E kind \in {"scan", "connect"} : Scan(c, kind)
         \/ Advertise(c)
  PROVE  AppType' /\ Walked(c)
<1> "create" \in Places /\ "scan" \in Places /\ "adData" \in Places /\ "idle" \notin DOMAIN CommandAt
  BY DEF Places, InDial, InScan, InAdvertise, CommandAt
<1>1. ASSUME NEW p \in Peers, Dial(c, p)  PROVE AppType' /\ Walked(c)
  BY <1>1 DEF Dial, AppType, Walked, Frame, host, snd
<1>2. ASSUME NEW kind \in {"scan", "connect"}, Scan(c, kind)  PROVE AppType' /\ Walked(c)
  BY <1>2 DEF Scan, AppType, Walked, Frame, snd
<1>3. CASE Advertise(c)
  BY <1>3 DEF Advertise, AppType, Walked, Frame, host, snd
<1> QED  BY <1>1, <1>2, <1>3

(* A caller whose wait ends. *)
LEMMA EndFrame ==
  ASSUME AppType, NEW c \in Callers,
         Ends(c) \/ ConnectionNeverArrived(c) \/ WaitDead(c)
  PROVE  AppType' /\ Walked(c)
<1>0. /\ {"idle", "cancel", "stop", "advOff"} \subseteq Places
      /\ {"wait", "wait2", "scanning", "advertising"} \cap DOMAIN CommandAt = {}
  BY DEF Places, InDial, InScan, InAdvertise, CommandAt
<1> USE DEF host, snd, Walked
<1>1. CASE DialEnds(c)
  BY <1>0, <1>1, GoFrame DEF DialEnds
<1>2. CASE ScanEnds(c)
  BY <1>0, <1>2, GoFrame DEF ScanEnds
<1>3. CASE AdvertiseEnds(c)
  BY <1>0, <1>3, GoFrame DEF AdvertiseEnds
<1>4. CASE ConnectionNeverArrived(c)
  BY <1>0, <1>4, GoFrame DEF ConnectionNeverArrived
<1>5. CASE WaitDead(c)
  <2>1. AppType' /\ Frame(c) /\ pc'[c] \in {"idle", "create"}
    BY <1>0, <1>5, GoFrame, AfterScanFrame DEF WaitDead
  <2> QED  BY <1>0, <1>5, <2>1 DEF WaitDead
<1> QED  BY <1>1, <1>2, <1>3, <1>4, <1>5 DEF Ends

(* The returns of a Send, one by one. *)
LEMMA DialReturnFrame ==
  ASSUME AppType, NEW c \in Callers,
         CreateReturns(c) \/ StrayCanceled(c) \/ RetryReturns(c) \/ CancelReturns(c)
  PROVE  AppType' /\ Returned(c)
<1>0. {"idle", "wait", "cancel0", "create2", "wait2"} \subseteq Places
  BY DEF Places, InDial
<1>1. CASE CreateReturns(c)
  <2>1. PICK r \in Results : SendReturns(c, r) /\ Go(c,
          IF r = "ok" THEN "wait" ELSE IF r = "disallowed" THEN "cancel0" ELSE "idle")
    BY <1>1 DEF CreateReturns
  <2>2. AppType' /\ Frame(c) /\ pc'[c] =
          (IF r = "ok" THEN "wait" ELSE IF r = "disallowed" THEN "cancel0" ELSE "idle")
    BY <1>0, <2>1, GoFrame
  <2>3. pc[c] = "create" /\ UNCHANGED host
    BY <1>1 DEF CreateReturns
  <2> QED  BY <2>1, <2>2, <2>3 DEF Returned, Leads, CommandAt, host
<1>2. CASE StrayCanceled(c)
  <2>1. PICK r \in Results : SendReturns(c, r) /\ Go(c, "create2")
    BY <1>2 DEF StrayCanceled
  <2>2. AppType' /\ Frame(c) /\ pc'[c] = "create2"
    BY <1>0, <2>1, GoFrame
  <2>3. pc[c] = "cancel0" /\ UNCHANGED host
    BY <1>2 DEF StrayCanceled
  <2> QED  BY <2>1, <2>2, <2>3 DEF Returned, Leads, CommandAt, host
<1>3. CASE RetryReturns(c)
  <2>1. PICK r \in Results : SendReturns(c, r) /\ Go(c, IF r = "ok" THEN "wait" ELSE "idle")
    BY <1>3 DEF RetryReturns
  <2>2. AppType' /\ Frame(c) /\ pc'[c] = (IF r = "ok" THEN "wait" ELSE "idle")
    BY <1>0, <2>1, GoFrame
  <2>3. pc[c] = "create2" /\ UNCHANGED host
    BY <1>3 DEF RetryReturns
  <2> QED  BY <2>1, <2>2, <2>3 DEF Returned, Leads, CommandAt, host
<1>4. CASE CancelReturns(c)
  <2>1. PICK r \in Results :
          SendReturns(c, r) /\ Go(c, IF r = "disallowed" THEN "wait2" ELSE "idle")
    BY <1>4 DEF CancelReturns
  <2>2. AppType' /\ Frame(c) /\ pc'[c] = (IF r = "disallowed" THEN "wait2" ELSE "idle")
    BY <1>0, <2>1, GoFrame
  <2>3. pc[c] = "cancel" /\ UNCHANGED host
    BY <1>4 DEF CancelReturns
  <2> QED  BY <2>1, <2>2, <2>3 DEF Returned, Leads, CommandAt, host
<1> QED  BY <1>1, <1>2, <1>3, <1>4

(* Those of a scan. *)
LEMMA ScanReturnFrame ==
  ASSUME AppType, NEW c \in Callers,
         ScanReturns(c) \/ ReconcileReturns(c) \/ RescanReturns(c) \/ StopReturns(c)
  PROVE  AppType' /\ Returned(c)
<1>0. {"scanning", "stop0", "scan2"} \subseteq Places
  BY DEF Places, InScan
<1>1. CASE ScanReturns(c)
  <2>1. PICK r \in Results :
          /\ SendReturns(c, r)
          /\ CASE r = "ok" -> Go(c, "scanning")
               [] r = "disallowed" -> Go(c, "stop0")
               [] OTHER -> AfterScan(c)
    BY <1>1 DEF ScanReturns
  <2>2. /\ AppType' /\ Frame(c)
        /\ r = "ok" => pc'[c] = "scanning"
        /\ r = "disallowed" => pc'[c] = "stop0"
        /\ r \notin Statuses => pc'[c] \in {"idle", "create"}
    BY <1>0, <2>1, GoFrame, AfterScanFrame DEF Statuses
  <2>3. pc[c] = "scan" /\ UNCHANGED host
    BY <1>1 DEF ScanReturns
  <2> QED  BY <2>1, <2>2, <2>3 DEF Returned, Leads, CommandAt, host, Statuses
<1>2. CASE ReconcileReturns(c)
  <2>1. PICK r \in Results :
          SendReturns(c, r) /\ IF r \in {"ok", "disallowed"} THEN Go(c, "scan2") ELSE AfterScan(c)
    BY <1>2 DEF ReconcileReturns
  <2>2. /\ AppType' /\ Frame(c)
        /\ IF r \in Statuses THEN pc'[c] = "scan2" ELSE pc'[c] \in {"idle", "create"}
    BY <1>0, <2>1, GoFrame, AfterScanFrame DEF Statuses
  <2>3. pc[c] = "stop0" /\ UNCHANGED host
    BY <1>2 DEF ReconcileReturns
  <2> QED  BY <2>1, <2>2, <2>3 DEF Returned, Leads, CommandAt, host
<1>3. CASE RescanReturns(c)
  <2>1. PICK r \in Results :
          SendReturns(c, r) /\ IF r = "ok" THEN Go(c, "scanning") ELSE AfterScan(c)
    BY <1>3 DEF RescanReturns
  <2>2. /\ AppType' /\ Frame(c)
        /\ IF r = "ok" THEN pc'[c] = "scanning" ELSE pc'[c] \in {"idle", "create"}
    BY <1>0, <2>1, GoFrame, AfterScanFrame
  <2>3. pc[c] = "scan2" /\ UNCHANGED host
    BY <1>3 DEF RescanReturns
  <2> QED  BY <2>1, <2>2, <2>3 DEF Returned, Leads, CommandAt, host
<1>4. CASE StopReturns(c)
  <2>1. AppType' /\ Frame(c) /\ pc'[c] \in {"idle", "create"}
    BY <1>4, AfterScanFrame DEF StopReturns
  <2> QED  BY <1>4, <2>1 DEF StopReturns, Returned, Leads, CommandAt, host
<1> QED  BY <1>1, <1>2, <1>3, <1>4

(* Those of an advertisement. *)
LEMMA AdvertiseReturnFrame ==
  ASSUME AppType, HostType, NEW c \in Callers,
         DataReturns(c) \/ ScanRspReturns(c) \/ AdvertiseReturns(c) \/ StopAdvertisingReturns(c)
  PROVE  AppType' /\ Returned(c)
<1>0. {"idle", "srData", "advOn", "advertising"} \subseteq Places
  BY DEF Places, InAdvertise
<1>1. CASE DataReturns(c)
  <2>1. PICK r \in Results : SendReturns(c, r) /\ Go(c, IF r = "ok" THEN "srData" ELSE "idle")
    BY <1>1 DEF DataReturns
  <2>2. AppType' /\ Frame(c) /\ pc'[c] = (IF r = "ok" THEN "srData" ELSE "idle")
    BY <1>0, <2>1, GoFrame
  <2>3. pc[c] = "adData" /\ UNCHANGED host
    BY <1>1 DEF DataReturns
  <2> QED  BY <2>1, <2>2, <2>3 DEF Returned, Leads, CommandAt, host
<1>2. CASE ScanRspReturns(c)
  <2>1. PICK r \in Results : /\ SendReturns(c, r)
                             /\ Go(c, IF r = "ok" THEN "advOn" ELSE "idle")
                             /\ advEnable' = (advEnable \/ r = "ok")
    BY <1>2 DEF ScanRspReturns
  <2>2. AppType' /\ Frame(c) /\ pc'[c] = (IF r = "ok" THEN "advOn" ELSE "idle")
    BY <1>0, <2>1, GoFrame
  <2>3. pc[c] = "srData" /\ UNCHANGED <<advTgt, bg>> /\ advEnable' \in {advEnable, TRUE}
    BY <1>2, <2>1 DEF ScanRspReturns, HostType
  <2> QED  BY <2>1, <2>2, <2>3 DEF Returned, Leads, CommandAt
<1>3. CASE AdvertiseReturns(c)
  <2>1. PICK r \in Results : SendReturns(c, r) /\ Go(c, IF r = "ok" THEN "advertising" ELSE "idle")
    BY <1>3 DEF AdvertiseReturns
  <2>2. AppType' /\ Frame(c) /\ pc'[c] = (IF r = "ok" THEN "advertising" ELSE "idle")
    BY <1>0, <2>1, GoFrame
  <2>3. pc[c] = "advOn" /\ UNCHANGED host
    BY <1>3 DEF AdvertiseReturns
  <2> QED  BY <2>1, <2>2, <2>3 DEF Returned, Leads, CommandAt, host
<1>4. CASE StopAdvertisingReturns(c)
  <2>1. PICK r \in Results : SendReturns(c, r) /\ Go(c, "idle")
    BY <1>4 DEF StopAdvertisingReturns
  <2>2. AppType' /\ Frame(c) /\ pc'[c] = "idle"
    BY <1>0, <2>1, GoFrame
  <2>3. pc[c] = "advOff" /\ UNCHANGED host
    BY <1>4 DEF StopAdvertisingReturns
  <2> QED  BY <2>1, <2>2, <2>3 DEF Returned, Leads, CommandAt, host
<1> QED  BY <1>1, <1>2, <1>3, <1>4

(* Every step is a step of one of these kinds. *)
LEMMA Kinds ==
  ASSUME TypeOK, Next
  PROVE  \/ \E c \in Callers : SendFrom(c) \/ Returned(c) \/ Walked(c)
         \/ \E op \in bg : BackgroundSend(op)
         \/ BackgroundReturns \/ CtlExecute \/ CtlConnect \/ CtlConnectFails \/ Reported
         \/ Die \/ handleReply \/ handleLEConnectionComplete \/ Noted
<1>1. ASSUME NEW c \in Callers, Steps(c)
      PROVE  SendFrom(c) \/ Returned(c) \/ Walked(c)
  BY <1>1, DialReturnFrame, ScanReturnFrame, AdvertiseReturnFrame, EndFrame DEF Steps, TypeOK
<1>2. ASSUME NEW c \in Callers, Ends(c)  PROVE Walked(c)
  BY <1>2, EndFrame DEF TypeOK
<1>3. ASSUME NEW p \in Peers, CtlReport(p)  PROVE Reported
  <2>1. [type |-> "adv", peer |-> p] \in Events
    BY DEF Events
  <2> QED  BY <1>3, <2>1 DEF CtlReport, CtlEvent, Reported, app, host, snd, TypeOK, CtlType
<1>4. CASE CtlSlave
  <2>1. [type |-> "slave"] \in Events
    BY DEF Events
  <2> QED  BY <1>4, <2>1 DEF CtlSlave, CtlEvent, Reported, app, host, snd, TypeOK, CtlType
<1>5. CASE CtlSlaveGone
  <2>1. [type |-> "gone"] \in Events
    BY DEF Events
  <2> QED  BY <1>5, <2>1 DEF CtlSlaveGone, CtlEvent, Reported, app, host, snd, TypeOK, CtlType
<1>6. CASE handleSlaveComplete \/ handleSlaveGone \/ handleReport
  BY <1>6 DEF handleSlaveComplete, handleSlaveGone, handleReport, Event, Noted, app, host, snd
<1>7. CASE Background
  BY <1>7 DEF Background
<1>8. CASE Loop
  BY <1>6, <1>8 DEF Loop
<1> QED  BY <1>1, <1>2, <1>3, <1>4, <1>5, <1>7, <1>8, StartFrame DEF Next, TypeOK

(* The callers' variables keep their types. *)
LEMMA AppStep == TypeOK /\ Next => AppType'
<1> SUFFICES ASSUME TypeOK, Next  PROVE AppType'
  OBVIOUS
<1> USE DEF TypeOK
<1>1. ASSUME NEW c \in Callers, Steps(c) \/ Ends(c)  PROVE AppType'
  <2>1. CASE SendFrom(c)
    BY <2>1 DEF SendFrom, app, AppType
  <2> QED  BY <1>1, <2>1, DialReturnFrame, ScanReturnFrame, AdvertiseReturnFrame, EndFrame DEF Steps
<1>2. CASE UNCHANGED app
  BY <1>2 DEF app, AppType
<1>3. CASE handleLEConnectionComplete
  <2>1. "idle" \in Places
    BY DEF Places
  <2> QED  BY <1>2, <1>3, <2>1, GoFrame DEF handleLEConnectionComplete
<1>4. CASE handleReport
  <2>1. evq \in Seq(Events) /\ evq # <<>> /\ Head(evq).type = "adv"
    BY <1>4 DEF handleReport, Event, QueueType
  <2>2. Head(evq).peer \in Peers
    BY <2>1, QueueTail DEF Events
  <2> QED  BY <1>4, <2>2 DEF handleReport, AppType
<1>5. CASE Background
  BY <1>2, <1>5 DEF Background, BackgroundSend, BackgroundReturns
<1>6. CASE Loop
  BY <1>2, <1>3, <1>4, <1>6 DEF Loop, handleReply, handleSlaveComplete, handleSlaveGone
<1>7. CASE \/ CtlExecute \/ CtlConnect \/ CtlConnectFails \/ (\E p \in Peers : CtlReport(p))
           \/ CtlSlave \/ CtlSlaveGone \/ Die
  BY <1>2, <1>7 DEF CtlExecute, CtlConnect, CtlConnectFails, CtlReport, CtlSlave, CtlSlaveGone,
                    Die, CtlEvent
<1> QED  BY <1>1, <1>5, <1>6, <1>7, StartFrame DEF Next

(* So do the host's. *)
LEMMA HostStep == TypeOK /\ Next => HostType'
<1> SUFFICES ASSUME TypeOK, Next  PROVE HostType'
  OBVIOUS
<1> USE DEF TypeOK, HostType
<1>1. CASE UNCHANGED host
  BY <1>1 DEF host
<1>2. ASSUME NEW c \in Callers, Steps(c)  PROVE HostType'
  <2>1. CASE ScanRspReturns(c)
    BY <2>1 DEF ScanRspReturns
  <2> QED  BY <1>1, <1>2, <2>1
           DEF Steps, SendFrom, CreateReturns, StrayCanceled, RetryReturns, CancelReturns,
               ConnectionNeverArrived, ScanReturns, ReconcileReturns, RescanReturns, StopReturns,
               DataReturns, AdvertiseReturns, StopAdvertisingReturns, WaitDead
<1>3. ASSUME NEW c \in Callers, Ends(c)  PROVE HostType'
  BY <1>1, <1>3 DEF Ends, DialEnds, ScanEnds, AdvertiseEnds
<1>4. ASSUME NEW c \in Callers, NEW kind \in {"scan", "connect"}, Scan(c, kind)  PROVE HostType'
  BY <1>4 DEF Scan
<1>5. ASSUME NEW c \in Callers, (\E p \in Peers : Dial(c, p)) \/ Advertise(c)  PROVE HostType'
  BY <1>1, <1>5 DEF Dial, Advertise
<1>6. CASE Background
  BY <1>1, <1>6 DEF Background, BackgroundSend, BackgroundReturns
<1>7. CASE Loop
  <2>1. CASE handleSlaveComplete \/ handleSlaveGone
    BY <2>1 DEF handleSlaveComplete, handleSlaveGone
  <2> QED  BY <1>1, <1>7, <2>1 DEF Loop, handleReply, handleLEConnectionComplete, handleReport
<1>8. CASE \/ CtlExecute \/ CtlConnect \/ CtlConnectFails \/ (\E p \in Peers : CtlReport(p))
           \/ CtlSlave \/ CtlSlaveGone \/ Die
  BY <1>1, <1>8 DEF CtlExecute, CtlConnect, CtlConnectFails, CtlReport, CtlSlave, CtlSlaveGone,
                    Die, CtlEvent
<1> QED  BY <1>2, <1>3, <1>4, <1>5, <1>6, <1>7, <1>8 DEF Next

(* What a Send writes and what it returns. *)
LEMMA WriteType ==
  ASSUME TypeOK, NEW s \in Callers \cup {"bg"}, NEW op \in Ops, NEW arg \in Peers \cup {None},
         Write(s, op, arg)
  PROVE  SendType' /\ QueueType' /\ cur' \in Commands /\ cur'.id = nCmd + 1 /\ nCmd' = nCmd + 1
<1>1. cur' \in Commands /\ cur'.id = nCmd + 1 /\ nCmd' = nCmd + 1
  BY DEF TypeOK, CountType, Write, Commands
<1>2. cmds' \in Seq(Commands) /\ evq' = evq
  BY <1>1, QueueAppend DEF TypeOK, QueueType, Write
<1> QED  BY <1>1, <1>2 DEF TypeOK, QueueType, SendType, Write

(* Every place a caller sends from has a command. *)
LEMMA CommandOps == \A p \in DOMAIN CommandAt : CommandAt[p] \in Ops
BY DEF CommandAt, Ops

(* The sender and the queues keep their types. *)
LEMMA SendStep == TypeOK /\ Next => SendType' /\ QueueType'
<1> SUFFICES ASSUME TypeOK, Next  PROVE SendType' /\ QueueType'
  OBVIOUS
<1> USE DEF TypeOK
<1>0. evq \in Seq(Events) /\ cmds \in Seq(Commands)
  BY DEF QueueType
<1>1. ASSUME NEW c \in Callers, SendFrom(c)  PROVE SendType' /\ QueueType'
  <2>1. CommandAt[pc[c]] \in Ops /\ peer[c] \in Peers \cup {None}
    BY <1>1, CommandOps DEF SendFrom, AppType
  <2> QED  BY <1>1, <2>1, WriteType DEF SendFrom
<1>2. ASSUME NEW op \in bg, BackgroundSend(op)  PROVE SendType' /\ QueueType'
  <2>1. op \in Ops
    BY DEF HostType, Ops
  <2> QED  BY <1>2, <2>1, WriteType DEF BackgroundSend
<1>3. ASSUME NEW s, NEW r, SendReturns(s, r)  PROVE SendType' /\ QueueType'
  BY <1>3 DEF SendReturns, SendType, QueueType
<1>4. ASSUME UNCHANGED snd, UNCHANGED <<cmds, evq>>  PROVE SendType' /\ QueueType'
  BY <1>4 DEF snd, SendType, QueueType
<1>5. CASE CtlExecute
  <2> DEFINE k == Head(cmds)
             e == [type |-> "reply", id |-> k.id, op |-> OpCode(k.op), status |-> Status(k)]
  <2>1. cmds # <<>> /\ evq' = Append(evq, e) /\ cmds' = Tail(cmds) /\ UNCHANGED snd
    BY <1>5 DEF CtlExecute
  <2>2. k \in Commands /\ cmds' \in Seq(Commands)
    BY <1>0, <2>1, QueueTail
  <2>3. Status(k) \in Statuses
    BY DEF Status, Statuses
  <2>4. e \in Events
    BY <2>2, <2>3 DEF Events, Commands
  <2>5. evq' \in Seq(Events)
    BY <1>0, <2>1, <2>4, QueueAppend
  <2> QED  BY <2>1, <2>2, <2>5 DEF SendType, QueueType, snd
<1>6. CASE CtlConnect
  <2>1. [type |-> "conn", peer |-> ctl.init] \in Events
    BY <1>6 DEF CtlConnect, CtlType, Events
  <2> QED  BY <1>0, <1>6, <2>1, QueueAppend DEF CtlConnect, CtlEvent, SendType, QueueType, snd
<1>7. CASE CtlConnectFails
  BY <1>4, <1>7 DEF CtlConnectFails
<1>8. CASE Reported
  <2>1. evq' \in Seq(Events)
    BY <1>0, <1>8, QueueAppend DEF Reported
  <2> QED  BY <1>8, <2>1 DEF Reported, SendType, QueueType, snd
<1>9. CASE Die
  BY <1>9 DEF Die, SendType, QueueType, snd
<1>10. ASSUME evq # <<>>, evq' = Tail(evq), cmds' = cmds  PROVE QueueType'
  BY <1>0, <1>10, QueueTail DEF QueueType
<1>11. CASE handleReply
  <2>1. evq # <<>> /\ Head(evq).type = "reply" /\ evq' = Tail(evq) /\ cmds' = cmds
    BY <1>11 DEF handleReply, Event
  <2>2. Head(evq).id \in Nat /\ Head(evq).status \in Statuses
    BY <1>0, <2>1, QueueTail DEF Events
  <2> QED  BY <1>10, <1>11, <2>1, <2>2 DEF handleReply, SendType
<1>12. CASE handleLEConnectionComplete
  BY <1>10, <1>12 DEF handleLEConnectionComplete, Event, SendType, snd
<1>13. CASE Noted
  BY <1>10, <1>13 DEF Noted, SendType, snd
<1>14. ASSUME NEW c \in Callers, Walked(c)  PROVE SendType' /\ QueueType'
  BY <1>4, <1>14 DEF Walked
<1> QED  BY <1>1, <1>2, <1>3, <1>5, <1>6, <1>7, <1>8, <1>9, <1>11, <1>12, <1>13, <1>14, Kinds
         DEF Returned, BackgroundReturns

(* So do the controller and the counters. *)
LEMMA CtlStep == TypeOK /\ Next => CtlType' /\ CountType'
<1> SUFFICES ASSUME TypeOK, Next  PROVE CtlType' /\ CountType'
  OBVIOUS
<1> USE DEF TypeOK
<1>1. blame' \subseteq {"dials", "scans", "misread", "stale"}
  BY DEF Next, Record, Surprise, CountType
<1>2. CASE UNCHANGED <<ctl, slaves, dead, got, nCmd, nCall, nSlave>> /\ nTmo' \in {nTmo, nTmo + 1}
  BY <1>1, <1>2 DEF CtlType, CountType
<1>3. CASE UNCHANGED <<ctl, slaves, dead, got, nCmd, nTmo, nSlave>> /\ nCall' = nCall + 1
  BY <1>1, <1>3 DEF CtlType, CountType
<1>4. CASE UNCHANGED <<ctl, slaves, dead, got, nCall, nTmo, nSlave>> /\ nCmd' = nCmd + 1
  BY <1>1, <1>4 DEF CtlType, CountType
<1>5. ASSUME NEW c \in Callers, Steps(c) \/ Ends(c)  PROVE CtlType' /\ CountType'
  <2>1. CASE SendFrom(c)
    BY <1>4, <2>1 DEF SendFrom, Write
  <2>2. ASSUME NEW r, SendReturns(c, r)  PROVE CtlType' /\ CountType'
    BY <1>2, <2>2 DEF SendReturns
  <2>3. CASE Ends(c) \/ WaitDead(c) \/ ConnectionNeverArrived(c)
    BY <1>2, <2>3 DEF Ends, DialEnds, ScanEnds, AdvertiseEnds, WaitDead, ConnectionNeverArrived
  <2> QED  BY <1>5, <2>1, <2>2, <2>3
           DEF Steps, CreateReturns, StrayCanceled, RetryReturns, CancelReturns,
               ScanReturns, ReconcileReturns, RescanReturns, StopReturns, DataReturns,
               ScanRspReturns, AdvertiseReturns, StopAdvertisingReturns
<1>6. ASSUME NEW c \in Callers,
             \/ \E p \in Peers : Dial(c, p)
             \/ \E kind \in {"scan", "connect"} : Scan(c, kind)
             \/ Advertise(c)
      PROVE  CtlType' /\ CountType'
  BY <1>3, <1>6 DEF Dial, Scan, Advertise
<1>7. CASE Background
  BY <1>2, <1>4, <1>7 DEF Background, BackgroundSend, BackgroundReturns, Write, SendReturns
<1>8. CASE CtlExecute
  <2>1. cmds # <<>> /\ cmds \in Seq(Commands)
    BY <1>8 DEF CtlExecute, QueueType
  <2>2. Head(cmds) \in Commands
    BY <2>1, QueueTail
  <2>3. Effect(Head(cmds)) \in [init : Peers \cup {None}, scan : BOOLEAN, adv : BOOLEAN]
    BY <2>2 DEF Effect, Commands, CtlType
  <2> QED  BY <1>1, <1>8, <2>3 DEF CtlExecute, CtlType, CountType
<1>9. CASE \/ CtlConnect \/ CtlConnectFails \/ (\E p \in Peers : CtlReport(p))
           \/ CtlSlave \/ CtlSlaveGone \/ Die
  <2> USE DEF CtlEvent, CtlType, CountType
  <2>1. CASE CtlConnect \/ CtlConnectFails
    BY <1>1, <2>1 DEF CtlConnect, CtlConnectFails
  <2>2. CASE \E p \in Peers : CtlReport(p)
    BY <1>2, <2>2 DEF CtlReport
  <2>3. CASE CtlSlave
    <3>1. ctl' = [ctl EXCEPT !.adv = FALSE]
      BY <2>3 DEF CtlSlave
    <3>2. ctl' \in [init : Peers \cup {None}, scan : BOOLEAN, adv : BOOLEAN]
      BY <3>1
    <3>3. /\ slaves' = slaves + 1 /\ nSlave' = nSlave + 1
          /\ UNCHANGED <<dead, got, nCmd, nCall, nTmo>>
      BY <2>3 DEF CtlSlave
    <3> QED  BY <1>1, <3>2, <3>3
  <2>4. CASE CtlSlaveGone
    BY <1>1, <2>4 DEF CtlSlaveGone
  <2>5. CASE Die
    BY <1>1, <2>5 DEF Die
  <2> QED  BY <1>9, <2>1, <2>2, <2>3, <2>4, <2>5
<1>10. CASE handleLEConnectionComplete
  <2>1. evq \in Seq(Events) /\ evq # <<>> /\ Head(evq).type = "conn"
    BY <1>10 DEF handleLEConnectionComplete, Event, QueueType
  <2>2. Head(evq).peer \in Peers
    BY <2>1, QueueTail DEF Events
  <2>3. got' \subseteq (Peers \cup {None}) \X Peers
    BY <1>10, <2>2 DEF handleLEConnectionComplete, AppType, CtlType
  <2> QED  BY <1>1, <1>10, <2>3 DEF handleLEConnectionComplete, Event, CtlType, CountType
<1>11. CASE Loop
  BY <1>2, <1>10, <1>11 DEF Loop, handleReply, handleSlaveComplete, handleSlaveGone, handleReport, Event
<1> QED  BY <1>5, <1>6, <1>7, <1>8, <1>9, <1>11 DEF Next

(* Type correctness is kept by every step. *)
LEMMA TypeStep == TypeOK /\ [Next]_vars => TypeOK'
<1>1. ASSUME TypeOK, UNCHANGED vars  PROVE TypeOK'
  BY <1>1 DEF vars, app, host, snd, TypeOK, AppType, HostType, SendType, QueueType, CtlType, CountType
<1> QED  BY <1>1, AppStep, HostStep, SendStep, CtlStep DEF TypeOK
-----------------------------------------------------------------------------
(* The blame only grows, and is never short of a reason. *)
LEMMA BlameStep == Blamed /\ [Next]_vars => Blamed' /\ blame \subseteq blame'
<1>1. ASSUME Next  PROVE Surprise' \subseteq blame' /\ blame \subseteq blame'
  BY <1>1 DEF Next, Record
<1>2. ASSUME Blamed, UNCHANGED vars  PROVE Blamed' /\ blame \subseteq blame'
  BY <1>2 DEF Blamed, Surprise, vars, app, host, snd
<1> QED  BY <1>1, <1>2 DEF Blamed

(* What the blame rules out. *)
LEMMA Blameless ==
  ASSUME Blamed
  PROVE  /\ "dials" \notin blame => \A c, d \in Callers :
              pc[c] \in InDial /\ pc[d] \in InDial => c = d
         /\ "scans" \notin blame => \A c, d \in Callers :
              pc[c] \in InScan /\ pc[d] \in InScan => c = d
         /\ "misread" \notin blame /\ reply # None => reply.id = cur.id
         /\ "stale" \notin blame /\ lock = "bg" /\ cur.op = "advOn" => advEnable
<1>1. ASSUME "dials" \notin blame, NEW c \in Callers, NEW d \in Callers,
             pc[c] \in InDial, pc[d] \in InDial, c # d
      PROVE  FALSE
  <2>1. Cardinality({x \in Callers : pc[x] \in InDial}) > 1
    BY <1>1, TwoAreMany
  <2> QED  BY <1>1, <2>1 DEF Blamed, Surprise
<1>2. ASSUME "scans" \notin blame, NEW c \in Callers, NEW d \in Callers,
             pc[c] \in InScan, pc[d] \in InScan, c # d
      PROVE  FALSE
  <2>1. Cardinality({x \in Callers : pc[x] \in InScan}) > 1
    BY <1>2, TwoAreMany
  <2> QED  BY <1>2, <2>1 DEF Blamed, Surprise
<1>3. "misread" \notin blame /\ reply # None => reply.id = cur.id
  BY DEF Blamed, Surprise
<1>4. "stale" \notin blame /\ lock = "bg" /\ cur.op = "advOn" => advEnable
  BY DEF Blamed, Surprise
<1> QED  BY <1>1, <1>2, <1>3, <1>4

(* The sender holds the lock for the command its place calls for. *)
LEMMA OwnedStep == TypeOK /\ Owned /\ [Next]_vars => Owned'
<1> SUFFICES ASSUME TypeOK, Owned, [Next]_vars  PROVE Owned'
  OBVIOUS
<1>1. CASE UNCHANGED <<pc, peer, lock, cur>>
  BY <1>1 DEF Owned
<1>2. ASSUME lock' = None  PROVE Owned'
  BY <1>2, NoneAssumption, CallersAssumption DEF Owned
<1>3. ASSUME NEW c \in Callers, SendFrom(c)  PROVE Owned'
  BY <1>3, CallersAssumption DEF SendFrom, Write, app, Owned
<1>4. ASSUME NEW op \in bg, BackgroundSend(op)  PROVE Owned'
  BY <1>4, CallersAssumption DEF BackgroundSend, Write, app, Owned, TypeOK, HostType
<1>5. ASSUME NEW c \in Callers, Walked(c)  PROVE Owned'
  <2>1. lock # c
    BY <1>5 DEF Walked, Owned
  <2> QED  BY <1>5, <2>1 DEF Walked, Frame, Owned, snd
<1>6. CASE handleLEConnectionComplete
  <2>1. ASSUME NEW c \in Callers, HandOver(c), Go(c, "idle")  PROVE Owned'
    <3>1. lock # c
      BY <2>1 DEF HandOver, Owned, CommandAt
    <3>2. Frame(c)
      BY <2>1, GoFrame DEF TypeOK, Places
    <3> QED  BY <1>6, <3>1, <3>2 DEF handleLEConnectionComplete, Frame, Owned, snd
  <2> QED  BY <1>1, <1>6, <2>1 DEF handleLEConnectionComplete, app, snd
<1>7. CASE \/ CtlExecute \/ CtlConnect \/ CtlConnectFails \/ Reported \/ Die
           \/ handleReply \/ Noted
  BY <1>1, <1>7 DEF CtlExecute, CtlConnect, CtlConnectFails, CtlEvent, Reported, Die, handleReply,
                    Noted, app, snd
<1>8. CASE UNCHANGED vars
  BY <1>1, <1>8 DEF vars, app, snd
<1> QED  BY <1>2, <1>3, <1>4, <1>5, <1>6, <1>7, <1>8, Kinds
         DEF Returned, BackgroundReturns, SendReturns

(* A reply to the sender's own command means that the controller has       *)
(* nothing left to execute.                                                *)
LEMMA OwnIsLast ==
  ASSUME TypeOK, Numbered, lock # None,
         \/ \E i \in DOMAIN evq : Mine(i)
         \/ reply # None /\ reply.id = cur.id
  PROVE  cmds = <<>>
<1>1. cmds \in Seq(Commands) /\ nCmd \in Nat /\ cur.id = nCmd
  BY DEF TypeOK, QueueType, CountType, Numbered, LatestHeld
<1> SUFFICES ASSUME cmds # <<>>  PROVE FALSE
  OBVIOUS
<1>2. 1 \in DOMAIN cmds
  BY <1>1, QueueTail
<1>3. cmds[1].id \in 1..nCmd /\ nCmd < cmds[1].id
  BY <1>1, <1>2 DEF Mine, Numbered, CmdsRise, RepliesOlder
<1> QED  BY <1>1, <1>3

(* A command is written behind all the others. *)
LEMMA WriteNumbered ==
  ASSUME TypeOK, Numbered, NEW s \in Callers \cup {"bg"}, NEW op \in Ops,
         NEW arg \in Peers \cup {None}, Write(s, op, arg)
  PROVE  Numbered'
<1>0. s # None
  BY NoneAssumption, CallersAssumption
<1>1. /\ cmds \in Seq(Commands) /\ nCmd \in Nat /\ cur' \in Commands
      /\ cur'.id = nCmd + 1 /\ nCmd' = nCmd + 1 /\ cmds' = Append(cmds, cur')
      /\ lock = None /\ lock' = s /\ reply' = reply /\ reply = None /\ evq' = evq
  BY WriteType DEF TypeOK, QueueType, CountType, Write, Numbered, LatestHeld
<1>2. /\ \A i \in DOMAIN cmds : i \in DOMAIN cmds' /\ cmds'[i] = cmds[i] /\ i < Len(cmds) + 1
      /\ \A i \in DOMAIN cmds' : i \in DOMAIN cmds \/ i = Len(cmds) + 1
      /\ cmds'[Len(cmds) + 1] = cur' /\ Len(cmds) \in Nat /\ DOMAIN cmds = 1..Len(cmds)
  BY <1>1, QueueAppend
<1>3. \A i \in DOMAIN cmds : cmds[i].id \in Nat /\ 1 <= cmds[i].id /\ cmds[i].id <= nCmd
  BY <1>1 DEF Numbered, CmdsRise
<1>4. CmdsRise'
  <2>1. \A i \in DOMAIN cmds' : cmds'[i].id \in 1..nCmd'
    BY <1>1, <1>2, <1>3
  <2>2. ASSUME NEW i \in DOMAIN cmds', NEW j \in DOMAIN cmds', i < j
        PROVE  cmds'[i].id < cmds'[j].id
    <3>1. i \in DOMAIN cmds
      BY <1>2, <2>2
    <3>2. CASE j \in DOMAIN cmds
      BY <1>2, <2>2, <3>1, <3>2 DEF Numbered, CmdsRise
    <3>3. CASE j = Len(cmds) + 1
      BY <1>1, <1>2, <1>3, <3>1, <3>3
    <3> QED  BY <1>2, <3>2, <3>3
  <2> QED  BY <2>1, <2>2 DEF CmdsRise
<1>5. RepliesOlder'
  <2>1. ASSUME NEW i \in DOMAIN evq', evq'[i].type = "reply"
        PROVE  evq'[i].id \in 1..nCmd' /\ \A j \in DOMAIN cmds' : evq'[i].id < cmds'[j].id
    <3>1. evq[i].id \in 1..nCmd /\ \A j \in DOMAIN cmds : evq[i].id < cmds[j].id
      BY <1>1, <2>1 DEF Numbered, RepliesOlder
    <3>2. \A j \in DOMAIN cmds' : evq'[i].id < cmds'[j].id
      BY <1>1, <1>2, <3>1
    <3> QED  BY <1>1, <3>1, <3>2
  <2> QED  BY <1>1, <2>1 DEF RepliesOlder
<1>6. LatestHeld'
  <2>1. \A j \in DOMAIN cmds' : cmds'[j].id = cur'.id => cmds'[j] = cur'
    BY <1>1, <1>2, <1>3
  <2> QED  BY <1>0, <1>1, <2>1 DEF LatestHeld
<1> QED  BY <1>4, <1>5, <1>6 DEF Numbered

(* A command is executed: its reply is older than what is left. *)
LEMMA ExecuteNumbered ==
  ASSUME TypeOK, Numbered, CtlExecute
  PROVE  Numbered'
<1> DEFINE e == [type |-> "reply", id |-> Head(cmds).id, op |-> OpCode(Head(cmds).op),
                 status |-> Status(Head(cmds))]
<1>1. /\ cmds \in Seq(Commands) /\ cmds # <<>> /\ cmds' = Tail(cmds) /\ nCmd \in Nat
      /\ evq' = Append(evq, e) /\ nCmd' = nCmd /\ lock' = lock /\ cur' = cur /\ reply' = reply
      /\ evq \in Seq(Events)
  BY DEF TypeOK, QueueType, CountType, CtlExecute, snd
<1>2. /\ 1 \in DOMAIN cmds /\ Head(cmds) = cmds[1] /\ DOMAIN cmds = 1..Len(cmds)
      /\ \A i \in DOMAIN cmds' : /\ i + 1 \in DOMAIN cmds /\ cmds'[i] = cmds[i + 1]
                                 /\ i \in DOMAIN cmds /\ i \in Nat
      /\ Len(cmds) \in Nat
  BY <1>1, QueueTail
<1>3. e \in Events
  <2>1. Head(cmds) \in Commands
    BY <1>1, QueueTail
  <2>2. Status(Head(cmds)) \in Statuses
    BY DEF Status, Statuses
  <2> QED  BY <2>1, <2>2 DEF Events, Commands
<1>4. /\ \A i \in DOMAIN evq' : i \in DOMAIN evq \/ i = Len(evq) + 1
      /\ \A i \in DOMAIN evq : evq'[i] = evq[i]
      /\ evq'[Len(evq) + 1] = e
  BY <1>1, <1>3, QueueAppend
<1>5. CmdsRise'
  <2>1. ASSUME NEW i \in DOMAIN cmds', NEW j \in DOMAIN cmds', i < j
        PROVE  cmds'[i].id < cmds'[j].id
    <3>1. i + 1 \in DOMAIN cmds /\ j + 1 \in DOMAIN cmds /\ i + 1 < j + 1
      BY <1>2, <2>1
    <3> QED  BY <1>2, <3>1 DEF Numbered, CmdsRise
  <2>2. \A i \in DOMAIN cmds' : cmds'[i].id \in 1..nCmd
    BY <1>2 DEF Numbered, CmdsRise
  <2> QED  BY <1>1, <2>1, <2>2 DEF CmdsRise
<1>6. ASSUME NEW j \in DOMAIN cmds'  PROVE e.id < cmds'[j].id
  <2>1. j + 1 \in DOMAIN cmds /\ 1 < j + 1 /\ cmds'[j] = cmds[j + 1]
    BY <1>2
  <2> QED  BY <1>2, <2>1 DEF Numbered, CmdsRise
<1>7. RepliesOlder'
  <2>1. ASSUME NEW i \in DOMAIN evq', evq'[i].type = "reply"
        PROVE  evq'[i].id \in 1..nCmd' /\ \A j \in DOMAIN cmds' : evq'[i].id < cmds'[j].id
    <3>1. CASE i = Len(evq) + 1
      BY <1>1, <1>2, <1>4, <1>6, <3>1 DEF Numbered, CmdsRise
    <3>2. CASE i \in DOMAIN evq
      BY <1>1, <1>2, <1>4, <2>1, <3>2 DEF Numbered, RepliesOlder
    <3> QED  BY <1>4, <3>1, <3>2
  <2>2. reply' # None => \A j \in DOMAIN cmds' : reply'.id < cmds'[j].id
    BY <1>1, <1>2 DEF Numbered, RepliesOlder
  <2> QED  BY <2>1, <2>2 DEF RepliesOlder
<1>8. LatestHeld'
  BY <1>1, <1>2 DEF Numbered, LatestHeld
<1> QED  BY <1>5, <1>7, <1>8 DEF Numbered

(* Commands stay numbered in the order they are sent, and replies older    *)
(* than what the controller has still to execute.                          *)
LEMMA NumberedStep == TypeOK /\ Numbered /\ [Next]_vars => Numbered'
<1> SUFFICES ASSUME TypeOK, Numbered, [Next]_vars  PROVE Numbered'
  OBVIOUS
<1>0. evq \in Seq(Events) /\ cmds \in Seq(Commands)
  BY DEF TypeOK, QueueType
<1>1. ASSUME NEW c \in Callers, SendFrom(c)  PROVE Numbered'
  <2>1. CommandAt[pc[c]] \in Ops /\ peer[c] \in Peers \cup {None}
    BY <1>1, CommandOps DEF SendFrom, TypeOK, AppType
  <2> QED  BY <1>1, <2>1, WriteNumbered DEF SendFrom
<1>2. ASSUME NEW op \in bg, BackgroundSend(op)  PROVE Numbered'
  <2>1. op \in Ops
    BY DEF TypeOK, HostType, Ops
  <2> QED  BY <1>2, <2>1, WriteNumbered DEF BackgroundSend
<1>3. ASSUME NEW s, NEW r, SendReturns(s, r)  PROVE Numbered'
  BY <1>3 DEF SendReturns, Numbered, CmdsRise, RepliesOlder, LatestHeld
<1>4. ASSUME UNCHANGED <<lock, cur, reply, cmds, evq, nCmd>>  PROVE Numbered'
  BY <1>4 DEF Numbered, CmdsRise, RepliesOlder, LatestHeld
<1>5. ASSUME NEW e \in Events, e.type # "reply", evq' = Append(evq, e),
             UNCHANGED <<lock, cur, reply, cmds, nCmd>>
      PROVE  Numbered'
  <2>1. /\ \A i \in DOMAIN evq' : i \in DOMAIN evq \/ i = Len(evq) + 1
        /\ \A i \in DOMAIN evq : evq'[i] = evq[i]
        /\ evq'[Len(evq) + 1] = e
    BY <1>0, <1>5, QueueAppend
  <2>2. CmdsRise' /\ LatestHeld'
    BY <1>5 DEF Numbered, CmdsRise, LatestHeld
  <2>3. RepliesOlder'
    BY <1>5, <2>1 DEF Numbered, RepliesOlder
  <2> QED  BY <2>2, <2>3 DEF Numbered
<1>6. CASE CtlConnect
  <2>1. [type |-> "conn", peer |-> ctl.init] \in Events
    BY <1>6 DEF CtlConnect, TypeOK, CtlType, Events
  <2> QED  BY <1>5, <1>6, <2>1 DEF CtlConnect, CtlEvent, snd
<1>7. CASE Reported
  BY <1>5, <1>7 DEF Reported, snd
<1>8. ASSUME evq # <<>>, evq' = Tail(evq), UNCHANGED <<lock, cur, cmds, nCmd>>,
             \/ reply' = reply
             \/ /\ lock # None /\ Head(evq).type = "reply"
                /\ reply' = [id |-> Head(evq).id, status |-> Head(evq).status]
      PROVE  Numbered'
  <2>1. /\ \A i \in DOMAIN evq' : i + 1 \in DOMAIN evq /\ evq'[i] = evq[i + 1]
        /\ 1 \in DOMAIN evq /\ Head(evq) = evq[1]
    BY <1>0, <1>8, QueueTail
  <2>2. CmdsRise' /\ LatestHeld'
    BY <1>8 DEF Numbered, CmdsRise, LatestHeld
  <2>3. RepliesOlder'
    <3>1. \A i \in DOMAIN evq' : evq'[i].type = "reply" =>
            evq'[i].id \in 1..nCmd' /\ \A j \in DOMAIN cmds' : evq'[i].id < cmds'[j].id
      BY <1>8, <2>1 DEF Numbered, RepliesOlder
    <3>2. reply' # None => \A j \in DOMAIN cmds' : reply'.id < cmds'[j].id
      BY <1>8, <2>1 DEF Numbered, RepliesOlder
    <3> QED  BY <3>1, <3>2 DEF RepliesOlder
  <2> QED  BY <2>2, <2>3 DEF Numbered
<1>9. CASE handleReply
  BY <1>8, <1>9 DEF handleReply, Event
<1>10. CASE handleLEConnectionComplete \/ Noted
  BY <1>8, <1>10 DEF handleLEConnectionComplete, Noted, Event, snd
<1>11. CASE Die
  BY <1>11 DEF Die, snd, Numbered, CmdsRise, RepliesOlder, LatestHeld
<1>12. CASE CtlConnectFails \/ (\E c \in Callers : Walked(c)) \/ UNCHANGED vars
  BY <1>4, <1>12 DEF CtlConnectFails, Walked, vars, snd
<1> QED  BY <1>1, <1>2, <1>3, <1>6, <1>7, <1>9, <1>10, <1>11, <1>12, ExecuteNumbered, Kinds
         DEF Returned, BackgroundReturns
-----------------------------------------------------------------------------
(* Connection events, when an event is added or taken. *)
LEMMA ConnsAppend ==
  ASSUME evq \in Seq(Events), NEW e \in Events, evq' = Append(evq, e), NEW p, NEW i,
         ConnsAfter(i, p), e.type = "conn" => e.peer = p
  PROVE  ConnsAfter(i, p)'
<1>1. /\ \A j \in DOMAIN evq' : j \in DOMAIN evq \/ j = Len(evq) + 1
      /\ \A j \in DOMAIN evq : evq'[j] = evq[j]
      /\ evq'[Len(evq) + 1] = e
  BY QueueAppend
<1> QED  BY <1>1 DEF ConnsAfter

(* Those behind a place move up when the head is taken. *)
LEMMA ConnsTail ==
  ASSUME evq \in Seq(Events), evq # <<>>, evq' = Tail(evq), NEW p
  PROVE  /\ ConnsAfter(0, p) => ConnsAfter(0, p)'
         /\ \A i \in DOMAIN evq' : ConnsAfter(i + 1, p) => ConnsAfter(i, p)'
         /\ ConnsAfter(1, p) => ConnsAfter(0, p)'
<1>1. /\ \A j \in DOMAIN evq' : j + 1 \in DOMAIN evq /\ evq'[j] = evq[j + 1] /\ j \in Nat
      /\ DOMAIN evq = 1..Len(evq)
  BY QueueTail
<1>2. ConnsAfter(0, p) => ConnsAfter(0, p)'
  BY <1>1 DEF ConnsAfter
<1>3. ASSUME NEW i \in DOMAIN evq', ConnsAfter(i + 1, p)  PROVE ConnsAfter(i, p)'
  <2> SUFFICES ASSUME NEW j \in DOMAIN evq', j > i, evq'[j].type = "conn"
               PROVE  evq'[j].peer = p
    BY DEF ConnsAfter
  <2>1. j + 1 \in DOMAIN evq /\ j + 1 > i + 1 /\ evq'[j] = evq[j + 1]
    BY <1>1
  <2> QED  BY <1>3, <2>1 DEF ConnsAfter
<1>4. ASSUME ConnsAfter(1, p)  PROVE ConnsAfter(0, p)'
  <2> SUFFICES ASSUME NEW j \in DOMAIN evq', j > 0, evq'[j].type = "conn"
               PROVE  evq'[j].peer = p
    BY DEF ConnsAfter
  <2>1. j + 1 \in DOMAIN evq /\ j + 1 > 1 /\ evq'[j] = evq[j + 1]
    BY <1>1
  <2> QED  BY <1>4, <2>1 DEF ConnsAfter
<1> QED  BY <1>2, <1>3, <1>4

(* Only one place leads to each command of a Dial or a scan. *)
LEMMA CommandPlaces ==
  ASSUME NEW p \in DOMAIN CommandAt
  PROVE  /\ CommandAt[p] = "create" <=> p \in {"create", "create2"}
         /\ CommandAt[p] = "cancel" <=> p \in {"cancel0", "cancel"}
         /\ CommandAt[p] = "scanOn" <=> p \in {"scan", "scan2"}
         /\ CommandAt[p] = "scanOff" <=> p \in {"stop0", "stop"}
         /\ CommandAt[p] = "advOn" <=> p = "advOn"
         /\ CommandAt[p] = "advOff" <=> p = "advOff"
BY DEF CommandAt

(* The steps that write a command, a caller's or the background's. *)
LEMMA Written ==
  ASSUME TypeOK,
         \/ \E d \in Callers : SendFrom(d)
         \/ \E op \in bg : BackgroundSend(op)
  PROVE  \E s \in Callers \cup {"bg"}, op \in Ops, arg \in Peers \cup {None} : Writes(s, op, arg)
<1>1. ASSUME NEW d \in Callers, SendFrom(d)
      PROVE  /\ CommandAt[pc[d]] \in Ops /\ peer[d] \in Peers \cup {None}
             /\ Write(d, CommandAt[pc[d]], peer[d]) /\ UNCHANGED <<pc, peer, advEnable>>
             /\ pc[d] \in DOMAIN CommandAt /\ d # "bg"
  BY <1>1, CommandOps, CallersAssumption DEF SendFrom, app, host, TypeOK, AppType
<1>2. ASSUME NEW op \in bg, BackgroundSend(op)
      PROVE  /\ op \in Ops /\ op \in {"advOn", "advOff"} /\ Write("bg", op, None)
             /\ UNCHANGED <<pc, peer, advEnable>> /\ "bg" \notin Callers
  BY <1>2, CallersAssumption DEF BackgroundSend, app, TypeOK, HostType, Ops
<1> QED  BY <1>1, <1>2 DEF Writes

(* A command that is written leaves the controller to what it does. *)
LEMMA WriteDial ==
  ASSUME TypeOK, Numbered, Blamed, DialTrue, DialClean,
         \/ \E d \in Callers : SendFrom(d)
         \/ \E op \in bg : BackgroundSend(op)
  PROVE  (\A d \in got' : d[1] = d[2]) /\ Expecting' /\ Promised'
<1>0. /\ cmds \in Seq(Commands) /\ evq \in Seq(Events) /\ nCmd \in Nat
      /\ (\A d \in got : d[1] = d[2]) /\ Expecting
  BY DEF TypeOK, QueueType, CountType, DialTrue
<1>1. PICK s \in Callers \cup {"bg"}, op \in Ops, arg \in Peers \cup {None} : Writes(s, op, arg)
  BY Written
<1>2. /\ cur' \in Commands /\ cur'.id = nCmd + 1 /\ cur'.op = op /\ cmds' = Append(cmds, cur')
      /\ lock' = s /\ reply' = None /\ evq' = evq /\ ctl' = ctl /\ got' = got
  BY <1>1, WriteType DEF Write, Writes, Numbered, LatestHeld
<1>3. Expecting'
  <2> SUFFICES ASSUME NEW c \in Callers, pc[c] \in {"wait", "cancel", "wait2"}
               PROVE  (NoCreate /\ InitFor(peer[c]) /\ ConnsAfter(0, peer[c]))'
    BY <1>1 DEF Expecting, Writes
  <2>1. NoCreate /\ InitFor(peer[c]) /\ ConnsAfter(0, peer[c])
    BY <1>0 DEF Expecting
  <2>2. op # "create"
    <3> SUFFICES ASSUME op = "create"  PROVE FALSE
      OBVIOUS
    <3>1. s \in Callers /\ pc[s] \in {"create", "create2"}
      BY <1>1, CommandPlaces DEF Writes
    <3> QED  BY <3>1, Blameless DEF DialClean, InDial
  <2>3. NoCreate'
    BY <1>0, <1>2, <2>1, <2>2, QueueAppend DEF NoCreate
  <2> QED  BY <1>1, <1>2, <2>1, <2>3 DEF InitFor, ConnsAfter, Writes
<1>4. Promised'
  <2>1. \A i \in DOMAIN evq : ~Mine(i)'
    BY <1>0, <1>2 DEF Mine, Numbered, RepliesOlder
  <2> QED  BY <1>2, <2>1 DEF Promised
<1> QED  BY <1>0, <1>2, <1>3, <1>4

(* A caller takes a result, or goes on without one. *)
LEMMA CallerDial ==
  ASSUME TypeOK, Numbered, Owned, Blamed, DialTrue, DialClean,
         NEW d \in Callers, Returned(d) \/ Walked(d)
  PROVE  (\A x \in got' : x[1] = x[2]) /\ Expecting' /\ Promised'
<1>0. (\A x \in got : x[1] = x[2]) /\ Expecting /\ Promised
  BY DEF DialTrue
<1>1. CASE Walked(d)
  <2>1. lock # d
    BY <1>1 DEF Walked, Owned
  <2>2. UNCHANGED <<lock, cur, reply, cmds, evq, ctl, got>> /\ Frame(d)
    BY <1>1 DEF Walked, snd
  <2>3. Expecting'
    <3> SUFFICES ASSUME NEW c \in Callers, pc'[c] \in {"wait", "cancel", "wait2"}
                 PROVE  (NoCreate /\ InitFor(peer[c]) /\ ConnsAfter(0, peer[c]))'
      BY DEF Expecting
    <3>1. pc[c] \in {"wait", "cancel", "wait2"} /\ peer'[c] = peer[c]
      BY <1>1, <2>2 DEF Walked, Frame
    <3>2. NoCreate /\ InitFor(peer[c]) /\ ConnsAfter(0, peer[c])
      BY <1>0, <3>1 DEF Expecting
    <3> QED  BY <2>2, <3>1, <3>2 DEF NoCreate, InitFor, ConnsAfter
  <2>4. Promised'
    <3>1. \A c \in Callers : lock' = c => lock = c /\ pc'[c] = pc[c] /\ peer'[c] = peer[c]
      BY <2>1, <2>2 DEF Frame
    <3> QED  BY <1>0, <2>2, <3>1 DEF Promised, Mine, InitFor, ConnsAfter
  <2> QED  BY <1>0, <2>2, <2>3, <2>4
<1>2. CASE Returned(d)
  <2>1. PICK r \in Results : SendReturns(d, r) /\ Leads(pc[d], r, pc'[d])
    BY <1>2 DEF Returned
  <2>2. lock' = None /\ UNCHANGED <<cmds, evq, ctl, got>> /\ Frame(d)
    BY <1>2, <2>1 DEF Returned, SendReturns
  <2>3. Expecting'
    <3> SUFFICES ASSUME NEW c \in Callers, pc'[c] \in {"wait", "cancel", "wait2"}
                 PROVE  (NoCreate /\ InitFor(peer[c]) /\ ConnsAfter(0, peer[c]))'
      BY DEF Expecting
    <3>1. peer'[c] = peer[c]
      BY <2>2 DEF Frame
    <3>2. NoCreate /\ InitFor(peer[c]) /\ ConnsAfter(0, peer[c])
      <4>1. CASE pc[c] \in {"wait", "cancel", "wait2"}
        BY <1>0, <4>1 DEF Expecting
      <4>2. CASE pc[c] \notin {"wait", "cancel", "wait2"}
        <5>1. c = d /\ pc[c] \in {"create", "create2"} /\ r = "ok"
          BY <2>1, <2>2, <4>2 DEF Frame, Leads
        <5>2. lock = c /\ reply # None /\ reply.status = "ok"
          BY <2>1, <5>1 DEF SendReturns
        <5>3. reply.id = cur.id /\ lock # None
          BY <5>2, Blameless, NoneAssumption DEF DialClean
        <5>4. cmds = <<>>
          BY <5>2, <5>3, OwnIsLast
        <5>5. InitFor(peer[c]) /\ ConnsAfter(0, peer[c])
          BY <1>0, <5>1, <5>2 DEF Promised
        <5> QED  BY <5>4, <5>5 DEF NoCreate
      <4> QED  BY <4>1, <4>2
    <3> QED  BY <2>2, <3>1, <3>2 DEF NoCreate, InitFor, ConnsAfter
  <2>4. Promised'
    BY <2>2, NoneAssumption DEF Promised
  <2> QED  BY <1>0, <2>2, <2>3, <2>4
<1> QED  BY <1>1, <1>2

(* What the current command's own reply needs: the command, executed. *)
LEMMA ExecutesCurrent ==
  ASSUME TypeOK, Numbered, CtlExecute, lock # None
  PROVE  /\ Head(cmds).id = cur.id => Head(cmds) = cur
         /\ \A i \in DOMAIN evq : ~Mine(i)
         /\ ~(reply # None /\ reply.id = cur.id)
<1>1. cmds \in Seq(Commands) /\ cmds # <<>>
  BY DEF TypeOK, QueueType, CtlExecute
<1>2. 1 \in DOMAIN cmds /\ Head(cmds) = cmds[1]
  BY <1>1, QueueTail
<1> QED  BY <1>1, <1>2, OwnIsLast DEF Numbered, LatestHeld

(* The controller executes a command. *)
LEMMA ExecuteDial ==
  ASSUME TypeOK, Numbered, Owned, Blamed, DialTrue, DialClean, CtlExecute
  PROVE  (\A x \in got' : x[1] = x[2]) /\ Expecting' /\ Promised'
<1> DEFINE k == Head(cmds)
           e == [type |-> "reply", id |-> k.id, op |-> OpCode(k.op), status |-> Status(k)]
<1>0. (\A x \in got : x[1] = x[2]) /\ Expecting
  BY DEF DialTrue
<1>1. /\ cmds \in Seq(Commands) /\ evq \in Seq(Events) /\ cmds # <<>> /\ cmds' = Tail(cmds)
      /\ evq' = Append(evq, e) /\ UNCHANGED <<pc, peer, lock, cur, reply, got>>
      /\ ctl' = IF Status(k) = "ok" THEN Effect(k) ELSE ctl
  BY DEF TypeOK, QueueType, CtlExecute, app, snd
<1>2. /\ k \in Commands /\ 1 \in DOMAIN cmds /\ k = cmds[1]
      /\ \A i \in DOMAIN cmds' : i + 1 \in DOMAIN cmds /\ cmds'[i] = cmds[i + 1]
  BY <1>1, QueueTail
<1>3. e \in Events
  <2>1. Status(k) \in Statuses
    BY DEF Status, Statuses
  <2> QED  BY <1>2, <2>1 DEF Events, Commands
<1>4. Expecting'
  <2> SUFFICES ASSUME NEW c \in Callers, pc[c] \in {"wait", "cancel", "wait2"}
               PROVE  (NoCreate /\ InitFor(peer[c]) /\ ConnsAfter(0, peer[c]))'
    BY <1>1 DEF Expecting
  <2>1. NoCreate /\ InitFor(peer[c]) /\ ConnsAfter(0, peer[c])
    BY <1>0 DEF Expecting
  <2>2. k.op # "create"
    BY <1>2, <2>1 DEF NoCreate
  <2>3. ctl'.init \in {ctl.init, None}
    BY <1>1, <2>2 DEF Effect, TypeOK, CtlType
  <2>4. NoCreate'
    BY <1>2, <2>1 DEF NoCreate
  <2>5. ConnsAfter(0, peer[c])'
    <3>1. \A p : ConnsAfter(0, p) => ConnsAfter(0, p)'
      BY <1>1, <1>3, ConnsAppend
    <3> QED  BY <1>1, <2>1, <3>1 DEF ConnsAfter
  <2> QED  BY <1>1, <2>1, <2>3, <2>4, <2>5 DEF InitFor
<1>5. Promised'
  <2> SUFFICES ASSUME NEW c \in Callers, lock = c, pc[c] \in {"create", "create2"}
               PROVE  /\ \A i \in DOMAIN evq' : Mine(i)' /\ evq'[i].status = "ok" =>
                           InitFor(peer[c])' /\ ConnsAfter(i, peer[c])'
                      /\ reply # None /\ reply.status = "ok" =>
                           InitFor(peer[c])' /\ ConnsAfter(0, peer[c])'
    BY <1>1 DEF Promised
  <2>0. lock # None
    BY NoneAssumption
  <2>1. reply = None
    BY <2>0, ExecutesCurrent, Blameless DEF DialClean
  <2>2. ASSUME NEW i \in DOMAIN evq', Mine(i)', evq'[i].status = "ok"
        PROVE  InitFor(peer[c])' /\ ConnsAfter(i, peer[c])'
    <3>1. /\ \A j \in DOMAIN evq' : j \in DOMAIN evq \/ j = Len(evq) + 1
          /\ \A j \in DOMAIN evq : evq'[j] = evq[j] /\ j < Len(evq) + 1
          /\ evq'[Len(evq) + 1] = e /\ Len(evq) \in Nat /\ DOMAIN evq = 1..Len(evq)
      BY <1>1, <1>3, QueueAppend
    <3>2. i = Len(evq) + 1
      BY <1>1, <2>0, <2>2, <3>1, ExecutesCurrent DEF Mine
    <3>3. k = cur /\ Status(k) = "ok"
      BY <1>1, <2>0, <2>2, <3>1, <3>2, ExecutesCurrent DEF Mine
    <3>4. k.op = "create" /\ k.arg = peer[c]
      BY <3>3, CommandPlaces DEF Owned
    <3>5. ctl'.init = peer[c]
      BY <1>1, <3>3, <3>4 DEF Effect, TypeOK, CtlType
    <3>6. ConnsAfter(i, peer[c])'
      BY <3>1, <3>2 DEF ConnsAfter
    <3> QED  BY <1>1, <3>5, <3>6 DEF InitFor
  <2> QED  BY <2>1, <2>2
<1> QED  BY <1>0, <1>1, <1>4, <1>5

(* An event is queued: it is of no connection, or of the one initiated. *)
LEMMA QueueDial ==
  ASSUME TypeOK, DialTrue, DialClean, NEW e \in Events, evq' = Append(evq, e),
         e.type # "reply", e.type = "conn" => e.peer = ctl.init /\ ctl.init # None,
         ctl'.init \in {ctl.init, None},
         UNCHANGED <<pc, peer, lock, cur, reply, cmds, got>>
  PROVE  (\A x \in got' : x[1] = x[2]) /\ Expecting' /\ Promised'
<1>0. (\A x \in got : x[1] = x[2]) /\ Expecting /\ Promised /\ evq \in Seq(Events)
  BY DEF DialTrue, TypeOK, QueueType
<1>1. /\ \A j \in DOMAIN evq' : j \in DOMAIN evq \/ j = Len(evq) + 1
      /\ \A j \in DOMAIN evq : evq'[j] = evq[j]
      /\ evq'[Len(evq) + 1] = e
  BY <1>0, QueueAppend
<1>2. ASSUME NEW i, NEW p, InitFor(p), ConnsAfter(i, p)
      PROVE  (ctl'.init \in {None, p}) /\ ConnsAfter(i, p)'
  <2>1. e.type = "conn" => e.peer = p
    BY <1>2 DEF InitFor
  <2> QED  BY <1>0, <1>2, <2>1, ConnsAppend DEF InitFor
<1>3. Expecting'
  <2> SUFFICES ASSUME NEW c \in Callers, pc[c] \in {"wait", "cancel", "wait2"}
               PROVE  NoCreate' /\ ctl'.init \in {None, peer[c]} /\
                      \A j \in DOMAIN evq' : j > 0 /\ evq'[j].type = "conn" => evq'[j].peer = peer[c]
    BY DEF Expecting, InitFor, ConnsAfter
  <2>1. NoCreate /\ InitFor(peer[c]) /\ ConnsAfter(0, peer[c])
    BY <1>0 DEF Expecting
  <2> QED  BY <1>2, <2>1 DEF NoCreate, ConnsAfter
<1>4. Promised'
  <2> SUFFICES ASSUME NEW c \in Callers, lock = c, pc[c] \in {"create", "create2"}
               PROVE  /\ \A i \in DOMAIN evq' : Mine(i)' /\ evq'[i].status = "ok" =>
                           InitFor(peer[c])' /\ ConnsAfter(i, peer[c])'
                      /\ reply # None /\ reply.status = "ok" =>
                           InitFor(peer[c])' /\ ConnsAfter(0, peer[c])'
    BY DEF Promised
  <2>1. ASSUME NEW i, InitFor(peer[c]), ConnsAfter(i, peer[c])
        PROVE  InitFor(peer[c])' /\ ConnsAfter(i, peer[c])'
    BY <1>2, <2>1 DEF InitFor, ConnsAfter
  <2>2. ASSUME NEW i \in DOMAIN evq', Mine(i)', evq'[i].status = "ok"
        PROVE  InitFor(peer[c])' /\ ConnsAfter(i, peer[c])'
    <3>1. i \in DOMAIN evq /\ Mine(i) /\ evq[i].status = "ok"
      BY <1>1, <2>2 DEF Mine
    <3> QED  BY <1>0, <2>1, <3>1 DEF Promised
  <2>3. reply # None /\ reply.status = "ok" => InitFor(peer[c])' /\ ConnsAfter(0, peer[c])'
    BY <1>0, <2>1 DEF Promised
  <2> QED  BY <2>2, <2>3
<1> QED  BY <1>0, <1>3, <1>4

(* An event is taken, and the callers stay where they are. *)
LEMMA TakeDial ==
  ASSUME TypeOK, Blamed', DialTrue, DialClean', DialClean, evq # <<>>, evq' = Tail(evq),
         UNCHANGED <<pc, peer, lock, cur, cmds, ctl>>,
         \/ reply' = reply
         \/ /\ Head(evq).type = "reply"
            /\ reply' = [id |-> Head(evq).id, status |-> Head(evq).status]
  PROVE  Expecting' /\ Promised'
<1>0. Expecting /\ Promised /\ evq \in Seq(Events)
  BY DEF DialTrue, TypeOK, QueueType
<1>1. /\ \A j \in DOMAIN evq' : j + 1 \in DOMAIN evq /\ evq'[j] = evq[j + 1]
      /\ 1 \in DOMAIN evq /\ Head(evq) = evq[1]
  BY <1>0, QueueTail
<1>2. \A p : /\ ConnsAfter(0, p) => ConnsAfter(0, p)'
             /\ \A i \in DOMAIN evq' : ConnsAfter(i + 1, p) => ConnsAfter(i, p)'
             /\ ConnsAfter(1, p) => ConnsAfter(0, p)'
  BY <1>0, ConnsTail
<1>3. \A c \in Callers : InitFor(peer[c])' <=> InitFor(peer[c])
  BY DEF InitFor
<1>4. \A c \in Callers : /\ ConnsAfter(0, peer[c]) => ConnsAfter(0, peer[c])'
                         /\ \A i \in DOMAIN evq' : ConnsAfter(i + 1, peer[c]) => ConnsAfter(i, peer[c])'
                         /\ ConnsAfter(1, peer[c]) => ConnsAfter(0, peer[c])'
  BY <1>2 DEF ConnsAfter
<1>5. Expecting'
  BY <1>0, <1>3, <1>4 DEF Expecting, NoCreate
<1>6. Promised'
  <2> SUFFICES ASSUME NEW c \in Callers, lock = c, pc[c] \in {"create", "create2"}
               PROVE  /\ \A i \in DOMAIN evq' : Mine(i)' /\ evq'[i].status = "ok" =>
                           InitFor(peer[c])' /\ ConnsAfter(i, peer[c])'
                      /\ reply' # None /\ reply'.status = "ok" =>
                           InitFor(peer[c])' /\ ConnsAfter(0, peer[c])'
    BY DEF Promised
  <2>1. ASSUME NEW i \in DOMAIN evq', Mine(i)', evq'[i].status = "ok"
        PROVE  InitFor(peer[c])' /\ ConnsAfter(i, peer[c])'
    <3>1. i + 1 \in DOMAIN evq /\ Mine(i + 1) /\ evq[i + 1].status = "ok"
      BY <1>1, <2>1 DEF Mine
    <3> QED  BY <1>0, <1>3, <1>4, <3>1 DEF Promised
  <2>2. ASSUME reply' # None, reply'.status = "ok"
        PROVE  InitFor(peer[c])' /\ ConnsAfter(0, peer[c])'
    <3>1. CASE reply' = reply
      BY <1>0, <1>3, <1>4, <2>2, <3>1 DEF Promised
    <3>2. CASE /\ Head(evq).type = "reply"
               /\ reply' = [id |-> Head(evq).id, status |-> Head(evq).status]
      <4>1. reply'.id = cur'.id
        BY <2>2 DEF DialClean, Blamed, Surprise
      <4>2. Mine(1) /\ evq[1].status = "ok"
        BY <1>1, <2>2, <3>2, <4>1 DEF Mine
      <4> QED  BY <1>0, <1>1, <1>3, <1>4, <4>2 DEF Promised
    <3> QED  BY <3>1, <3>2
  <2> QED  BY <2>1, <2>2
<1> QED  BY <1>5, <1>6

(* A connection event is handled: it reaches the one Dial that waits, and  *)
(* is of its peer.                                                         *)
LEMMA HandOverDial ==
  ASSUME TypeOK, DialTrue, DialClean, handleLEConnectionComplete,
         NEW d \in Callers, HandOver(d), got' = got \union {<<peer[d], Head(evq).peer>>},
         Go(d, "idle")
  PROVE  (\A x \in got' : x[1] = x[2]) /\ Expecting' /\ Promised'
<1>0. (\A x \in got : x[1] = x[2]) /\ Expecting /\ Promised /\ evq \in Seq(Events)
  BY DEF DialTrue, TypeOK, QueueType
<1>1. /\ evq # <<>> /\ Head(evq).type = "conn" /\ evq' = Tail(evq)
      /\ UNCHANGED <<lock, cur, reply, cmds, ctl>>
  BY DEF handleLEConnectionComplete, Event, snd
<1>2. /\ \A j \in DOMAIN evq' : j + 1 \in DOMAIN evq /\ evq'[j] = evq[j + 1]
      /\ 1 \in DOMAIN evq /\ Head(evq) = evq[1]
  BY <1>0, <1>1, QueueTail
<1>3. Frame(d) /\ pc'[d] = "idle"
  BY GoFrame DEF TypeOK, Places
<1>4. Head(evq).peer = peer[d]
  BY <1>0, <1>1, <1>2 DEF Expecting, ConnsAfter, HandOver
<1>5. \A p : /\ ConnsAfter(0, p) => ConnsAfter(0, p)'
             /\ \A i \in DOMAIN evq' : ConnsAfter(i + 1, p) => ConnsAfter(i, p)'
  BY <1>0, <1>1, ConnsTail
<1>6. ASSUME NEW c \in Callers, c # d
      PROVE  /\ pc'[c] = pc[c] /\ peer'[c] = peer[c]
             /\ InitFor(peer[c])' <=> InitFor(peer[c])
             /\ ConnsAfter(0, peer[c]) => ConnsAfter(0, peer[c])'
             /\ \A i \in DOMAIN evq' : ConnsAfter(i + 1, peer[c]) => ConnsAfter(i, peer[c])'
  <2>1. pc'[c] = pc[c] /\ peer'[c] = peer[c]
    BY <1>3, <1>6 DEF Frame
  <2>2. InitFor(peer[c])' <=> InitFor(peer[c])
    BY <1>1, <2>1 DEF InitFor
  <2>3. ConnsAfter(0, peer[c]) => ConnsAfter(0, peer[c])'
    BY <1>5, <2>1 DEF ConnsAfter
  <2>4. ASSUME NEW i \in DOMAIN evq', ConnsAfter(i + 1, peer[c])  PROVE ConnsAfter(i, peer[c])'
    BY <1>5, <2>1, <2>4 DEF ConnsAfter
  <2> QED  BY <2>1, <2>2, <2>3, <2>4
<1>7. Expecting'
  BY <1>0, <1>1, <1>3, <1>6 DEF Expecting, NoCreate
<1>8. Promised'
  <2> SUFFICES ASSUME NEW c \in Callers, c # d, lock = c, pc[c] \in {"create", "create2"}
               PROVE  /\ \A i \in DOMAIN evq' : Mine(i)' /\ evq'[i].status = "ok" =>
                           InitFor(peer[c])' /\ ConnsAfter(i, peer[c])'
                      /\ reply # None /\ reply.status = "ok" =>
                           InitFor(peer[c])' /\ ConnsAfter(0, peer[c])'
    BY <1>1, <1>3, <1>6 DEF Promised
  <2>1. ASSUME NEW i \in DOMAIN evq', Mine(i)', evq'[i].status = "ok"
        PROVE  InitFor(peer[c])' /\ ConnsAfter(i, peer[c])'
    <3>1. i + 1 \in DOMAIN evq /\ Mine(i + 1) /\ evq[i + 1].status = "ok"
      BY <1>1, <1>2, <2>1 DEF Mine
    <3> QED  BY <1>0, <1>6, <3>1 DEF Promised
  <2> QED  BY <1>0, <1>6, <2>1 DEF Promised
<1>9. \A x \in got' : x[1] = x[2]
  BY <1>0, <1>4
<1> QED  BY <1>7, <1>8, <1>9

(* While no two Dials overlap and no Send takes another's reply, what the  *)
(* controller initiates and the connections on their way are of the Dial   *)
(* that waits for them.                                                    *)
LEMMA DialStep ==
  TypeOK /\ Numbered /\ Owned /\ Blamed /\ DialTrue /\ [Next]_vars => DialTrue'
<1> SUFFICES ASSUME TypeOK, Numbered, Owned, Blamed, DialTrue, [Next]_vars, DialClean'
             PROVE  (\A x \in got' : x[1] = x[2]) /\ Expecting' /\ Promised'
  BY DEF DialTrue
<1>0. DialClean /\ Blamed'
  BY BlameStep DEF DialClean
<1>00. (\A x \in got : x[1] = x[2]) /\ Expecting /\ Promised
  BY <1>0 DEF DialTrue
<1>1. CASE CtlConnect
  <2>1. [type |-> "conn", peer |-> ctl.init] \in Events
    BY <1>1 DEF CtlConnect, TypeOK, CtlType, Events
  <2>2. ctl'.init = None
    BY <1>1 DEF CtlConnect, TypeOK, CtlType
  <2> QED  BY <1>0, <1>1, <2>1, <2>2, QueueDial DEF CtlConnect, CtlEvent, app, snd
<1>2. CASE Reported
  BY <1>0, <1>2, QueueDial DEF Reported, snd
<1>3. ASSUME ctl'.init \in {None, ctl.init},
             UNCHANGED <<pc, peer, cmds, evq, got>>,
             lock' = None \/ UNCHANGED <<lock, cur, reply>>
      PROVE  (\A x \in got' : x[1] = x[2]) /\ Expecting' /\ Promised'
  <2>1. Expecting'
    BY <1>00, <1>3 DEF Expecting, NoCreate, InitFor, ConnsAfter
  <2>2. Promised'
    BY <1>00, <1>3, NoneAssumption DEF Promised, InitFor, ConnsAfter, Mine
  <2> QED  BY <1>00, <1>3, <2>1, <2>2
<1>4. CASE CtlConnectFails
  <2>1. ctl'.init = None
    BY <1>4 DEF CtlConnectFails, TypeOK, CtlType
  <2> QED  BY <1>3, <1>4, <2>1 DEF CtlConnectFails, app, snd
<1>5. CASE Die
  <2>1. /\ ctl'.init = None /\ cmds' = <<>> /\ evq' = <<>>
        /\ UNCHANGED <<pc, peer, lock, cur, reply, got>>
    BY <1>5 DEF Die, app, snd
  <2> QED  BY <1>00, <2>1 DEF Expecting, Promised, NoCreate, InitFor, ConnsAfter
<1>6. CASE handleReply
  <2>1. Expecting' /\ Promised'
    BY <1>0, <1>6, TakeDial DEF handleReply, Event, app
  <2> QED  BY <1>00, <1>6, <2>1 DEF handleReply
<1>7. CASE Noted
  <2>1. Expecting' /\ Promised'
    BY <1>0, <1>7, TakeDial DEF Noted, snd
  <2> QED  BY <1>00, <1>7, <2>1 DEF Noted
<1>8. CASE handleLEConnectionComplete
  <2>1. CASE UNCHANGED <<app, got>>
    <3>1. Expecting' /\ Promised'
      BY <1>0, <1>8, <2>1, TakeDial DEF handleLEConnectionComplete, Event, snd, app
    <3> QED  BY <1>00, <2>1, <3>1
  <2> QED  BY <1>0, <1>8, <2>1, HandOverDial DEF handleLEConnectionComplete
<1>9. CASE BackgroundReturns
  BY <1>3, <1>9 DEF BackgroundReturns, SendReturns, app
<1>10. CASE UNCHANGED vars
  BY <1>3, <1>10 DEF vars, app, snd
<1> QED  BY <1>0, <1>1, <1>2, <1>4, <1>5, <1>6, <1>7, <1>8, <1>9, <1>10, Kinds, WriteDial, CallerDial,
            ExecuteDial
-----------------------------------------------------------------------------
(* A command that is written does not enable a scan that a caller is about *)
(* to enable itself.                                                       *)
LEMMA WriteScan ==
  ASSUME TypeOK, Numbered, Blamed, Reconciled, ScanClean,
         \/ \E d \in Callers : SendFrom(d)
         \/ \E op \in bg : BackgroundSend(op)
  PROVE  Stopped' /\ Ready' /\ Rescanning'
<1>0. /\ cmds \in Seq(Commands) /\ evq \in Seq(Events) /\ nCmd \in Nat /\ Ready
  BY DEF TypeOK, QueueType, CountType, Reconciled
<1>1. PICK s \in Callers \cup {"bg"}, op \in Ops, arg \in Peers \cup {None} : Writes(s, op, arg)
  BY Written
<1>2. /\ cur' \in Commands /\ cur'.id = nCmd + 1 /\ cur'.op = op /\ cmds' = Append(cmds, cur')
      /\ lock = None /\ lock' = s /\ reply' = None /\ evq' = evq /\ ctl' = ctl
      /\ UNCHANGED pc
  BY <1>1, WriteType DEF Write, Writes, Numbered, LatestHeld
<1>3. \A i \in DOMAIN evq : ~Mine(i)'
  BY <1>0, <1>2 DEF Mine, Numbered, RepliesOlder
<1>4. /\ \A i \in DOMAIN cmds' : i \in DOMAIN cmds \/ i = Len(cmds) + 1
      /\ \A i \in DOMAIN cmds : cmds'[i] = cmds[i]
      /\ cmds'[Len(cmds) + 1] = cur'
  BY <1>0, <1>2, QueueAppend
<1>5. Stopped'
  BY <1>2, <1>3 DEF Stopped
<1>6. \A c \in Callers : pc[c] = "scan2" => ~ctl.scan /\ NoScanOn
  BY <1>0, <1>2, NoneAssumption DEF Ready
<1>7. Ready'
  <2> SUFFICES ASSUME NEW c \in Callers, pc[c] = "scan2", s # c
               PROVE  ~ctl.scan /\ NoScanOn'
    BY <1>2 DEF Ready
  <2>1. op # "scanOn"
    <3> SUFFICES ASSUME op = "scanOn"  PROVE FALSE
      OBVIOUS
    <3>1. s \in Callers /\ pc[s] \in {"scan", "scan2"}
      BY <1>1, CommandPlaces DEF Writes
    <3> QED  BY <3>1, Blameless DEF ScanClean, InScan
  <2> QED  BY <1>2, <1>4, <1>6, <2>1 DEF NoScanOn
<1>8. Rescanning'
  BY <1>2, <1>3, <1>4, <1>6 DEF Rescanning, NoScanOn
<1> QED  BY <1>5, <1>7, <1>8

(* A caller takes a result, or goes on without one. *)
LEMMA CallerScan ==
  ASSUME TypeOK, Numbered, Owned, Blamed, Reconciled, ScanClean,
         NEW d \in Callers, Returned(d) \/ Walked(d)
  PROVE  Stopped' /\ Ready' /\ Rescanning'
<1>0. Stopped /\ Ready /\ Rescanning
  BY DEF Reconciled
<1>1. CASE Walked(d)
  <2>1. lock # d /\ pc'[d] # "scan2"
    BY <1>1 DEF Walked, Owned
  <2>2. UNCHANGED <<lock, cur, reply, cmds, evq, ctl>> /\ \A c \in Callers : c # d => pc'[c] = pc[c]
    BY <1>1 DEF Walked, snd, Frame
  <2>3. Stopped'
    BY <1>0, <2>1, <2>2 DEF Stopped, Mine
  <2>4. Ready'
    BY <1>0, <2>1, <2>2 DEF Ready, NoScanOn
  <2>5. Rescanning'
    BY <1>0, <2>1, <2>2 DEF Rescanning, Mine
  <2> QED  BY <2>3, <2>4, <2>5
<1>2. CASE Returned(d)
  <2>1. PICK r \in Results : SendReturns(d, r) /\ Leads(pc[d], r, pc'[d])
    BY <1>2 DEF Returned
  <2>2. /\ lock' = None /\ UNCHANGED <<cmds, evq, ctl>> /\ lock \in {d, None}
        /\ \A c \in Callers : c # d => pc'[c] = pc[c]
    BY <1>2, <2>1 DEF Returned, SendReturns, Frame
  <2>3. Stopped' /\ Rescanning'
    BY <2>2, NoneAssumption DEF Stopped, Rescanning
  <2>4. Ready'
    <3> SUFFICES ASSUME NEW c \in Callers, pc'[c] = "scan2"
                 PROVE  ~ctl.scan /\ NoScanOn
      BY <2>2 DEF Ready, NoScanOn
    <3>1. CASE c # d
      BY <1>0, <2>2, <3>1, NoneAssumption DEF Ready
    <3>2. CASE c = d
      <4>1. pc[c] = "stop0" /\ r \in Statuses
        BY <2>1, <3>2 DEF Leads
      <4>2. lock = c /\ reply # None
        BY <2>1, <3>2, <4>1 DEF SendReturns, Statuses
      <4>3. reply.id = cur.id /\ lock # None
        BY <4>2, Blameless, NoneAssumption DEF ScanClean
      <4>4. cmds = <<>>
        BY <4>2, <4>3, OwnIsLast
      <4> QED  BY <1>0, <4>1, <4>2, <4>4 DEF Stopped, NoScanOn
    <3> QED  BY <3>1, <3>2
  <2> QED  BY <2>3, <2>4
<1> QED  BY <1>1, <1>2

(* The controller executes a command. *)
LEMMA ExecuteScan ==
  ASSUME TypeOK, Numbered, Owned, Blamed, Reconciled, ScanClean, CtlExecute
  PROVE  Stopped' /\ Ready' /\ Rescanning'
<1> DEFINE k == Head(cmds)
           e == [type |-> "reply", id |-> k.id, op |-> OpCode(k.op), status |-> Status(k)]
<1>0. Stopped /\ Ready /\ Rescanning
  BY DEF Reconciled
<1>1. /\ cmds \in Seq(Commands) /\ evq \in Seq(Events) /\ cmds # <<>> /\ cmds' = Tail(cmds)
      /\ evq' = Append(evq, e) /\ UNCHANGED <<pc, lock, cur, reply>>
      /\ ctl' = IF Status(k) = "ok" THEN Effect(k) ELSE ctl
  BY DEF TypeOK, QueueType, CtlExecute, app, snd
<1>2. /\ k \in Commands /\ 1 \in DOMAIN cmds /\ k = cmds[1]
      /\ \A i \in DOMAIN cmds' : i + 1 \in DOMAIN cmds /\ cmds'[i] = cmds[i + 1] /\ i \in Nat
      /\ DOMAIN cmds' \subseteq DOMAIN cmds /\ DOMAIN cmds = 1..Len(cmds)
  BY <1>1, QueueTail
<1>3. e \in Events
  <2>1. Status(k) \in Statuses
    BY DEF Status, Statuses
  <2> QED  BY <1>2, <2>1 DEF Events, Commands
<1>4. /\ \A j \in DOMAIN evq' : j \in DOMAIN evq \/ j = Len(evq) + 1
      /\ \A j \in DOMAIN evq : evq'[j] = evq[j]
      /\ evq'[Len(evq) + 1] = e
  BY <1>1, <1>3, QueueAppend
<1>5. k.op # "scanOn" => (ctl'.scan => ctl.scan)
  BY <1>1 DEF Effect, TypeOK, CtlType
<1>6. ASSUME lock # None
      PROVE  /\ reply = None
             /\ \A i \in DOMAIN evq' : Mine(i)' => k = cur /\ evq'[i] = e
  <2>1. reply = None
    BY <1>6, ExecutesCurrent, Blameless DEF ScanClean
  <2>2. ASSUME NEW i \in DOMAIN evq', Mine(i)'  PROVE k = cur /\ evq'[i] = e
    <3>1. i = Len(evq) + 1
      BY <1>1, <1>4, <1>6, <2>2, ExecutesCurrent DEF Mine
    <3>2. k.id = cur.id
      BY <1>1, <1>4, <2>2, <3>1 DEF Mine
    <3> QED  BY <1>4, <1>6, <3>1, <3>2, ExecutesCurrent
  <2> QED  BY <2>1, <2>2
<1>7. Stopped'
  <2> SUFFICES ASSUME NEW c \in Callers, pc[c] = "stop0", lock = c,
                      (\E i \in DOMAIN evq' : Mine(i)') \/ reply # None
               PROVE  ~ctl'.scan
    BY <1>1 DEF Stopped
  <2>1. k = cur
    BY <1>6, NoneAssumption
  <2>2. k.op = "scanOff"
    BY <2>1, CommandPlaces DEF Owned
  <2> QED  BY <1>1, <2>2 DEF Effect, Status, TypeOK, CtlType
<1>8. Ready'
  <2> SUFFICES ASSUME NEW c \in Callers, pc[c] = "scan2", lock # c
               PROVE  ~ctl'.scan /\ NoScanOn'
    BY <1>1 DEF Ready
  <2>1. ~ctl.scan /\ NoScanOn
    BY <1>0 DEF Ready
  <2> QED  BY <1>2, <1>5, <2>1 DEF NoScanOn
<1>9. Rescanning'
  <2> SUFFICES ASSUME NEW c \in Callers, pc[c] = "scan2", lock = c
               PROVE  /\ \A i \in DOMAIN cmds' : cmds'[i].op = "scanOn" => cmds'[i].id = cur.id
                      /\ \A i \in DOMAIN cmds' : cmds'[i].id = cur.id => ~ctl'.scan
                      /\ \A i \in DOMAIN evq' : Mine(i)' => evq'[i].status = "ok"
                      /\ reply # None => reply.status = "ok"
    BY <1>1 DEF Rescanning
  <2>1. /\ \A i \in DOMAIN cmds : cmds[i].op = "scanOn" => cmds[i].id = cur.id
        /\ \A i \in DOMAIN cmds : cmds[i].id = cur.id => ~ctl.scan
    BY <1>0 DEF Rescanning
  <2>2. \A i \in DOMAIN cmds' : cmds'[i].op = "scanOn" => cmds'[i].id = cur.id
    BY <1>2, <2>1
  <2>3. ASSUME NEW i \in DOMAIN cmds', cmds'[i].id = cur.id  PROVE ~ctl'.scan
    <3>1. cmds[i + 1].id = cur.id /\ i + 1 \in DOMAIN cmds /\ 1 < i + 1
      BY <1>2, <2>3
    <3>2. k.id < cur.id
      BY <1>2, <3>1 DEF Numbered, CmdsRise
    <3>3. k.id \in Int /\ cur.id \in Int
      BY <1>2, <3>1 DEF Numbered, CmdsRise
    <3>4. k.op # "scanOn"
      BY <1>2, <2>1, <3>2, <3>3
    <3> QED  BY <1>5, <2>1, <3>1, <3>4
  <2>4. ASSUME NEW i \in DOMAIN evq', Mine(i)'  PROVE evq'[i].status = "ok"
    <3>1. k = cur /\ evq'[i] = e
      BY <1>6, <2>4, NoneAssumption
    <3>2. ~ctl.scan /\ k.op = "scanOn"
      BY <1>2, <2>1, <3>1, CommandPlaces DEF Owned
    <3> QED  BY <3>1, <3>2 DEF Status
  <2>5. reply = None
    BY <1>6, NoneAssumption
  <2> QED  BY <2>2, <2>3, <2>4, <2>5
<1> QED  BY <1>7, <1>8, <1>9

(* Events that come and go leave the scan as it is, and a reply is the     *)
(* sender's own.                                                           *)
LEMMA EventScan ==
  ASSUME TypeOK, Reconciled, ScanClean, ScanClean', Blamed',
         \A c \in Callers : pc'[c] = pc[c] \/ pc'[c] = "idle",
         UNCHANGED <<lock, cur, cmds>>, ctl'.scan => ctl.scan,
         \/ evq' = evq /\ reply' = reply
         \/ \E e \in Events : e.type # "reply" /\ evq' = Append(evq, e) /\ reply' = reply
         \/ evq # <<>> /\ evq' = Tail(evq) /\ reply' = reply
         \/ /\ evq # <<>> /\ evq' = Tail(evq) /\ Head(evq).type = "reply"
            /\ reply' = [id |-> Head(evq).id, status |-> Head(evq).status]
  PROVE  Stopped' /\ Ready' /\ Rescanning'
<1>0. Stopped /\ Ready /\ Rescanning /\ evq \in Seq(Events)
  BY DEF Reconciled, TypeOK, QueueType
<1>1. \A i \in DOMAIN evq' : Mine(i)' => \E j \in DOMAIN evq : Mine(j) /\ evq'[i] = evq[j]
  <2>1. CASE evq' = evq
    BY <2>1 DEF Mine
  <2>2. CASE \E e \in Events : e.type # "reply" /\ evq' = Append(evq, e)
    <3>1. PICK e \in Events : e.type # "reply" /\ evq' = Append(evq, e)
      BY <2>2
    <3>2. /\ \A j \in DOMAIN evq' : j \in DOMAIN evq \/ j = Len(evq) + 1
          /\ \A j \in DOMAIN evq : evq'[j] = evq[j]
          /\ evq'[Len(evq) + 1] = e
      BY <1>0, <3>1, QueueAppend
    <3> QED  BY <3>1, <3>2 DEF Mine
  <2>3. CASE evq # <<>> /\ evq' = Tail(evq)
    <3>1. \A j \in DOMAIN evq' : j + 1 \in DOMAIN evq /\ evq'[j] = evq[j + 1]
      BY <1>0, <2>3, QueueTail
    <3> QED  BY <3>1 DEF Mine
  <2> QED  BY <2>1, <2>2, <2>3
<1>2. \/ reply' = reply
      \/ reply' # None => \E j \in DOMAIN evq : Mine(j) /\ reply'.status = evq[j].status
  <2> SUFFICES ASSUME evq # <<>>, Head(evq).type = "reply", reply' # None,
                      reply' = [id |-> Head(evq).id, status |-> Head(evq).status]
               PROVE  \E j \in DOMAIN evq : Mine(j) /\ reply'.status = evq[j].status
    OBVIOUS
  <2>1. 1 \in DOMAIN evq /\ Head(evq) = evq[1]
    BY <1>0, QueueTail
  <2>2. reply'.id = cur'.id
    BY DEF ScanClean, Blamed, Surprise
  <2> QED  BY <2>1, <2>2 DEF Mine
<1>3. Stopped'
  BY <1>0, <1>1, <1>2 DEF Stopped
<1>4. Ready'
  BY <1>0 DEF Ready, NoScanOn
<1>5. Rescanning'
  <2> SUFFICES ASSUME NEW c \in Callers, pc[c] = "scan2", lock = c
               PROVE  /\ \A i \in DOMAIN cmds' : cmds'[i].op = "scanOn" => cmds'[i].id = cur'.id
                      /\ \A i \in DOMAIN cmds' : cmds'[i].id = cur'.id => ~ctl'.scan
                      /\ \A i \in DOMAIN evq' : Mine(i)' => evq'[i].status = "ok"
                      /\ reply' # None => reply'.status = "ok"
    BY DEF Rescanning
  <2>1. /\ \A i \in DOMAIN cmds : cmds[i].op = "scanOn" => cmds[i].id = cur.id
        /\ \A i \in DOMAIN cmds : cmds[i].id = cur.id => ~ctl.scan
        /\ \A i \in DOMAIN evq : Mine(i) => evq[i].status = "ok"
        /\ reply # None => reply.status = "ok"
    BY <1>0 DEF Rescanning
  <2> QED  BY <1>1, <1>2, <2>1
<1> QED  BY <1>3, <1>4, <1>5

(* While no two scans overlap and no Send takes another's reply, a scan    *)
(* that has been reconciled finds the controller not scanning.             *)
LEMMA ScanStep ==
  TypeOK /\ Numbered /\ Owned /\ Blamed /\ Reconciled /\ [Next]_vars => Reconciled'
<1> SUFFICES ASSUME TypeOK, Numbered, Owned, Blamed, Reconciled, [Next]_vars, ScanClean'
             PROVE  Stopped' /\ Ready' /\ Rescanning'
  BY DEF Reconciled
<1>0. ScanClean /\ Blamed'
  BY BlameStep DEF ScanClean
<1>00. Stopped /\ Ready /\ Rescanning
  BY <1>0 DEF Reconciled
<1>1. CASE CtlConnect
  <2>1. [type |-> "conn", peer |-> ctl.init] \in Events
    BY <1>1 DEF CtlConnect, TypeOK, CtlType, Events
  <2>2. ctl'.scan = ctl.scan
    BY <1>1 DEF CtlConnect, TypeOK, CtlType
  <2>3. UNCHANGED <<pc, lock, cur, reply, cmds>>
        /\ evq' = Append(evq, [type |-> "conn", peer |-> ctl.init])
    BY <1>1 DEF CtlConnect, CtlEvent, app, snd
  <2> QED  BY <1>0, <2>1, <2>2, <2>3, EventScan
<1>2. CASE Reported
  BY <1>0, <1>2, EventScan DEF Reported, snd
<1>3. CASE CtlConnectFails
  <2>1. ctl'.scan = ctl.scan
    BY <1>3 DEF CtlConnectFails, TypeOK, CtlType
  <2> QED  BY <1>0, <1>3, <2>1, EventScan DEF CtlConnectFails, app, snd
<1>4. CASE Die
  <2>1. /\ ctl'.scan = FALSE /\ cmds' = <<>> /\ evq' = <<>>
        /\ UNCHANGED <<pc, lock, cur, reply>>
    BY <1>4 DEF Die, app, snd
  <2> QED  BY <1>00, <2>1 DEF Stopped, Ready, Rescanning, NoScanOn
<1>5. CASE handleReply
  BY <1>0, <1>5, EventScan DEF handleReply, Event, app
<1>6. CASE Noted
  BY <1>0, <1>6, EventScan DEF Noted, snd
<1>7. CASE handleLEConnectionComplete
  <2>1. evq # <<>> /\ evq' = Tail(evq) /\ UNCHANGED <<lock, cur, reply, cmds, ctl>>
    BY <1>7 DEF handleLEConnectionComplete, Event, snd
  <2>2. \A c \in Callers : pc'[c] = pc[c] \/ pc'[c] = "idle"
    <3>1. ASSUME NEW d \in Callers, Go(d, "idle")
          PROVE  \A c \in Callers : pc'[c] = pc[c] \/ pc'[c] = "idle"
      BY <3>1, GoFrame DEF TypeOK, Places, Frame
    <3> QED  BY <1>7, <3>1 DEF handleLEConnectionComplete, app
  <2> QED  BY <1>0, <2>1, <2>2, EventScan
<1>8. CASE BackgroundReturns
  <2>1. lock' = None /\ UNCHANGED <<pc, cmds, evq, ctl>> /\ \A c \in Callers : lock # c
    BY <1>8, NoneAssumption, CallersAssumption DEF BackgroundReturns, SendReturns, app
  <2> QED  BY <1>00, <2>1, NoneAssumption DEF Stopped, Ready, Rescanning, NoScanOn
<1>9. CASE UNCHANGED vars
  BY <1>0, <1>9, EventScan DEF vars, app, snd
<1> QED  BY <1>0, <1>1, <1>2, <1>3, <1>4, <1>5, <1>6, <1>7, <1>8, <1>9, Kinds, WriteScan, CallerScan,
            ExecuteScan

(* A caller whose second enable was answered goes on scanning. *)
LEMMA RescanIsGranted ==
  ASSUME TypeOK, Numbered, Owned, Reconciled, [Next]_vars, NEW c \in Callers,
         pc[c] = "scan2", pc'[c] \notin {"scan2", "scanning"}, lock = c,
         reply # None, ~dead
  PROVE  ~ScanClean
<1> SUFFICES ASSUME ScanClean  PROVE FALSE
  OBVIOUS
<1>1. reply.status = "ok"
  BY DEF Reconciled, Rescanning
<1>2. pc[c] \in DOMAIN CommandAt /\ pc[c] \notin {"wait", "wait2"} /\ lock # None /\ lock # "bg"
  BY NoneAssumption, CallersAssumption DEF CommandAt
<1>3. ASSUME NEW d \in Callers, Returned(d)  PROVE FALSE
  <2>1. PICK r \in Results : SendReturns(d, r) /\ Leads(pc[d], r, pc'[d])
    BY <1>3 DEF Returned
  <2>2. d = c /\ r = "ok"
    BY <1>1, <1>2, <2>1 DEF SendReturns
  <2> QED  BY <2>1, <2>2 DEF Leads
<1>4. ASSUME NEW d \in Callers, Walked(d)  PROVE FALSE
  <2>1. d # c
    BY <1>2, <1>4 DEF Walked
  <2> QED  BY <1>4, <2>1 DEF Walked, Frame
<1>5. CASE handleLEConnectionComplete
  <2>1. ASSUME NEW d \in Callers, HandOver(d), Go(d, "idle")  PROVE FALSE
    <3>1. d # c /\ Frame(d)
      BY <2>1, GoFrame DEF HandOver, TypeOK, Places
    <3> QED  BY <3>1 DEF Frame
  <2> QED  BY <1>5, <2>1 DEF handleLEConnectionComplete, app
<1>6. CASE UNCHANGED pc
  BY <1>6
<1> QED  BY <1>3, <1>4, <1>5, <1>6, Kinds
         DEF vars, app, SendFrom, BackgroundSend, BackgroundReturns, CtlExecute, CtlConnect,
             CtlConnectFails, CtlEvent, Reported, Die, handleReply, Noted
-----------------------------------------------------------------------------
(* An event that is no reply is queued: a command is where it was. *)
LEMMA QueueKeeps ==
  ASSUME evq \in Seq(Events), NEW e \in Events, evq' = Append(evq, e), e.type # "reply",
         UNCHANGED <<lock, cur, reply, cmds>>
  PROVE  /\ Sent => Sent'
         /\ Done => Done'
         /\ \A i \in DOMAIN evq : Answered(i) => i \in DOMAIN evq' /\ Answered(i)'
         /\ NoneOf("reply") => NoneOf("reply")'
         /\ Granted => Granted'
         /\ e.type # "conn" => (NoneOf("conn") => NoneOf("conn")') /\ (GrantedFresh => GrantedFresh')
<1>1. /\ \A j \in DOMAIN evq' : j \in DOMAIN evq \/ j = Len(evq) + 1
      /\ \A j \in DOMAIN evq : j \in DOMAIN evq' /\ evq'[j] = evq[j]
      /\ evq'[Len(evq) + 1] = e
  BY QueueAppend
<1>2. /\ NoneOf("reply") => NoneOf("reply")'
      /\ e.type # "conn" => (NoneOf("conn") => NoneOf("conn")')
  BY <1>1 DEF NoneOf
<1>3. (Sent => Sent') /\ (Done => Done')
  BY <1>2 DEF Sent, Done
<1>4. ASSUME NEW i \in DOMAIN evq, Answered(i)  PROVE i \in DOMAIN evq' /\ Answered(i)' /\ evq'[i] = evq[i]
  BY <1>1, <1>4 DEF Answered, Mine
<1>5. Granted => Granted'
  BY <1>3, <1>4 DEF Granted
<1>6. ASSUME e.type # "conn", GrantedFresh  PROVE GrantedFresh'
  <2>1. CASE Done /\ reply.status = "ok" /\ NoneOf("conn")
    BY <1>2, <1>3, <1>6, <2>1 DEF GrantedFresh
  <2>2. ASSUME NEW i \in DOMAIN evq, Answered(i), evq[i].status = "ok",
               \A j \in DOMAIN evq : j > i => evq[j].type # "conn"
        PROVE  GrantedFresh'
    <3>1. \A j \in DOMAIN evq' : j > i => evq'[j].type # "conn"
      BY <1>1, <1>6, <2>2
    <3> QED  BY <1>4, <2>2, <3>1 DEF GrantedFresh
  <2> QED  BY <1>6, <2>1, <2>2 DEF GrantedFresh
<1> QED  BY <1>2, <1>3, <1>4, <1>5, <1>6

(* One is taken: a command is where it was, one place further on. *)
LEMMA TakeKeeps ==
  ASSUME evq \in Seq(Events), evq # <<>>, evq' = Tail(evq), Head(evq).type # "reply",
         UNCHANGED <<lock, cur, reply, cmds>>
  PROVE  /\ Sent => Sent'
         /\ Done => Done'
         /\ \A i \in DOMAIN evq : Answered(i) => i - 1 \in DOMAIN evq' /\ Answered(i - 1)'
         /\ NoneOf("reply") => NoneOf("reply")'
         /\ NoneOf("conn") => NoneOf("conn")'
         /\ Granted => Granted'
         /\ GrantedFresh => GrantedFresh'
<1>1. /\ \A j \in DOMAIN evq' : j + 1 \in DOMAIN evq /\ evq'[j] = evq[j + 1] /\ j \in Nat
      /\ \A j \in DOMAIN evq : j # 1 => j - 1 \in DOMAIN evq' /\ evq'[j - 1] = evq[j]
      /\ Head(evq) = evq[1] /\ DOMAIN evq = 1..Len(evq)
  BY QueueTail
<1>2. (NoneOf("reply") => NoneOf("reply")') /\ (NoneOf("conn") => NoneOf("conn")')
  BY <1>1 DEF NoneOf
<1>3. (Sent => Sent') /\ (Done => Done')
  BY <1>2 DEF Sent, Done
<1>4. ASSUME NEW i \in DOMAIN evq, Answered(i)
      PROVE  i - 1 \in DOMAIN evq' /\ Answered(i - 1)' /\ evq'[i - 1] = evq[i]
  <2>1. i # 1
    BY <1>1, <1>4 DEF Answered, Mine
  <2>2. i - 1 \in DOMAIN evq' /\ evq'[i - 1] = evq[i]
    BY <1>1, <2>1
  <2>3. ASSUME NEW j \in DOMAIN evq', evq'[j].type = "reply"  PROVE j = i - 1
    <3>1. j + 1 = i
      BY <1>1, <1>4, <2>3 DEF Answered
    <3> QED  BY <1>1, <3>1
  <2> QED  BY <1>4, <2>2, <2>3 DEF Answered, Mine
<1>5. Granted => Granted'
  BY <1>3, <1>4 DEF Granted
<1>6. ASSUME GrantedFresh  PROVE GrantedFresh'
  <2>1. CASE Done /\ reply.status = "ok" /\ NoneOf("conn")
    BY <1>2, <1>3, <2>1 DEF GrantedFresh
  <2>2. ASSUME NEW i \in DOMAIN evq, Answered(i), evq[i].status = "ok",
               \A j \in DOMAIN evq : j > i => evq[j].type # "conn"
        PROVE  GrantedFresh'
    <3>1. ASSUME NEW j \in DOMAIN evq', j > i - 1  PROVE evq'[j].type # "conn"
      <4>1. j + 1 \in DOMAIN evq /\ j + 1 > i /\ evq'[j] = evq[j + 1]
        BY <1>1, <3>1
      <4> QED  BY <2>2, <4>1
    <3> QED  BY <1>4, <2>2, <3>1 DEF GrantedFresh
  <2> QED  BY <1>6, <2>1, <2>2 DEF GrantedFresh
<1> QED  BY <1>2, <1>3, <1>4, <1>5, <1>6

(* The stages of a command exclude each other. *)
LEMMA Stages ==
  /\ Sent => cmds # <<>> /\ reply = None /\ NoneOf("reply")
  /\ \A i \in DOMAIN evq : Answered(i) => cmds = <<>> /\ reply = None /\ ~NoneOf("reply")
  /\ Done => cmds = <<>> /\ reply # None /\ NoneOf("reply")
  /\ Granted => cmds = <<>>
  /\ GrantedFresh => Granted
<1>1. Sent => cmds # <<>> /\ reply = None /\ NoneOf("reply")
  BY DEF Sent
<1>2. \A i \in DOMAIN evq : Answered(i) => cmds = <<>> /\ reply = None /\ ~NoneOf("reply")
  BY DEF Answered, Mine, NoneOf
<1>3. Done => cmds = <<>> /\ reply # None /\ NoneOf("reply")
  BY DEF Done
<1>4. GrantedFresh => Granted
  BY DEF Granted, GrantedFresh
<1> QED  BY <1>1, <1>2, <1>3, <1>4 DEF Granted

(* A command is written: the one before is over. *)
LEMMA WriteHeld ==
  ASSUME TypeOK, Numbered, Sequential, Held, blame \subseteq blame',
         \/ \E d \in Callers : SendFrom(d)
         \/ \E op \in bg : BackgroundSend(op)
  PROVE  Sequential' /\ Held'
<1>1. PICK s \in Callers \cup {"bg"}, op \in Ops, arg \in Peers \cup {None} : Writes(s, op, arg)
  BY Written
<1>2. /\ lock = None /\ lock' = s /\ s # None /\ cmds' = Append(cmds, cur') /\ evq' = evq
      /\ reply' = reply /\ reply = None /\ ctl' = ctl /\ UNCHANGED <<pc, advEnable>>
  BY <1>1, NoneAssumption, CallersAssumption DEF Writes, Write, Numbered, LatestHeld
<1>3. cmds = <<>> /\ NoneOf("reply")
  BY <1>2 DEF Sequential
<1>4. Sent'
  BY <1>2, <1>3 DEF Sent, NoneOf
<1>5. Sequential'
  BY <1>2, <1>4 DEF Sequential
<1>6. NoneOf("conn") => NoneOf("conn")'
  BY <1>2 DEF NoneOf
<1>7. ASSUME NEW c \in Callers
      PROVE  /\ Connects(c) => Connects(c)'
             /\ Scans(c) => Scans(c)'
             /\ Advertises(c) => Advertises(c)'
  <2>1. lock # c /\ Unexecuted(c)' /\ pc'[c] = pc[c]
    BY <1>2, <1>4, NoneAssumption DEF Unexecuted
  <2> QED  BY <1>6, <2>1 DEF Connects, Scans, Advertises
<1> QED  BY <1>2, <1>5, <1>7 DEF Held, Unseen

(* A caller takes a result in time, or goes on without one. *)
LEMMA CallerHeld ==
  ASSUME TypeOK, Numbered, Owned, Sequential, Held, blame \subseteq blame', Prompt, Prompt',
         NEW d \in Callers, Returned(d) \/ Walked(d)
  PROVE  Sequential' /\ Held'
<1>0. NoneOf("conn") /\ evq' = evq => NoneOf("conn")'
  BY DEF NoneOf
<1>1. CASE Walked(d)
  <2>1. /\ lock # d /\ ~dead /\ pc[d] \notin DOMAIN CommandAt
        /\ UNCHANGED <<lock, cur, reply, cmds, evq, ctl>> /\ Frame(d)
    BY <1>1 DEF Walked, Owned, Prompt, snd
  <2>2. /\ Sent => Sent'
        /\ \A i \in DOMAIN evq : Answered(i) => i \in DOMAIN evq' /\ Answered(i)'
        /\ Done => Done'
        /\ NoneOf("reply") => NoneOf("reply")'
    BY <2>1 DEF Sent, Answered, Mine, Done, NoneOf
  <2>3. Sequential'
    <3>1. CASE lock = None
      BY <2>1, <2>2, <3>1 DEF Sequential
    <3>2. CASE lock # None
      BY <2>1, <2>2, <3>2 DEF Sequential
    <3> QED  BY <3>1, <3>2
  <2>4. (Granted => Granted') /\ (GrantedFresh => GrantedFresh')
    BY <2>1, <2>2, <1>0 DEF Granted, GrantedFresh
  <2>5. ASSUME NEW c \in Callers, c # d
        PROVE  /\ Connects(c) => Connects(c)'
               /\ Scans(c) => Scans(c)'
               /\ Advertises(c) => Advertises(c)'
    <3>1. pc'[c] = pc[c] /\ (Unexecuted(c) => Unexecuted(c)') /\ lock' = lock
      BY <2>1, <2>2, <2>5 DEF Frame, Unexecuted
    <3> QED  BY <1>0, <2>1, <2>4, <3>1 DEF Connects, Scans, Advertises
  <2>6. /\ Connects(d) => Connects(d)'
        /\ Scans(d) => Scans(d)'
        /\ Advertises(d) => Advertises(d)'
    <3>1. Unexecuted(d)' /\ pc[d] \notin {"create", "create2", "cancel", "stop", "advOff"}
      BY <2>1 DEF Unexecuted, CommandAt
    <3>2. /\ pc[d] = "wait" => pc'[d] = "cancel"
          /\ pc[d] = "scanning" => pc'[d] = "stop"
          /\ pc[d] = "advertising" => pc'[d] = "advOff"
      BY <1>1, <2>1 DEF Walked
    <3> QED  BY <1>0, <2>1, <3>1, <3>2 DEF Connects, Scans, Advertises
  <2>7. Unseen' => Unseen \/ Advertises(d)'
    <3>1. CASE advEnable' = advEnable
      BY <2>1, <3>1 DEF Unseen
    <3>2. CASE pc'[d] = "advOff"
      BY <2>1, <3>2 DEF Advertises, Unexecuted
    <3> QED  BY <1>1, <3>1, <3>2 DEF Walked
  <2>8. (ctl'.init # None => ctl.init # None) /\ (ctl'.scan => ctl.scan)
    BY <2>1
  <2> QED  BY <2>3, <2>5, <2>6, <2>7, <2>8 DEF Held
<1>2. CASE Returned(d)
  <2>1. PICK r \in Results : SendReturns(d, r) /\ Leads(pc[d], r, pc'[d])
    BY <1>2 DEF Returned
  <2>2. /\ lock = d /\ reply # None /\ r = reply.status
        /\ lock' = None /\ UNCHANGED <<cmds, evq, ctl>> /\ Frame(d)
        /\ pc[d] \in DOMAIN CommandAt /\ advEnable' \in {advEnable, TRUE}
    <3>1. ~dead /\ nTmo = 0 /\ nTmo' = 0 /\ nTmo' # nTmo + 1
      BY DEF Prompt
    <3>2. lock = d /\ reply # None /\ r = reply.status
      BY <2>1, <3>1 DEF SendReturns
    <3>3. lock' = None /\ UNCHANGED <<cmds, evq, ctl>>
      BY <2>1 DEF SendReturns
    <3> QED  BY <1>2, <3>2, <3>3 DEF Returned
  <2>3. Done /\ NoneOf("reply") /\ cmds = <<>> /\ lock # None
    BY <2>2, Stages, NoneAssumption DEF Sequential
  <2>4. Sequential'
    BY <2>2, <2>3 DEF Sequential, NoneOf
  <2>5. ASSUME NEW c \in Callers, c # d
        PROVE  /\ Connects(c) => Connects(c)'
               /\ Scans(c) => Scans(c)'
               /\ Advertises(c) => Advertises(c)'
    <3>1. pc'[c] = pc[c] /\ Unexecuted(c)' /\ lock # c
      BY <2>2, <2>5, NoneAssumption DEF Frame, Unexecuted
    <3> QED  BY <1>0, <2>2, <3>1 DEF Connects, Scans, Advertises
  <2>6. /\ Connects(d) => Connects(d)'
        /\ Scans(d) => Scans(d)'
        /\ Advertises(d) => Advertises(d)'
    <3>1. ~Unexecuted(d) /\ pc[d] \notin {"wait", "scanning", "advertising"}
      BY <2>2, <2>3, Stages DEF Unexecuted, CommandAt
    <3>2. (Granted => r = "ok") /\ (GrantedFresh => r = "ok" /\ NoneOf("conn"))
      BY <2>2, Stages DEF Granted, GrantedFresh
    <3>3. r = "ok" => /\ pc[d] \in {"create", "create2"} => pc'[d] = "wait"
                      /\ pc[d] \in {"scan", "scan2"} => pc'[d] = "scanning"
                      /\ pc[d] = "advOn" => pc'[d] = "advertising"
      BY <2>1 DEF Leads
    <3> QED  BY <1>0, <2>2, <3>1, <3>2, <3>3 DEF Connects, Scans, Advertises
  <2>7. Unseen' => Unseen
    BY <2>2 DEF Unseen
  <2>8. (ctl'.init # None => ctl.init # None) /\ (ctl'.scan => ctl.scan)
    BY <2>2
  <2> QED  BY <2>4, <2>5, <2>6, <2>7, <2>8 DEF Held
<1> QED  BY <1>1, <1>2

(* The controller executes the one command there is, and owes the state it *)
(* takes on to the caller that is about to learn of it.                    *)
LEMMA ExecuteHeld ==
  ASSUME TypeOK, Owned, Blamed, Sequential, Held, blame \subseteq blame', CtlExecute
  PROVE  Sequential' /\ Held'
<1> DEFINE e == [type |-> "reply", id |-> cur.id, op |-> OpCode(cur.op), status |-> Status(cur)]
<1>1. lock # None /\ Sent
  BY Stages DEF CtlExecute, Sequential
<1>2. cmds = <<cur>> /\ Head(cmds) = cur /\ Tail(cmds) = <<>> /\ reply = None /\ NoneOf("reply")
  BY <1>1 DEF Sent
<1>3. /\ evq' = Append(evq, e) /\ cmds' = <<>>
      /\ UNCHANGED <<pc, advEnable, lock, cur, reply>>
      /\ ctl' = IF Status(cur) = "ok" THEN Effect(cur) ELSE ctl
  BY <1>2 DEF CtlExecute, app, host, snd
<1>4. cur \in Commands /\ evq \in Seq(Events)
  <2>1. cmds \in Seq(Commands) /\ cmds # <<>>
    BY <1>2 DEF TypeOK, QueueType
  <2> QED  BY <1>2, <2>1, QueueTail DEF TypeOK, QueueType
<1>5. e \in Events
  <2>1. Status(cur) \in Statuses
    BY DEF Status, Statuses
  <2> QED  BY <1>4, <2>1 DEF Events, Commands
<1>6. PICK n \in Nat :
        /\ \A j \in DOMAIN evq' : j \in DOMAIN evq \/ j = n
        /\ \A j \in DOMAIN evq : evq'[j] = evq[j] /\ j < n
        /\ n \in DOMAIN evq' /\ evq'[n] = e /\ DOMAIN evq = 1..Len(evq)
  <2>1. Len(evq) + 1 \in Nat /\ Len(evq) + 1 \in DOMAIN evq'
    BY <1>3, <1>4, <1>5, QueueAppend
  <2> QED  BY <1>3, <1>4, <1>5, <2>1, QueueAppend
<1>7. Answered(n)'
  BY <1>2, <1>3, <1>6 DEF Answered, Mine, NoneOf
<1>8. Sequential'
  BY <1>1, <1>3, <1>6, <1>7 DEF Sequential
<1>9. Status(cur) = "ok" => Granted' /\ GrantedFresh'
  <2>1. \A j \in DOMAIN evq' : ~(j > n)
    BY <1>6
  <2> QED  BY <1>6, <1>7, <2>1 DEF Granted, GrantedFresh
<1>10. NoneOf("conn") => NoneOf("conn")'
  BY <1>6 DEF NoneOf
<1>11. ~Granted /\ ~GrantedFresh
  BY <1>2, Stages
<1>12. \/ lock \in Callers /\ pc[lock] \in DOMAIN CommandAt /\ cur.op = CommandAt[pc[lock]]
       \/ lock = "bg" /\ cur.op \in {"advOn", "advOff"}
  BY <1>1 DEF Owned, TypeOK, SendType
<1>13. ctl'.init # None => \E c \in Callers : Connects(c)'
  <2> SUFFICES ASSUME ctl'.init # None  PROVE \E c \in Callers : Connects(c)'
    OBVIOUS
  <2>1. CASE cur.op = "create" /\ Status(cur) = "ok"
    <3>1. lock \in Callers /\ pc[lock] \in {"create", "create2"}
      BY <1>12, <2>1, CommandPlaces
    <3> QED  BY <1>3, <1>9, <2>1, <3>1 DEF Connects
  <2>2. CASE ~(cur.op = "create" /\ Status(cur) = "ok")
    <3>1. ctl.init # None /\ cur.op # "cancel"
      BY <1>3, <2>2 DEF Effect, Status, TypeOK, CtlType
    <3>2. PICK c \in Callers : Connects(c)
      BY <3>1 DEF Held
    <3>3. lock = c => pc[c] # "cancel"
      BY <1>12, <3>1, CommandPlaces, CallersAssumption
    <3> QED  BY <1>3, <1>10, <1>11, <3>2, <3>3 DEF Connects, Unexecuted
  <2> QED  BY <2>1, <2>2
<1>14. ctl'.scan => \E c \in Callers : Scans(c)'
  <2> SUFFICES ASSUME ctl'.scan  PROVE \E c \in Callers : Scans(c)'
    OBVIOUS
  <2>1. CASE cur.op = "scanOn" /\ Status(cur) = "ok"
    <3>1. lock \in Callers /\ pc[lock] \in {"scan", "scan2"}
      BY <1>12, <2>1, CommandPlaces
    <3> QED  BY <1>3, <1>9, <2>1, <3>1 DEF Scans
  <2>2. CASE ~(cur.op = "scanOn" /\ Status(cur) = "ok")
    <3>1. ctl.scan /\ cur.op # "scanOff"
      BY <1>3, <2>2 DEF Effect, Status, TypeOK, CtlType
    <3>2. PICK c \in Callers : Scans(c)
      BY <3>1 DEF Held
    <3>3. lock = c => pc[c] # "stop"
      BY <1>12, <3>1, CommandPlaces, CallersAssumption
    <3> QED  BY <1>3, <1>11, <3>2, <3>3 DEF Scans, Unexecuted
  <2> QED  BY <2>1, <2>2
<1>15. Unseen' => \E c \in Callers : Advertises(c)'
  <2> SUFFICES ASSUME Unseen'  PROVE \E c \in Callers : Advertises(c)'
    OBVIOUS
  <2>0. ctl'.adv /\ ~advEnable /\ "stale" \notin blame
    BY <1>3 DEF Unseen
  <2>1. CASE cur.op = "advOn" /\ Status(cur) = "ok"
    <3>1. lock # "bg"
      BY <2>0, <2>1, Blameless
    <3>2. lock \in Callers /\ pc[lock] = "advOn"
      BY <1>12, <2>1, <3>1, CommandPlaces
    <3> QED  BY <1>3, <1>9, <2>1, <3>2 DEF Advertises
  <2>2. CASE ~(cur.op = "advOn" /\ Status(cur) = "ok")
    <3>1. ctl.adv /\ cur.op # "advOff"
      BY <1>3, <2>0, <2>2 DEF Effect, Status, TypeOK, CtlType
    <3>2. PICK c \in Callers : Advertises(c)
      BY <2>0, <3>1 DEF Held, Unseen
    <3>3. lock = c => pc[c] # "advOff"
      BY <1>12, <3>1, CommandPlaces, CallersAssumption
    <3> QED  BY <1>3, <1>11, <3>2, <3>3 DEF Advertises, Unexecuted
  <2> QED  BY <2>1, <2>2
<1> QED  BY <1>8, <1>13, <1>14, <1>15 DEF Held

(* Callers that stay where they are stay responsible, as long as the       *)
(* command is where it was.                                                *)
LEMMA PlacesKeep ==
  ASSUME UNCHANGED lock, NEW c \in Callers, pc'[c] = pc[c],
         Sent => Sent', Granted => Granted'
  PROVE  /\ Scans(c) => Scans(c)'
         /\ Advertises(c) => Advertises(c)'
         /\ (GrantedFresh => GrantedFresh') /\ (NoneOf("conn") => NoneOf("conn")') =>
              (Connects(c) => Connects(c)')
<1>1. Unexecuted(c) => Unexecuted(c)'
  BY DEF Unexecuted
<1> QED  BY <1>1 DEF Scans, Advertises, Connects

(* An event is queued, or the controller gives up what it initiated.       *)
LEMMA QueueHeld ==
  ASSUME TypeOK, Sequential, Held, blame \subseteq blame',
         UNCHANGED <<pc, advEnable, lock, cur, reply, cmds>>,
         ctl'.scan => ctl.scan, ctl'.adv => ctl.adv,
         \/ evq' = evq /\ ctl'.init = None
         \/ \E e \in Events : /\ e.type # "reply" /\ evq' = Append(evq, e)
                              /\ ctl'.init = None \/ (e.type # "conn" /\ ctl'.init = ctl.init)
  PROVE  Sequential' /\ Held'
<1>0. evq \in Seq(Events)
  BY DEF TypeOK, QueueType
<1>1. /\ Sent => Sent'
      /\ Done => Done'
      /\ \A i \in DOMAIN evq : Answered(i) => i \in DOMAIN evq' /\ Answered(i)'
      /\ NoneOf("reply") => NoneOf("reply")'
      /\ Granted => Granted'
      /\ ctl'.init # None => /\ NoneOf("conn") => NoneOf("conn")'
                             /\ GrantedFresh => GrantedFresh'
                             /\ ctl.init # None
  <2>1. CASE evq' = evq /\ ctl'.init = None
    <3>1. /\ Sent => Sent'
          /\ Done => Done'
          /\ \A i \in DOMAIN evq : Answered(i) => i \in DOMAIN evq' /\ Answered(i)'
          /\ NoneOf("reply") => NoneOf("reply")'
      BY <2>1 DEF Sent, Done, Answered, Mine, NoneOf
    <3>2. Granted => Granted'
      BY <2>1, <3>1 DEF Granted
    <3> QED  BY <2>1, <3>1, <3>2
  <2>2. ASSUME NEW e \in Events, e.type # "reply", evq' = Append(evq, e),
               ctl'.init = None \/ (e.type # "conn" /\ ctl'.init = ctl.init)
        PROVE  /\ Sent => Sent'
               /\ Done => Done'
               /\ \A i \in DOMAIN evq : Answered(i) => i \in DOMAIN evq' /\ Answered(i)'
               /\ NoneOf("reply") => NoneOf("reply")'
               /\ Granted => Granted'
               /\ ctl'.init # None => /\ NoneOf("conn") => NoneOf("conn")'
                                      /\ GrantedFresh => GrantedFresh'
                                      /\ ctl.init # None
    BY <1>0, <2>2, QueueKeeps
  <2> QED  BY <2>1, <2>2
<1>2. Sequential'
  <2>1. CASE lock = None
    BY <1>1, <2>1 DEF Sequential
  <2>2. CASE lock # None
    BY <1>1, <2>2 DEF Sequential
  <2> QED  BY <2>1, <2>2
<1>3. ASSUME NEW c \in Callers
      PROVE  /\ Scans(c) => Scans(c)'
             /\ Advertises(c) => Advertises(c)'
             /\ ctl'.init # None => (Connects(c) => Connects(c)')
  BY <1>1, PlacesKeep
<1>4. Unseen' => Unseen
  BY DEF Unseen
<1> QED  BY <1>1, <1>2, <1>3, <1>4 DEF Held

(* An event that is no reply is handled: a connection goes to a Dial that  *)
(* answers for nothing the controller still initiates.                     *)
LEMMA TakeHeld ==
  ASSUME TypeOK, Sequential, Held, blame \subseteq blame',
         evq # <<>>, evq' = Tail(evq), Head(evq).type # "reply",
         \A c \in Callers : pc'[c] = pc[c] \/ (HandOver(c) /\ Head(evq).type = "conn"),
         UNCHANGED <<advEnable, lock, cur, reply, cmds, ctl>>
  PROVE  Sequential' /\ Held'
<1>0. evq \in Seq(Events)
  BY DEF TypeOK, QueueType
<1>1. /\ Sent => Sent'
      /\ Done => Done'
      /\ \A i \in DOMAIN evq : Answered(i) => i - 1 \in DOMAIN evq' /\ Answered(i - 1)'
      /\ NoneOf("reply") => NoneOf("reply")'
      /\ NoneOf("conn") => NoneOf("conn")'
      /\ Granted => Granted'
      /\ GrantedFresh => GrantedFresh'
  BY <1>0, TakeKeeps
<1>2. Sequential'
  <2>1. CASE lock = None
    BY <1>1, <2>1 DEF Sequential
  <2>2. CASE lock # None
    BY <1>1, <2>2 DEF Sequential
  <2> QED  BY <2>1, <2>2
<1>3. ASSUME NEW c \in Callers
      PROVE  /\ Scans(c) => Scans(c)'
             /\ Advertises(c) => Advertises(c)'
             /\ Connects(c) => Connects(c)'
  <2>1. CASE pc'[c] = pc[c]
    BY <1>1, <2>1, PlacesKeep
  <2>2. CASE HandOver(c) /\ Head(evq).type = "conn"
    <3>1. ~NoneOf("conn")
      BY <1>0, <2>2, QueueTail DEF NoneOf
    <3> QED  BY <2>2, <3>1 DEF HandOver, Scans, Advertises, Connects
  <2> QED  BY <2>1, <2>2
<1>4. Unseen' => Unseen
  BY DEF Unseen
<1> QED  BY <1>2, <1>3, <1>4 DEF Held

(* A reply is handled: it is the one that its sender waits for. *)
LEMMA ReplyHeld ==
  ASSUME TypeOK, Sequential, Held, blame \subseteq blame', handleReply
  PROVE  Sequential' /\ Held'
<1>1. /\ evq \in Seq(Events) /\ evq # <<>> /\ evq' = Tail(evq) /\ Head(evq).type = "reply"
      /\ UNCHANGED <<pc, advEnable, lock, cur, cmds, ctl>>
      /\ reply' = IF lock # None /\ OpCode(cur.op) = Head(evq).op /\ reply = None
                  THEN [id |-> Head(evq).id, status |-> Head(evq).status] ELSE reply
  BY DEF handleReply, Event, app, host, TypeOK, QueueType
<1>2. /\ 1 \in DOMAIN evq /\ Head(evq) = evq[1] /\ Head(evq) \in Events
      /\ \A j \in DOMAIN evq' : j + 1 \in DOMAIN evq /\ evq'[j] = evq[j + 1] /\ j + 1 # 1 /\ j + 1 > 1
  <2>1. /\ 1 \in DOMAIN evq /\ Head(evq) = evq[1] /\ Head(evq) \in Events
        /\ \A j \in DOMAIN evq' : j + 1 \in DOMAIN evq /\ evq'[j] = evq[j + 1]
    BY <1>1, QueueTail
  <2>2. DOMAIN evq' \subseteq Nat /\ 0 \notin DOMAIN evq'
    <3>1. evq' \in Seq(Events)
      BY <1>1, QueueTail
    <3> QED  BY <3>1, LenProperties
  <2> QED  BY <2>1, <2>2
<1>3. ~NoneOf("reply")
  BY <1>1, <1>2 DEF NoneOf
<1>4. lock # None /\ ~Sent /\ ~Done /\ \E i \in DOMAIN evq : Answered(i)
  BY <1>3, Stages DEF Sequential
<1>5. Answered(1) /\ \A i \in DOMAIN evq : Answered(i) => i = 1
  BY <1>1, <1>2, <1>4 DEF Answered
<1>6. /\ reply = None /\ cmds = <<>> /\ evq[1].op = OpCode(cur.op) /\ evq[1].id = cur.id
      /\ \A j \in DOMAIN evq : evq[j].type = "reply" => j = 1
  BY <1>5 DEF Answered, Mine
<1>7. reply' = [id |-> Head(evq).id, status |-> Head(evq).status]
  BY <1>1, <1>2, <1>4, <1>6
<1>8. reply' # None
  <2>1. Head(evq).id \in Nat /\ Head(evq).status \in {"ok", "disallowed"}
    BY <1>1, <1>2 DEF Events, Statuses
  <2> QED  BY <1>7, <2>1, NoneAssumption
<1>9. Done'
  <2>1. NoneOf("reply")'
    BY <1>2, <1>6 DEF NoneOf
  <2> QED  BY <1>1, <1>2, <1>6, <1>7, <1>8, <2>1 DEF Done
<1>10. Sequential'
  BY <1>1, <1>4, <1>9 DEF Sequential
<1>11. Granted => Granted'
  <2> SUFFICES ASSUME Granted  PROVE Granted'
    OBVIOUS
  <2>1. evq[1].status = "ok"
    BY <1>4, <1>5 DEF Granted
  <2> QED  BY <1>2, <1>7, <1>9, <2>1 DEF Granted
<1>12. NoneOf("conn") => NoneOf("conn")'
  BY <1>2 DEF NoneOf
<1>13. GrantedFresh => GrantedFresh'
  <2> SUFFICES ASSUME GrantedFresh  PROVE GrantedFresh'
    OBVIOUS
  <2>1. evq[1].status = "ok" /\ \A j \in DOMAIN evq : j > 1 => evq[j].type # "conn"
    BY <1>4, <1>5 DEF GrantedFresh
  <2>2. NoneOf("conn")'
    BY <1>2, <2>1 DEF NoneOf
  <2> QED  BY <1>2, <1>7, <1>9, <2>1, <2>2 DEF GrantedFresh
<1>14. ASSUME NEW c \in Callers
       PROVE  /\ Scans(c) => Scans(c)'
              /\ Advertises(c) => Advertises(c)'
              /\ Connects(c) => Connects(c)'
  BY <1>1, <1>4, <1>11, <1>12, <1>13, PlacesKeep
<1>15. Unseen' => Unseen
  BY <1>1 DEF Unseen
<1> QED  BY <1>1, <1>10, <1>14, <1>15 DEF Held

(* As long as no Send times out, every command is answered while its       *)
(* sender waits, and what the controller does is some caller's to end.     *)
LEMMA AttendedStep ==
  TypeOK /\ Numbered /\ Owned /\ Blamed /\ Attended /\ [Next]_vars => Attended'
<1> SUFFICES ASSUME TypeOK, Numbered, Owned, Blamed, Attended, [Next]_vars, Prompt'
             PROVE  Sequential' /\ Held'
  BY DEF Attended
<1>0. blame \subseteq blame'
  BY BlameStep
<1>1. CASE UNCHANGED vars
  <2>1. Prompt /\ Sequential /\ Held
    BY <1>1 DEF Attended, Prompt, vars
  <2> QED  BY <1>1, <2>1
           DEF vars, app, host, snd, Sequential, Held, Unseen, Connects, Scans, Advertises, Unexecuted,
               Granted, GrantedFresh, Sent, Answered, Done, NoneOf, Mine
<1>2. CASE Next
  <2>1. Prompt
    <3>0. nTmo \in Nat
      BY DEF TypeOK, CountType
    <3>1. ASSUME UNCHANGED <<nTmo, dead>>  PROVE Prompt
      BY <3>1 DEF Prompt
    <3>2. ASSUME NEW c, NEW r, SendReturns(c, r)  PROVE Prompt
      BY <3>0, <3>2 DEF SendReturns, Prompt
    <3>3. CASE Die
      BY <3>3 DEF Die, Prompt
    <3>4. CASE \/ \E c \in Callers : SendFrom(c) \/ Walked(c)
               \/ \E op \in bg : BackgroundSend(op)
      BY <3>1, <3>4 DEF SendFrom, Write, Walked, BackgroundSend
    <3>5. CASE CtlExecute \/ CtlConnect \/ CtlConnectFails \/ Reported
      BY <3>1, <3>5 DEF CtlExecute, CtlConnect, CtlConnectFails, CtlEvent, Reported
    <3>6. CASE handleReply \/ handleLEConnectionComplete \/ Noted
      BY <3>1, <3>6 DEF handleReply, handleLEConnectionComplete, Event, Noted
    <3> QED  BY <1>2, <3>2, <3>3, <3>4, <3>5, <3>6, Kinds DEF Returned, BackgroundReturns
  <2>2. Sequential /\ Held
    BY <2>1 DEF Attended
  <2>3. CASE CtlConnect
    <3>1. [type |-> "conn", peer |-> ctl.init] \in Events
      BY <2>3 DEF CtlConnect, TypeOK, CtlType, Events
    <3>2. ctl'.init = None /\ ctl'.scan = ctl.scan /\ ctl'.adv = ctl.adv
      BY <2>3 DEF CtlConnect, TypeOK, CtlType
    <3>3. /\ UNCHANGED <<pc, advEnable, lock, cur, reply, cmds>>
          /\ evq' = Append(evq, [type |-> "conn", peer |-> ctl.init])
      BY <2>3 DEF CtlConnect, CtlEvent, app, host, snd
    <3> QED  BY <1>0, <2>2, <3>1, <3>2, <3>3, QueueHeld
  <2>4. CASE CtlConnectFails
    <3>1. ctl'.init = None /\ ctl'.scan = ctl.scan /\ ctl'.adv = ctl.adv
      BY <2>4 DEF CtlConnectFails, TypeOK, CtlType
    <3>2. UNCHANGED <<pc, advEnable, lock, cur, reply, cmds, evq>>
      BY <2>4 DEF CtlConnectFails, app, host, snd
    <3> QED  BY <1>0, <2>2, <3>1, <3>2, QueueHeld
  <2>5. CASE Reported
    BY <1>0, <2>2, <2>5, QueueHeld DEF Reported, snd
  <2>6. CASE Die
    BY <2>6 DEF Die, Prompt
  <2>7. CASE Noted
    BY <1>0, <2>2, <2>7, TakeHeld DEF Noted, snd
  <2>8. CASE handleLEConnectionComplete
    <3>1. /\ evq # <<>> /\ evq' = Tail(evq) /\ Head(evq).type = "conn"
          /\ UNCHANGED <<advEnable, lock, cur, reply, cmds, ctl>>
      BY <2>8 DEF handleLEConnectionComplete, Event, host, snd
    <3>2. \A c \in Callers : pc'[c] = pc[c] \/ HandOver(c)
      <4>1. ASSUME NEW d \in Callers, HandOver(d), Go(d, "idle")
            PROVE  \A c \in Callers : pc'[c] = pc[c] \/ HandOver(c)
        BY <4>1, GoFrame DEF TypeOK, Places, Frame
      <4> QED  BY <2>8, <4>1 DEF handleLEConnectionComplete, app
    <3> QED  BY <1>0, <2>2, <3>1, <3>2, TakeHeld
  <2>9. CASE BackgroundReturns
    <3>1. nTmo = 0 /\ nTmo' = 0 /\ nTmo' # nTmo + 1 /\ ~dead
      BY <2>1 DEF Prompt
    <3>2. PICK r \in Results : SendReturns("bg", r)
      BY <2>9 DEF BackgroundReturns
    <3>3. lock = "bg" /\ reply # None
      BY <2>9, <3>1, <3>2 DEF BackgroundReturns, SendReturns
    <3>4. lock' = None /\ UNCHANGED <<pc, advEnable, cmds, evq, ctl>>
      BY <2>9, <3>2 DEF BackgroundReturns, SendReturns, app, host
    <3>5. Done /\ NoneOf("reply") /\ cmds = <<>>
      BY <2>2, <3>3, Stages, CallersAssumption DEF Sequential
    <3>6. Sequential'
      BY <3>4, <3>5 DEF Sequential, NoneOf
    <3>7. ASSUME NEW c \in Callers
          PROVE  /\ Scans(c) => Scans(c)'
                 /\ Advertises(c) => Advertises(c)'
                 /\ Connects(c) => Connects(c)'
      <4>1. lock # c /\ Unexecuted(c)' /\ pc'[c] = pc[c]
        BY <3>3, <3>4, NoneAssumption, CallersAssumption DEF Unexecuted
      <4>2. NoneOf("conn") => NoneOf("conn")'
        BY <3>4 DEF NoneOf
      <4> QED  BY <4>1, <4>2 DEF Scans, Advertises, Connects
    <3>8. Unseen' => Unseen
      BY <1>0, <3>4 DEF Unseen
    <3> QED  BY <2>2, <3>4, <3>6, <3>7, <3>8 DEF Held
  <2> QED  BY <1>0, <1>2, <2>1, <2>2, <2>3, <2>4, <2>5, <2>6, <2>7, <2>8, <2>9, Kinds, WriteHeld,
              CallerHeld, ExecuteHeld, ReplyHeld
<1> QED  BY <1>1, <1>2
-----------------------------------------------------------------------------
(* IInv holds initially: no call has been made and the controller is idle. *)
LEMMA Initially == Init => IInv
<1> SUFFICES ASSUME Init  PROVE IInv
  OBVIOUS
<1>1. TypeOK
  <2>1. AppType /\ HostType
    BY DEF Init, AppType, HostType, Places
  <2>2. SendType /\ QueueType
    BY DEF Init, SendType, QueueType
  <2>3. CtlType /\ CountType
    BY DEF Init, CtlType, CountType
  <2> QED  BY <2>1, <2>2, <2>3 DEF TypeOK
<1>2. Numbered /\ Owned
  BY NoneAssumption, CallersAssumption
     DEF Init, Numbered, CmdsRise, RepliesOlder, LatestHeld, Owned
<1>3. \A c \in Callers : pc[c] = "idle"
  BY DEF Init
<1>4. Blamed
  <2>1. {c \in Callers : pc[c] \in InDial} = {} /\ {c \in Callers : pc[c] \in InScan} = {}
    BY <1>3 DEF InDial, InScan
  <2>2. Cardinality({}) = 0
    BY FS_EmptySet
  <2>3. /\ ~(Cardinality({c \in Callers : pc[c] \in InDial}) > 1)
        /\ ~(Cardinality({c \in Callers : pc[c] \in InScan}) > 1)
    BY <2>1, <2>2
  <2>4. reply = None /\ lock # "bg"
    BY CallersAssumption DEF Init
  <2> QED  BY <2>3, <2>4 DEF Blamed, Surprise
<1>5. DialTrue /\ Reconciled
  BY <1>3 DEF Init, DialTrue, Expecting, Promised, Reconciled, Stopped, Ready, Rescanning
<1>6. Attended
  <2>1. Sequential
    BY DEF Init, Sequential, NoneOf
  <2>2. Held
    BY DEF Init, Held, Unseen
  <2> QED  BY <2>1, <2>2 DEF Attended
<1> QED  BY <1>1, <1>2, <1>4, <1>5, <1>6 DEF IInv

(* The inductive invariant: what Send, the controller and the events agree *)
(* on, whichever calls overlap and whichever Sends time out.               *)
THEOREM Invariant == Spec => []IInv
<1>1. IInv /\ [Next]_vars => IInv'
  BY TypeStep, NumberedStep, OwnedStep, BlameStep, DialStep, ScanStep, AttendedStep DEF IInv
<1> QED  BY <1>1, Initially, PTL DEF Spec

(* Type correctness of the calls of gap.go, their Sends, and the queues    *)
(* between host and controller.                                            *)
THEOREM TypeCorrect == Spec => []TypeOK
<1>1. IInv => TypeOK
  BY DEF IInv
<1> QED  BY <1>1, Invariant, PTL

(* Dial returns a client of the peer it was asked for, whatever earlier    *)
(* Dials left behind, unless two Dials overlapped or a Send took another   *)
(* command's reply: for any callers, peers, calls and timeouts.            *)
THEOREM DialsAreTrue == Spec => []PeerIsAsked
<1>1. IInv => PeerIsAsked
  BY DEF IInv, DialTrue, DialClean, PeerIsAsked
<1> QED  BY <1>1, Invariant, PTL

(* Once every call has returned and nothing is left to execute, the        *)
(* controller neither initiates nor scans, and advertises only as the host *)
(* knows or after a stale re-enable, as long as no Send timed out.         *)
THEOREM QuietMeansIdle == Spec => []QuietIsIdle
<1>1. IInv => QuietIsIdle
  <2> SUFFICES ASSUME IInv, \A c \in Callers : pc[c] = "idle", nTmo = 0, ~dead
               PROVE  /\ ctl.init = None /\ ~ctl.scan
                      /\ ctl.adv => advEnable \/ "stale" \in blame
    BY DEF QuietIsIdle
  <2>1. Held
    BY DEF IInv, Attended, Prompt
  <2>2. \A c \in Callers : ~Connects(c) /\ ~Scans(c) /\ ~Advertises(c)
    BY DEF Connects, Scans, Advertises
  <2> QED  BY <2>1, <2>2 DEF Held, Unseen
<1> QED  BY <1>1, Invariant, PTL

(* Scan recovers from an enable that an earlier call abandoned: its second *)
(* enable is granted when it is answered, unless scans overlapped or a     *)
(* Send took another command's reply.                                      *)
THEOREM ScansRecover == Spec => ScanRecovers
<1>1. IInv /\ [Next]_vars =>
        [\A c \in Callers :
           /\ pc[c] = "scan2" /\ pc'[c] \notin {"scan2", "scanning"} /\ lock = c
           /\ reply # None /\ ~dead
           => blame \intersect {"scans", "misread"} # {}]_vars
  BY RescanIsGranted DEF IInv, ScanClean
<1> QED  BY <1>1, Invariant, PTL DEF Spec, ScanRecovers

=============================================================================
