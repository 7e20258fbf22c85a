--------------------------- MODULE AttServerProofs ---------------------------
(***************************************************************************)
(* Proofs about AttServer, for any notifiers, MTUs and bounds: the buffers *)
(* are replaced with the MTU, the notifiers alive are those of the         *)
(* subscriptions, and while the link is up an indication takes only its    *)
(* own confirmation.                                                       *)
(***************************************************************************)
EXTENDS AttServer, SequenceTheorems, WellFoundedInduction, TLAPS

Confirmation == [t : {"conf"}, ind : 0..MaxInds]

(* Where a notifier holds the buffer of its kind, and where an indication  *)
(* of its own is with the peer.                                            *)
Sent == {"sent", "await", "close"}
Holding == {"write"} \cup Sent

TypeOK ==
  /\ link \in {"up", "closing", "down"}
  /\ inq \in Seq(Request \cup Confirmation)
  /\ pending \in SUBSET (0..MaxInds)
  /\ asking \in BOOLEAN /\ strayed \in BOOLEAN /\ half \in BOOLEAN
  /\ rd \in {"read", "seq", "close", "exit"}
  /\ rd = "seq" => rreq \in Request
  /\ hd \in {"idle", "mtuNot", "mtuInd", "cmd", "rsp", "done", "panic"}
  /\ txMTU \in MTUs /\ txBuf \in MTUs
  /\ free \in [Kinds -> Nat]
  /\ chConfirm \in Seq([ind : 0..MaxInds, idle : BOOLEAN]) /\ Len(chConfirm) <= 1
  /\ props \in SUBSET Kinds
  /\ ccc \in SUBSET Kinds
  /\ cur \in [Kinds -> Notifiers \cup {None}]
  /\ pc \in [Notifiers -> {"off", "idle", "get"} \cup Holding]
  /\ kind \in [Notifiers -> Kinds]
  /\ open \in [Notifiers -> BOOLEAN]
  /\ buf \in [Notifiers -> Nat]
  /\ ind \in [Notifiers -> 0..MaxInds]
  /\ count \in 0..MaxInds

(* There is one buffer of each kind: in its channel, or with one notifier. *)
OneBuffer ==
  /\ \A n \in Notifiers :
       /\ pc[n] \in Holding <=> buf[n] # 0
       /\ buf[n] # 0 => free[kind[n]] = 0
       /\ pc[n] \in Sent => kind[n] = "ind"
  /\ \A m, n \in Notifiers :
       pc[m] \in Holding /\ pc[n] \in Holding /\ kind[m] = kind[n] => m = n

(* The handler replaces the buffers one after the other. *)
Follows(k) ==
  /\ free[k] \in {0, txMTU}
  /\ \A n \in Notifiers : kind[n] = k => buf[n] \in {0, txMTU}
Replaced ==
  /\ txBuf = txMTU
  /\ hd \notin {"mtuNot", "mtuInd"} => Follows("ntf") /\ Follows("ind")
  /\ hd = "mtuInd" => Follows("ntf")

(* The subscriptions have notifiers of their own, whose goroutines run. *)
OwnNotifiers ==
  /\ \A n \in Notifiers : open[n] => pc[n] # "off"
  /\ ~half => /\ \A k \in ccc : cur[k] \in Notifiers
              /\ \A j, k \in ccc : cur[j] = cur[k] => j = k

(* An entry that met no indication is gone when one waits. *)
Drained == \A n \in IndsPastDrain : chConfirm # <<>> => ~chConfirm[1].idle

(* Where a confirmation of indication i may be. *)
AtPeer(i) == i \in pending
Queued(i, j) == inq[j].t = "conf" /\ inq[j].ind = i
Parked(i) == chConfirm # <<>> /\ chConfirm[1].ind = i

Awaited(i) == \E n \in Notifiers : pc[n] \in Sent /\ ind[n] = i

(* A confirmation of i is in one place at most, and i awaits it. *)
Traced(i) ==
  /\ Parked(i) => Awaited(i)
  /\ ~Closed /\ AtPeer(i) => Awaited(i) /\ ~Parked(i)
  /\ \A j \in 1..Len(inq) : Queued(i, j) =>
       /\ Awaited(i) /\ ~AtPeer(i) /\ ~Parked(i)
       /\ \A l \in 1..Len(inq) : Queued(i, l) => j = l

(* From a peer that confirms what it receives, over a link that is up, a   *)
(* confirmation comes once and for the indication that awaits it.          *)
Confirmations == link = "up" /\ ~strayed => \A i \in 0..MaxInds : Traced(i)

NothingRead == Closed => inq = <<>>

IInv == /\ TypeOK /\ OneBuffer /\ Replaced /\ OwnNotifiers /\ SubscriptionsMatch
        /\ Drained /\ Confirmations /\ NothingRead
-----------------------------------------------------------------------------
(* The default MTU is one of the MTUs: a set of naturals has a least one. *)
LEMMA DefaultIsMTU == DefaultMTU \in MTUs
<1> DEFINE less == {p \in Nat \X Nat : p[1] < p[2]}
<1>1. IsWellFoundedOn(less, Nat)
  <2>1. less = OpToRel(<, Nat)
    BY DEF OpToRel
  <2> QED  BY <2>1, NatLessThanWellFounded
<1>2. \E m \in MTUs : \A k \in MTUs : <<k, m>> \notin less
  <2> HIDE DEF less
  <2> QED  BY <1>1, WFMin, MTUAssumption
<1>3. \A k, m \in Nat : <<k, m>> \in less <=> k < m
  OBVIOUS
<1>4. \E m \in MTUs : \A k \in MTUs : m <= k
  <2> HIDE DEF less
  <2>1. PICK m \in MTUs : \A k \in MTUs : <<k, m>> \notin less
    BY <1>2
  <2>2. ASSUME NEW k \in MTUs  PROVE m <= k
    <3>1. k \in Nat /\ m \in Nat
      BY MTUAssumption
    <3>2. ~(k < m)
      BY <1>3, <2>1, <3>1, Zenon
    <3> QED  BY <3>1, <3>2
  <2> QED  BY <2>2
<1> QED  BY <1>4 DEF DefaultMTU

(* The MTU the server adopts is one of the MTUs. *)
LEMMA ClampIsMTU == \A m \in MTUs : Clamp(m) \in MTUs
  BY MTUAssumption DEF Clamp

(* The steps, by who takes them. *)
ReaderStep == ReadConfirmation \/ ReadRequest \/ ReadFails \/ ReaderCloses
HandlerStep ==
  \/ HandleRequest \/ HandleCCCD \/ ShortCCCD \/ handleExchangeMTURequest
  \/ ReplaceBuf("ntf", "mtuNot", "mtuInd") \/ ReplaceBuf("ind", "mtuInd", "rsp")
  \/ Respond \/ Cleanup
PeerStep ==
  \/ (\E r \in Request : PeerRequest(r) \/ PeerCommand(r))
  \/ (\E i \in 0..MaxInds : PeerConfirms(i)) \/ Disconnected
NotifierStep(n) ==
  \/ Call(n) \/ GetBuf(n) \/ WriteValue(n) \/ WriteFails(n) \/ Select(n) \/ Confirmed(n)
  \/ ConfirmClosed(n) \/ Timeout(n) \/ TimeoutCloses(n) \/ Ends(n)

(* The steps of the next-state relation. *)
LEMMA NextCases ==
  ASSUME [Next]_vars
  PROVE  \/ ReaderStep \/ HandlerStep \/ PeerStep \/ UNCHANGED vars
         \/ \E n \in Notifiers : NotifierStep(n)
  BY DEF Next, Reader, ReadEOF, ReadTooLong, Handler, Peer, Notifies, ReaderStep, HandlerStep,
         PeerStep, NotifierStep

(* What a CCCD write does to the notifiers. *)
LEMMA WriteDoes ==
  ASSUME TypeOK, NEW new \in SUBSET Kinds, NEW fresh \in [Started(new) -> Off],
         WriteCCCD(new, fresh)
  PROVE  /\ \A k \in Started(new) : fresh[k] \in Notifiers /\ pc[fresh[k]] = "off" /\ k \in Kinds
         /\ ccc' \in SUBSET Kinds /\ half' \in BOOLEAN
         /\ cur' \in [Kinds -> Notifiers \cup {None}]
         /\ kind' \in [Notifiers -> Kinds] /\ open' \in [Notifiers -> BOOLEAN]
         /\ pc' \in [Notifiers -> {"off", "idle", "get"} \cup Holding]
         /\ \A n \in Notifiers : \/ pc'[n] = pc[n] /\ kind'[n] = kind[n]
                                 \/ pc[n] = "off" /\ pc'[n] = "idle"
<1>1. ASSUME NEW k \in Started(new)
      PROVE  fresh[k] \in Notifiers /\ pc[fresh[k]] = "off" /\ k \in Kinds
  BY DEF Off, Started, Starts
<1>2. ccc' \in SUBSET Kinds
  BY DEF WriteCCCD, TypeOK
<1>3. half' \in BOOLEAN
  <2> DEFINE acted == Refused(new) # {} /\ (Starts(new) \cup Stops(new)) \cap Acts(new) # {}
  <2>1. half' = (half \/ acted)
    BY DEF WriteCCCD
  <2> HIDE DEF acted
  <2> QED  BY <2>1, Zenon DEF TypeOK
<1>4. cur' \in [Kinds -> Notifiers \cup {None}]
  BY <1>1 DEF WriteCCCD, TypeOK
<1> DEFINE started == {fresh[k] : k \in Started(new)}
<1>5. \A n \in started : pc[n] = "off"
  BY <1>1
<1>6. kind' \in [Notifiers -> Kinds]
  <2>1. ASSUME NEW n \in started  PROVE (CHOOSE k \in Started(new) : fresh[k] = n) \in Kinds
    <3>1. \E k \in Started(new) : fresh[k] = n
      OBVIOUS
    <3>2. (CHOOSE k \in Started(new) : fresh[k] = n) \in Started(new)
      BY <3>1
    <3> QED  BY <1>1, <3>2
  <2>2. kind' = [n \in Notifiers |-> IF n \in started
                                     THEN CHOOSE k \in Started(new) : fresh[k] = n ELSE kind[n]]
    BY DEF WriteCCCD
  <2> HIDE DEF started
  <2> QED  BY <2>1, <2>2 DEF TypeOK
<1>7. /\ open' \in [Notifiers -> BOOLEAN]
      /\ pc' = [n \in Notifiers |-> IF n \in started THEN "idle" ELSE pc[n]]
      /\ \A n \in Notifiers \ started : kind'[n] = kind[n]
  BY DEF WriteCCCD
<1> HIDE DEF started
<1>8. pc' \in [Notifiers -> {"off", "idle", "get"} \cup Holding]
  BY <1>7 DEF TypeOK
<1>9. ASSUME NEW n \in Notifiers
      PROVE  \/ pc'[n] = pc[n] /\ kind'[n] = kind[n]
             \/ pc[n] = "off" /\ pc'[n] = "idle"
  <2>1. CASE n \in started
    BY <1>5, <1>7, <2>1
  <2>2. CASE n \notin started
    BY <1>7, <2>2
  <2> QED  BY <2>1, <2>2
<1> QED  BY <1>1, <1>2, <1>3, <1>4, <1>6, <1>7, <1>8, <1>9

(* The PDU that the handler receives, and the flags of a CCCD write. *)
LEMMA Received ==
  ASSUME TypeOK, NEW T, Receives(T)
  PROVE  /\ rreq \in Request /\ rd' = "read"
         /\ rreq.t = "mtu" => rreq.mtu \in MTUs
         /\ rreq.t \in CCCDWrites => rreq.flags \in SUBSET Kinds
  BY DEF TypeOK, Receives, Request, CCCDWrites

(* The reader keeps the types. *)
LEMMA ReaderType ==
  ASSUME TypeOK, ReaderStep
  PROVE  TypeOK'
<1> USE DEF peerVars, rdVars, mtuVars, subVars, sendVars
<1> DEFINE PDU == Request \cup Confirmation
           Entry == [ind : 0..MaxInds, idle : BOOLEAN]
<1>0. inq # <<>> => Head(inq) \in PDU /\ Tail(inq) \in Seq(PDU)
  BY DEF TypeOK
<1> HIDE DEF PDU
<1>1. CASE ReadConfirmation
  <2>1. inq' \in Seq(PDU) /\ Head(inq) \in PDU /\ Head(inq).t = "conf"
    BY <1>0, <1>1 DEF ReadConfirmation, Reads
  <2>2. Head(inq).ind \in 0..MaxInds
    BY <2>1 DEF PDU, Request, Confirmation, CCCDWrites
  <2> DEFINE e == [ind |-> Head(inq).ind, idle |-> IndsPastDrain = {}]
  <2>3. e \in Entry
    BY <2>2
  <2>4. chConfirm' = <<e>> \/ chConfirm' = chConfirm
    BY <1>1 DEF ReadConfirmation
  <2> HIDE DEF e, Entry
  <2>5. <<e>> \in Seq(Entry) /\ Len(<<e>>) = 1
    BY <2>3
  <2>6. chConfirm \in Seq(Entry) /\ Len(chConfirm) <= 1
    BY DEF TypeOK, Entry
  <2>7. chConfirm' \in Seq(Entry)
    BY <2>4, <2>5, <2>6
  <2>8. Len(chConfirm') <= 1
    <3>1. CASE chConfirm' = <<e>>
      BY <2>5, <3>1
    <3> QED  BY <2>4, <2>6, <3>1
  <2> QED  BY <1>1, <2>1, <2>7, <2>8 DEF ReadConfirmation, TypeOK, PDU, Entry
<1>2. CASE ReadRequest
  <2>1. inq' \in Seq(PDU) /\ Head(inq) \in PDU /\ Head(inq).t # "conf"
    BY <1>0, <1>2 DEF ReadRequest, Reads, CCCDWrites
  <2>2. rreq' \in Request
    BY <1>2, <2>1 DEF ReadRequest, PDU, Confirmation
  <2> QED  BY <1>2, <2>1, <2>2 DEF ReadRequest, TypeOK, PDU
<1>3. CASE ReadFails
  <2>1. inq' \in Seq(PDU)
    BY <1>3 DEF ReadFails
  <2> QED  BY <1>3, <2>1 DEF ReadFails, TypeOK, PDU
<1>4. CASE ReaderCloses
  BY <1>4 DEF ReaderCloses, CloseConn, TypeOK
<1> QED  BY <1>1, <1>2, <1>3, <1>4 DEF ReaderStep

(* The handler keeps the types. *)
LEMMA HandlerType ==
  ASSUME TypeOK, HandlerStep
  PROVE  TypeOK'
<1> USE DEF peerVars, rdVars, mtuVars, subVars, sendVars
<1>1. CASE HandleRequest
  BY <1>1 DEF HandleRequest, Receives, TypeOK
<1>7. CASE ShortCCCD
  BY <1>7 DEF ShortCCCD, Receives, TypeOK
<1>2. CASE HandleCCCD
  <2>1. rreq.flags \in SUBSET Kinds
    BY <1>2, Received DEF HandleCCCD, Receives
  <2>2. PICK fresh \in [Started(rreq.flags) -> Off] : WriteCCCD(rreq.flags, fresh)
    BY <1>2 DEF HandleCCCD
  <2>3. /\ ccc' \in SUBSET Kinds /\ half' \in BOOLEAN
        /\ cur' \in [Kinds -> Notifiers \cup {None}]
        /\ kind' \in [Notifiers -> Kinds] /\ open' \in [Notifiers -> BOOLEAN]
        /\ pc' \in [Notifiers -> {"off", "idle", "get"} \cup Holding]
    BY <2>1, <2>2, WriteDoes
  <2> QED  BY <1>2, <2>3 DEF HandleCCCD, Receives, TypeOK
<1>3. CASE handleExchangeMTURequest
  <2>1. rreq.mtu \in MTUs
    BY <1>3, Received DEF handleExchangeMTURequest, Receives
  <2> QED  BY <1>3, <2>1, ClampIsMTU DEF handleExchangeMTURequest, Receives, TypeOK
<1>4. CASE ReplaceBuf("ntf", "mtuNot", "mtuInd") \/ ReplaceBuf("ind", "mtuInd", "rsp")
  <2>1. txMTU \in Nat
    BY MTUAssumption DEF TypeOK
  <2>2. free' \in [Kinds -> Nat] /\ hd' \in {"mtuInd", "rsp"}
    BY <1>4, <2>1 DEF ReplaceBuf, TypeOK
  <2>3. UNCHANGED <<link, inq, peerVars, rdVars, mtuVars, chConfirm, subVars, sendVars>>
    BY <1>4 DEF ReplaceBuf
  <2> QED  BY <2>2, <2>3 DEF TypeOK
<1>5. CASE Respond
  BY <1>5 DEF Respond, TypeOK
<1>6. CASE Cleanup
  BY <1>6 DEF Cleanup, TypeOK
<1> QED  BY <1>1, <1>2, <1>3, <1>4, <1>5, <1>6, <1>7 DEF HandlerStep

(* The peer and the link keep the types. *)
LEMMA PeerType ==
  ASSUME TypeOK, PeerStep
  PROVE  TypeOK'
<1> USE DEF peerVars, rdVars, mtuVars, subVars, sendVars
<1> DEFINE PDU == Request \cup Confirmation
<1>0. inq \in Seq(PDU)
  BY DEF TypeOK
<1>1. ASSUME NEW r \in Request, PeerRequest(r) \/ PeerCommand(r)  PROVE TypeOK'
  <2>1. inq' \in Seq(PDU)
    <3>1. r \in PDU /\ inq' = Append(inq, r)
      BY <1>1 DEF PeerRequest, PeerCommand, Arrives
    <3> HIDE DEF PDU
    <3> QED  BY <1>0, <3>1
  <2>2. /\ UNCHANGED <<link, pending, strayed, rdVars, hd, mtuVars, free, chConfirm, subVars,
                       sendVars>>
        /\ asking' \in BOOLEAN
    BY <1>1 DEF PeerRequest, PeerCommand, TypeOK
  <2> HIDE DEF PDU
  <2> QED  BY <2>1, <2>2 DEF TypeOK, PDU
<1>3. ASSUME NEW i \in 0..MaxInds, PeerConfirms(i)  PROVE TypeOK'
  <2> DEFINE p == [t |-> "conf", ind |-> i]
  <2>1. p \in PDU
    BY DEF Confirmation
  <2>2. inq' = Append(inq, p)
    BY <1>3 DEF PeerConfirms, Arrives
  <2> HIDE DEF PDU, p
  <2>3. inq' \in Seq(PDU)
    BY <1>0, <2>1, <2>2
  <2>4. strayed' \in BOOLEAN /\ pending' \in SUBSET (0..MaxInds)
    BY <1>3 DEF PeerConfirms, TypeOK
  <2> QED  BY <1>3, <2>3, <2>4 DEF PeerConfirms, TypeOK, PDU
<1>4. CASE Disconnected
  BY <1>4 DEF Disconnected, TypeOK
<1> QED  BY <1>1, <1>3, <1>4 DEF PeerStep

(* The return of notify and indicate keeps the types. *)
LEMMA ReturnType ==
  ASSUME TypeOK, NEW n \in Notifiers, Return(n)
  PROVE  /\ pc' \in [Notifiers -> {"off", "idle", "get"} \cup Holding]
         /\ free' \in [Kinds -> Nat] /\ buf' \in [Notifiers -> Nat]
         /\ ind' \in [Notifiers -> 0..MaxInds]
<1>1. 0 \in 0..MaxInds
  BY BoundsAssumption
<1> QED  BY <1>1 DEF Return, Goto, TypeOK

(* A notifier changes its own state, the buffers and chConfirm. *)
SenderType ==
  /\ pc \in [Notifiers -> {"off", "idle", "get"} \cup Holding]
  /\ free \in [Kinds -> Nat] /\ buf \in [Notifiers -> Nat]
  /\ ind \in [Notifiers -> 0..MaxInds] /\ count \in 0..MaxInds
LinkType ==
  /\ link \in {"up", "closing", "down"} /\ pending \in SUBSET (0..MaxInds)
  /\ chConfirm \in Seq([ind : 0..MaxInds, idle : BOOLEAN]) /\ Len(chConfirm) <= 1

(* A step that types these, and leaves the rest alone, keeps TypeOK. *)
LEMMA SenderKeepsType ==
  ASSUME TypeOK, SenderType', LinkType',
         UNCHANGED <<inq, asking, strayed, rdVars, hd, mtuVars, subVars>>
  PROVE  TypeOK'
<1>1. UNCHANGED <<inq, asking, strayed, rd, rreq, hd, txMTU, txBuf, props, ccc, cur, half,
                  kind, open>>
  BY DEF rdVars, mtuVars, subVars
<1> QED  BY <1>1 DEF TypeOK, SenderType, LinkType

(* The notifiers keep the types. *)
LEMMA NotifierType ==
  ASSUME TypeOK, NEW n \in Notifiers, NotifierStep(n)
  PROVE  TypeOK'
<1>0. SenderType /\ LinkType
  BY DEF TypeOK, SenderType, LinkType
<1>l. UNCHANGED <<link, pending, chConfirm>> => LinkType'
  BY <1>0 DEF LinkType
<1>r. Return(n) /\ UNCHANGED count => SenderType'
  BY <1>0, ReturnType DEF SenderType
<1>c. chConfirm' = <<>> /\ UNCHANGED <<link, pending>> => LinkType'
  <2>1. /\ <<>> \in Seq([ind : 0..MaxInds, idle : BOOLEAN]) /\ Len(<<>>) <= 1
    OBVIOUS
  <2> QED  BY <1>0, <2>1 DEF LinkType
<1>g. ASSUME NEW l \in {"off", "idle", "get"} \cup Holding, Goto(n, l)
      PROVE  pc' \in [Notifiers -> {"off", "idle", "get"} \cup Holding]
  BY <1>0, <1>g DEF Goto, SenderType
<1>1. CASE Call(n)
  <2>1. count' \in 0..MaxInds /\ ind' \in [Notifiers -> 0..MaxInds]
    BY <1>0, <1>1, BoundsAssumption DEF Call, SenderType
  <2>2. SenderType'
    BY <1>0, <1>1, <1>g, <2>1 DEF Call, SenderType
  <2> QED  BY <1>1, <1>l, <2>2, SenderKeepsType DEF Call, peerVars
<1>2. CASE GetBuf(n)
  <2>1. LinkType'
    BY <1>2, <1>c, <1>l DEF GetBuf, peerVars
  <2>2. buf' \in [Notifiers -> Nat] /\ free' \in [Kinds -> Nat]
    <3>1. kind[n] \in Kinds /\ free[kind[n]] \in Nat
      BY DEF TypeOK
    <3> QED  BY <1>0, <1>2, <3>1 DEF GetBuf, SenderType
  <2>3. pc' \in [Notifiers -> {"off", "idle", "get"} \cup Holding]
    BY <1>2, <1>g DEF GetBuf, Holding
  <2>4. SenderType'
    BY <1>0, <1>2, <2>2, <2>3 DEF GetBuf, SenderType
  <2> QED  BY <1>2, <2>1, <2>4, SenderKeepsType DEF GetBuf, peerVars
<1>3. CASE WriteValue(n)
  <2>1. CASE kind[n] = "ind"
    <3>1. pending' \in SUBSET (0..MaxInds)
      <4>1. ind[n] \in 0..MaxInds /\ pending \in SUBSET (0..MaxInds)
        BY DEF TypeOK
      <4>2. pending' = pending \cup {ind[n]}
        BY <1>3, <2>1 DEF WriteValue
      <4> QED  BY <4>1, <4>2
    <3>2. LinkType'
      BY <1>0, <1>3, <3>1 DEF WriteValue, LinkType
    <3>3. pc' \in [Notifiers -> {"off", "idle", "get"} \cup Holding]
      BY <1>3, <1>g, <2>1 DEF WriteValue, Holding, Sent
    <3>4. SenderType'
      BY <1>0, <1>3, <2>1, <3>3 DEF WriteValue, SenderType
    <3> QED  BY <1>3, <3>2, <3>4, SenderKeepsType DEF WriteValue
  <2>2. CASE kind[n] # "ind"
    BY <1>3, <1>l, <1>r, <2>2, SenderKeepsType DEF WriteValue
  <2> QED  BY <2>1, <2>2
<1>4. CASE WriteFails(n) \/ ConfirmClosed(n)
  BY <1>4, <1>l, <1>r, SenderKeepsType DEF WriteFails, ConfirmClosed, peerVars
<1>5. CASE Confirmed(n)
  BY <1>5, <1>c, <1>r, SenderKeepsType DEF Confirmed, peerVars
<1>6. CASE TimeoutCloses(n)
  <2>1. LinkType'
    BY <1>0, <1>6 DEF TimeoutCloses, CloseConn, peerVars, LinkType
  <2> QED  BY <1>6, <1>r, <2>1, SenderKeepsType DEF TimeoutCloses, peerVars
<1>7. CASE Select(n) \/ Timeout(n)
  <2>1. pc' \in [Notifiers -> {"off", "idle", "get"} \cup Holding]
    BY <1>7, <1>g DEF Select, Timeout, Holding, Sent
  <2>2. SenderType'
    BY <1>0, <1>7, <2>1 DEF Select, Timeout, SenderType
  <2> QED  BY <1>7, <1>l, <2>2, SenderKeepsType DEF Select, Timeout, peerVars
<1>8. CASE Ends(n)
  BY <1>8 DEF Ends, Goto, TypeOK, Kinds, peerVars, rdVars, mtuVars
<1> QED  BY <1>1, <1>2, <1>3, <1>4, <1>5, <1>6, <1>7, <1>8 DEF NotifierStep

(* Type correctness is preserved by every step. *)
LEMMA TypeStep == TypeOK /\ [Next]_vars => TypeOK'
<1> SUFFICES ASSUME TypeOK, [Next]_vars  PROVE TypeOK'
  OBVIOUS
<1>1. CASE UNCHANGED vars
  BY <1>1 DEF vars, peerVars, rdVars, mtuVars, subVars, sendVars, TypeOK
<1> QED  BY <1>1, NextCases, ReaderType, HandlerType, PeerType, NotifierType
-----------------------------------------------------------------------------
(* The return of a holder gives its buffer back. *)
LEMMA ReturnBuffer ==
  ASSUME TypeOK, OneBuffer, Replaced, NEW n \in Notifiers, pc[n] \in Holding, Return(n),
         UNCHANGED <<hd, txMTU, txBuf, kind>>
  PROVE  OneBuffer' /\ Replaced'
<1>1. /\ pc' = [pc EXCEPT ![n] = "idle"] /\ buf' = [buf EXCEPT ![n] = 0]
      /\ free' = [free EXCEPT ![kind[n]] = buf[n]]
  BY DEF Return, Goto
<1>2. kind[n] \in Kinds /\ buf[n] # 0
  BY DEF TypeOK, OneBuffer
<1>3. \A m \in Notifiers \ {n} : buf[m] # 0 => kind[m] # kind[n]
  BY DEF OneBuffer
<1>4. "idle" \notin Holding /\ "idle" \notin Sent
  BY DEF Holding, Sent
<1>5. OneBuffer'
  BY <1>1, <1>2, <1>3, <1>4 DEF OneBuffer, TypeOK
<1>6. \A k \in Kinds : Follows(k) => Follows(k)'
  BY <1>1, <1>2 DEF Follows, TypeOK
<1>7. Replaced'
  BY <1>6 DEF Replaced, Kinds
<1> QED  BY <1>5, <1>7

(* Every step keeps the buffers: a notifier takes the buffer of its kind,  *)
(* keeps it to its return, and gives the same one back; the handler can    *)
(* replace a buffer only while no notifier has it.                         *)
LEMMA BufferStep == TypeOK /\ OneBuffer /\ Replaced /\ [Next]_vars => OneBuffer' /\ Replaced'
<1> SUFFICES ASSUME TypeOK, OneBuffer, Replaced, [Next]_vars  PROVE OneBuffer' /\ Replaced'
  OBVIOUS
<1> USE DEF peerVars, rdVars, mtuVars, subVars, sendVars
<1>0. "ntf" \in Kinds /\ "ind" \in Kinds
  BY DEF Kinds
<1>1. ASSUME UNCHANGED <<free, buf, txMTU, txBuf>>,
             \A n \in Notifiers : \/ pc'[n] = pc[n] /\ kind'[n] = kind[n]
                                  \/ buf[n] = 0 /\ pc'[n] \notin Holding,
             hd' \in {"mtuNot", "mtuInd"} => hd' = hd,
             hd \in {"mtuNot", "mtuInd"} => hd' = hd
      PROVE  OneBuffer' /\ Replaced'
  <2>1. Sent \subseteq Holding
    BY DEF Holding
  <2>2. \A n \in Notifiers : buf[n] # 0 => pc'[n] = pc[n] /\ kind'[n] = kind[n]
    BY <1>1
  <2>3. OneBuffer'
    BY <1>1, <2>1, <2>2 DEF OneBuffer
  <2>4. \A k \in Kinds : Follows(k) => Follows(k)'
    BY <1>1, <2>2 DEF Follows
  <2> QED  BY <1>0, <1>1, <2>3, <2>4 DEF Replaced
<1>2. CASE \/ ReaderStep \/ PeerStep \/ HandleRequest \/ ShortCCCD \/ Respond \/ Cleanup
           \/ UNCHANGED vars
  <2>1. UNCHANGED <<free, buf, txMTU, txBuf, pc, kind>>
    BY <1>2 DEF ReaderStep, ReadConfirmation, ReadRequest, ReadFails, ReaderCloses, PeerStep,
       PeerRequest, PeerCommand, PeerConfirms, Disconnected, HandleRequest, ShortCCCD, Respond,
       Cleanup, vars
  <2>2. \/ hd' = hd
        \/ hd \in {"idle", "rsp", "cmd"} /\ hd' \in {"idle", "rsp", "cmd", "done", "panic"}
    <3>1. CASE ReaderStep \/ PeerStep \/ UNCHANGED vars
      BY <3>1 DEF ReaderStep, ReadConfirmation, ReadRequest, ReadFails, ReaderCloses, PeerStep,
         PeerRequest, PeerCommand, PeerConfirms, Disconnected, vars
    <3>2. CASE HandleRequest \/ ShortCCCD \/ Respond \/ Cleanup
      BY <3>2 DEF HandleRequest, ShortCCCD, Receives, Respond, Cleanup
    <3> QED  BY <1>2, <3>1, <3>2
  <2>3. /\ hd' \in {"mtuNot", "mtuInd"} => hd' = hd
        /\ hd \in {"mtuNot", "mtuInd"} => hd' = hd
    BY <2>2
  <2>4. \A n \in Notifiers : \/ pc'[n] = pc[n] /\ kind'[n] = kind[n]
                             \/ buf[n] = 0 /\ pc'[n] \notin Holding
    BY <2>1
  <2> QED  BY <1>1, <2>1, <2>3, <2>4
<1>3. CASE HandleCCCD
  <2>1. rreq.flags \in SUBSET Kinds
    BY <1>3, Received DEF HandleCCCD, Receives
  <2>2. PICK fresh \in [Started(rreq.flags) -> Off] : WriteCCCD(rreq.flags, fresh)
    BY <1>3 DEF HandleCCCD
  <2>3. \A n \in Notifiers : \/ pc'[n] = pc[n] /\ kind'[n] = kind[n]
                             \/ pc[n] = "off" /\ pc'[n] = "idle"
    BY <2>1, <2>2, WriteDoes
  <2>4. \A n \in Notifiers : \/ pc'[n] = pc[n] /\ kind'[n] = kind[n]
                             \/ buf[n] = 0 /\ pc'[n] \notin Holding
    BY <2>3 DEF OneBuffer, Holding, Sent
  <2>5. UNCHANGED <<free, buf, txMTU, txBuf>> /\ hd = "idle" /\ hd' \in {"rsp", "cmd"}
    BY <1>3 DEF HandleCCCD, Receives
  <2> QED  BY <1>1, <2>4, <2>5
<1>4. CASE handleExchangeMTURequest
  <2> DEFINE m == Clamp(rreq.mtu)
  <2>1. /\ UNCHANGED <<free, buf, pc, kind>> /\ hd = "idle"
        /\ txMTU' = m /\ txBuf' = m
        /\ hd' = IF m # txBuf THEN "mtuNot" ELSE "rsp"
    BY <1>4 DEF handleExchangeMTURequest, Receives
  <2> HIDE DEF m
  <2>2. OneBuffer'
    BY <2>1 DEF OneBuffer
  <2>3. CASE m = txBuf
    <3>1. txMTU' = txMTU /\ Follows("ntf") /\ Follows("ind")
      BY <2>1, <2>3 DEF Replaced
    <3>2. Follows("ntf")' /\ Follows("ind")'
      BY <2>1, <3>1 DEF Follows
    <3> QED  BY <2>1, <2>2, <3>2 DEF Replaced
  <2>4. CASE m # txBuf
    <3>1. hd' = "mtuNot" /\ txBuf' = txMTU'
      BY <2>1, <2>4
    <3> QED  BY <2>2, <3>1 DEF Replaced
  <2> QED  BY <2>2, <2>3, <2>4
<1>5. ASSUME NEW k \in Kinds, NEW from, NEW to, ReplaceBuf(k, from, to)
      PROVE  OneBuffer' /\ Follows(k)' /\ \A j \in Kinds : Follows(j) => Follows(j)'
  <2>1. /\ UNCHANGED <<buf, pc, kind, txMTU, txBuf>> /\ free[k] # 0
        /\ free' = [free EXCEPT ![k] = txMTU]
    BY <1>5 DEF ReplaceBuf
  <2>2. \A n \in Notifiers : kind[n] = k => buf[n] = 0
    BY <2>1 DEF OneBuffer
  <2>3. OneBuffer'
    BY <2>1, <2>2 DEF OneBuffer, TypeOK
  <2>4. Follows(k)'
    BY <2>1, <2>2 DEF Follows, TypeOK
  <2>5. \A j \in Kinds : Follows(j) => Follows(j)'
    BY <2>1 DEF Follows, TypeOK
  <2> QED  BY <2>3, <2>4, <2>5
<1>6. CASE ReplaceBuf("ntf", "mtuNot", "mtuInd")
  <2>1. hd' = "mtuInd" /\ UNCHANGED <<txMTU, txBuf>>
    BY <1>6 DEF ReplaceBuf
  <2> QED  BY <1>0, <1>5, <1>6, <2>1 DEF Replaced
<1>7. CASE ReplaceBuf("ind", "mtuInd", "rsp")
  <2>1. hd = "mtuInd" /\ hd' = "rsp" /\ UNCHANGED <<txMTU, txBuf>>
    BY <1>7 DEF ReplaceBuf
  <2> QED  BY <1>0, <1>5, <1>7, <2>1 DEF Replaced
<1>8. ASSUME NEW n \in Notifiers, NotifierStep(n)  PROVE OneBuffer' /\ Replaced'
  <2>1. CASE Call(n) \/ Ends(n)
    <3>1. /\ UNCHANGED <<free, buf, txMTU, txBuf, hd>> /\ pc[n] = "idle"
          /\ pc'[n] \in {"get", "off"}
          /\ \A m \in Notifiers \ {n} : pc'[m] = pc[m] /\ kind'[m] = kind[m]
      BY <2>1 DEF Call, Ends, Goto, TypeOK
    <3>2. buf[n] = 0 /\ pc'[n] \notin Holding
      BY <3>1 DEF OneBuffer, Holding, Sent
    <3> QED  BY <1>1, <3>1, <3>2
  <2>2. CASE GetBuf(n)
    <3>1. /\ pc[n] = "get" /\ free[kind[n]] # 0 /\ pc' = [pc EXCEPT ![n] = "write"]
          /\ buf' = [buf EXCEPT ![n] = free[kind[n]]] /\ free' = [free EXCEPT ![kind[n]] = 0]
          /\ UNCHANGED <<kind, hd, txMTU, txBuf>>
      BY <2>2 DEF GetBuf, Goto
    <3>2. \A m \in Notifiers : kind[m] = kind[n] => buf[m] = 0
      BY <3>1 DEF OneBuffer
    <3>3. "write" \in Holding /\ "write" \notin Sent /\ kind[n] \in Kinds
      BY DEF Holding, Sent, TypeOK
    <3>4. OneBuffer'
      BY <3>1, <3>2, <3>3 DEF OneBuffer, TypeOK
    <3>5. \A k \in Kinds : Follows(k) => Follows(k)'
      BY <3>1, <3>3 DEF Follows, TypeOK
    <3> QED  BY <1>0, <3>1, <3>4, <3>5 DEF Replaced
  <2>3. CASE (WriteValue(n) /\ kind[n] = "ind") \/ Select(n) \/ Timeout(n)
    <3>1. /\ UNCHANGED <<free, buf, kind, hd, txMTU, txBuf>>
          /\ pc[n] \in Holding /\ kind[n] = "ind"
          /\ \E l \in Sent : pc' = [pc EXCEPT ![n] = l]
      BY <2>3 DEF WriteValue, Select, Timeout, Goto, Holding, Sent, OneBuffer
    <3>2. Sent \subseteq Holding
      BY DEF Holding
    <3>3. OneBuffer'
      BY <3>1, <3>2 DEF OneBuffer, TypeOK
    <3>4. Replaced'
      BY <3>1 DEF Replaced, Follows
    <3> QED  BY <3>3, <3>4
  <2>4. CASE \/ (WriteValue(n) /\ kind[n] # "ind") \/ WriteFails(n) \/ Confirmed(n)
             \/ ConfirmClosed(n) \/ TimeoutCloses(n)
    <3>1. Return(n) /\ UNCHANGED <<hd, txMTU, txBuf, kind>> /\ pc[n] \in Holding
      BY <2>4 DEF WriteValue, WriteFails, Confirmed, ConfirmClosed, TimeoutCloses, Holding, Sent
    <3> QED  BY <3>1, ReturnBuffer
  <2> QED  BY <1>8, <2>1, <2>2, <2>3, <2>4 DEF NotifierStep
<1> QED  BY NextCases, <1>2, <1>3, <1>4, <1>6, <1>7, <1>8 DEF HandlerStep
-----------------------------------------------------------------------------
(* A CCCD write that is not refused half way keeps the notifiers and the   *)
(* subscriptions together: it starts a fresh one for every kind added and  *)
(* closes the one of every kind taken away.                                *)
LEMMA WriteMatches ==
  ASSUME TypeOK, OwnNotifiers, SubscriptionsMatch, hd = "idle", hd' # "done",
         NEW new \in SUBSET Kinds, NEW fresh \in [Started(new) -> Off],
         \A j, k \in Started(new) : fresh[j] = fresh[k] => j = k,
         WriteCCCD(new, fresh)
  PROVE  OwnNotifiers' /\ SubscriptionsMatch'
<1> DEFINE started == {fresh[k] : k \in Started(new)}
           stopped == {cur[k] : k \in Stops(new) \cap Acts(new)}
<1>1. \A k \in Started(new) : fresh[k] \in Notifiers /\ pc[fresh[k]] = "off" /\ k \in Kinds
  BY WriteDoes
<1>2. /\ open' = [n \in Notifiers |-> n \in started \/ (open[n] /\ n \notin stopped)]
      /\ pc' = [n \in Notifiers |-> IF n \in started THEN "idle" ELSE pc[n]]
      /\ ccc' = IF Refused(new) = {} THEN new ELSE ccc
      /\ cur' = [k \in Kinds |-> IF k \notin ccc' THEN None
                                 ELSE IF k \in Started(new) THEN fresh[k] ELSE cur[k]]
      /\ half' = (half \/ (Refused(new) # {} /\ (Starts(new) \cup Stops(new)) \cap Acts(new) # {}))
  BY DEF WriteCCCD
<1>3. ASSUME NEW n \in Notifiers, open'[n]  PROVE pc'[n] # "off"
  BY <1>2, <1>3 DEF OwnNotifiers
<1>4. SUFFICES ASSUME ~half'
               PROVE  /\ \A k \in ccc' : cur'[k] \in Notifiers
                      /\ \A j, k \in ccc' : cur'[j] = cur'[k] => j = k
                      /\ \A n \in Notifiers : open'[n] <=> \E k \in ccc' : cur'[k] = n
  BY <1>3 DEF OwnNotifiers, SubscriptionsMatch
<1>5. /\ ~half
      /\ Refused(new) = {} \/ (Starts(new) \cup Stops(new)) \cap Acts(new) = {}
  BY <1>2, <1>4
<1>6. /\ \A k \in ccc : cur[k] \in Notifiers
      /\ \A j, k \in ccc : cur[j] = cur[k] => j = k
      /\ \A n \in Notifiers : open[n] <=> \E k \in ccc : cur[k] = n
  BY <1>5 DEF OwnNotifiers, SubscriptionsMatch
<1>7. \A k \in ccc : pc[cur[k]] # "off"
  BY <1>6 DEF OwnNotifiers
<1>8. ccc \subseteq Kinds
  BY DEF TypeOK
<1>9. CASE Refused(new) = {}
  <2>1. Started(new) = new \ ccc /\ Stops(new) \cap Acts(new) = ccc \ new
    BY <1>8, <1>9 DEF Started, Starts, Stops, Acts, Refused
  <2>2. /\ ccc' = new
        /\ \A k \in new \ ccc : cur'[k] = fresh[k]
        /\ \A k \in new \cap ccc : cur'[k] = cur[k]
    BY <1>2, <1>9, <2>1
  <2>3. \A n \in Notifiers : open'[n] <=> n \in started \/ (open[n] /\ n \notin stopped)
    BY <1>2
  <2>4. /\ started = {fresh[k] : k \in new \ ccc}
        /\ stopped = {cur[k] : k \in ccc \ new}
    BY <2>1
  <2> HIDE DEF started, stopped
  <2>5. \A k \in ccc' : cur'[k] \in Notifiers
    BY <1>1, <1>6, <2>1, <2>2
  <2>6. \A j, k \in ccc' : cur'[j] = cur'[k] => j = k
    BY <1>1, <1>6, <1>7, <2>1, <2>2
  <2>7. ASSUME NEW n \in Notifiers, open'[n]  PROVE \E k \in ccc' : cur'[k] = n
    BY <1>6, <2>2, <2>3, <2>4, <2>7
  <2>8. ASSUME NEW n \in Notifiers, NEW k \in ccc', cur'[k] = n  PROVE open'[n]
    <3>1. CASE k \in new \ ccc
      BY <2>2, <2>3, <2>4, <2>8, <3>1
    <3>2. CASE k \in new \cap ccc
      <4>1. cur[k] = n /\ open[n]
        BY <1>6, <2>2, <2>8, <3>2
      <4>2. n \notin stopped
        BY <1>6, <2>4, <3>2, <4>1
      <4> QED  BY <2>3, <4>1, <4>2
    <3> QED  BY <2>2, <3>1, <3>2
  <2> QED  BY <2>5, <2>6, <2>7, <2>8
<1>10. CASE Refused(new) # {}
  <2>1. Started(new) = {} /\ Stops(new) \cap Acts(new) = {}
    BY <1>5, <1>10 DEF Started
  <2>2. started = {} /\ stopped = {}
    BY <2>1
  <2>3. ccc' = ccc /\ \A k \in ccc : cur'[k] = cur[k]
    BY <1>2, <1>8, <1>10, <2>1
  <2>4. \A n \in Notifiers : open'[n] <=> open[n]
    BY <1>2, <2>2
  <2> QED  BY <1>6, <2>3, <2>4
<1> QED  BY <1>9, <1>10

(* Every step keeps the notifiers and the subscriptions together. *)
LEMMA SubscriptionStep ==
  TypeOK /\ OwnNotifiers /\ SubscriptionsMatch /\ [Next]_vars
    => OwnNotifiers' /\ SubscriptionsMatch'
<1> SUFFICES ASSUME TypeOK, OwnNotifiers, SubscriptionsMatch, [Next]_vars
             PROVE  OwnNotifiers' /\ SubscriptionsMatch'
  OBVIOUS
<1> USE DEF peerVars, rdVars, mtuVars, subVars, sendVars
<1>1. ASSUME UNCHANGED <<ccc, cur, half, open>>, hd' = "done" <=> hd = "done",
             \A n \in Notifiers : pc'[n] = "off" => pc[n] = "off" \/ ~open[n]
      PROVE  OwnNotifiers' /\ SubscriptionsMatch'
  BY <1>1 DEF OwnNotifiers, SubscriptionsMatch
<1>2. CASE ReaderStep \/ PeerStep \/ UNCHANGED vars
  <2>1. UNCHANGED <<ccc, cur, half, open, hd, pc>>
    BY <1>2 DEF ReaderStep, ReadConfirmation, ReadRequest, ReadFails, ReaderCloses, PeerStep,
       PeerRequest, PeerCommand, PeerConfirms, Disconnected, vars
  <2> QED  BY <1>1, <2>1
<1>3. CASE \/ HandleRequest \/ ShortCCCD \/ handleExchangeMTURequest \/ Respond
           \/ ReplaceBuf("ntf", "mtuNot", "mtuInd") \/ ReplaceBuf("ind", "mtuInd", "rsp")
  <2>1. UNCHANGED <<ccc, cur, half, open, pc>> /\ hd # "done" /\ hd' # "done"
    BY <1>3 DEF HandleRequest, ShortCCCD, handleExchangeMTURequest, Receives, Respond, ReplaceBuf
  <2> QED  BY <1>1, <2>1
<1>4. CASE HandleCCCD
  <2>1. rreq.flags \in SUBSET Kinds /\ hd = "idle" /\ hd' # "done"
    BY <1>4, Received DEF HandleCCCD, Receives
  <2>2. PICK fresh \in [Started(rreq.flags) -> Off] :
          /\ \A j, k \in Started(rreq.flags) : fresh[j] = fresh[k] => j = k
          /\ WriteCCCD(rreq.flags, fresh)
    BY <1>4 DEF HandleCCCD
  <2> QED  BY <2>1, <2>2, WriteMatches
<1>5. CASE Cleanup
  <2>1. /\ UNCHANGED <<ccc, cur, half, pc>> /\ hd = "idle" /\ hd' = "done"
        /\ \A n \in Notifiers : open'[n] <=> open[n] /\ n \notin {cur[k] : k \in ccc}
    BY <1>5 DEF Cleanup
  <2>2. OwnNotifiers'
    BY <2>1 DEF OwnNotifiers
  <2>3. ~half => \A n \in Notifiers : ~open'[n]
    BY <2>1 DEF SubscriptionsMatch
  <2> QED  BY <2>1, <2>2, <2>3 DEF SubscriptionsMatch
<1>6. ASSUME NEW n \in Notifiers, NotifierStep(n)  PROVE OwnNotifiers' /\ SubscriptionsMatch'
  <2>1. UNCHANGED <<ccc, cur, half, open, hd>>
    BY <1>6 DEF NotifierStep, Call, GetBuf, WriteValue, WriteFails, Select, Confirmed,
       ConfirmClosed, Timeout, TimeoutCloses, Ends
  <2>2. \A m \in Notifiers : pc'[m] = "off" => pc[m] = "off" \/ ~open[m]
    <3>1. CASE Ends(n)
      BY <3>1 DEF Ends, Goto, TypeOK
    <3>2. CASE ~Ends(n)
      <4>1. \E l \in {"get", "write", "sent", "await", "close", "idle"} :
              pc' = [pc EXCEPT ![n] = l]
        BY <1>6, <3>2 DEF NotifierStep, Call, GetBuf, WriteValue, WriteFails, Select, Confirmed,
           ConfirmClosed, Timeout, TimeoutCloses, Return, Goto
      <4> QED  BY <4>1 DEF TypeOK
    <3> QED  BY <3>1, <3>2
  <2> QED  BY <1>1, <2>1, <2>2
<1> QED  BY NextCases, <1>2, <1>3, <1>4, <1>5, <1>6 DEF HandlerStep
-----------------------------------------------------------------------------
(* A closed reader has nothing queued. *)
LEMMA NothingReadStep == NothingRead /\ [Next]_vars => NothingRead'
<1> SUFFICES ASSUME NothingRead, [Next]_vars  PROVE NothingRead'
  OBVIOUS
<1> USE DEF peerVars, rdVars, mtuVars, subVars, sendVars, NothingRead, Closed
<1>1. CASE ReaderStep
  BY <1>1 DEF ReaderStep, ReadConfirmation, ReadRequest, Reads, ReadFails, ReaderCloses
<1>2. CASE PeerStep
  BY <1>2 DEF PeerStep, PeerRequest, PeerCommand, PeerConfirms, Arrives, Disconnected
<1>3. CASE HandlerStep
  BY <1>3 DEF HandlerStep, HandleRequest, HandleCCCD, ShortCCCD, handleExchangeMTURequest,
     Receives, ReplaceBuf, Respond, Cleanup
<1>4. ASSUME NEW n \in Notifiers, NotifierStep(n)  PROVE NothingRead'
  BY <1>4 DEF NotifierStep, Call, GetBuf, WriteValue, WriteFails, Select, Confirmed,
     ConfirmClosed, Timeout, TimeoutCloses, Ends
<1>5. CASE UNCHANGED vars
  BY <1>5 DEF vars
<1> QED  BY NextCases, <1>1, <1>2, <1>3, <1>4, <1>5

(* An indication empties chConfirm as it gets past its drain, and what is  *)
(* queued from then on has met it.                                         *)
LEMMA DrainedStep == TypeOK /\ OneBuffer /\ Drained /\ [Next]_vars => Drained'
<1> SUFFICES ASSUME TypeOK, OneBuffer, Drained, [Next]_vars  PROVE Drained'
  OBVIOUS
<1> USE DEF peerVars, rdVars, mtuVars, subVars, sendVars
<1>1. ASSUME chConfirm' = chConfirm \/ chConfirm' = <<>>, IndsPastDrain' \subseteq IndsPastDrain
      PROVE  Drained'
  BY <1>1 DEF Drained
<1>2. CASE ReadConfirmation
  <2>1. IndsPastDrain' = IndsPastDrain
    BY <1>2 DEF ReadConfirmation, IndsPastDrain
  <2>2. CASE chConfirm = <<>>
    <3> DEFINE h == Head(inq).ind
    <3>1. chConfirm' = <<[ind |-> h, idle |-> IndsPastDrain = {}]>>
      BY <1>2, <2>2 DEF ReadConfirmation
    <3> HIDE DEF h
    <3>2. chConfirm'[1].idle = (IndsPastDrain = {})
      BY <3>1
    <3> QED  BY <2>1, <3>2 DEF Drained
  <2>3. CASE chConfirm # <<>>
    BY <1>1, <1>2, <2>1, <2>3 DEF ReadConfirmation
  <2> QED  BY <2>2, <2>3
<1>3. CASE ReadRequest \/ ReadFails \/ ReaderCloses \/ PeerStep \/ UNCHANGED vars
  <2>1. UNCHANGED <<chConfirm, kind, pc>>
    BY <1>3 DEF ReadRequest, ReadFails, ReaderCloses, PeerStep,
       PeerRequest, PeerCommand, PeerConfirms, Disconnected, vars
  <2> QED  BY <1>1, <2>1 DEF IndsPastDrain
<1>4. CASE HandlerStep /\ ~HandleCCCD
  <2>1. UNCHANGED <<chConfirm, kind, pc>>
    BY <1>4 DEF HandlerStep, HandleRequest, ShortCCCD, handleExchangeMTURequest, ReplaceBuf,
       Respond, Cleanup
  <2> QED  BY <1>1, <2>1 DEF IndsPastDrain
<1>5. CASE HandleCCCD
  <2>1. rreq.flags \in SUBSET Kinds
    BY <1>5, Received DEF HandleCCCD, Receives
  <2>2. PICK fresh \in [Started(rreq.flags) -> Off] : WriteCCCD(rreq.flags, fresh)
    BY <1>5 DEF HandleCCCD
  <2>3. \A n \in Notifiers : \/ pc'[n] = pc[n] /\ kind'[n] = kind[n]
                             \/ pc[n] = "off" /\ pc'[n] = "idle"
    BY <2>1, <2>2, WriteDoes
  <2>4. IndsPastDrain' \subseteq IndsPastDrain
    BY <2>3 DEF IndsPastDrain
  <2> QED  BY <1>1, <1>5, <2>4 DEF HandleCCCD
<1>6. ASSUME NEW n \in Notifiers, NotifierStep(n)  PROVE Drained'
  <2>1. CASE GetBuf(n)
    <3>1. CASE kind[n] = "ind"
      BY <2>1, <3>1 DEF GetBuf, Drained
    <3>2. CASE kind[n] # "ind"
      <4>1. IndsPastDrain' \subseteq IndsPastDrain
        BY <2>1, <3>2 DEF GetBuf, Goto, IndsPastDrain, TypeOK
      <4> QED  BY <1>1, <2>1, <3>2, <4>1 DEF GetBuf
    <3> QED  BY <3>1, <3>2
  <2>2. CASE Ends(n)
    <3>1. IndsPastDrain' \subseteq IndsPastDrain
      BY <2>2 DEF Ends, Goto, IndsPastDrain, TypeOK
    <3> QED  BY <1>1, <2>2, <3>1 DEF Ends
  <2>3. CASE ~GetBuf(n) /\ ~Ends(n)
    <3>1. /\ kind' = kind /\ (chConfirm' = chConfirm \/ chConfirm' = <<>>)
          /\ \/ \E l \in {"get", "idle", "close"} : pc' = [pc EXCEPT ![n] = l]
             \/ /\ \E l \in {"sent", "await"} : pc' = [pc EXCEPT ![n] = l]
                /\ pc[n] \in {"write", "sent"}
      BY <1>6, <2>3 DEF NotifierStep, Call, WriteValue, WriteFails, Select, Confirmed,
         ConfirmClosed, Timeout, TimeoutCloses, Return, Goto
    <3>2. IndsPastDrain' \subseteq IndsPastDrain
      BY <3>1 DEF IndsPastDrain, TypeOK
    <3> QED  BY <1>1, <3>1, <3>2
  <2> QED  BY <2>1, <2>2, <2>3
<1> QED  BY NextCases, <1>2, <1>3, <1>4, <1>5, <1>6 DEF ReaderStep
-----------------------------------------------------------------------------
(* One indication at a time is past its write, and none is about to write  *)
(* then: both would hold the indication buffer.                            *)
LEMMA OneAwaits ==
  ASSUME OneBuffer, NEW m \in Notifiers, NEW n \in Notifiers, pc[m] \in Sent, kind[n] = "ind",
         pc[n] \in Holding
  PROVE  m = n
  BY DEF OneBuffer, Holding

(* A step that adds no confirmation, and after which what was awaited      *)
(* still is.                                                               *)
LEMMA TracedKept ==
  ASSUME Confirmations, link' = "up" => link = "up", strayed => strayed',
         UNCHANGED <<inq, pending>>, Closed => Closed',
         \A i \in 0..MaxInds : (Parked(i)' => Parked(i)) /\ (Awaited(i) => Awaited(i)')
  PROVE  Confirmations'
<1> SUFFICES ASSUME link' = "up" /\ ~strayed', NEW i \in 0..MaxInds  PROVE Traced(i)'
  BY DEF Confirmations
<1>1. Traced(i)
  BY DEF Confirmations
<1>2. \A j \in 1..Len(inq) : Queued(i, j)' <=> Queued(i, j)
  BY DEF Queued
<1>3. AtPeer(i)' <=> AtPeer(i)
  BY DEF AtPeer
<1> QED  BY <1>1, <1>2, <1>3 DEF Traced

(* The reader: a confirmation moves from the queue into chConfirm, or is   *)
(* dropped.                                                                *)
LEMMA ReaderTraced ==
  ASSUME TypeOK, Confirmations, ReaderStep
  PROVE  Confirmations'
<1> USE DEF peerVars, rdVars, mtuVars, subVars, sendVars
<1>1. \A i \in 0..MaxInds : Awaited(i)' <=> Awaited(i)
  BY DEF ReaderStep, ReadConfirmation, ReadRequest, ReadFails, ReaderCloses, Awaited
<1>2. CASE ReaderCloses
  <2>1. /\ link' # "up" /\ UNCHANGED <<inq, pending, strayed, chConfirm>>
    BY <1>2 DEF ReaderCloses, CloseConn, TypeOK
  <2> QED  BY <2>1 DEF Confirmations
<1> SUFFICES ASSUME ~ReaderCloses, link' = "up" /\ ~strayed', NEW i \in 0..MaxInds
             PROVE  Traced(i)'
  BY <1>2 DEF Confirmations
<1>3. UNCHANGED <<link, strayed, pending>>
  BY DEF ReaderStep, ReadConfirmation, ReadRequest, ReadFails
<1>4. Traced(i) /\ (AtPeer(i)' <=> AtPeer(i))
  BY <1>3 DEF Confirmations, AtPeer
<1>5. CASE ReadFails
  <2>1. UNCHANGED chConfirm /\ inq' = <<>> /\ Closed'
    BY <1>5 DEF ReadFails, Closed
  <2>2. 1..Len(inq') = {} /\ (Parked(i)' <=> Parked(i))
    BY <2>1 DEF Parked
  <2> QED  BY <1>1, <1>4, <2>1, <2>2 DEF Traced
<1>6. ASSUME ~ReadFails
      PROVE  /\ inq # <<>> /\ inq' = Tail(inq) /\ ~Closed
             /\ Len(inq') = Len(inq) - 1 /\ Len(inq) \in Nat /\ Len(inq) > 0
             /\ \A j \in 1..Len(inq') : inq'[j] = inq[j + 1] /\ j + 1 \in 1..Len(inq)
             /\ Head(inq) = inq[1]
  <2>1. inq # <<>> /\ inq' = Tail(inq) /\ ~Closed
    BY <1>6 DEF ReaderStep, ReadConfirmation, ReadRequest, Reads, Closed
  <2> DEFINE S == Request \cup Confirmation
  <2>2. inq \in Seq(S)
    BY DEF TypeOK
  <2> HIDE DEF S
  <2> QED  BY <2>1, <2>2
<1>7. ASSUME ~ReadFails, NEW j \in 1..Len(inq')
      PROVE  j + 1 \in 1..Len(inq) /\ (Queued(i, j)' <=> Queued(i, j + 1))
  BY <1>6, <1>7 DEF Queued
<1>8. ASSUME ~ReadFails, Parked(i)' <=> Parked(i)  PROVE Traced(i)'
  <2>1. ASSUME NEW j \in 1..Len(inq'), Queued(i, j)'
        PROVE  /\ Awaited(i)' /\ ~AtPeer(i)' /\ ~Parked(i)'
               /\ \A l \in 1..Len(inq') : Queued(i, l)' => j = l
    <3>1. j + 1 \in 1..Len(inq) /\ Queued(i, j + 1)
      BY <1>7, <1>8, <2>1
    <3>2. ASSUME NEW l \in 1..Len(inq'), Queued(i, l)'  PROVE j = l
      <4>1. l + 1 \in 1..Len(inq) /\ Queued(i, l + 1)
        BY <1>7, <1>8, <3>2
      <4>2. j + 1 = l + 1
        BY <1>4, <3>1, <4>1 DEF Traced
      <4> QED  BY <4>2
    <3> QED  BY <1>1, <1>4, <1>8, <3>1, <3>2 DEF Traced
  <2>2. /\ Parked(i)' => Awaited(i)'
        /\ ~Closed' /\ AtPeer(i)' => Awaited(i)' /\ ~Parked(i)'
    BY <1>1, <1>4, <1>6, <1>8 DEF Traced
  <2> QED  BY <2>1, <2>2 DEF Traced
<1>9. CASE ReadRequest
  <2>1. ~ReadFails /\ chConfirm' = chConfirm
    BY <1>9 DEF ReadRequest, ReadFails
  <2> QED  BY <1>8, <2>1 DEF Parked
<1>10. CASE ReadConfirmation
  <2>1. ~ReadFails /\ Head(inq).t = "conf"
    BY <1>10 DEF ReadConfirmation, ReadFails, Reads
  <2>2. CASE chConfirm # <<>>
    <3>1. chConfirm' = chConfirm
      BY <1>10, <2>2 DEF ReadConfirmation
    <3> QED  BY <1>8, <2>1, <3>1 DEF Parked
  <2>3. CASE chConfirm = <<>>
    <3> DEFINE h == Head(inq).ind
               b == IndsPastDrain = {}
    <3>1. chConfirm' = <<[ind |-> h, idle |-> b]>>
      BY <1>10, <2>3 DEF ReadConfirmation
    <3>2. h = inq[1].ind /\ inq[1].t = "conf"
      BY <1>6, <2>1
    <3> HIDE DEF h, b
    <3>3. Parked(i)' <=> h = i
      BY <3>1 DEF Parked
    <3>4. ~Parked(i)
      BY <2>3 DEF Parked
    <3>5. CASE h # i
      BY <1>8, <2>1, <3>3, <3>4, <3>5
    <3>6. CASE h = i
      <4>1. 1 \in 1..Len(inq) /\ Queued(i, 1)
        BY <1>6, <2>1, <3>2, <3>6 DEF Queued
      <4>2. Awaited(i)' /\ ~AtPeer(i)'
        BY <1>1, <1>4, <4>1 DEF Traced
      <4>3. ASSUME NEW j \in 1..Len(inq'), Queued(i, j)'  PROVE FALSE
        <5>1. j + 1 \in 1..Len(inq) /\ Queued(i, j + 1)
          BY <1>7, <2>1, <4>3
        <5>2. j + 1 = 1
          BY <1>4, <4>1, <5>1 DEF Traced
        <5> QED  BY <5>2
      <4> QED  BY <4>2, <4>3 DEF Traced
    <3> QED  BY <3>5, <3>6
  <2> QED  BY <2>2, <2>3
<1> QED  BY <1>5, <1>9, <1>10 DEF ReaderStep

(* The peer: a confirmation moves from the peer into the queue. *)
LEMMA PeerTraced ==
  ASSUME TypeOK, Confirmations, PeerStep
  PROVE  Confirmations'
<1> USE DEF peerVars, rdVars, mtuVars, subVars, sendVars
<1>1. \A i \in 0..MaxInds : (Awaited(i)' <=> Awaited(i)) /\ (Parked(i)' <=> Parked(i))
  BY DEF PeerStep, PeerRequest, PeerCommand, PeerConfirms, Disconnected, Awaited, Parked
<1>2. CASE Disconnected
  BY <1>2 DEF Disconnected, Confirmations
<1>3. ASSUME NEW p, inq' = Append(inq, p), ~Closed, rd' = rd, link' = link, strayed => strayed',
             \/ p.t # "conf" /\ pending' = pending
             \/ \E k \in pending : p = [t |-> "conf", ind |-> k] /\ pending' = pending \ {k}
             \/ strayed'
      PROVE  Confirmations'
  <2> SUFFICES ASSUME link' = "up" /\ ~strayed', NEW i \in 0..MaxInds  PROVE Traced(i)'
    BY DEF Confirmations
  <2>1. Traced(i) /\ ~Closed'
    BY <1>3 DEF Confirmations, Closed
  <2> DEFINE N == Len(inq)
  <2>2. /\ N \in Nat /\ Len(inq') = N + 1 /\ inq'[N + 1] = p
        /\ \A j \in 1..N : inq'[j] = inq[j]
    BY <1>3 DEF TypeOK
  <2> HIDE DEF N
  <2>3. \A j \in 1..N : Queued(i, j)' <=> Queued(i, j)
    BY <2>2 DEF Queued
  <2>4. 1..Len(inq') = (1..N) \cup {N + 1}
    BY <2>2
  <2>5. CASE \/ p.t # "conf" /\ pending' = pending
             \/ \E k \in pending \ {i} : p = [t |-> "conf", ind |-> k] /\ pending' = pending \ {k}
    <3>1. (AtPeer(i)' <=> AtPeer(i)) /\ (p.t # "conf" \/ p.ind # i)
      BY <2>5 DEF AtPeer
    <3>2. \A j \in 1..Len(inq') : Queued(i, j)' => j \in 1..N
      <4>1. ASSUME p.t = "conf" /\ p.ind = i  PROVE FALSE
        BY <3>1, <4>1
      <4>2. \A j : j = N + 1 => (Queued(i, j)' <=> p.t = "conf" /\ p.ind = i)
        BY <2>2 DEF Queued
      <4> QED  BY <2>4, <4>1, <4>2
    <3>3. ASSUME NEW j \in 1..Len(inq'), Queued(i, j)'
          PROVE  /\ Awaited(i)' /\ ~AtPeer(i)' /\ ~Parked(i)'
                 /\ \A l \in 1..Len(inq') : Queued(i, l)' => j = l
      BY <1>1, <2>1, <2>3, <3>1, <3>2, <3>3 DEF Traced, N
    <3> QED  BY <1>1, <1>3, <2>1, <3>1, <3>3 DEF Traced
  <2>6. CASE i \in pending /\ p = [t |-> "conf", ind |-> i] /\ pending' = pending \ {i}
    <3>1. AtPeer(i) /\ ~AtPeer(i)'
      BY <2>6 DEF AtPeer
    <3>2. Awaited(i) /\ ~Parked(i) /\ \A j \in 1..N : ~Queued(i, j)
      BY <1>3, <2>1, <3>1 DEF Traced, N
    <3>3. \A j \in 1..Len(inq') : Queued(i, j)' => j = N + 1
      BY <2>3, <2>4, <3>2
    <3> QED  BY <1>1, <3>1, <3>2, <3>3 DEF Traced
  <2> QED  BY <1>3, <2>5, <2>6
<1>4. ASSUME NEW r \in Request, PeerRequest(r) \/ PeerCommand(r)  PROVE Confirmations'
  <2>1. r.t # "conf"
    BY DEF Request, CCCDWrites
  <2>2. inq' = Append(inq, r) /\ ~Closed /\ UNCHANGED <<rd, link, strayed, pending>>
    BY <1>4 DEF PeerRequest, PeerCommand, Arrives
  <2> QED  BY <1>3, <2>1, <2>2
<1>6. ASSUME NEW k \in 0..MaxInds, PeerConfirms(k)  PROVE Confirmations'
  <2> DEFINE p == [t |-> "conf", ind |-> k]
  <2>1. /\ inq' = Append(inq, p) /\ ~Closed /\ UNCHANGED <<rd, link>>
        /\ k \in pending \/ k = 0
        /\ pending' = pending \ {k} /\ strayed' = (strayed \/ k = 0)
    BY <1>6 DEF PeerConfirms, Arrives
  <2>2. \/ k \in pending /\ p = [t |-> "conf", ind |-> k] /\ pending' = pending \ {k}
        \/ strayed'
    BY <2>1
  <2> HIDE DEF p
  <2> QED  BY <1>3, <2>1, <2>2
<1> QED  BY <1>2, <1>4, <1>6 DEF PeerStep

(* The handler sends nothing and takes no confirmation. *)
LEMMA HandlerTraced ==
  ASSUME TypeOK, Confirmations, HandlerStep
  PROVE  Confirmations'
<1> USE DEF peerVars, rdVars, mtuVars, subVars, sendVars
<1>1. UNCHANGED <<link, inq, pending, strayed, chConfirm, ind>> /\ (Closed => Closed')
  BY DEF HandlerStep, HandleRequest, HandleCCCD, ShortCCCD, handleExchangeMTURequest,
     Receives, ReplaceBuf, Respond, Cleanup, Closed
<1>2. \A n \in Notifiers : pc[n] \in Sent => pc'[n] = pc[n]
  <2>1. CASE HandleCCCD
    <3>1. rreq.flags \in SUBSET Kinds
      BY <2>1, Received DEF HandleCCCD, Receives
    <3>2. PICK fresh \in [Started(rreq.flags) -> Off] : WriteCCCD(rreq.flags, fresh)
      BY <2>1 DEF HandleCCCD
    <3>3. \A n \in Notifiers : pc'[n] = pc[n] \/ pc[n] = "off"
      BY <3>1, <3>2, WriteDoes
    <3> QED  BY <3>3 DEF Sent
  <2>2. CASE ~HandleCCCD
    BY <2>2 DEF HandlerStep, HandleRequest, ShortCCCD, handleExchangeMTURequest, ReplaceBuf,
       Respond, Cleanup
  <2> QED  BY <2>1, <2>2
<1>3. \A i \in 0..MaxInds : (Parked(i)' => Parked(i)) /\ (Awaited(i) => Awaited(i)')
  BY <1>1, <1>2 DEF Parked, Awaited
<1> QED  BY <1>1, <1>3, TracedKept

(* A notifier: an indication goes to the peer when it begins to be         *)
(* awaited; when it is no longer awaited its confirmation has been taken,  *)
(* nothing will be read any more, or the link is not up.                   *)
LEMMA NotifierTraced ==
  ASSUME TypeOK, OneBuffer, NothingRead, Confirmations, NEW n \in Notifiers, NotifierStep(n)
  PROVE  Confirmations'
<1> USE DEF peerVars, rdVars, mtuVars, subVars, sendVars
<1>0. /\ UNCHANGED <<inq, strayed, rd>>
      /\ \A m \in Notifiers \ {n} : pc'[m] = pc[m] /\ ind'[m] = ind[m]
  BY DEF NotifierStep, Call, GetBuf, WriteValue, WriteFails, Select, Confirmed, ConfirmClosed,
     Timeout, TimeoutCloses, Ends, Return, Goto, TypeOK
<1>1. CASE TimeoutCloses(n)
  <2>1. link' # "up"
    BY <1>1 DEF TimeoutCloses, CloseConn, TypeOK
  <2> QED  BY <2>1 DEF Confirmations
<1>2. ASSUME UNCHANGED <<link, pending>>, chConfirm' = chConfirm \/ chConfirm' = <<>>,
             pc[n] \in Sent => pc'[n] \in Sent /\ ind'[n] = ind[n]
      PROVE  Confirmations'
  <2>1. \A i \in 0..MaxInds : (Parked(i)' => Parked(i)) /\ (Awaited(i) => Awaited(i)')
    BY <1>0, <1>2 DEF Parked, Awaited
  <2> QED  BY <1>0, <1>2, <2>1, TracedKept DEF Closed
<1>3. CASE Call(n) \/ GetBuf(n) \/ WriteFails(n) \/ (WriteValue(n) /\ kind[n] # "ind") \/ Ends(n)
  <2>1. UNCHANGED <<link, pending>> /\ (chConfirm' = chConfirm \/ chConfirm' = <<>>)
    BY <1>3 DEF Call, GetBuf, WriteFails, WriteValue, Ends
  <2>2. pc[n] \notin Sent
    BY <1>3 DEF Call, GetBuf, WriteFails, WriteValue, Ends, Sent
  <2> QED  BY <1>2, <2>1, <2>2
<1>4. CASE Select(n) \/ Timeout(n)
  <2>1. UNCHANGED <<link, pending, chConfirm, ind>> /\ pc'[n] \in Sent
    BY <1>4 DEF Select, Timeout, Goto, Sent, TypeOK
  <2> QED  BY <1>2, <2>1
<1>5. CASE WriteValue(n) /\ kind[n] = "ind"
  <2>1. /\ pc[n] = "write" /\ pc' = [pc EXCEPT ![n] = "sent"] /\ UNCHANGED <<link, ind, chConfirm>>
        /\ pending' = pending \cup {ind[n]}
    BY <1>5 DEF WriteValue, Goto
  <2>2. \A i \in 0..MaxInds : ~Awaited(i)
    BY <1>5, <2>1, OneAwaits DEF Awaited, Holding, Sent
  <2>3. SUFFICES ASSUME link' = "up" /\ ~strayed', NEW i \in 0..MaxInds  PROVE Traced(i)'
    BY DEF Confirmations
  <2>4. Traced(i)
    BY <1>0, <2>1, <2>3 DEF Confirmations
  <2>5. /\ ~Parked(i) /\ (~Closed => ~AtPeer(i))
        /\ \A j \in 1..Len(inq) : ~Queued(i, j)
    BY <2>2, <2>4 DEF Traced
  <2>6. ~Parked(i)' /\ \A j \in 1..Len(inq') : ~Queued(i, j)'
    BY <1>0, <2>1, <2>5 DEF Parked, Queued
  <2>7. ~Closed' /\ AtPeer(i)' => i = ind[n]
    BY <1>0, <2>1, <2>5 DEF AtPeer, Closed
  <2>8. i = ind[n] => Awaited(i)'
    BY <2>1 DEF Awaited, Sent, TypeOK
  <2> QED  BY <2>6, <2>7, <2>8 DEF Traced
<1>6. CASE Confirmed(n) \/ ConfirmClosed(n)
  <2>1. /\ pc[n] = "await" /\ UNCHANGED <<link, pending>> /\ chConfirm' = <<>>
        /\ chConfirm # <<>> \/ (chConfirm = <<>> /\ Closed)
    BY <1>6 DEF Confirmed, ConfirmClosed
  <2>2. \A i \in 0..MaxInds : Awaited(i) => i = ind[n]
    <3>1. pc[n] \in Holding /\ kind[n] = "ind"
      BY <2>1 DEF OneBuffer, Holding, Sent
    <3> QED  BY <3>1, OneAwaits DEF Awaited
  <2>3. SUFFICES ASSUME link' = "up" /\ ~strayed', NEW i \in 0..MaxInds  PROVE Traced(i)'
    BY DEF Confirmations
  <2>4. \A j \in 0..MaxInds : Traced(j)
    BY <1>0, <2>1, <2>3 DEF Confirmations
  <2>5. ~Parked(i)'
    BY <2>1 DEF Parked
  <2>6. (~Closed => ~AtPeer(i)) /\ \A j \in 1..Len(inq) : ~Queued(i, j)
    <3>1. CASE chConfirm # <<>>
      <4> DEFINE h == chConfirm[1].ind
      <4>1. h \in 0..MaxInds
        <5> DEFINE E == [ind : 0..MaxInds, idle : BOOLEAN]
        <5>1. chConfirm[1] \in E
          <6> HIDE DEF E
          <6>1. chConfirm \in Seq(E)
            BY DEF TypeOK, E
          <6> QED  BY <3>1, <6>1
        <5> QED  BY <5>1
      <4>2. Parked(h)
        BY <3>1 DEF Parked
      <4> HIDE DEF h
      <4>3. h = ind[n]
        BY <2>2, <2>4, <4>1, <4>2 DEF Traced
      <4>4. Awaited(i) => Parked(i)
        BY <2>2, <4>2, <4>3
      <4> QED  BY <2>4, <4>4 DEF Traced
    <3>2. CASE Closed
      <4>1. 1..Len(inq) = {}
        BY <3>2 DEF NothingRead
      <4> QED  BY <3>2, <4>1
    <3> QED  BY <2>1, <3>1, <3>2
  <2>7. (~Closed' => ~AtPeer(i)') /\ \A j \in 1..Len(inq') : ~Queued(i, j)'
    BY <1>0, <2>1, <2>6 DEF AtPeer, Queued, Closed
  <2> QED  BY <2>5, <2>7 DEF Traced
<1> QED  BY <1>1, <1>3, <1>4, <1>5, <1>6 DEF NotifierStep
-----------------------------------------------------------------------------
(* The inductive invariant holds initially ... *)
LEMMA Initially == Init => IInv
<1> SUFFICES ASSUME Init  PROVE IInv
  OBVIOUS
<1>1. DefaultMTU \in MTUs /\ DefaultMTU \in Nat
  BY DefaultIsMTU, MTUAssumption
<1>2. TypeOK
  <2> DEFINE P == Request \cup Confirmation
             E == [ind : 0..MaxInds, idle : BOOLEAN]
  <2>1. inq \in Seq(P) /\ chConfirm \in Seq(E) /\ Len(chConfirm) <= 1
    <3> HIDE DEF P, E
    <3>1. inq = <<>> /\ chConfirm = <<>>
      BY DEF Init
    <3> QED  BY <3>1
  <2>2. props \in SUBSET Kinds
    BY PeerAssumption DEF Init, Kinds
  <2>3. count \in 0..MaxInds /\ ind \in [Notifiers -> 0..MaxInds] /\ buf \in [Notifiers -> Nat]
    BY BoundsAssumption DEF Init
  <2>4. free \in [Kinds -> Nat] /\ txMTU \in MTUs /\ txBuf \in MTUs
    BY <1>1 DEF Init
  <2>5. /\ pc \in [Notifiers -> {"off", "idle", "get"} \cup Holding]
        /\ kind \in [Notifiers -> Kinds] /\ open \in [Notifiers -> BOOLEAN]
        /\ cur \in [Kinds -> Notifiers \cup {None}] /\ ccc \in SUBSET Kinds
    BY DEF Init, Kinds
  <2>6. /\ link = "up" /\ pending = {} /\ asking = FALSE /\ strayed = FALSE /\ half = FALSE
        /\ rd = "read" /\ hd = "idle"
    BY DEF Init
  <2> HIDE DEF P, E
  <2> QED  BY <2>1, <2>2, <2>3, <2>4, <2>5, <2>6 DEF TypeOK, P, E
<1>3. OneBuffer
  BY DEF Init, OneBuffer, Holding, Sent
<1>4. Replaced
  BY <1>1 DEF Init, Replaced, Follows, Kinds
<1>5. OwnNotifiers /\ SubscriptionsMatch
  BY DEF Init, OwnNotifiers, SubscriptionsMatch
<1>6. Drained /\ NothingRead
  BY DEF Init, Drained, NothingRead
<1>7. Confirmations
  <2>1. ASSUME NEW i \in 0..MaxInds  PROVE Traced(i)
    <3>1. ~Parked(i) /\ ~AtPeer(i) /\ 1..Len(inq) = {}
      BY DEF Init, Parked, AtPeer
    <3> QED  BY <3>1 DEF Traced
  <2> QED  BY <2>1 DEF Confirmations
<1> QED  BY <1>2, <1>3, <1>4, <1>5, <1>6, <1>7 DEF IInv

(* ... and every step preserves it. *)
LEMMA Inductive == IInv /\ [Next]_vars => IInv'
<1> SUFFICES ASSUME IInv, [Next]_vars  PROVE IInv'
  OBVIOUS
<1>1. /\ TypeOK /\ OneBuffer /\ Replaced /\ OwnNotifiers /\ SubscriptionsMatch
      /\ Drained /\ Confirmations /\ NothingRead
  BY DEF IInv
<1>2. Confirmations'
  <2>1. CASE UNCHANGED vars
    <3>1. UNCHANGED <<link, strayed, inq, pending, rd, chConfirm, pc, ind>>
      BY <2>1 DEF vars, peerVars, rdVars, sendVars
    <3>2. \A i \in 0..MaxInds : (Parked(i)' => Parked(i)) /\ (Awaited(i) => Awaited(i)')
      BY <3>1 DEF Parked, Awaited
    <3> QED  BY <1>1, <3>1, <3>2, TracedKept DEF Closed
  <2> QED  BY <1>1, <2>1, NextCases, ReaderTraced, HandlerTraced, PeerTraced, NotifierTraced
<1> QED  BY <1>1, <1>2, TypeStep, BufferStep, SubscriptionStep, DrainedStep, NothingReadStep
         DEF IInv

(* The inductive invariant of the ATT server. *)
THEOREM Invariant == Spec => []IInv
<1> QED  BY Initially, Inductive, PTL DEF Spec

(* The server's variables keep their types: chConfirm holds one entry at   *)
(* most, no more than MaxInds indications are numbered, and the reader     *)
(* hands the handler requests only.                                        *)
THEOREM TypeCorrect == Spec => []TypeOK
<1>1. IInv => TypeOK
  BY DEF IInv
<1> QED  BY <1>1, Invariant, PTL

(* Outside an MTU exchange every buffer, in its channel or with a          *)
(* notifier, is as long as the connection's MTU, whatever notifiers did    *)
(* while handleExchangeMTURequest was replacing the buffers.               *)
THEOREM BuffersReplaced == Spec => []BuffersFollowMTU
<1>1. IInv => BuffersFollowMTU
  <2> SUFFICES ASSUME IInv, hd \notin {"mtuNot", "mtuInd"}
               PROVE  /\ txBuf = txMTU
                      /\ \A k \in Kinds : free[k] \in {0, txMTU}
                      /\ \A n \in Notifiers : buf[n] \in {0, txMTU}
    BY DEF BuffersFollowMTU
  <2>1. txBuf = txMTU /\ \A k \in Kinds : Follows(k)
    BY DEF IInv, Replaced, Kinds
  <2>2. \A n \in Notifiers : kind[n] \in Kinds
    BY DEF IInv, TypeOK
  <2> QED  BY <2>1, <2>2 DEF Follows
<1> QED  BY <1>1, Invariant, PTL

(* The notifiers alive are those of the peer's subscriptions, and none     *)
(* once Loop has returned, unless a CCCD write was refused half way.       *)
THEOREM NotifiersFollowCCCD == Spec => []SubscriptionsMatch
<1>1. IInv => SubscriptionsMatch
  BY DEF IInv
<1> QED  BY <1>1, Invariant, PTL

(* indicate completes on its own confirmation: never on one queued before  *)
(* its drain, and on another's only once the link is being closed or the   *)
(* peer has sent confirmations unasked.                                    *)
THEOREM ConfirmationsMatch == Spec => []StragglerOnlyWhileClosing
<1>1. IInv => StragglerOnlyWhileClosing
  <2> SUFFICES ASSUME IInv, NEW n \in Notifiers, pc[n] = "await", chConfirm # <<>>
               PROVE  /\ ~Head(chConfirm).idle
                      /\ link = "up" /\ ~strayed => Head(chConfirm).ind \in {ind[n], 0}
    BY DEF StragglerOnlyWhileClosing
  <2> DEFINE E == [ind : 0..MaxInds, idle : BOOLEAN]
  <2>1. Head(chConfirm) = chConfirm[1] /\ chConfirm[1] \in E
    <3> HIDE DEF E
    <3>1. chConfirm \in Seq(E)
      BY DEF IInv, TypeOK, E
    <3> QED  BY <3>1
  <2>2. kind[n] = "ind" /\ pc[n] \in Holding
    BY DEF IInv, OneBuffer, Sent, Holding
  <2>3. ~chConfirm[1].idle
    BY <2>2 DEF IInv, Drained, IndsPastDrain
  <2>4. ASSUME link = "up" /\ ~strayed  PROVE chConfirm[1].ind = ind[n]
    <3>1. PICK i \in 0..MaxInds : i = chConfirm[1].ind
      BY <2>1
    <3>2. Awaited(i)
      BY <2>4, <3>1 DEF IInv, Confirmations, Traced, Parked
    <3>3. PICK m \in Notifiers : pc[m] \in Sent /\ ind[m] = i
      BY <3>2 DEF Awaited
    <3>4. m = n
      BY <2>2, <3>3, OneAwaits DEF IInv
    <3> QED  BY <3>1, <3>3, <3>4
  <2> QED  BY <2>1, <2>3, <2>4
<1> QED  BY <1>1, Invariant, PTL
=============================================================================
