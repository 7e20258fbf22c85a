------------------------------ MODULE AttServer ------------------------------
(***************************************************************************)
(* The ATT server of linux/att/server.go on one bearer: Loop's reader and  *)
(* request handler, the notifications and indications of the application's *)
(* notifiers, the confirmations that end indications, the MTU exchange,    *)
(* and the CCCD writes of linux/att/db.go that start and close notifiers.  *)
(*                                                                         *)
(* Processes: the reader, the handler, one goroutine per notifier, the     *)
(* peer.  The peer has at most one request outstanding; it may send write  *)
(* commands at any time, confirms an indication at most once and as late   *)
(* as it likes, and may send confirmations nobody waits for.               *)
(*                                                                         *)
(* An indication's identity is its number; a confirmation on the wire has  *)
(* none.                                                                   *)
(***************************************************************************)
EXTENDS Integers, Sequences, FiniteSets

CONSTANTS Notifiers,   \* identities for notifiers and their goroutines
          MTUs,        \* receive MTUs the peer may announce
          MaxMTU,      \* ble.MaxMTU
          PropSets,    \* possible properties of the characteristic
          PeerOps,     \* what the peer may send besides confirmations
          Spurious,    \* whether it sends confirmations nobody waits for
          InCap,       \* bound: inbound PDUs not yet read
          MaxInds,     \* bound: indications
          None

(* Requests without a response. *)
Commands == {"cmd", "cccCmd"}
(* Writes of the CCCD, by Write Request or Write Command.  An Execute      *)
(* Write hands each run of parts it joins to the same handler: its last    *)
(* run is a write with a response, the ones before are writes without.     *)
CCCDWrites == {"ccc", "cccCmd"}

ASSUME MTUAssumption == MTUs \subseteq Nat \ {0} /\ MTUs # {} /\ MaxMTU \in MTUs
ASSUME BoundsAssumption == InCap \in Nat /\ MaxInds \in Nat
ASSUME PeerAssumption ==
  /\ PeerOps \subseteq {"mtu", "ccc", "req", "short"} \cup Commands
  /\ PropSets \subseteq SUBSET {"ntf", "ind"}
  /\ Spurious \in BOOLEAN
ASSUME NoneAssumption == None \notin Notifiers \cup Nat

Kinds == {"ntf", "ind"}
DefaultMTU == CHOOSE m \in MTUs : \A k \in MTUs : m <= k
Clamp(m) == IF m > MaxMTU THEN MaxMTU ELSE m
-----------------------------------------------------------------------------
VARIABLES link,      \* the connection: "up", "closing" (Disconnect accepted,
                     \* event outstanding) or "down" (chDone closed)
          inq,       \* inbound PDUs the reader has not read
          pending,   \* indications the peer has received and not confirmed
          asking,    \* the peer has a request outstanding
          strayed,   \* history: a confirmation nobody waited for was sent
          rd,        \* reader: "read", "seq", "close", "exit"
          rreq,      \* the request the reader holds
          hd,        \* handler: "idle", "mtuNot", "mtuInd", "cmd", "rsp", "done",
                     \* "panic"
          txMTU,     \* the connection's transmit MTU
          txBuf,     \* length of txBuf
          free,      \* free[k]: length of the buffer in chNotBuf/chIndBuf, 0: taken
          chConfirm, \* confirmations, capacity 1: [ind, idle], idle if no
                     \* indication had got past its drain when it was queued
          props,     \* the characteristic's properties
          ccc,       \* cccs[h]: the kinds the peer has subscribed to
          cur,       \* nn[h] and in[h], by kind, while subscribed to (other
                     \* entries are never read)
          half,      \* history: a CCCD write was refused after it had acted
          pc,        \* pc[n]: where the goroutine of notifier n is
          kind,      \* kind[n]: what it sends
          open,      \* open[n]: its context is not cancelled
          buf,       \* buf[n]: length of the buffer it holds, 0 without one
          ind,       \* ind[n]: the indication it is sending, 0 without one
          count      \* indications so far

peerVars == <<pending, asking, strayed>>
rdVars == <<rd, rreq>>
mtuVars == <<txMTU, txBuf>>
subVars == <<props, ccc, cur, half, kind, open>>
sendVars == <<pc, buf, ind, count>>
vars == <<link, inq, peerVars, rdVars, hd, mtuVars, free, chConfirm, subVars, sendVars>>

Request == [t : {"mtu"}, mtu : MTUs] \cup [t : CCCDWrites, flags : SUBSET Kinds]
           \cup [t : {"req", "cmd", "short"}]

(* NewServer and the start of Loop. *)
Init ==
  /\ link = "up" /\ inq = <<>> /\ pending = {} /\ asking = FALSE /\ strayed = FALSE
  /\ rd = "read" /\ rreq = None
  /\ hd = "idle"
  /\ txMTU = DefaultMTU /\ txBuf = DefaultMTU
  /\ free = [k \in Kinds |-> DefaultMTU]
  /\ chConfirm = <<>>
  /\ props \in PropSets
  /\ ccc = {} /\ cur = [k \in Kinds |-> None] /\ half = FALSE
  /\ pc = [n \in Notifiers |-> "off"]
  /\ kind = [n \in Notifiers |-> "ntf"]
  /\ open = [n \in Notifiers |-> FALSE]
  /\ buf = [n \in Notifiers |-> 0]
  /\ ind = [n \in Notifiers |-> 0]
  /\ count = 0

(* A panic in the handler ends the process. *)
Alive == hd # "panic"

(* close(seq) and close(chConfirm), which only the reader does. *)
Closed == rd \in {"close", "exit"}
-----------------------------------------------------------------------------
(* The peer and the link.  PDUs still arrive while a Disconnect is under   *)
(* way.                                                                    *)

Arrives(p) ==
  /\ link # "down" /\ ~Closed /\ Len(inq) < InCap
  /\ inq' = Append(inq, p)

Off == {n \in Notifiers : pc[n] = "off"}

(* The CCCD's write handler for flags new, with fresh[k] the notifier to   *)
(* start for kind k.  Notifications come first; a kind the characteristic  *)
(* does not have ends the write with an error, and what was done before    *)
(* stays done.                                                             *)
Starts(new) == {k \in new \ ccc : k \in props}
Stops(new) == ccc \ new
Refused(new) == {k \in new \ ccc : k \notin props}
Acts(new) == IF "ntf" \in Refused(new) THEN {}
             ELSE IF "ind" \in Refused(new) THEN {"ntf"} ELSE Kinds

(* The kinds a CCCD write starts a notifier for. *)
Started(new) == Starts(new) \cap Acts(new)

(* Bound: a CCCD write comes when none is on its way, and while identities *)
(* are left for the notifiers it starts.                                   *)
InBounds(r) ==
  r.t \in CCCDWrites =>
    /\ rd = "seq" => rreq.t \notin CCCDWrites
    /\ \A i \in 1..Len(inq) : inq[i].t \notin CCCDWrites
    /\ Cardinality(Started(r.flags)) <= Cardinality(Off)

PeerRequest(r) ==
  /\ ~asking
  /\ r.t \in PeerOps \ Commands
  /\ InBounds(r)
  /\ Arrives(r)
  /\ asking' = TRUE
  /\ UNCHANGED <<link, pending, strayed, rdVars, hd, mtuVars, free, chConfirm,
                 subVars, sendVars>>

PeerCommand(r) ==
  /\ r.t \in PeerOps \cap Commands
  /\ InBounds(r)
  /\ Arrives(r)
  /\ UNCHANGED <<link, peerVars, rdVars, hd, mtuVars, free, chConfirm, subVars, sendVars>>

PeerConfirms(i) ==
  /\ i \in pending \/ (i = 0 /\ Spurious)
  /\ Arrives([t |-> "conf", ind |-> i])
  /\ pending' = pending \ {i}
  /\ strayed' = (strayed \/ i = 0)
  /\ UNCHANGED <<link, asking, rdVars, hd, mtuVars, free, chConfirm, subVars, sendVars>>

(* The disconnect event, asked for or not. *)
Disconnected ==
  /\ link # "down"
  /\ link' = "down"
  /\ UNCHANGED <<inq, peerVars, rdVars, hd, mtuVars, free, chConfirm, subVars, sendVars>>

(* conn.Close: nil at once for a connection that is down or whose          *)
(* Disconnect the controller accepts; otherwise the connection is          *)
(* force-closed.                                                           *)
CloseConn ==
  \/ link' = IF link = "up" THEN "closing" ELSE link
  \/ link' = "down"
-----------------------------------------------------------------------------
(* The reader goroutine of Loop.                                           *)

Reads(T) == rd = "read" /\ inq # <<>> /\ Head(inq).t \in T /\ inq' = Tail(inq)

IndsPastDrain == {n \in Notifiers : kind[n] = "ind" /\ pc[n] \in {"write", "sent", "await"}}

(* Mutant: chConfirm without a buffer takes a confirmation only while      *)
(* indicate waits in its select.                                           *)
ReadConfirmation_Unbuffered ==
  /\ Reads({"conf"})
  /\ chConfirm' = IF chConfirm = <<>> /\ \E n \in Notifiers : pc[n] = "await"
                  THEN <<[ind |-> Head(inq).ind, idle |-> FALSE]>> ELSE chConfirm
  /\ UNCHANGED <<link, peerVars, rdVars, hd, mtuVars, free, subVars, sendVars>>

(* A confirmation goes into chConfirm if there is room. *)
ReadConfirmation ==
  /\ Reads({"conf"})
  /\ chConfirm' = IF chConfirm = <<>>
                  THEN <<[ind |-> Head(inq).ind, idle |-> IndsPastDrain = {}]>> ELSE chConfirm
  /\ UNCHANGED <<link, peerVars, rdVars, hd, mtuVars, free, subVars, sendVars>>

ReadRequest ==
  /\ Reads({"mtu", "req", "cmd", "short"} \cup CCCDWrites)
  /\ rreq' = Head(inq)
  /\ rd' = "seq"
  /\ UNCHANGED <<link, peerVars, hd, mtuVars, free, chConfirm, subVars, sendVars>>

(* Read fails: seq and chConfirm are closed, the bearer after them. *)
ReadFails ==
  /\ rd = "read"
  /\ rd' = "close"
  /\ inq' = <<>>
  /\ UNCHANGED <<link, peerVars, rreq, hd, mtuVars, free, chConfirm, subVars, sendVars>>

(* The connection is down and nothing is queued, or the next PDU is longer *)
(* than the receive buffer.                                                *)
ReadEOF == link = "down" /\ inq = <<>> /\ ReadFails
ReadTooLong == ReadFails

ReaderCloses ==
  /\ rd = "close"
  /\ CloseConn
  /\ rd' = "exit"
  /\ UNCHANGED <<inq, peerVars, rreq, hd, mtuVars, free, chConfirm, subVars, sendVars>>
-----------------------------------------------------------------------------
(* The request handler.                                                    *)

WriteCCCD(new, fresh) ==
  LET started == {fresh[k] : k \in Started(new)}
      stopped == {cur[k] : k \in Stops(new) \cap Acts(new)}
  IN  /\ ccc' = IF Refused(new) = {} THEN new ELSE ccc
      /\ cur' = [k \in Kinds |-> IF k \notin ccc' THEN None
                                  ELSE IF k \in Started(new) THEN fresh[k] ELSE cur[k]]
      /\ kind' = [n \in Notifiers |-> IF n \in started
                                      THEN CHOOSE k \in Started(new) : fresh[k] = n ELSE kind[n]]
      /\ open' = [n \in Notifiers |-> n \in started \/ (open[n] /\ n \notin stopped)]
      /\ pc' = [n \in Notifiers |-> IF n \in started THEN "idle" ELSE pc[n]]
      /\ half' = (half \/ (Refused(new) # {} /\ (Starts(new) \cup Stops(new)) \cap Acts(new) # {}))

(* seq <- b meets the handler's range: the handler has a request.  The     *)
(* other of the two receive buffers is in pool then, since the handler has *)
(* put its last one back, so the reader's <-pool does not wait.            *)
Receives(T) ==
  /\ rd = "seq" /\ hd = "idle" /\ rreq.t \in T
  /\ rd' = "read" /\ rreq' = None

(* Reads, writes and requests it refuses: a response; no response to a     *)
(* write command.                                                          *)
HandleRequest ==
  /\ Receives({"req", "cmd"})
  /\ hd' = IF rreq.t = "cmd" THEN "cmd" ELSE "rsp"
  /\ UNCHANGED <<link, inq, peerVars, mtuVars, free, chConfirm, subVars, sendVars>>

HandleCCCD ==
  /\ Receives(CCCDWrites)
  /\ hd' = IF rreq.t = "cccCmd" THEN "cmd" ELSE "rsp"
  /\ \E fresh \in [Started(rreq.flags) -> Off] :
       /\ \A j, k \in Started(rreq.flags) : fresh[j] = fresh[k] => j = k
       /\ WriteCCCD(rreq.flags, fresh)
  /\ UNCHANGED <<link, inq, peerVars, mtuVars, free, chConfirm, props, buf, ind, count>>

(* A CCCD write of fewer than two octets: binary.LittleEndian.Uint16 of    *)
(* its data panics.                                                        *)
ShortCCCD ==
  /\ Receives({"short"})
  /\ hd' = "panic"
  /\ UNCHANGED <<link, inq, peerVars, mtuVars, free, chConfirm, subVars, sendVars>>

(* handleExchangeMTURequest: the connection's MTU at once; if it differs   *)
(* from the buffer, all three buffers before it returns.                   *)
handleExchangeMTURequest ==
  /\ Receives({"mtu"})
  /\ txMTU' = Clamp(rreq.mtu)
  /\ txBuf' = Clamp(rreq.mtu)
  /\ hd' = IF Clamp(rreq.mtu) # txBuf THEN "mtuNot" ELSE "rsp"
  /\ UNCHANGED <<link, inq, peerVars, free, chConfirm, subVars, sendVars>>

(* Mutant: a buffer that is in use is left alone. *)
ReplaceBuf_Skip(k, from, to) ==
  /\ hd = from
  /\ free' = [free EXCEPT ![k] = IF free[k] # 0 THEN txMTU ELSE 0]
  /\ hd' = to
  /\ UNCHANGED <<link, inq, peerVars, rdVars, mtuVars, chConfirm, subVars, sendVars>>

(* A buffer is taken out of its channel and a new one put in. *)
ReplaceBuf(k, from, to) ==
  /\ hd = from
  /\ free[k] # 0
  /\ free' = [free EXCEPT ![k] = txMTU]
  /\ hd' = to
  /\ UNCHANGED <<link, inq, peerVars, rdVars, mtuVars, chConfirm, subVars, sendVars>>

(* The response is written, or its Write fails, or there is none; the      *)
(* receive buffer goes back to pool.                                       *)
Respond ==
  /\ hd \in {"rsp", "cmd"}
  /\ hd' = "idle"
  /\ asking' \in IF link = "down" \/ hd = "cmd" THEN {asking} ELSE {asking, FALSE}
  /\ UNCHANGED <<link, inq, pending, strayed, rdVars, mtuVars, free, chConfirm,
                 subVars, sendVars>>

(* Mutant: the cleanup closes only notifications. *)
Cleanup_NtfOnly ==
  /\ hd = "idle" /\ Closed
  /\ open' = [n \in Notifiers |-> open[n] /\ n \notin {cur[k] : k \in ccc \cap {"ntf"}}]
  /\ hd' = "done"
  /\ UNCHANGED <<link, inq, peerVars, rdVars, mtuVars, free, chConfirm, props, ccc,
                 cur, half, kind, sendVars>>

(* seq is closed: the notifiers of the current subscriptions are closed,   *)
(* and Loop returns.                                                       *)
Cleanup ==
  /\ hd = "idle" /\ Closed
  /\ open' = [n \in Notifiers |-> open[n] /\ n \notin {cur[k] : k \in ccc}]
  /\ hd' = "done"
  /\ UNCHANGED <<link, inq, peerVars, rdVars, mtuVars, free, chConfirm, props, ccc,
                 cur, half, kind, sendVars>>
-----------------------------------------------------------------------------
(* Notifiers: the goroutines of ServeNotify.  Write does not look at the   *)
(* context; the goroutine ends when the application likes.                 *)

Goto(n, l) == pc' = [pc EXCEPT ![n] = l]

(* notify or indicate returns; the deferred send gives the buffer back. *)
Return(n) ==
  /\ Goto(n, "idle")
  /\ free' = [free EXCEPT ![kind[n]] = buf[n]]
  /\ buf' = [buf EXCEPT ![n] = 0]
  /\ ind' = [ind EXCEPT ![n] = 0]

Call(n) ==
  /\ pc[n] = "idle"
  /\ kind[n] = "ind" => count < MaxInds
  /\ Goto(n, "get")
  /\ count' = IF kind[n] = "ind" THEN count + 1 ELSE count
  /\ ind' = [ind EXCEPT ![n] = IF kind[n] = "ind" THEN count + 1 ELSE 0]
  /\ UNCHANGED <<link, inq, peerVars, rdVars, hd, mtuVars, free, chConfirm, subVars, buf>>

(* The buffer is taken and the PDU put together; indicate then empties     *)
(* chConfirm without waiting.                                              *)
GetBuf(n) ==
  /\ pc[n] = "get" /\ free[kind[n]] # 0
  /\ buf' = [buf EXCEPT ![n] = free[kind[n]]]
  /\ free' = [free EXCEPT ![kind[n]] = 0]
  /\ chConfirm' = IF kind[n] = "ind" THEN <<>> ELSE chConfirm
  /\ Goto(n, "write")
  /\ UNCHANGED <<link, inq, peerVars, rdVars, hd, mtuVars, subVars, ind, count>>

(* What conn.Write lets through. *)
Writable(n) == link # "down" /\ buf[n] <= txMTU

(* A value as long as the buffer is written ... *)
WriteValue(n) ==
  /\ pc[n] = "write" /\ Writable(n)
  /\ IF kind[n] = "ind"
       THEN /\ pending' = pending \cup {ind[n]}
            /\ Goto(n, "sent") /\ UNCHANGED <<free, buf, ind>>
       ELSE Return(n) /\ UNCHANGED pending
  /\ UNCHANGED <<link, inq, asking, strayed, rdVars, hd, mtuVars, chConfirm, subVars,
                 count>>

(* ... or the write fails: too long, link down, or no credit in time. *)
WriteFails(n) ==
  /\ pc[n] = "write"
  /\ Return(n)
  /\ UNCHANGED <<link, inq, peerVars, rdVars, hd, mtuVars, chConfirm, subVars, count>>

(* conn.Write has returned; indicate reaches its select. *)
Select(n) ==
  /\ pc[n] = "sent"
  /\ Goto(n, "await")
  /\ UNCHANGED <<link, inq, peerVars, rdVars, hd, mtuVars, free, chConfirm, subVars,
                 buf, ind, count>>

Confirmed(n) ==
  /\ pc[n] = "await" /\ chConfirm # <<>>
  /\ chConfirm' = <<>>
  /\ Return(n)
  /\ UNCHANGED <<link, inq, peerVars, rdVars, hd, mtuVars, subVars, count>>

(* chConfirm is closed and empty: io.ErrClosedPipe. *)
ConfirmClosed(n) ==
  /\ pc[n] = "await" /\ chConfirm = <<>> /\ Closed
  /\ Return(n)
  /\ UNCHANGED <<link, inq, peerVars, rdVars, hd, mtuVars, chConfirm, subVars, count>>

(* Mutant: a timeout that leaves the bearer alone. *)
Timeout_NoClose(n) ==
  /\ pc[n] = "await"
  /\ Return(n)
  /\ UNCHANGED <<link, inq, peerVars, rdVars, hd, mtuVars, chConfirm, subVars, count>>

(* seqProtoTimeout: the bearer is closed, then the buffer released. *)
Timeout(n) ==
  /\ pc[n] = "await"
  /\ Goto(n, "close")
  /\ UNCHANGED <<link, inq, peerVars, rdVars, hd, mtuVars, free, chConfirm, subVars,
                 buf, ind, count>>

TimeoutCloses(n) ==
  /\ pc[n] = "close"
  /\ CloseConn
  /\ Return(n)
  /\ UNCHANGED <<inq, peerVars, rdVars, hd, mtuVars, chConfirm, subVars, count>>

Ends(n) ==
  /\ pc[n] = "idle" /\ ~open[n]
  /\ Goto(n, "off")
  /\ kind' = [kind EXCEPT ![n] = "ntf"]
  /\ UNCHANGED <<link, inq, peerVars, rdVars, hd, mtuVars, free, chConfirm, props,
                 ccc, cur, half, open, buf, ind, count>>
-----------------------------------------------------------------------------
Reader == ReadConfirmation \/ ReadRequest \/ ReadEOF \/ ReaderCloses

Handler ==
  \/ HandleRequest \/ HandleCCCD \/ ShortCCCD \/ handleExchangeMTURequest
  \/ ReplaceBuf("ntf", "mtuNot", "mtuInd") \/ ReplaceBuf("ind", "mtuInd", "rsp")
  \/ Respond \/ Cleanup

(* The steps of notify and indicate but for the timer. *)
Notifies(n) ==
  \/ GetBuf(n) \/ WriteValue(n) \/ WriteFails(n) \/ Select(n)
  \/ Confirmed(n) \/ ConfirmClosed(n) \/ TimeoutCloses(n)

Peer ==
  \/ \E r \in Request : PeerRequest(r) \/ PeerCommand(r)
  \/ \E i \in 0..MaxInds : PeerConfirms(i)

Next ==
  /\ Alive
  /\ \/ Reader \/ ReadTooLong \/ Handler \/ Peer \/ Disconnected
     \/ \E n \in Notifiers : Notifies(n) \/ Call(n) \/ Timeout(n) \/ Ends(n)

Spec == Init /\ [][Next]_vars

(* The goroutines go on; a wait for a buffer is served in order.  Nothing  *)
(* is assumed of the timer, the application, the peer or the link.         *)
PromptSpec ==
  /\ Spec
  /\ WF_vars(Alive /\ Reader)
  /\ WF_vars(Handler)
  /\ SF_vars(ReplaceBuf("ntf", "mtuNot", "mtuInd"))
  /\ SF_vars(ReplaceBuf("ind", "mtuInd", "rsp"))
  /\ \A n \in Notifiers : WF_vars(Alive /\ Notifies(n)) /\ SF_vars(Alive /\ GetBuf(n))
-----------------------------------------------------------------------------
(* Properties.                                                             *)

(* A confirmation parked before an indication's drain never completes that *)
(* indication; and from a peer that confirms only what it received, an     *)
(* indication takes another's confirmation only after a timeout, while the *)
(* Disconnect that timeout issued is still under way.  (indicate's comment *)
(* has the close rule that out as well; Close does not wait for the event.) *)
StragglerOnlyWhileClosing ==
  \A n \in Notifiers :
    pc[n] = "await" /\ chConfirm # <<>> =>
      /\ ~Head(chConfirm).idle
      /\ link = "up" /\ ~strayed => Head(chConfirm).ind \in {ind[n], 0}

(* Outside the exchange that changes it every buffer, free or in use, is   *)
(* as long as the connection's MTU: no value is cut to an older MTU, and   *)
(* no PDU refused for being longer than a newer one.                       *)
BuffersFollowMTU ==
  hd \notin {"mtuNot", "mtuInd"} =>
    /\ txBuf = txMTU
    /\ \A k \in Kinds : free[k] \in {0, txMTU}
    /\ \A n \in Notifiers : buf[n] \in {0, txMTU}

(* The notifiers whose context is alive are those of the current           *)
(* subscriptions, and none once Loop has returned, unless a CCCD write was *)
(* refused half way.                                                       *)
SubscriptionsMatch ==
  ~half => \A n \in Notifiers :
             open[n] <=> hd # "done" /\ \E k \in ccc : cur[k] = n

(* The handler waits for the indication's buffer, the reader for the       *)
(* handler, and the indication for the reader.                             *)
ExchangeBlocked == hd = "mtuInd" /\ rd = "seq"

OnItsWay(i) ==
  \/ \E k \in 1..Len(inq) : inq[k].t = "conf" /\ inq[k].ind = i
  \/ chConfirm # <<>> /\ Head(chConfirm).ind = i

(* An indication whose confirmation has arrived returns without the help   *)
(* of its timer, however fast the confirmation was; the one thing in its   *)
(* way is an MTU exchange with another PDU behind it.                      *)
ConfirmedReturns ==
  \A n \in Notifiers :
    pc[n] \in {"sent", "await"} /\ OnItsWay(ind[n])
      ~> pc[n] \notin {"sent", "await"} \/ ExchangeBlocked \/ ~Alive

=============================================================================
