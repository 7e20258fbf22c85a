# A verification project for bdstark/ble

`ble` is a Bluetooth Low Energy stack in Go.  Its Linux backend talks to the
controller through one raw HCI socket; on top of it sit L2CAP, ATT and GATT.
The repository's README states two goals for it: "the stack must never wedge",
and "every failure must surface as a typed, bounded error".  Both are about
goroutines, channels, mutexes, timers and a controller that answers late, twice
or never, and they are what this project is about.

The TLA+ modules here model the Linux backend.  Each is translated from the Go
source; `PROJECT.json` maps every definition to its lines.

## 1. Inventory

### Goroutines

| goroutine | started by | what it does |
|---|---|---|
| `sktLoop` | `HCI.Init` | reads the socket, runs every event and ACL handler, one at a time; on exit tears every connection down and closes `h.done` |
| callers of the API | application | `Send` commands, write PDUs, ATT requests, `Close`, `Dial`, `Scan` |
| `recombine` | `newConn`, one per connection | reassembles L2CAP PDUs from `chInPkt` into `chInPDU`, handles signalling and SMP |
| `dispose` | `kill`, refused connections | runs `Conn.Close` outside `sktLoop` |
| `advDispatcher` | `HCI.Init` | calls the advertisement handler |
| `att.Client.Loop` and its async worker | `gatt.NewClient` | reads ATT PDUs; calls notification handlers, answers the peer's MTU request |
| `att.Server.Loop` and its reader | `gatt.Server`/device | reads and serves ATT requests |

### Components

| component | source | state | operations | what makes it hard |
|---|---|---|---|---|
| ACL transmit credits | `hci/buffer.go`, `writePDU`, `handleNumberOfCompletedPackets` | the shared pool; per connection `sent` and a train mutex | `GetTimeout`, `Put`, `ReclaimAll`, the fragment loop | a buffer is queued before it is filled; completions and three teardown paths race trains; credits lost once are lost for good |
| Connection lifecycle | `hci/conn.go`, `hci/hci.go` | `h.conns`, `chInPkt`, `chInPDU`, `chDone`, `killOnce` | registration, `handleACL`, `Close`, `kill`, `cleanupConn`, `cleanupConns`, `recombine` | handles are reused; channels closed by one goroutine and written by another; the adapter may die in the middle |
| HCI command path | `hci/hci.go` | `h.Mutex`, `chCmdBufs`, `sent`, `err`, `done` | `Send`, `send`, the two completion handlers, `close` | replies are matched by opcode only; late and duplicate completions; errors read after `done` closes |
| ATT client | `att/client.go` | `chTxBuf`, `rspc`, `chErr`, `bearerClosed`, `abandonedRsp`, the async queue | request methods, `sendReq`, `resolveAbandoned`, `Loop`, `ExchangeMTU` and its peer-initiated twin | a cancelled request's late response; a PDU that looks like a response; an MTU that changes under a waiting writer |
| Advertising reports | `hci/hci.go`, `hci/gap.go` | `adHist`, `adLast`, `advTgt`, `chAdv` | `handleLEAdvertisingReport`, `SetAdvHandler`, `resetAdHistory`, `advDispatcher` | index arithmetic of a ring; a handler replaced while reports are queued |
| Connection parameter updates | `hci/conn.go`, `hci/signal.go` | the update slot, the signalling transaction | `UpdateParams`, `Signal`, `handleSignal`, the update events | one slot for local and peer-requested updates; completion events carry no request identity |
| ATT server | `att/server.go`, `att/db.go` | `chNotBuf`, `chIndBuf`, `chConfirm`, `cccs` and the notifiers, the prepare-write queue | the request handlers, `notify`, `indicate`, CCCD writes | confirmations and requests share one reader; confirmations carry no identity; the MTU exchange waits for buffers in use |
| GAP state | `hci/gap.go` | scan, advertise and dial parameters, `chMasterConn`, `chSlaveConn` | `Scan`, `Advertise`, `Dial`, `cancelDial`, `Accept` | commands abandoned by timeout execute late; a connection completes while its dial is cancelled |
| GATT client | `gatt/client.go` | profile cache, subscriptions | discovery, `Subscribe`, notification dispatch | callbacks under locks; discovery loops that must advance |
| GATT server, attribute database | `gatt/server.go`, `att/db.go` | services, attributes by handle | `AddService`, `SetServices`, `NewDB`, range lookups | boundaries of handle ranges; a descriptor appended at every rebuild |
| Device, Connect, Scan, Find | `linux/device.go`, `gatt.go` | a `found` channel | `Connect`, `Advertise`, the accept loop | the filter and the context race |
| SMP, advertising packets, generated code, sockets, darwin | | none, or bytes, or the operating system | | |

### How they interact

`sktLoop` is the hub: it returns credits to writers, completes commands,
registers and removes connections, feeds `recombine`.  Whatever blocks it blocks
the stack.  `Close` needs the command path (a Disconnect), whose completion only
`sktLoop` delivers; `sktLoop` therefore never calls it directly (`dispose`).
Writers wait for credits that `sktLoop` returns, while `sktLoop`'s teardown waits
for the writers' train mutex.  The ATT client reads through `recombine`'s queue:
a stalled `Loop` fills `chInPDU`, then `chInPkt`, and then `handleACL` kills the
connection.

### What makes each part correct

* Credits: none is lost, none is used twice, the controller's budget is kept,
  the fragments of a PDU stay together, teardown and writes always end.
* Connections: no send on a closed channel, packets and events reach the
  connection of the link they belong to, closing always completes.
* Commands: a reply reaches its own command as far as opcodes allow, an error
  is never reported as success, every `Send` returns, `sktLoop` never waits.
* ATT client: no request takes another request's response, the buffer is as
  long as the MTU, every request returns, the read loop never stalls.
* ATT server: an indication is completed by its own confirmation, the buffers are
  as long as the MTU, notifiers live as long as their subscription, the reader
  and the handler do not wait for each other.
* Updates and signalling: a caller adopts the result of its own update, a
  request in a packet is answered once, nothing keeps the slot for ever.
* GAP: a dial returns the peer it was asked for, host and controller agree once
  all calls have returned, a scan recovers from an abandoned one, calls return.
* GATT client: its subscriptions are what the peer has, removed handlers stay
  silent, handlers may call back; discovery and long reads are exact.
* Queued writes: what is executed is what was queued.
* Advertising: the ring holds the latest reports, a scan response is paired
  with the newest advertisement of its address, the search ends.

## 2. Modules

| module | models | with |
|---|---|---|
| `TxCredits` | ACL transmit credits | implements `CreditPool` |
| `CreditPool` | what the credits promise: the abstract specification | |
| `ConnLifecycle` | connections from registration to teardown | |
| `HciCommand` | the command path and the end of the transport | |
| `ConnUpdate` | the update slot, `UpdateParams`, L2CAP signalling | a controller that completes updates in order |
| `GapState` | dialing, scanning, advertising, `Connect` | `Send` as `HciCommand` has it, and a controller with a state of its own |
| `AttClient` | requests, responses, MTU exchanges, async dispatch | |
| `AttServer` | reader and handler, indications, MTU exchange, CCCD writes | |
| `AttDatabase` | handle allocation and the read handlers, as operators | |
| `AttSession` | discovery, long reads, queued writes: client and server together | extends `AttDatabase` |
| `GattClient` | subscriptions, dispatch, locks, `Name` | the bearer as `AttClient` has it |
| `AdvReports` | history ring, pairing, delivery | |
| `...Proofs` | theorems about `TxCredits`, `ConnLifecycle`, `ConnUpdate`, `GapState`, `AttClient`, `AttServer` | each extends its module |
| `HciCommandProofs` | theorems about `HciCommand` and `AdvReports`, which share `sktLoop` | extends both |
| `GattClientProofs` | theorems about `GattClient` and `AttSession`, the two halves of the client | extends both |
| `MC...` | TLC instances; most constants are in the `.cfg` files | |

Every module keeps the source's names.  `Foo_Bar` beside `Foo` is a mutant of
`Foo`: what a plausible bug in that code would be.  No specification uses it;
`PROJECT.json` pairs each checked property with a mutant that breaks it.

### TxCredits

State: `pool` (`Pool.ch`), `sent[c]` and `mu[c]` (`txCredits.sent`, the train
mutex), `life[c]` (the stages of a teardown: up, removed from `h.conns`,
`chDone` closed, reclaimed) and `owner[c]` (which goroutine tears down), the
writers' position in `writePDU`, and the controller's view: packets it holds
(`held`) and completions it has not reported yet (`comp`).

Each wait of `writePDU` is an action boundary: the mutex, `GetTimeout`'s select
(buffer, done, timer as three actions), the assembly of the packet, the `chDone`
check, the socket write.  Teardown is three actions (deregister, `closeChans`,
`ReclaimAll`) and has the code's three starters: the disconnect event,
`cleanupConns`, and the forced `cleanupConn` on `Close`'s goroutine.

`CreditPool` knows neither buffers nor queues, trains or locks: a credit is free or
owed by one connection, comes back from the connection that took it, and a
settled connection never takes one again.  The refinement mapping makes a
connection the holder of what its `sent` queue contains, and settled once
`ReclaimAll` has drained it.

### ConnLifecycle

State: `conns[h]` (`h.conns`), `hdl[c]`, `closed[c]`, the two inbound queues, the
recombine goroutine (`rx`), `sktLoop` (`lpc`, and the `Conn` it has looked up),
the positions of up to two closers per connection (the application's `Close` and
the goroutine `kill` starts), and the controller: links, pending events, and
Disconnect commands it may still execute after `Send` has given up on them.

`handleACL` is two actions, lookup and send, because another goroutine may close
the channel in between; `handleDisconnectionComplete` is two as well.  A
Disconnect is accepted, refused, or unanswered; an unanswered one may still be
executed later (`ExecLate`).  Handles are reused as soon as the controller has
let go of them.

### HciCommand

State: `mu` (`h.Mutex`), the callers of `Send`, `bufs` (the number of buffers in
`chCmdBufs`), `sent` (by opcode), `reply` (each packet's `done` channel), `err`,
`open`, `loop`.  A command has a number the code does not know; `loose` records
the commands whose completion may still come after their `Send` has returned, or
twice.  `quit` records that the application has called `HCI.Close`, which is
`close(nil)` and erases a recorded error.

### AttClient

State: the callers of request methods, the transmit buffer (`slot`, `bufLen`),
the connection's `txMTU`, `rspc`, `chErr`, `bearerClosed`, `abandoned`
(`abandonedRsp`), `Loop`, the async queue and its worker, and the peer.  A
request has a number the code does not know; the code compares opcodes.  The
peer is a sequential server: it answers a request once, with a response or an
Error Response, or never.  It may send notifications, MTU requests and requests
the client does not implement ("stray"), which `Loop` cannot tell from responses,
and PDUs too short to hand on ("runt"), which it drops.  A notification and an
indication differ in the confirmation that `Loop` writes before it reads on
(`LoopConfirm`), for a runt as well; that write ends by the credit timer at the
latest.  `ExchangeMTU` sets the connection's MTU only when the buffer's length
differs (`Adopt`), so that `BufferFitsMTU` is checked and not built in.

The request methods differ in their PDUs only and are one: `op` is an ordinary
request, `ExchangeMTU`, or a command without response.  `need` is the slice of
the buffer the method takes; the methods that carry a value check it against the
MTU before they have the buffer.

### AttServer

State: the link (up, a Disconnect accepted, down), the reader (`rd`, `rreq`), the
handler (`hd`), the transmit MTU and the three buffers that follow it (`txBuf`,
`free` for the ones in `chNotBuf` and `chIndBuf`, `buf[n]` for one in use),
`chConfirm`, the subscriptions (`ccc`, `cur`, `open`), the goroutines of the
notifiers, and the peer.  An indication has a number the wire does not carry; a
confirmation in `chConfirm` also records whether an indication had passed its
drain when it was queued.

`conn.Close` returns as soon as its Disconnect is accepted; the event comes later
(`link = "closing"`).  The two receive buffers of `Loop` are not counted: the
handler puts its buffer back before it asks for the next request, so the reader's
`<-pool` never waits.  Values are as long as their buffer.  Every request other
than an MTU exchange and a CCCD write is a step with a response, every write
command a step without.  CCCD writes come as Write Requests or Write Commands; an
Execute Write hands each of its runs to the same handler, the last as a write
with a response and the others as writes without.  A value of fewer than two octets panics
in the CCCD's handler (`ShortCCCD`), and nothing runs from then on.  The prepare-write
queue and the attribute database belong to the handler alone and have no part in
the interleavings; they are in `AttSession`.

### AdvReports

State: `adHist`, `adLast`, `advTgt`, `chAdv`, the dispatcher, and the pairing
search of a scan response (`sr`, `idx`), taken one iteration at a time.  `recent`
is the reference: the advertisements since the last reset, oldest first.

### ConnUpdate

State: the slot (`updateWaiter`, `updateSignalPending`), the callers of
`UpdateParams` and their channels, the recombine goroutine inside `handleSignal`
(the packet, the command it is at, the answers it has sent), `Signal` and its
channel `sigSent` ("closed" after `Signal` has returned: the field is never
reset), `chDone`, `dataLen`, and the controller: commands, accepted updates in
order, completions on their way.  An update has a number; the completion event
carries only the connection.

`Send` inside `UpdateParams` and `handleConnectionParameterUpdateRequest` is a
wait of its own: the status may say accepted or refused, or not come at all, and
then the controller may still accept.  Signalling commands are kinds: an update
request, a request answered at once, one that is passed over, and anything else,
which is offered to `Signal`.  `connUpdateTimeout` may fire whatever the controller
is doing: that it is longer than any supervision timeout is not relied upon, and
an update it ends too early counts as abandoned.

### GapState

State: the position of each caller in `Dial`, `Scan`, `Connect` or `Advertise`,
Connect's `found`, the registered handler, `advEnable`, the goroutines that
sktLoop's handlers start (`bg`), `Send` (`lock`, `cur`, `reply`), commands and events
on their way, and what the controller does: initiating, scanning, advertising.

A command has a number; `handleReply` matches by opcode, and enabling and
disabling are one opcode.  An abandoned command still executes.  `Dial` receives
from a channel all dials share, and `sktLoop` sends only to one that waits
already.  `Connect` drains `found` whichever way the scan ended.  `blame` is
history: what may explain a surprise (overlapping dials or scans, a reply of
another command, a re-enable sent after StopAdvertising).

### AttDatabase and AttSession

A service is the length of its UUID and its characteristics, a characteristic
the length of its UUID, its descriptors and its CCCDs: enough to allocate handles
and to know which entries share a response.  `Hierarchy` is the reference: what a
client should find, computed from the services and not from the attributes.

`AttSession` runs the procedures that take several requests, one request and its
response a step.  The database is the one the connection was accepted with.  The
client's exchange sets the server's buffer and then the client's MTU, and the
response may be lost in between; an MTU request of the peer sets the client's
alone.  `RequestFails` may end discovery at any request, and what was found stays
in the profile.  A plan keeps the three kinds of procedure apart, since nothing
but the MTU connects them.

### GattClient

State: the client's lock, `nameMu`, `subs` (flags and handlers), the calls and
their round trips, the bearer (one request, answered, refused or abandoned), the
peer's CCCDs, the notifications received, and the dispatcher, which reads the
handler (`HandleNotification`) and invokes it (`Invoke`) in two steps.  The
dispatch goroutine is also a caller: a handler may call the client.  A handler is
named by the call that installed it; `gone` and `late` count what it does after a
returned call has removed or replaced it, `doubt` the CCCDs whose last write was
abandoned.

## 3. Runs

| run | instance | what it shows |
|---|---|---|
| `tx` | 1 credit, 2 connections, 2 writers, trains of up to 2 fragments | every credit is in one place; no credit is left on a reclaimed connection; trains do not interleave; the whole implements `CreditPool`; teardown completes without the help of any timer; writes return if their timer fires |
| `conn` | 2 connections on 1 handle, queues of 1, ATT and corrupt PDUs to a slow reader | a closed channel can be sent to only after a forced close; packets and disconnect events reach their owner; `Close` and `kill` complete and `recombine` ends although nobody reads; `sktLoop` returns from every handler |
| `cmd` | 2 senders, 2 opcodes, 2 commands, NOP events, 2 command buffers | an error is recorded before `h.done` closes (unless the application called `Close`); a mismatched reply starts with a given-up or duplicated command; `Send` returns; `sktLoop` is not held |
| `upd` | 2 callers, 3 updates, 1 packet of up to 3 commands, 1 `Signal`, both roles | the controller has one update at a time and callers adopt their own, unless an update was abandoned; requests are answered once and in order; no update and no slot stays for ever |
| `gap` | 2 callers, 2 peers, 2 calls of `Dial`, `Connect` and `Advertise`, 1 abandoned command, 1 central, adapter death | a dial returns its peer unless dials overlapped or a reply was mistaken; the controller is idle once all is quiet; a scan recovers from an abandoned enable; every call returns |
| `att` | 2 requests on the wire and any number of calls, MTUs 23 and 64, stray and MTU requests, indications and runts of the peer | no stale response; the buffer fits the MTU; a waited-for response is dropped only behind a stray request; requests return; the read loop never stalls behind a handler that does not return |
| `srv` | 1 notifier at a time, 2 indications, CCCD writes of both ways and short ones, MTUs 23 and 64, characteristics with both properties and with notify only, spurious confirmations | which confirmations an indication can take; buffers against the MTU; notifiers against subscriptions; a confirmed indication returns without its timer unless an MTU exchange is in the way |
| `session` | 3 services of different shapes beside the default one, 2 changes, values of 10, 22 and 44 octets, 5 kinds of queued parts | discovery is exact; long reads are whole; executed writes are the queued ones |
| `subs` | a caller and the dispatcher, 3 calls, 2 notifications | subscriptions match the peer's; a removed handler runs at most once more; every call returns, from a handler too |
| `adv` | 3 advertisers, ring of 5 | the ring against its reference; pairing with the newest, and orphans are real except for the oldest slot of a full ring |
| `conn_panic`, `adv_wedge` | minimal | the findings below |

Bounds.  Two connections are what handle reuse and credits shared between
connections need; two writers what trains need to interleave; one credit for
trains of two fragments makes every train wait (larger pools are the proofs'
matter); a queue of one is full at once, so the overflow paths are taken.  Two
commands of one opcode let a late reply meet the wrong `Send`, and a second opcode
must stay apart.  Two requests on the wire are one abandoned and one that could
take its response; calls that fail before they write, in `resolveAbandoned` too, are
not counted, so an abandoned transaction is also met by calls that are abandoned
themselves.  One notifier at a time means that both kinds are never subscribed at
once in the run: two notifiers are beyond TLC here, and `NotifiersFollowCCCD` and the
other theorems hold for any set of them.  Two indications let a straggling confirmation meet the
next one, and one inbound PDU beside the one the reader holds is a confirmation
behind a command.  Three updates are one abandoned, one that adopts its
completion, and a peer's; the packets of the peer put an answered command or a response before
the request that blocks.  Two calls of GAP are two overlapping, or one after what
the other left; one abandoned command is enough to leave the controller
initiating or scanning.  Discovery's services make responses that mix lengths,
that are split at the smallest MTU, and that end at the last handle (`HMax` is the
size of the largest database).  22 octets fill one response at MTU 23, 44 two.  A
ring of five has slots that are neither first nor last, and three addresses an
entry to miss.  `MaxReqs`, `MaxCmds`, `MaxGens`, `MaxInds`, `MaxUpdates`, `MaxPkts`,
`MaxSignals`, `MaxCalls`, `MaxTmo`, `MaxSlaves`, `MaxOps`, `MaxNtf`, `MaxAdds`,
`MaxProcs`, `InCap` and `EvtCap` bound what would grow for ever; the capacities 16,
64 and 128 of the code's channels and ring are the constants `AsyncCap`, `BufCap`,
`PktCap`, `PduCap`, `QueueCap` and `HistLen`.

`CHECK_DEADLOCK FALSE` everywhere: after the adapter's death, or when the bound
on requests is used up, these systems stop.

Fairness.  Weak fairness for every goroutine that can take a step: Go schedules
runnable goroutines.  Strong fairness for waiting on a mutex or on the buffer
channel: `sync.Mutex` switches to FIFO hand-over after 1 ms of starvation, and a
channel serves its receivers in order.  A timer that has expired stays ready in
its channel, and `select` chooses uniformly among ready cases, so a timer arm is
strongly fair where other arms can be ready again and again (`AttClient`), and
weakly fair elsewhere.  `ConnUpdate` and `GapState` let the controller execute
what it is sent and complete what it accepted, or else their timers would stand
for it; `GattClient` lets a peer answer or lose the bearer, which is what
`AttClient`'s transaction timeout does; `GapState`'s calls end because their
contexts do.  Nothing else is assumed of the controller, the peer, the
application's callbacks, its reads or its contexts, nor, for `TeardownCompletes`,
of the credit timer (`WriteReturns` states its need of it as a premise), nor, for
`ConfirmedReturns`, of the indication's timer.  The confirmation that the ATT
client's `Loop` writes is bounded in the same way (`WriteReturns`), and therefore
weakly fair in `AttClient`.

## 4. Findings

* **`conn_panic`** A third closer.  `closeChans`' comment derives "handleACL can
  never look up a conn whose chInPkt is closed" from both closers running on
  `sktLoop`; `cleanupConn` runs on the goroutine of `Close`.  Between `handleACL`'s
  lookup and its send it can deregister and close: `sktLoop` panics.
  `PanicNeedsForcedClose` shows that there is no other way.
* **`adv_wedge`** The search stops at `adLast`, but `-1` wraps to the last index
  inside the loop body: if `adLast` is that last index the loop passes it.  With
  a full ring and an address that is not in it, `sktLoop` spins for ever.

Further disagreements met while modelling, which have no run of their own:

* When the refusal of a stray request cannot be written (a credit timeout leaves
  the link up), `sendReq` returns without recording its transaction as abandoned
  (`client.go:539`); the next request takes its response, which
  `client.go:586-589` sets out to prevent.  `NoStaleResponse` shows that there is
  no other way (`unrefused` records that it happened; a refusal that fails in
  `resolveAbandoned` leaves the transaction recorded and does no harm).
* The transport dies, the application calls `HCI.Close`, which is `close(nil)` and
  erases the recorded error, and a `Send` woken by `h.done` returns nil
  (`hci.go:489-491`: "so Error() is accurate for anyone woken by either").
  `ErrorBeforeDone` shows that there is no other way.
* `indicate` closes the bearer after a timeout so that no straggling confirmation
  "would otherwise be consumed by the NEXT indicate() as its own answer"
  (`server.go:148-153`).  `Close` returns when the Disconnect is accepted; until
  the event the bearer still carries the next indication and the straggler, which
  completes it.  `StragglerOnlyWhileClosing` shows that this window is all.
* The MTU exchange waits for the indication's buffer.  If the peer has sent a
  write command after its MTU request, the reader waits for the handler, and the
  confirmation that would release the buffer is behind the command: the
  indication times out although it was confirmed, and closes the bearer
  (`server.go:282`; `ExchangeBlocked` in `ConfirmedReturns`).
* The new MTU is in force before the response that announces it is written
  (`server.go:276-277`: "afer this response has been sent"); a notification in
  between may be longer than the peer expects.
* A CCCD write that is refused for its second kind has already started or closed
  the notifier of the first, and `cccs` keeps the old value (`db.go:197-201`): the
  notifier is never closed, or the subscription stays without one
  (`half` in `SubscriptionsMatch`).
* The CCCD's write handler takes two octets of the value without looking at its
  length (`db.go:177`), and the checks of the PDU's length before it do not ask for
  two (`server.go:591`, `server.go:719`): a shorter write panics in `Server.Loop`
  (`ShortCCCD`).
* `Close` checks `chDone` once before it sends Disconnect, and not again before
  the retry.  If the disconnect event is handled while it waits for `h.Mutex` and
  the handle is given to a new connection, that one is disconnected
  (`hci.go:615-616` wants it "left alone").
* `Write`, `WriteCommand` and `SignedWrite` compare the value with the MTU before
  they wait for the buffer; an MTU exchange that shrinks it in between ends in a
  slice panic (`SlicePanic` in `AttClient`; it takes two exchanges).
* `Loop` drops the response of a waiting request when a stray request still sits
  in `rspc` (`client.go:628-630` says only unwaited responses are dropped);
  `DroppedBehindStray` shows that nothing else causes it.
* The oldest entry of a full ring is not searched (the orphan case of `PairedWithLatest`), although
  `hci.go:130-132` counts orphans as having matched no entry.
* `advDispatcher` checks the target and then calls its handler: a handler that is
  replaced in between is still called once (`hci.go:828-830`).
* A caller of `UpdateParams` whose context is cancelled, or whose wait times out,
  frees the slot while the controller still works on its update; the next caller
  adopts that completion.  `conn.go:515-522` calls the overlap effectively
  unreachable.  The same follows from a peer's update whose command timed out: "The
  command never took: release the slot" (`signal.go:260`).  `SlotExclusive` and
  `AdoptsOwnResult` show that abandonment is the only way.
* `handleSignal` continues without advancing after it has handed a response to
  `Signal` (`signal.go:150`).  It meets the same bytes again: if `Signal` has not
  returned it rejects the response as not understood, and if it has, `sigSent` is
  closed and the send panics (`SendOnClosed`).  `Signal` also compares the
  response's code with the request's (`signal.go:68`), which never match.
* `handleLEConnectionComplete` says that it re-enables advertising and sends a
  disable (`hci.go:974-987`); the re-enable of a disconnection may be sent after
  `StopAdvertising` has sent its disable (`hci.go:1090`; "stale" in `QuietIsIdle`).
* Dials share `chMasterConn` and the controller's one initiation: overlapping
  dials may be given each other's peer, and the second cancels the first
  (`gap.go:262-270`; "dials" in `PeerIsAsked`).
* The LE event mask 0x1F (`hci.go:301`) leaves out the Data Length Change event
  that `handleLEDataLengthChange` waits for.
* An `Unsubscribe` that was abandoned but applied by the peer leaves the flag set
  locally: a later `Subscribe` returns nil and writes nothing (`doubt` in
  `LocalMatchesPeer`).
* A discovery that fails half-way leaves its services in the cached profile, which
  the next `DiscoverProfile` returns as whole; `force` finds everything twice
  (`used` in `DiscoveryExact`).  A walk that reaches handle 0xFFFF goes on from 0,
  which is refused, and discovery fails.
* `handleExchangeMTURequest` of the client takes the peer's MTU alone
  (`client.go:825-836`), against "the minimum" of `client.go:132-138`; a long read
  may then take a full part for the last (`over` in `LongReadWhole`).
* `genCharAttr` appends a CCCD to the characteristic each time a database is built
  (`db.go:118-121`): after the second `AddService` the first service has two.
* "Otherwise, skip to the next one" of `server.go:421` ends the loop instead.
  `ExecuteWrite` is not the "atomic operation" of `client.go:444`: runs before the
  refused one stay applied.

## 5. Proofs

Eight modules hold theorems that TLAPS proves for every value of the constants:
any sets of connections, handles, callers, addresses and characteristics, any
capacities, any number of commands, requests, updates and packets (the `Max...`
bounds of the runs are arbitrary naturals here).  Two of them are about two
specifications each, which is why those of `AdvReports` and `AttSession` have names
of their own (`ReportsSpec`, `SessionSpec`).

| theorem | states |
|---|---|
| `TxCreditsProofs` | |
| `PartitionHolds` | every credit is in exactly one place |
| `NoCreditLeakHolds` | a reclaimed connection's queue stays empty |
| `BuffersAreExclusive` | the buffer of a train is the newest of its queue, and credits cover the controller's packets |
| `TrainsAreWhole` | trains do not interleave |
| `CreditsAreAccounted` | the whole implements `CreditPool` |
| `ConnLifecycleProofs` | |
| `EventsReachTheirOwner` | a packet or a disconnection event finds its own `Conn`, or none after a forced cleanup |
| `OnlyForcedCloseRaces` | a channel is closed under `handleACL` only by a forced cleanup |
| `HciCommandProofs` | |
| `DoneHasError` | `h.done` does not close without a recorded error, unless the application closed the HCI |
| `RepliesExplained` | `Send` takes another command's reply only behind one given up or answered twice |
| `RingHoldsTheLatest` | the ring holds the latest advertisements in the order of their age |
| `ScanResponsesPaired` | a scan response is paired with the latest advertisement of its address |
| `AttClientProofs` | |
| `BufferAsLongAsMTU` | the transmit buffer is as long as the MTU |
| `OwnResponseOnly` | no request takes an earlier one's response |
| `DropsBehindStrayOnly` | a response that is waited for is dropped only behind a stray request |
| `AttServerProofs` | |
| `BuffersReplaced` | outside an MTU exchange every buffer follows the MTU |
| `NotifiersFollowCCCD` | the notifiers alive are those of the subscriptions |
| `ConfirmationsMatch` | while the link is up, an indication takes only its own confirmation from a peer that does not confirm unasked |
| `ConnUpdateProofs` | |
| `OneUpdateAtATime` | the controller has one update at a time, until one is abandoned |
| `CallersAdoptTheirOwn` | a caller adopts its own completion, or one behind an abandoned update |
| `RequestsAnsweredOnce` | every request of a packet is answered once and in order |
| `GapProofs` | |
| `DialsAreTrue` | a `Dial` returns a client of the peer it asked for, unless dials overlapped or a reply was misread |
| `QuietMeansIdle` | when everything has come to rest, the controller neither initiates nor scans, and advertises only with the host's knowledge |
| `ScansRecover` | a `Scan` recovers from an enable that was abandoned |
| `GattClientProofs` | |
| `ClientAgreesWithPeer` | subscriptions and handlers agree with the peer's CCCDs, except after an abandoned write |
| `RemovedHandlersStop` | a removed handler runs at most once more |
| `LongReadsWhole` | a long read returns the whole value, unless the client's MTU exceeded the server's buffer |
| `ExecuteDeliversParts` | Execute Write delivers the octets of the prepared parts, in order, in runs that cannot be joined further |
| `DiscoveriesExact` | discovery on a fresh client returns the peer's hierarchy exactly, for every set of services and every MTU from 23 on |

Every module also has `TypeCorrect`, `Spec => []TypeOK`, and `HciCommandProofs` has
`RingTypeCorrect` for `AdvReports`.

Assumptions.  Each is an `ASSUME` of the component's module, evaluated by TLC on
every run: capacities are naturals (positive where the code makes a channel or a
ring with room), bounds are naturals, the set of buffers is finite and not empty,
MTUs are a set of naturals that is not empty, and the peer's choices are among
the kinds the model knows; the callers of `GapState` are finitely many and none is
the background goroutine; the lengths of values are naturals, and prepared parts
have an offset and a length that are.  MTUs are at least the default one, and that
is at least 23, ATT's default (`ble.DefaultMTU`): the longest entry of a response, a
characteristic declaration with a 128-bit UUID, has 21 octets and just fits, and
below that discovery would stop.  UUIDs have 2 or 16 octets, and the default
services fit the handles.  `None` (`Nil`) stands for nil and must be none of the values
a variable can have beside it; that is the only way the assumptions constrain it.

The shape of every proof is the same: an invariant `IInv` with `Init => IInv` and
`IInv /\ [Next]_vars => IInv'`, one step per action or, where many actions do the
same to what a conjunct speaks of, one per kind of step.  Hardly any of the
properties is inductive alone; what their invariants add is the argument why the
code is right.

- **Credits.**  A writer inside `writePDU` has a connection; between lock and
  return it holds the mutex, so there is one train per connection.  A writer on a
  reclaimed connection has not got past the `chDone` check (`ReclaimedQuiet`),
  since `ReclaimAll` waits for the mutex after `chDone` is closed: that is why no
  credit leaks.  For the refinement, each action is a `Take`, a `GiveBack`, a
  `Settle` or a stutter of `CreditPool`; lemmas say what `Append`, `Tail` and
  `SubSeq` do to the set of credits in a queue without duplicates.
- **Connection lifecycle.**  The event queue is ordered: the connection event of a
  link is its first (`ConnFirst`), its disconnection event its last (`DiscLast`),
  and the events of a later link on the same handle come behind that link's own
  connection event (`HandleOrder`, `LinkOrder`).  Hence every event, when its turn
  comes, finds its own `Conn` under its handle, or nothing if a forced cleanup took
  it out (`EventsResolve`, `LinksResolve`).  Channels are closed only after the
  `Conn` has left `h.conns`, and it never comes back (`RemovedFirst`).
- **Commands.**  `h.Mutex` is held over all of `send`, so the sender's number is the
  last one given and the table has no other packet (`OneSender`).  A command that
  the controller, the queue, `sktLoop` or a `done` channel still has is awaited or
  explained by a loose one of its opcode (`Attributed`), and unless explained it
  is in one of these places only (`OnePlace`).  `handleCommandComplete`
  looks a packet up and delivers later; `Current` says when the packet found is
  still that of the `Send` that waits.
- **ATT client.**  The buffer in `chTxBuf` is the transaction's lock (`Holder`), and
  an abandoned transaction is resolved before the next request is written
  (`Transaction`).  At most one response is on its way, the last request's, at the
  peer, in the queue or in `rspc` (`OneResponse`), and only while its transaction
  is open (`Expected`).  Once the refusal of a stray request has failed, none of
  this holds, and the properties say so.
- **ATT server.**  There is one buffer of each kind, in its channel or with one
  notifier (`OneBuffer`); the exchange replaces them one after the other
  (`Replaced`).  While the link is up and the peer confirms only what it receives,
  a confirmation is in one place and awaited (`Traced`); an entry in `chConfirm`
  that met no indication is gone when one waits (`Drained`).
- **Updates.**  The controller's queues hold the numbers of the updates in ascending
  order, each queue above the one nearer to the host (`InOrder`).  What it still
  has is the slot holder's, or lies behind an abandoned update (`Attributed`); what
  lies in a caller's channel has been overtaken by nothing (`Delivered`).
- **GAP.**  Every command has a number.  The numbers in the controller's queue rise
  (`CmdsRise`), replies and what a `Send` has taken are older (`RepliesOlder`), and the
  latest is the one of the `Send` that holds the lock (`LatestHeld`), whose command
  is what its owner's place in the code sends (`Owned`).  For `PeerIsAsked`: as long
  as no dials overlapped and no reply was misread, the controller initiates, and a
  connection event carries, only the peer of the one call in `Dial` (`Expecting`,
  `Promised`).  For `ScanRecovers`: from the reconciling stop on, the controller does
  not scan until the second enable is executed (`Reconciled`).  For `QuietIsIdle`:
  without timeouts one command is in flight at a time (`Sequential`), and whatever
  the controller does has a call that is not over and answers for it (`Held`).
- **Advertising reports.**  The age of a slot without the remainder (`AgeIs`) turns
  the ring into two runs of slots; the search has passed the newer slots and none
  of them has the address (`Searched`).
- **GATT client.**  The lock is held from before the record changes until the answer
  or the rollback (`LockHeld`), and the holder knows how the record differs from
  what it was (`Records`).  The peer's CCCD is what was recorded before the call in
  flight, or what that call wrote and the peer has applied, or in doubt after an
  abandoned write (`Agreement`).  A handler is installed in one place (`Handlers`),
  so the dispatcher can have read it only once before it was removed (`LateOnce`).
- **Long reads.**  What has been read is a prefix of the value; as long as the
  client's MTU is not above the server's buffer, a part that is not full was the
  rest of the value (`LongGoesOn`).
- **Prepared writes.**  The property compares folds over the queue, so the proof is
  an induction over data.  The library's induction theorems cannot be used (their
  parameter is an operator), but a set of naturals with no least counterexample is
  everything (`LeastNat`, `EveryNat`, `EverySeq`), and a set can be a parameter.
  With it, `FoldExists` and `FoldSteps` say that `FoldLeft` is the repeated step, and
  `RunsMatch` that the runs have the octets of the parts and that no two neighbours
  could be joined, by one step of `WithPart` (`WithPartMatches`).
- **Discovery.**  Three parts.  The database: the folds of `genCharAttr`, `genSvcAttr`
  and `NewDB` put each attribute where the sums of sizes in `Hierarchy` say, and
  nothing else anywhere (`CharAttrsAre`, `BodyIs`, `SvcsGrow`, `DatabaseIs`; `Laid` is
  the result), again by induction over sets.  The responses: a handler answers with
  a non-empty prefix of the attributes in its range that have its type (`FitIs`,
  `Reply`), so a request from behind the k-th service, characteristic or descriptor
  finds the next ones, and finds none only when none are left (`GroupPage`,
  `TypePage`, `InfoPage`).  The walk: between any two requests of a fresh discovery
  the profile is the hierarchy with everything behind the current place missing,
  and `start` is the handle behind that place (`AtSvcs`, `AtChars`, `AtDescs` in
  `Walks`); a page moves the place on, and the end of a list moves the walk to the
  next one (`SvcsStep`, `CharsStep`, `DescsStep`, `ToServiceExact`, `ToCharExact`).
  A discovery that is not fresh still keeps to handles of the database (`Loose`),
  which is why only a database with the last handle makes a walk wrap.

Only model-checked:

- all liveness (`TeardownCompletes`, `WriteReturns`, `CloseCompletes`, `LoopReturns`,
  `RequestReturns`, `LoopNeverStalls`, `SendReturns`, `LoopNeverBlocks`,
  `ConfirmedReturns`, `UpdateEnds`, `CallsReturn`): fairness and ENABLED are outside
  the prover.

Every safety property that a passing run checks has a theorem.

Where the code does what a hazard describes, the property that names it exempts
that one way by a history variable (`unrefused`, `ExchangeBlocked`, `half`, `doubt`,
`over`, `used`, "stale" in `blame`) and shows that there is no other; the notes of
the hazards in `PROJECT.json` say which ones are exempted rather than caught.

## 6. Not modelled

PDU layouts, parsing and validation of bytes (`validAdvReport` among them);
logging and counters; SMP, which refuses every request; generated accessors; the
socket's system calls; the darwin backend, which delegates to CoreBluetooth.  Of
the ATT server, Find By Type Value and the plain writes of values; of the GATT
client, `DiscoverIncludedServices` and the filters by UUID; of the HCI, the
sequence of commands of `init`, which `HciCommand` covers one by one, `SetDataLength`
and `ReadRSSI`, which are a `Send` each, and long term key requests, which are
answered negatively without state.  Overlapping calls of `Signal` are left out:
nothing in the library calls it.

## 7. Plan

Every safety property is proved; liveness stays with TLC.  What could be added is
in section 6: `DiscoverIncludedServices` would be one more walk of `AttSession` over
the same pages, and Find By Type Value one more handler of `AttDatabase`.
