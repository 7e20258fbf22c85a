------------------------------ MODULE TxCredits ------------------------------
(***************************************************************************)
(* The ACL transmit credits of linux/hci: the shared buffer pool           *)
(* (buffer.go), the fragment trains that take buffers from it              *)
(* (conn.go writePDU), the sktLoop handlers that put them back             *)
(* (handleNumberOfCompletedPackets) and the three teardown paths that      *)
(* reclaim what a dead connection still owes (handleDisconnectionComplete, *)
(* cleanupConn, cleanupConns).                                             *)
(*                                                                         *)
(* A buffer of the pool is a credit: the pool is as large as the           *)
(* controller's ACL buffer allows, so a buffer outside the pool stands for *)
(* a packet the controller may hold.  GetTimeout moves the buffer to       *)
(* conn.sent BEFORE the packet is assembled and written.                   *)
(*                                                                         *)
(* Processes: any number of writers (ATT client, ATT server, signalling),  *)
(* sktLoop (handlers are atomic except that a teardown has its three steps *)
(* and waits for the connection's train mutex), one Close goroutine per    *)
(* connection, and the controller.                                         *)
(***************************************************************************)
EXTENDS Integers, Sequences, FiniteSets

CONSTANTS Buffers,   \* the buffers NewPool allocates
          Conns,     \* Conn objects; each lives once
          Writers,   \* goroutines that call Conn.Write
          MaxFrags,  \* bound: fragments per PDU
          None       \* no writer, buffer or connection

ASSUME BuffersAssumption == IsFiniteSet(Buffers) /\ Buffers # {}
ASSUME MaxFragsAssumption == MaxFrags \in Nat \ {0}
ASSUME NoneAssumption == None \notin Buffers \cup Writers \cup Conns
-----------------------------------------------------------------------------
VARIABLES pool,   \* Pool.ch: the free buffers (all alike, so a set)
          sent,   \* sent[c]: txCredits.sent, oldest first
          mu,     \* mu[c]: the writer holding c's train mutex, or None
          life,   \* life[c]: the registration and teardown stage of c
          owner,  \* owner[c]: the goroutine that tears c down
          running,\* sktLoop is still reading
          pc,     \* pc[w]: where writer w is in writePDU
          on,     \* on[w]: the connection w writes to
          size,   \* size[w]: number of fragments of w's PDU
          frag,   \* frag[w]: fragments of it already flushed
          buf,    \* buf[w]: the buffer w is assembling or flushing
          link,   \* link[c]: the controller's view of the connection
          held,   \* held[c]: packets the controller has not transmitted yet
          comp,   \* comp[c]: transmitted packets not yet reported to the host
          wire    \* wire[c]: the writer of the last fragment sent on c, until
                  \* a train on c ends

poolVars == <<pool, sent>>
connVars == <<life, owner, running>>
trainVars == <<pc, on, size, frag, buf, mu, wire>>
ctrlVars == <<link, held, comp>>
vars == <<poolVars, connVars, trainVars, ctrlVars>>

(* "up": in h.conns; "removed": deleted from h.conns, channels still open; *)
(* "closed": closeChans done; "reclaimed": ReclaimAll done.                *)
Lives == {"absent", "up", "removed", "closed", "reclaimed"}
Links == {"none", "up", "down", "over"}
InTrain == {"get", "fill", "write"}

TypeOK ==
  /\ pool \subseteq Buffers
  /\ sent \in [Conns -> Seq(Buffers)]
  /\ mu \in [Conns -> Writers \cup {None}]
  /\ life \in [Conns -> Lives]
  /\ owner \in [Conns -> {"skt", "closer"}]
  /\ running \in BOOLEAN
  /\ pc \in [Writers -> {"idle", "lock"} \cup InTrain]
  /\ on \in [Writers -> Conns \cup {None}]
  /\ size \in [Writers -> 1..MaxFrags]
  /\ frag \in [Writers -> 0..(MaxFrags - 1)]
  /\ buf \in [Writers -> Buffers \cup {None}]
  /\ link \in [Conns -> Links]
  /\ held \in [Conns -> Nat]
  /\ comp \in [Conns -> Nat]
  /\ wire \in [Conns -> Writers \cup {None}]

Init ==
  /\ pool = Buffers
  /\ sent = [c \in Conns |-> <<>>]
  /\ mu = [c \in Conns |-> None]
  /\ life = [c \in Conns |-> "absent"]
  /\ owner = [c \in Conns |-> "skt"]
  /\ running = TRUE
  /\ pc = [w \in Writers |-> "idle"]
  /\ on = [w \in Writers |-> None]
  /\ size = [w \in Writers |-> 1]
  /\ frag = [w \in Writers |-> 0]
  /\ buf = [w \in Writers |-> None]
  /\ link = [c \in Conns |-> "none"]
  /\ held = [c \in Conns |-> 0]
  /\ comp = [c \in Conns |-> 0]
  /\ wire = [c \in Conns |-> None]

(* chDone of c is closed. *)
Done_Never(c) == FALSE  \* mutant: teardown closes chInPkt only
Done(c) == life[c] \in {"closed", "reclaimed"}
-----------------------------------------------------------------------------
(* writePDU: one fragment train.                                           *)

StartWrite(w, c, n) ==
  /\ pc[w] = "idle"
  /\ life[c] # "absent"
  /\ pc' = [pc EXCEPT ![w] = "lock"]
  /\ on' = [on EXCEPT ![w] = c]
  /\ size' = [size EXCEPT ![w] = n]
  /\ frag' = [frag EXCEPT ![w] = 0]
  /\ UNCHANGED <<poolVars, connVars, ctrlVars, mu, buf, wire>>

(* The return of writePDU: its locals are gone, the deferred unlock runs. *)
Return(w) ==
  /\ pc' = [pc EXCEPT ![w] = "idle"]
  /\ buf' = [buf EXCEPT ![w] = None]
  /\ size' = [size EXCEPT ![w] = 1]
  /\ frag' = [frag EXCEPT ![w] = 0]
  /\ on' = [on EXCEPT ![w] = None]
  /\ mu' = [mu EXCEPT ![on[w]] = None]
  /\ wire' = [wire EXCEPT ![on[w]] = None]

(* Mutant: the train does not take the mutex. *)
Acquire_NoLock(w) ==
  /\ pc[w] = "lock"
  /\ ~Done(on[w])
  /\ mu' = [mu EXCEPT ![on[w]] = w]
  /\ pc' = [pc EXCEPT ![w] = "get"]
  /\ UNCHANGED <<poolVars, connVars, ctrlVars, on, size, frag, buf, wire>>

(* lock, then the chDone check made with the mutex held.  The writer       *)
(* touches nothing in between, so lock, check and the unlock of the early  *)
(* return are one step.                                                    *)
Acquire(w) ==
  /\ pc[w] = "lock"
  /\ mu[on[w]] = None
  /\ ~Done(on[w])
  /\ mu' = [mu EXCEPT ![on[w]] = w]
  /\ pc' = [pc EXCEPT ![w] = "get"]
  /\ UNCHANGED <<poolVars, connVars, ctrlVars, on, size, frag, buf, wire>>

AcquireClosed(w) ==
  /\ pc[w] = "lock"
  /\ mu[on[w]] = None
  /\ Done(on[w])
  /\ Return(w)
  /\ UNCHANGED <<poolVars, connVars, ctrlVars>>

(* GetTimeout's three arms; Go picks any arm that is ready.  The sends on  *)
(* the bounded channels are guarded by their capacity.                     *)
GetBuffer(w) ==
  /\ pc[w] = "get"
  /\ Len(sent[on[w]]) < Cardinality(Buffers)
  /\ \E b \in pool :
       /\ pool' = pool \ {b}
       /\ sent' = [sent EXCEPT ![on[w]] = Append(@, b)]
       /\ buf' = [buf EXCEPT ![w] = b]
  /\ pc' = [pc EXCEPT ![w] = "fill"]
  /\ UNCHANGED <<connVars, ctrlVars, mu, on, size, frag, wire>>

GetDone_Never(w) == FALSE  \* mutant: the wait ignores chDone
GetDone(w) ==
  /\ pc[w] = "get"
  /\ Done(on[w])
  /\ Return(w)
  /\ UNCHANGED <<poolVars, connVars, ctrlVars>>

GetTimer_Never(w) == FALSE  \* mutant: the wait has no timeout
GetTimer(w) ==
  /\ pc[w] = "get"
  /\ Return(w)
  /\ UNCHANGED <<poolVars, connVars, ctrlVars>>

(* writeACLData, then the check of chDone before the flush.  An early      *)
(* return leaves the buffer in conn.sent.                                  *)
Fill(w) ==
  /\ pc[w] = "fill"
  /\ ~Done(on[w])
  /\ pc' = [pc EXCEPT ![w] = "write"]
  /\ UNCHANGED <<poolVars, connVars, ctrlVars, on, size, frag, buf, mu, wire>>

FillClosed(w) ==
  /\ pc[w] = "fill"
  /\ Done(on[w])
  /\ Return(w)
  /\ UNCHANGED <<poolVars, connVars, ctrlVars>>

(* The loop condition of writePDU. *)
MoreFragments_OffByOne(w) == frag[w] + 1 <= size[w]  \* mutant
MoreFragments(w) == frag[w] + 1 < size[w]

(* skt.Write.  A controller that has dropped the link discards the packet. *)
Flush(w) ==
  /\ pc[w] = "write"
  /\ held' = IF link[on[w]] = "up" THEN [held EXCEPT ![on[w]] = @ + 1] ELSE held
  /\ IF MoreFragments(w)
       THEN /\ wire' = [wire EXCEPT ![on[w]] = w]
            /\ frag' = [frag EXCEPT ![w] = @ + 1]
            /\ pc' = [pc EXCEPT ![w] = "get"]
            /\ buf' = [buf EXCEPT ![w] = None]
            /\ UNCHANGED <<on, size, mu>>
       ELSE Return(w)
  /\ UNCHANGED <<poolVars, connVars, link, comp>>

FlushError(w) ==
  /\ pc[w] = "write"
  /\ Return(w)
  /\ UNCHANGED <<poolVars, connVars, ctrlVars>>
-----------------------------------------------------------------------------
(* sktLoop.  It handles one event at a time and is busy while it tears a   *)
(* connection down.                                                        *)

TearingDown(c, o) == life[c] \in {"removed", "closed"} /\ owner[c] = o

LoopFree == running /\ \A c \in Conns : ~TearingDown(c, "skt")

(* newConn and the registration in handleLEConnectionComplete. *)
handleLEConnectionComplete(c) ==
  /\ LoopFree
  /\ life[c] = "absent"
  /\ life' = [life EXCEPT ![c] = "up"]
  /\ link' = [link EXCEPT ![c] = "up"]
  /\ UNCHANGED <<poolVars, trainVars, owner, running, held, comp>>

(* Mutant: the buffers leave conn.sent and reach no pool. *)
Put_Lost(c, k) ==
  /\ pool' = pool
  /\ sent' = [sent EXCEPT ![c] = SubSeq(@, k + 1, Len(@))]

(* k calls of Put: the k oldest buffers go back (fewer if there are fewer, *)
(* Put's default arm).                                                     *)
Put(c, k) ==
  LET n == IF k < Len(sent[c]) THEN k ELSE Len(sent[c]) IN
  /\ pool' = pool \cup {sent[c][i] : i \in 1..n}
  /\ sent' = [sent EXCEPT ![c] = SubSeq(@, n + 1, Len(@))]

handleNumberOfCompletedPackets(c) ==
  /\ LoopFree
  /\ \E k \in 1..comp[c] :
       /\ comp' = [comp EXCEPT ![c] = @ - k]
       /\ IF life[c] = "up" THEN Put(c, k) ELSE UNCHANGED poolVars
  /\ UNCHANGED <<connVars, trainVars, link, held>>

(* delete(h.conns, handle); an unknown handle is reported and ignored. *)
handleDisconnectionComplete(c) ==
  /\ LoopFree
  /\ link[c] = "down"
  /\ comp[c] = 0
  /\ link' = [link EXCEPT ![c] = "over"]
  /\ IF life[c] = "up"
       THEN /\ life' = [life EXCEPT ![c] = "removed"]
            /\ owner' = [owner EXCEPT ![c] = "skt"]
       ELSE UNCHANGED <<life, owner>>
  /\ UNCHANGED <<poolVars, trainVars, running, held, comp>>

(* sktLoop returns and cleanupConns takes over the whole map. *)
cleanupConns ==
  /\ LoopFree
  /\ running' = FALSE
  /\ life' = [c \in Conns |-> IF life[c] = "up" THEN "removed" ELSE life[c]]
  /\ owner' = [c \in Conns |-> IF life[c] = "up" THEN "skt" ELSE owner[c]]
  /\ UNCHANGED <<poolVars, trainVars, ctrlVars>>

(* Conn.Close gave up on the Disconnect command: cleanupConn removes c     *)
(* from h.conns on the caller's goroutine.                                 *)
cleanupConn(c) ==
  /\ life[c] = "up"
  /\ life' = [life EXCEPT ![c] = "removed"]
  /\ owner' = [owner EXCEPT ![c] = "closer"]
  /\ UNCHANGED <<poolVars, trainVars, ctrlVars, running>>

(* The second step of every teardown.  The sktLoop goroutine finishes one  *)
(* connection before it starts the next.                                   *)
closeChans(c) ==
  /\ life[c] = "removed"
  /\ owner[c] = "skt" =>
       ~ \E d \in Conns : life[d] = "closed" /\ owner[d] = "skt"
  /\ life' = [life EXCEPT ![c] = "closed"]
  /\ UNCHANGED <<poolVars, trainVars, ctrlVars, owner, running>>

(* Mutant: the drain does not wait for the train. *)
ReclaimAll_NoLock(c) ==
  /\ life[c] = "closed"
  /\ pool' = pool \cup {sent[c][i] : i \in 1..Len(sent[c])}
  /\ sent' = [sent EXCEPT ![c] = <<>>]
  /\ life' = [life EXCEPT ![c] = "reclaimed"]
  /\ UNCHANGED <<trainVars, ctrlVars, owner, running>>

(* The third step: wait for c's train mutex, then drain conn.sent. *)
ReclaimAll(c) ==
  /\ life[c] = "closed"
  /\ mu[c] = None
  /\ pool' = pool \cup {sent[c][i] : i \in 1..Len(sent[c])}
  /\ sent' = [sent EXCEPT ![c] = <<>>]
  /\ life' = [life EXCEPT ![c] = "reclaimed"]
  /\ UNCHANGED <<trainVars, ctrlVars, owner, running>>
-----------------------------------------------------------------------------
(* The controller (external): it transmits packets and reports them, and   *)
(* drops links.  It never reports a packet twice, and reports nothing for  *)
(* a connection after its Disconnection Complete.                          *)

Transmit(c) ==
  /\ held[c] > 0
  /\ held' = [held EXCEPT ![c] = @ - 1]
  /\ comp' = [comp EXCEPT ![c] = @ + 1]
  /\ UNCHANGED <<poolVars, connVars, trainVars, link>>

LinkLoss(c) ==
  /\ link[c] = "up"
  /\ link' = [link EXCEPT ![c] = "down"]
  /\ held' = [held EXCEPT ![c] = 0]
  /\ UNCHANGED <<poolVars, connVars, trainVars, comp>>
-----------------------------------------------------------------------------
WriterStep(w) ==
  \/ Acquire(w) \/ AcquireClosed(w)
  \/ GetBuffer(w) \/ GetDone(w)
  \/ Fill(w) \/ FillClosed(w)
  \/ Flush(w) \/ FlushError(w)

TeardownStep(c) == closeChans(c) \/ ReclaimAll(c)

Next ==
  \/ \E w \in Writers, c \in Conns, n \in 1..MaxFrags : StartWrite(w, c, n)
  \/ \E w \in Writers : WriterStep(w)
  \/ \E w \in Writers : GetTimer(w)
  \/ \E c \in Conns : TeardownStep(c)
  \/ \E c \in Conns : handleLEConnectionComplete(c)
  \/ \E c \in Conns : handleNumberOfCompletedPackets(c)
  \/ \E c \in Conns : handleDisconnectionComplete(c)
  \/ \E c \in Conns : cleanupConn(c)
  \/ cleanupConns
  \/ \E c \in Conns : Transmit(c)
  \/ \E c \in Conns : LinkLoss(c)

Spec == Init /\ [][Next]_vars

(* Go schedules every runnable goroutine, and sync.Mutex hands the lock to *)
(* a waiter after a bounded time (its starvation mode), so the writers'    *)
(* lock acquisitions are strongly fair.  Nothing is assumed of the controller,  *)
(* nor of the 20 s credit timer.                                           *)
PromptFairness ==
  /\ \A w \in Writers : WF_vars(GetDone(w) \/ Fill(w) \/ FillClosed(w)
                                  \/ Flush(w) \/ FlushError(w))
  /\ \A w \in Writers : SF_vars(Acquire(w) \/ AcquireClosed(w))
  /\ \A c \in Conns : WF_vars(closeChans(c)) /\ WF_vars(ReclaimAll(c))

PromptSpec == Spec /\ PromptFairness

(* The credit timer fires for a writer that waits. *)
TimerFairness == \A w \in Writers : WF_vars(GetTimer(w))
-----------------------------------------------------------------------------
(* Every buffer is in exactly one place: the pool, or one slot of one      *)
(* connection's sent queue.  (buffer.go: GetTimeout, Put, ReclaimAll.)     *)
Partition ==
  /\ \A b \in Buffers :
       b \in pool \/ \E c \in Conns : \E i \in 1..Len(sent[c]) : sent[c][i] = b
  /\ \A c \in Conns : \A i \in 1..Len(sent[c]) : sent[c][i] \notin pool
  /\ \A c, d \in Conns : \A i \in 1..Len(sent[c]), j \in 1..Len(sent[d]) :
       sent[c][i] = sent[d][j] => c = d /\ i = j

(* A buffer a train is assembling is the newest of its connection's sent   *)
(* queue, so a completion event or a teardown handled meanwhile cannot     *)
(* hand it to another train.  (conn.go writePDU, which fills the buffer    *)
(* after GetTimeout has already queued it.)                                *)
TrainOwnsItsBuffer ==
  \A w \in Writers : pc[w] \in {"fill", "write"} =>
    Len(sent[on[w]]) > 0 /\ sent[on[w]][Len(sent[on[w]])] = buf[w]

(* The credits a registered connection holds cover the packets the         *)
(* controller has of it and the one being assembled.                       *)
Assembling(c) == IF \E w \in Writers : on[w] = c /\ pc[w] \in {"fill", "write"}
                 THEN 1 ELSE 0
CreditsCoverPackets ==
  \A c \in Conns : life[c] = "up" =>
    held[c] + comp[c] + Assembling(c) <= Len(sent[c])

(* Once teardown has reclaimed a connection's credits no train adds to its *)
(* sent queue again: a credit put there would be lost to every other       *)
(* connection for good.  (The order closeChans, ReclaimAll, and the chDone *)
(* check under the train mutex.)                                           *)
NoCreditLeak == \A c \in Conns : life[c] = "reclaimed" => sent[c] = <<>>

(* The fragments of one PDU follow each other on their connection: a train *)
(* that has flushed a fragment is the last that wrote to the connection.   *)
(* (Vol 3, Part A, 7.2.1; the train mutex.)                                *)
TrainsDoNotInterleave ==
  \A w \in Writers : pc[w] \in InTrain /\ frag[w] > 0 => wire[on[w]] = w

(* The pool, the sent queues, the trains and the teardowns together behave *)
(* as the accounts of CreditPool: a credit is owed by the connection whose *)
(* sent queue holds it, and a connection is settled once ReclaimAll has    *)
(* drained its queue.  (buffer.go and its callers.)                        *)
Holder(b) ==
  IF b \in pool THEN None
  ELSE CHOOSE c \in Conns : \E i \in 1..Len(sent[c]) : sent[c][i] = b
Accounts == INSTANCE CreditPool WITH
  Credits <- Buffers, Free <- None,
  holder <- [b \in Buffers |-> Holder(b)],
  settled <- {c \in Conns : life[c] = "reclaimed"}
ImplementsCreditPool == Accounts!Spec

(* If the credit timer fires every write returns, with its result,         *)
(* ErrClosed or ErrCreditTimeout.  (conn.go writePDU, buffer.go            *)
(* GetTimeout.)                                                            *)
WriteReturns ==
  TimerFairness => \A w \in Writers : pc[w] = "lock" ~> pc[w] = "idle"

(* A teardown that has begun reclaims the connection's credits even if the *)
(* credit timer never fires and the controller never reports a packet: no  *)
(* train, of this connection or another, keeps sktLoop waiting.  (The      *)
(* per-connection mutex and chDone closed before ReclaimAll.)              *)
TeardownCompletes ==
  \A c \in Conns : life[c] = "removed" ~> life[c] = "reclaimed"
=============================================================================
