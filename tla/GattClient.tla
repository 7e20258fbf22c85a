----------------------------- MODULE GattClient -----------------------------
(***************************************************************************)
(* The GATT client of linux/gatt/client.go: subscriptions and their peer,  *)
(* the dispatch of notifications, the locks, and the requests that share   *)
(* the ATT bearer.                                                         *)
(*                                                                         *)
(* Subscribe, Unsubscribe and ClearSubscriptions hold the client's lock    *)
(* over their ATT round trip; notifications are dispatched meanwhile by    *)
(* another goroutine, which reads the subscriptions under subsMu alone and *)
(* invokes the handler with no lock held, so that the handler may call the *)
(* client.  The bearer is abstracted to what AttClient shows of it: one    *)
(* request at a time; a request may be answered, refused, or abandoned by  *)
(* its context, and then the peer may apply it all the same before the     *)
(* next one is sent; a peer that does not answer kills the bearer.         *)
(***************************************************************************)
EXTENDS Integers, Sequences, FiniteSets

CONSTANTS
  Callers,  \* application goroutines
  Chars,    \* characteristics, each with a CCCD
  MaxOps,   \* bound: calls in a behaviour
  MaxNtf,   \* bound: notifications and indications the peer sends
  None

Kinds == {"ntf", "ind"}  \* cccNotify, cccIndicate
Disp == "disp"           \* the ATT client's dispatch goroutine
Procs == Callers \union {Disp}

\* What subs, wire and disp hold when they do not hold None.
Subscription == [ccc : SUBSET Kinds, h : [Kinds -> 0..MaxOps]]
Transaction == [own : Procs \union {None}, char : Chars \union {None},
                ccc : (SUBSET Kinds) \union {None}, st : {"sent", "ok", "refused"}]
Dispatch == [h : 1..MaxOps, st : {"read", "run"}]

ASSUME BoundAssumption == MaxOps \in Nat /\ MaxNtf \in Nat
ASSUME NoneAssumption ==
  /\ None \notin Chars \union Kinds \union Procs
  /\ \A ccc \in SUBSET Kinds : None # ccc
  /\ None \notin Subscription \union Transaction \union Dispatch

VARIABLES
  lock,     \* holder of the client's embedded lock, or None
  nameMu,   \* holder of nameMu, or None
  nameRead, \* the outcome of Name is cached
  subs,     \* subs[v]: None, or [ccc, h]: flags enabled and their handlers
  pc,       \* pc[p]: "idle", "lock", "send" (waits for the bearer) or "await"
  op,       \* op[p]: the call p is in: [name, char, kind, id, prev]
  wire,     \* the request on the bearer: [own, char, ccc, st], or None
  dead,     \* the bearer is closed
  peer,     \* peer[v]: the peer's CCCD
  ntfq,     \* notifications received and not yet dispatched
  disp,     \* the dispatcher: None, or [h, st]: the handler it read
  gone,     \* history: handlers that a returned call has replaced or removed
  late,     \* history: late[h]: invocations of h begun after that
  doubt,    \* history: CCCDs whose last write was abandoned
  nOp, nNtf

cli == <<lock, nameMu, nameRead, subs>>
calls == <<pc, op>>
ntf == <<ntfq, disp, late, nNtf>>
vars == <<cli, calls, wire, dead, peer, ntf, gone, doubt, nOp>>

NoOp == [name |-> "none", char |-> None, kind |-> None, id |-> 0, prev |-> None]
NoHandlers == [k \in Kinds |-> 0]  \* handler 0 is nil
NoSub == [ccc |-> {}, h |-> NoHandlers]

Init ==
  /\ lock = None /\ nameMu = None /\ nameRead = FALSE
  /\ subs = [v \in Chars |-> None]
  /\ pc = [p \in Procs |-> "idle"] /\ op = [p \in Procs |-> NoOp]
  /\ wire = None /\ dead = FALSE
  /\ peer = [v \in Chars |-> {}]
  /\ ntfq = <<>> /\ disp = None
  /\ gone = {} /\ late = [h \in 1..MaxOps |-> 0] /\ doubt = {}
  /\ nOp = 0 /\ nNtf = 0

-----------------------------------------------------------------------------
(* Calls.  The dispatch goroutine makes one only from inside a handler.    *)

Running == disp # None /\ disp.st = "run"

Call(p, name, v, k) ==
  /\ pc[p] = "idle" /\ nOp < MaxOps
  /\ p = Disp => Running
  /\ nOp' = nOp + 1
  /\ pc' = [pc EXCEPT ![p] = "lock"]
  /\ op' = [op EXCEPT ![p] = [name |-> name, char |-> v, kind |-> k,
                              id |-> nOp + 1, prev |-> None]]
  /\ UNCHANGED <<cli, wire, dead, peer, ntf, gone, doubt>>

Return(p) ==
  /\ pc' = [pc EXCEPT ![p] = "idle"]
  /\ op' = [op EXCEPT ![p] = NoOp]

At(p, where, name) == pc[p] = where /\ op[p].name = name

SubOf(v) == IF subs[v] = None THEN NoSub ELSE subs[v]

Locks(p) == lock = None /\ UNCHANGED <<nameMu, nameRead, wire, dead, peer, ntf, doubt, nOp>>

\* setHandlers with a handler: it is installed before the write, and without
\* one if the flag is set already.
Subscribe(p) ==
  LET v == op[p].char
      k == op[p].kind
      s == SubOf(v)
  IN /\ At(p, "lock", "sub") /\ Locks(p)
     /\ subs' = [subs EXCEPT ![v] = [ccc |-> s.ccc \union {k},
                                     h |-> [s.h EXCEPT ![k] = op[p].id]]]
     /\ IF k \in s.ccc
        THEN /\ Return(p) /\ UNCHANGED lock
             /\ gone' = gone \union ({s.h[k]} \ {0})
        ELSE /\ lock' = p
             /\ pc' = [pc EXCEPT ![p] = "send"]
             /\ op' = [op EXCEPT ![p].prev = s]
             /\ UNCHANGED gone

\* setHandlers without one: nothing to do, or the write comes first.
Unsubscribe(p) ==
  LET v == op[p].char
      s == SubOf(v)
  IN /\ At(p, "lock", "unsub") /\ Locks(p)
     /\ subs' = [subs EXCEPT ![v] = s]
     /\ IF op[p].kind \notin s.ccc
        THEN Return(p) /\ UNCHANGED lock
        ELSE /\ lock' = p
             /\ pc' = [pc EXCEPT ![p] = "send"]
             /\ op' = [op EXCEPT ![p].prev = s]
     /\ UNCHANGED gone

\* The next subscription ClearSubscriptions ranges over, or its end.
ClearNext(p, rest) ==
  IF rest = {}
  THEN Return(p) /\ lock' = None
  ELSE /\ \E v \in rest : op' = [op EXCEPT ![p].char = v]
       /\ pc' = [pc EXCEPT ![p] = "send"] /\ lock' = p

ClearSubscriptions(p) ==
  /\ At(p, "lock", "clear") /\ Locks(p)
  /\ ClearNext(p, {v \in Chars : subs[v] # None})
  /\ UNCHANGED <<subs, gone>>

\* ReadCharacteristic and the other requests under the client's lock.
Request(p) ==
  /\ At(p, "lock", "req") /\ Locks(p)
  /\ lock' = p /\ pc' = [pc EXCEPT ![p] = "send"]
  /\ UNCHANGED <<subs, op, gone>>

\* Name: nameMu only, and nothing more once the outcome is cached.
Name(p) ==
  /\ At(p, "lock", "name") /\ nameMu = None
  /\ IF nameRead
     THEN Return(p) /\ UNCHANGED nameMu
     ELSE nameMu' = p /\ pc' = [pc EXCEPT ![p] = "send"] /\ UNCHANGED op
  /\ UNCHANGED <<lock, nameRead, subs, wire, dead, peer, ntf, gone, doubt, nOp>>

-----------------------------------------------------------------------------
(* The ATT round trip.                                                     *)

\* What the call writes to its CCCD; None for a request that writes none.
Value(p) ==
  CASE op[p].name = "sub" -> op[p].prev.ccc \union {op[p].kind}
    [] op[p].name = "unsub" -> op[p].prev.ccc \ {op[p].kind}
    [] op[p].name = "clear" -> {}
    [] OTHER -> None

Send(p) ==
  /\ pc[p] = "send" /\ wire = None /\ ~dead
  /\ wire' = [own |-> p, char |-> op[p].char, ccc |-> Value(p), st |-> "sent"]
  /\ pc' = [pc EXCEPT ![p] = "await"]
  /\ UNCHANGED <<cli, op, dead, peer, ntf, gone, doubt, nOp>>

PeerAnswers ==
  /\ wire # None /\ wire.st = "sent" /\ ~dead
  /\ \/ /\ wire' = [wire EXCEPT !.st = "ok"]
        /\ peer' = IF wire.ccc = None THEN peer
                                      ELSE [peer EXCEPT ![wire.char] = wire.ccc]
     \/ wire' = [wire EXCEPT !.st = "refused"] /\ UNCHANGED peer
  /\ UNCHANGED <<cli, calls, dead, ntf, gone, doubt, nOp>>

\* The answer to an abandoned request is dropped.
Drain ==
  /\ wire # None /\ wire.own = None /\ wire.st # "sent"
  /\ wire' = None
  /\ UNCHANGED <<cli, calls, dead, peer, ntf, gone, doubt, nOp>>

\* The link is lost, or the peer lets the transaction time out.
BearerDies ==
  /\ ~dead /\ dead' = TRUE
  /\ UNCHANGED <<cli, calls, wire, peer, ntf, gone, doubt, nOp>>

Answered(p) ==
  /\ pc[p] = "await" /\ wire # None /\ wire.own = p /\ wire.st = "ok"
  /\ wire' = None
  /\ doubt' = IF wire.ccc = None THEN doubt ELSE doubt \ {wire.char}
  /\ UNCHANGED <<dead, peer, ntf, nOp>>

\* The round trip fails: refused, ctx expired before or after the request was
\* sent, or the bearer is closed.
Failed(p) ==
  /\ pc[p] \in {"send", "await"}
  /\ \/ /\ pc[p] = "await" /\ wire.own = p /\ wire.st = "refused"
        /\ wire' = None /\ UNCHANGED doubt
     \/ /\ pc[p] = "await" /\ wire.own = p
        /\ wire' = [wire EXCEPT !.own = None]
        /\ doubt' = IF wire.ccc = None THEN doubt ELSE doubt \union {wire.char}
     \/ pc[p] = "send" /\ UNCHANGED <<wire, doubt>>
  /\ UNCHANGED <<dead, peer, ntf, nOp>>

SubscribeDone(p) ==
  /\ At(p, "await", "sub") /\ Answered(p)
  /\ Return(p) /\ lock' = None
  /\ UNCHANGED <<nameMu, nameRead, subs, gone>>

\* A defect: no rollback.
SubscribeFails_Keeps(p) ==
  /\ op[p].name = "sub" /\ Failed(p)
  /\ Return(p) /\ lock' = None
  /\ UNCHANGED <<nameMu, nameRead, subs, gone>>

\* Flags and handler are rolled back.
SubscribeFails(p) ==
  /\ op[p].name = "sub" /\ Failed(p)
  /\ subs' = [subs EXCEPT ![op[p].char] = op[p].prev]
  /\ gone' = gone \union {op[p].id}
  /\ Return(p) /\ lock' = None
  /\ UNCHANGED <<nameMu, nameRead>>

\* A defect: the handler stays installed.
UnsubscribeDone_Keeps(p) ==
  LET v == op[p].char IN
  /\ At(p, "await", "unsub") /\ Answered(p)
  /\ subs' = [subs EXCEPT ![v].ccc = wire.ccc]
  /\ gone' = gone \union ({op[p].prev.h[op[p].kind]} \ {0})
  /\ Return(p) /\ lock' = None
  /\ UNCHANGED <<nameMu, nameRead>>

UnsubscribeDone(p) ==
  LET v == op[p].char IN
  /\ At(p, "await", "unsub") /\ Answered(p)
  /\ subs' = [subs EXCEPT ![v] = [ccc |-> wire.ccc,
                                  h |-> [@.h EXCEPT ![op[p].kind] = 0]]]
  /\ gone' = gone \union ({op[p].prev.h[op[p].kind]} \ {0})
  /\ Return(p) /\ lock' = None
  /\ UNCHANGED <<nameMu, nameRead>>

\* One CCCD is cleared and its subscription deleted; the range goes on.
ClearedOne(p) ==
  LET v == op[p].char IN
  /\ At(p, "await", "clear") /\ Answered(p)
  /\ subs' = [subs EXCEPT ![v] = None]
  /\ gone' = gone \union ({subs[v].h[k] : k \in Kinds} \ {0})
  /\ ClearNext(p, {w \in Chars \ {v} : subs[w] # None})
  /\ UNCHANGED <<nameMu, nameRead>>

RequestDone(p) ==
  /\ At(p, "await", "req") /\ Answered(p)
  /\ Return(p) /\ lock' = None
  /\ UNCHANGED <<nameMu, nameRead, subs, gone>>

\* Unsubscribe, ClearSubscriptions and the requests return the error.
ErrorReturned(p) ==
  /\ op[p].name \in {"unsub", "clear", "req"} /\ Failed(p)
  /\ Return(p) /\ lock' = None
  /\ UNCHANGED <<nameMu, nameRead, subs, gone>>

\* Read By Type finds the name's handle (kind is None) and Read its value; an
\* absent or malformed name is cached too.
NameAnswered(p) ==
  /\ At(p, "await", "name") /\ Answered(p)
  /\ \/ /\ op[p].kind = None
        /\ pc' = [pc EXCEPT ![p] = "send"]
        /\ op' = [op EXCEPT ![p].kind = "ntf"]
        /\ UNCHANGED <<nameMu, nameRead>>
     \/ Return(p) /\ nameMu' = None /\ nameRead' = TRUE
  /\ UNCHANGED <<lock, subs, gone>>

\* Name has no context to expire.  A name the peer says it has not is cached.
NameFails(p) ==
  LET refused == pc[p] = "await" /\ wire.st = "refused" IN
  /\ op[p].name = "name" /\ (dead \/ refused) /\ Failed(p)
  /\ Return(p) /\ nameMu' = None
  /\ nameRead' \in (IF op[p].kind = None /\ refused THEN BOOLEAN ELSE {nameRead})
  /\ UNCHANGED <<lock, subs, gone>>

-----------------------------------------------------------------------------
(* Notifications.                                                          *)

PeerNotifies(v, k) ==
  /\ k \in peer[v] /\ ~dead /\ nNtf < MaxNtf
  /\ nNtf' = nNtf + 1
  /\ ntfq' = Append(ntfq, <<v, k>>)
  /\ UNCHANGED <<cli, calls, wire, dead, peer, disp, late, gone, doubt, nOp>>

\* HandleNotification reads the handler under subsMu.
HandleNotification ==
  /\ ntfq # <<>> /\ disp = None
  /\ ntfq' = Tail(ntfq)
  /\ LET h == SubOf(Head(ntfq)[1]).h[Head(ntfq)[2]] IN
     disp' = IF h = 0 THEN None ELSE [h |-> h, st |-> "read"]
  /\ UNCHANGED <<cli, calls, wire, dead, peer, late, nNtf, gone, doubt, nOp>>

\* A defect: the handler is invoked under the client's lock.
Invoke_Locked ==
  /\ disp # None /\ disp.st = "read" /\ lock = None
  /\ disp' = [disp EXCEPT !.st = "run"] /\ lock' = Disp
  /\ late' = IF disp.h \in gone THEN [late EXCEPT ![disp.h] = @ + 1] ELSE late
  /\ UNCHANGED <<nameMu, nameRead, subs, calls, wire, dead, peer, ntfq, nNtf, gone,
                 doubt, nOp>>

\* It invokes it with no lock held.
Invoke ==
  /\ disp # None /\ disp.st = "read"
  /\ disp' = [disp EXCEPT !.st = "run"]
  /\ late' = IF disp.h \in gone THEN [late EXCEPT ![disp.h] = @ + 1] ELSE late
  /\ UNCHANGED <<cli, calls, wire, dead, peer, ntfq, nNtf, gone, doubt, nOp>>

HandlerReturns ==
  /\ Running /\ pc[Disp] = "idle"
  /\ disp' = None
  /\ UNCHANGED <<cli, calls, wire, dead, peer, ntfq, late, nNtf, gone, doubt, nOp>>

-----------------------------------------------------------------------------
Steps(p) ==
  \/ Subscribe(p) \/ Unsubscribe(p) \/ ClearSubscriptions(p) \/ Request(p) \/ Name(p)
  \/ Send(p) \/ SubscribeDone(p) \/ UnsubscribeDone(p) \/ ClearedOne(p)
  \/ RequestDone(p) \/ NameAnswered(p)

Fails(p) == SubscribeFails(p) \/ ErrorReturned(p) \/ NameFails(p)

Next ==
  \/ \E p \in Procs :
       \/ \E v \in Chars, k \in Kinds : Call(p, "sub", v, k) \/ Call(p, "unsub", v, k)
       \/ \E name \in {"clear", "req", "name"} : Call(p, name, None, None)
       \/ Steps(p) \/ Fails(p)
  \/ PeerAnswers \/ Drain \/ BearerDies
  \/ \E v \in Chars, k \in Kinds : PeerNotifies(v, k)
  \/ HandleNotification \/ Invoke \/ HandlerReturns

Spec == Init /\ [][Next]_vars

\* Calls that hold the lock or wait for it go on; a request on a closed bearer
\* fails, and a peer that does not answer loses the bearer.  The lock is fair
\* (Go's mutex hands over to a starving waiter).  Nothing obliges a context to
\* expire or a peer to notify.
FairSpec ==
  /\ Spec
  /\ \A p \in Procs :
       /\ SF_vars(Steps(p))
       /\ WF_vars(dead /\ Fails(p))
       /\ WF_vars(wire # None /\ wire.st = "refused" /\ Fails(p))
  /\ WF_vars(PeerAnswers \/ BearerDies)
  /\ WF_vars(Drain)
  /\ WF_vars(HandleNotification) /\ WF_vars(Invoke) /\ WF_vars(HandlerReturns)

-----------------------------------------------------------------------------

\* The client's record and the peer's CCCD agree whenever no call of
\* setHandlers or ClearSubscriptions is in flight, through refused writes and
\* their rollback, unless the last write to that CCCD was abandoned; and even
\* during a call a flag the peer has set has its handler installed, so that no
\* notification meets a nil handler.
LocalMatchesPeer ==
  \A v \in Chars \ doubt :
    /\ lock = None => SubOf(v).ccc = peer[v]
    /\ \A k \in peer[v] : SubOf(v).h[k] # 0

\* A handler that a returned call has removed or replaced is invoked at most
\* once more, however many notifications were received before.
AtMostOnceMore == \A h \in 1..MaxOps : late[h] <= 1

\* Every call returns although its context never expires and the peer may not
\* answer: also one that a handler makes from the dispatch goroutine, while
\* another call waits for the bearer.
CallsReturn == \A p \in Procs : pc[p] # "idle" ~> pc[p] = "idle"

=============================================================================
