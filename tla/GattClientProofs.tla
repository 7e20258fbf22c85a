-------------------------- MODULE GattClientProofs --------------------------
(***************************************************************************)
(* Proofs about GattClient, for any callers, characteristics and bounds:   *)
(* the client's subscriptions agree with the peer's CCCDs, and a handler   *)
(* that was removed is invoked at most once more.                          *)
(*                                                                         *)
(* And about AttSession, the procedures of the client that take several    *)
(* requests: a long read returns the whole value, Execute Write delivers   *)
(* the parts that were prepared, and discovery finds the peer's hierarchy  *)
(* exactly, in three parts: how NewDB lays the database out, what the      *)
(* handlers answer from it page by page, and the walk that the client      *)
(* makes.  What the folds compute is shown by induction over sets of       *)
(* naturals and of sequences.                                              *)
(***************************************************************************)
EXTENDS GattClient, AttSession, SequenceTheorems, WellFoundedInduction, TLAPS

Names == {"none", "sub", "unsub", "clear", "req", "name"}
Operation == [name : Names, char : Chars \union {None}, kind : Kinds \union {None},
              id : 0..MaxOps, prev : Subscription \union {None}]

TypeOK ==
  /\ lock \in Procs \union {None} /\ nameMu \in Procs \union {None} /\ nameRead \in BOOLEAN
  /\ subs \in [Chars -> Subscription \union {None}]
  /\ pc \in [Procs -> {"idle", "lock", "send", "await"}]
  /\ op \in [Procs -> Operation]
  /\ wire \in Transaction \union {None} /\ dead \in BOOLEAN
  /\ peer \in [Chars -> SUBSET Kinds]
  /\ ntfq \in Seq(Chars \X Kinds)
  /\ disp \in Dispatch \union {None}
  /\ gone \in SUBSET (1..MaxOps) /\ late \in [1..MaxOps -> Nat] /\ doubt \in SUBSET Chars
  /\ nOp \in 0..MaxOps /\ nNtf \in 0..MaxNtf

(* A call that is in its ATT round trip, and one that holds the lock. *)
Busy(p) == pc[p] \in {"send", "await"}
Holds(p) == Busy(p) /\ op[p].name # "name"

(* What a call knows of itself. *)
CalledBy(p) ==
  /\ op[p].name = "none" <=> pc[p] = "idle"
  /\ op[p].name \in {"sub", "unsub"} => op[p].char \in Chars /\ op[p].kind \in Kinds
  /\ Busy(p) /\ op[p].name = "clear" => op[p].char \in Chars
  /\ Busy(p) /\ op[p].name \in {"sub", "unsub"} => op[p].prev \in Subscription
Called == \A p \in Procs : CalledBy(p)

LockHeld == \A p \in Procs : Holds(p) <=> lock = p

(* The bearer carries the request of the call that awaits its answer, or   *)
(* one that was abandoned.                                                 *)
Awaits(p) ==
  /\ pc[p] = "await" <=> wire # None /\ wire.own = p
  /\ pc[p] = "await" => wire.char = op[p].char /\ wire.ccc = Value(p)
OnWire ==
  /\ \A p \in Procs : Awaits(p)
  /\ wire # None /\ wire.ccc # None => wire.char \in Chars

(* A flag has a handler and a handler its flag. *)
Paired(s) == \A k \in Kinds : k \in s.ccc <=> s.h[k] # 0

(* What a call that holds the lock knows of the subscription it changes. *)
RecordOf(p) ==
  Holds(p) =>
    LET o == op[p] IN
    /\ o.name = "sub" =>
         /\ Paired(o.prev) /\ o.kind \notin o.prev.ccc
         /\ subs[o.char] = [ccc |-> o.prev.ccc \union {o.kind},
                            h |-> [o.prev.h EXCEPT ![o.kind] = o.id]]
    /\ o.name = "unsub" => subs[o.char] = o.prev
    /\ o.name = "clear" => subs[o.char] # None
Records ==
  /\ \A v \in Chars : subs[v] # None => Paired(subs[v])
  /\ \A p \in Procs : RecordOf(p)

(* What the client had recorded of v before the Subscribe in flight. *)
Recorded(v) ==
  IF lock # None /\ op[lock].name = "sub" /\ op[lock].char = v THEN op[lock].prev.ccc
                                                               ELSE SubOf(v).ccc

(* A write the peer has applied, and whose caller does not know yet. *)
Applies(v) == wire # None /\ wire.own # None /\ wire.ccc # None /\ wire.char = v /\ wire.st = "ok"

(* The peer's CCCDs: a write it answered is applied, an abandoned one in   *)
(* doubt, and the others are as recorded.                                  *)
Applied == wire # None /\ wire.ccc # None /\ wire.st = "ok" => peer[wire.char] = wire.ccc
Doubted == wire # None /\ wire.ccc # None /\ wire.own = None => wire.char \in doubt
Agreement ==
  /\ Applied /\ Doubted
  /\ \A v \in Chars \ doubt : Applies(v) \/ peer[v] = Recorded(v)

(* A handler is the argument of one call, and installed in one place. *)
Installed(h, v, k) == subs[v] # None /\ subs[v].h[k] = h
Handlers ==
  /\ \A h \in 1..MaxOps, v \in Chars, k \in Kinds : Installed(h, v, k) =>
       /\ h <= nOp /\ h \notin gone
       /\ \A w \in Chars, j \in Kinds : Installed(h, w, j) => w = v /\ j = k
  /\ \A h \in gone : h <= nOp
  /\ \A p \in Procs : pc[p] # "idle" =>
       /\ 0 < op[p].id /\ op[p].id <= nOp
       /\ \A q \in Procs : pc[q] # "idle" /\ op[q].id = op[p].id => q = p
  /\ \A p \in Procs, h \in 1..MaxOps : pc[p] = "lock" /\ op[p].id = h =>
       /\ h \notin gone
       /\ \A v \in Chars, k \in Kinds : ~Installed(h, v, k)

(* A removed handler is invoked late only if it was read before.           *)
LateOnce ==
  \A h \in 1..MaxOps :
    /\ late[h] <= 1
    /\ late[h] # 0 => h \in gone /\ ~(disp # None /\ disp.st = "read" /\ disp.h = h)

IInv == /\ TypeOK /\ Called /\ LockHeld /\ OnWire /\ Records /\ Agreement /\ Handlers
        /\ LateOnce
-----------------------------------------------------------------------------
(* The steps of the next-state relation, by who takes them. *)
CallStep(p) ==
  \E name \in Names \ {"none"}, v \in Chars \union {None}, k \in Kinds \union {None} :
    /\ Call(p, name, v, k)
    /\ name \in {"sub", "unsub"} => v \in Chars /\ k \in Kinds
OtherStep ==
  \/ PeerAnswers \/ Drain \/ BearerDies
  \/ (\E v \in Chars, k \in Kinds : PeerNotifies(v, k))
  \/ HandleNotification \/ Invoke \/ HandlerReturns

(* Next is a call, a step or a failure of a goroutine, or a step of the    *)
(* peer, of the bearer or of the dispatcher.                               *)
LEMMA NextCases ==
  ASSUME [Next]_vars
  PROVE  \/ OtherStep \/ UNCHANGED vars
         \/ \E p \in Procs : CallStep(p) \/ Steps(p) \/ Fails(p)
<1>1. ASSUME NEW p \in Procs, NEW v \in Chars, NEW k \in Kinds, Call(p, "sub", v, k)
      PROVE  CallStep(p)
  BY <1>1 DEF CallStep, Names
<1>2. ASSUME NEW p \in Procs, NEW v \in Chars, NEW k \in Kinds, Call(p, "unsub", v, k)
      PROVE  CallStep(p)
  BY <1>2 DEF CallStep, Names
<1>3. ASSUME NEW p \in Procs, NEW name \in {"clear", "req", "name"}, Call(p, name, None, None)
      PROVE  CallStep(p)
  BY <1>3 DEF CallStep, Names
<1> QED  BY <1>1, <1>2, <1>3 DEF Next, OtherStep

(* A characteristic without a subscription is taken to have an empty one. *)
LEMMA SubIs ==
  ASSUME TypeOK, NEW v \in Chars
  PROVE  /\ SubOf(v) \in Subscription /\ SubOf(v).ccc \in SUBSET Kinds
         /\ SubOf(v).h \in [Kinds -> 0..MaxOps]
         /\ subs[v] # None => SubOf(v) = subs[v]
<1>1. NoSub \in Subscription
  BY BoundAssumption DEF NoSub, NoHandlers, Subscription
<1>2. SubOf(v) \in Subscription
  BY <1>1 DEF SubOf, TypeOK
<1> QED  BY <1>2 DEF Subscription, SubOf

(* The fields of the call of a goroutine. *)
LEMMA OpIs ==
  ASSUME TypeOK, NEW p \in Procs
  PROVE  /\ op[p] \in Operation
         /\ op[p].name \in Names /\ op[p].char \in Chars \union {None}
         /\ op[p].kind \in Kinds \union {None} /\ op[p].id \in 0..MaxOps
         /\ op[p].prev \in Subscription \union {None}
<1>1. op[p] \in Operation
  BY DEF TypeOK
<1> QED  BY <1>1 DEF Operation

(* What a call writes. *)
LEMMA ValueIs ==
  ASSUME NEW p \in Procs
  PROVE  /\ op[p].name = "sub" => Value(p) = op[p].prev.ccc \union {op[p].kind}
         /\ op[p].name = "unsub" => Value(p) = op[p].prev.ccc \ {op[p].kind}
         /\ op[p].name = "clear" => Value(p) = {}
         /\ op[p].name \notin {"sub", "unsub", "clear"} => Value(p) = None
  BY DEF Value

(* Calls that write the CCCD, and only they, have a value to write. *)
LEMMA ValueType ==
  ASSUME TypeOK, Called, NEW p \in Procs, Busy(p)
  PROVE  /\ Value(p) \in (SUBSET Kinds) \union {None}
         /\ Value(p) # None <=> op[p].name \in {"sub", "unsub", "clear"}
         /\ Value(p) # None => op[p].char \in Chars
<1>0. op[p].name \in {"sub", "unsub", "clear"} => op[p].char \in Chars
  BY DEF Called, CalledBy
<1>1. CASE op[p].name \in {"sub", "unsub"}
  <2>1. op[p].prev \in Subscription /\ op[p].kind \in Kinds
    BY <1>1 DEF Called, CalledBy
  <2>2. op[p].prev.ccc \in SUBSET Kinds
    BY <2>1 DEF Subscription
  <2>3. Value(p) \in SUBSET Kinds
    BY <1>1, <2>1, <2>2, ValueIs
  <2>4. Value(p) # None
    BY <2>3, NoneAssumption
  <2> QED  BY <1>0, <1>1, <2>3, <2>4
<1>2. CASE op[p].name = "clear"
  BY <1>0, <1>2, ValueIs, NoneAssumption
<1>3. CASE op[p].name \notin {"sub", "unsub", "clear"}
  <2>1. Value(p) = None
    BY <1>3, ValueIs
  <2> QED  BY <1>3, <2>1
<1> QED  BY <1>1, <1>2, <1>3

(* Returning resets the call of a goroutine. *)
LEMMA ReturnType ==
  ASSUME TypeOK, NEW p \in Procs, Return(p)
  PROVE  /\ pc' \in [Procs -> {"idle", "lock", "send", "await"}]
         /\ op' \in [Procs -> Operation]
<1>1. NoOp \in Operation
  BY BoundAssumption DEF NoOp, Operation, Names
<1> QED  BY <1>1 DEF Return, TypeOK

(* The fields of the request on the bearer. *)
LEMMA WireIs ==
  ASSUME TypeOK, wire # None
  PROVE  /\ wire \in Transaction /\ wire.own \in Procs \union {None}
         /\ wire.char \in Chars \union {None} /\ wire.ccc \in (SUBSET Kinds) \union {None}
         /\ wire.st \in {"sent", "ok", "refused"}
<1>1. wire \in Transaction
  BY DEF TypeOK
<1> QED  BY <1>1 DEF Transaction

(* The end of a round trip keeps the types of what it changes. *)
LEMMA AnsweredType ==
  ASSUME TypeOK, NEW p \in Procs, Answered(p)
  PROVE  wire' \in Transaction \union {None} /\ doubt' \in SUBSET Chars
  BY DEF Answered, TypeOK

(* A failed request leaves the bearer empty or with an answer that nobody  *)
(* waits for.                                                              *)
LEMMA FailedType ==
  ASSUME TypeOK, OnWire, NEW p \in Procs, Failed(p)
  PROVE  wire' \in Transaction \union {None} /\ doubt' \in SUBSET Chars
<1>1. CASE pc[p] = "await"
  <2>1. wire # None /\ wire.own = p
    BY <1>1 DEF OnWire, Awaits
  <2>2. wire \in Transaction /\ (wire.ccc # None => wire.char \in Chars)
    BY <2>1, WireIs DEF OnWire, Awaits
  <2>3. wire' = None \/ wire' = [wire EXCEPT !.own = None]
    BY <1>1 DEF Failed
  <2>4. [wire EXCEPT !.own = None] \in Transaction
    BY <2>2 DEF Transaction
  <2>5. doubt' \in SUBSET Chars
    BY <1>1, <2>2 DEF Failed, TypeOK
  <2> QED  BY <2>3, <2>4, <2>5
<1>2. CASE pc[p] = "send"
  BY <1>2 DEF Failed, TypeOK
<1> QED  BY <1>1, <1>2 DEF Failed

(* The record of a subscription, with a handler installed or removed. *)
LEMMA SubscriptionType ==
  ASSUME NEW c \in SUBSET Kinds, NEW s \in Subscription, NEW k \in Kinds, NEW h \in 0..MaxOps
  PROVE  [ccc |-> c, h |-> [s.h EXCEPT ![k] = h]] \in Subscription
  BY DEF Subscription

(* The calls and their steps keep the types. *)
LEMMA StepsType ==
  ASSUME TypeOK, Called, OnWire, Records, NEW p \in Procs,
         pc[p] # "idle" => op[p].id > 0, CallStep(p) \/ Steps(p) \/ Fails(p)
  PROVE  TypeOK'
<1> USE DEF cli, calls, ntf
<1>0. /\ op[p] \in Operation /\ op[p].id \in 0..MaxOps
      /\ op[p].name \in {"sub", "unsub"} => op[p].char \in Chars /\ op[p].kind \in Kinds
  BY OpIs DEF Called, CalledBy
<1>1. CASE CallStep(p)
  <2>1. PICK name \in Names, v \in Chars \union {None}, k \in Kinds \union {None} :
          Call(p, name, v, k)
    BY <1>1 DEF CallStep
  <2>2. nOp' \in 0..MaxOps /\ nOp + 1 \in 0..MaxOps
    BY <2>1, BoundAssumption DEF Call, TypeOK
  <2> DEFINE o == [name |-> name, char |-> v, kind |-> k, id |-> nOp + 1, prev |-> None]
  <2>3. o \in Operation
    BY <2>2 DEF Operation
  <2>4. op' = [op EXCEPT ![p] = o]
    BY <2>1 DEF Call
  <2> HIDE DEF o
  <2>5. op' \in [Procs -> Operation] /\ pc' \in [Procs -> {"idle", "lock", "send", "await"}]
    BY <2>1, <2>3, <2>4 DEF Call, TypeOK
  <2> QED  BY <2>1, <2>2, <2>5 DEF Call, TypeOK
<1>2. CASE Subscribe(p)
  <2> DEFINE v == op[p].char
             k == op[p].kind
             s == SubOf(v)
             t == [ccc |-> s.ccc \union {k}, h |-> [s.h EXCEPT ![k] = op[p].id]]
  <2>1. v \in Chars /\ k \in Kinds
    BY <1>0, <1>2 DEF Subscribe, At
  <2>2. s \in Subscription /\ s.ccc \in SUBSET Kinds /\ s.h[k] \in 0..MaxOps
    BY <2>1, SubIs
  <2>3. t \in Subscription
    <3>1. s.ccc \union {k} \in SUBSET Kinds
      BY <2>1, <2>2
    <3> QED  BY <1>0, <2>1, <2>2, <3>1, SubscriptionType
  <2>4. subs' = [subs EXCEPT ![v] = t]
    BY <1>2 DEF Subscribe
  <2>5. CASE k \in s.ccc
    <3>1. Return(p) /\ UNCHANGED lock /\ gone' = gone \union ({s.h[k]} \ {0})
      BY <1>2, <2>5 DEF Subscribe
    <3>2. gone' \in SUBSET (1..MaxOps)
      <4>1. {s.h[k]} \ {0} \subseteq 1..MaxOps
        <5> HIDE DEF s, k
        <5> QED  BY <2>2
      <4> QED  BY <3>1, <4>1 DEF TypeOK
    <3> HIDE DEF t
    <3>3. subs' \in [Chars -> Subscription \union {None}]
      BY <2>3, <2>4 DEF TypeOK
    <3> QED  BY <1>2, <3>1, <3>2, <3>3, ReturnType DEF Subscribe, Locks, TypeOK
  <2>6. CASE k \notin s.ccc
    <3>1. /\ lock' = p /\ pc' = [pc EXCEPT ![p] = "send"] /\ gone' = gone
          /\ op' = [op EXCEPT ![p] = [op[p] EXCEPT !.prev = s]]
      BY <1>2, <2>6 DEF Subscribe
    <3>2. [op[p] EXCEPT !.prev = s] \in Operation
      BY <1>0, <2>2 DEF Operation
    <3> HIDE DEF t, s
    <3>3. /\ subs' \in [Chars -> Subscription \union {None}]
          /\ pc' \in [Procs -> {"idle", "lock", "send", "await"}]
          /\ op' \in [Procs -> Operation]
      BY <2>3, <2>4, <3>1, <3>2 DEF TypeOK
    <3> QED  BY <1>2, <3>1, <3>3 DEF Subscribe, Locks, TypeOK
  <2> QED  BY <2>5, <2>6
<1>3. CASE Unsubscribe(p)
  <2> DEFINE v == op[p].char
             s == SubOf(v)
  <2>1. v \in Chars
    BY <1>0, <1>3 DEF Unsubscribe, At
  <2>2. s \in Subscription
    BY <2>1, SubIs
  <2>3. subs' = [subs EXCEPT ![v] = s] /\ gone' = gone
    BY <1>3 DEF Unsubscribe
  <2>4. CASE op[p].kind \notin s.ccc
    <3>1. Return(p) /\ UNCHANGED lock
      BY <1>3, <2>4 DEF Unsubscribe
    <3> HIDE DEF s
    <3>2. subs' \in [Chars -> Subscription \union {None}]
      BY <2>2, <2>3 DEF TypeOK
    <3> QED  BY <1>3, <2>3, <3>1, <3>2, ReturnType DEF Unsubscribe, Locks, TypeOK
  <2>5. CASE op[p].kind \in s.ccc
    <3>1. /\ lock' = p /\ pc' = [pc EXCEPT ![p] = "send"]
          /\ op' = [op EXCEPT ![p] = [op[p] EXCEPT !.prev = s]]
      BY <1>3, <2>5 DEF Unsubscribe
    <3>2. [op[p] EXCEPT !.prev = s] \in Operation
      BY <1>0, <2>2 DEF Operation
    <3> HIDE DEF s
    <3>3. /\ subs' \in [Chars -> Subscription \union {None}]
          /\ pc' \in [Procs -> {"idle", "lock", "send", "await"}]
          /\ op' \in [Procs -> Operation]
      BY <2>2, <2>3, <3>1, <3>2 DEF TypeOK
    <3> QED  BY <1>3, <2>3, <3>1, <3>3 DEF Unsubscribe, Locks, TypeOK
  <2> QED  BY <2>4, <2>5
<1>4. ASSUME NEW rest \in SUBSET Chars, ClearNext(p, rest)
      PROVE  /\ lock' \in Procs \union {None} /\ op' \in [Procs -> Operation]
             /\ pc' \in [Procs -> {"idle", "lock", "send", "await"}]
  <2>1. CASE rest = {}
    BY <1>4, <2>1, ReturnType DEF ClearNext
  <2>2. CASE rest # {}
    <3>1. PICK v \in rest : op' = [op EXCEPT ![p] = [op[p] EXCEPT !.char = v]]
      BY <1>4, <2>2 DEF ClearNext
    <3>2. [op[p] EXCEPT !.char = v] \in Operation
      BY <1>0, <3>1 DEF Operation
    <3> QED  BY <1>4, <2>2, <3>1, <3>2 DEF ClearNext, TypeOK
  <2> QED  BY <2>1, <2>2
<1>5. CASE ClearSubscriptions(p)
  <2>1. PICK rest \in SUBSET Chars : ClearNext(p, rest)
    BY <1>5 DEF ClearSubscriptions
  <2> QED  BY <1>4, <1>5, <2>1 DEF ClearSubscriptions, Locks, TypeOK
<1>6. CASE Request(p)
  BY <1>6 DEF Request, Locks, TypeOK
<1>7. CASE Name(p)
  <2>1. CASE nameRead
    BY <1>7, <2>1, ReturnType DEF Name, TypeOK
  <2>2. CASE ~nameRead
    BY <1>7, <2>2 DEF Name, TypeOK
  <2> QED  BY <2>1, <2>2
<1>8. CASE Send(p)
  <2> DEFINE w == [own |-> p, char |-> op[p].char, ccc |-> Value(p), st |-> "sent"]
  <2>1. Value(p) \in (SUBSET Kinds) \union {None} /\ op[p].char \in Chars \union {None}
    BY <1>8, ValueType, OpIs DEF Send, Busy
  <2>2. w \in Transaction
    BY <2>1 DEF Transaction
  <2>3. wire' = w
    BY <1>8 DEF Send
  <2> HIDE DEF w
  <2> QED  BY <1>8, <2>2, <2>3 DEF Send, TypeOK
<1>9. CASE SubscribeDone(p) \/ RequestDone(p)
  <2>1. Answered(p) /\ Return(p) /\ lock' = None /\ UNCHANGED <<nameMu, nameRead, subs, gone>>
    BY <1>9 DEF SubscribeDone, RequestDone
  <2>2. UNCHANGED <<dead, peer, ntf, nOp>>
    BY <2>1 DEF Answered
  <2> QED  BY <2>1, <2>2, AnsweredType, ReturnType DEF TypeOK
<1>10. CASE UnsubscribeDone(p)
  <2> DEFINE v == op[p].char
             k == op[p].kind
             t == [ccc |-> wire.ccc, h |-> [subs[v].h EXCEPT ![k] = 0]]
  <2>1. /\ Answered(p) /\ Return(p) /\ lock' = None /\ UNCHANGED <<nameMu, nameRead>>
        /\ At(p, "await", "unsub") /\ gone' = gone \union ({op[p].prev.h[k]} \ {0})
        /\ subs' = [subs EXCEPT ![v] = t]
    BY <1>10 DEF UnsubscribeDone
  <2>2. Busy(p) /\ op[p].name = "unsub" /\ wire # None /\ wire.own = p
    BY <2>1 DEF At, Busy, Answered
  <2>3. op[p].prev \in Subscription /\ v \in Chars /\ k \in Kinds
    BY <1>0, <2>2 DEF Called, CalledBy
  <2>4. gone' \in SUBSET (1..MaxOps)
    <3>1. op[p].prev.h[k] \in 0..MaxOps
      BY <2>3 DEF Subscription
    <3> QED  BY <2>1, <3>1 DEF TypeOK
  <2>5. UNCHANGED <<dead, peer, ntf, nOp>>
    BY <2>1 DEF Answered
  <2>6. subs' \in [Chars -> Subscription \union {None}]
    <3>1. subs[v] \in Subscription
      BY <2>2, <2>3 DEF Records, RecordOf, Holds
    <3>2. wire.ccc \in SUBSET Kinds
      <4>1. wire.ccc = Value(p) /\ Value(p) # None /\ Value(p) \in (SUBSET Kinds) \union {None}
        BY <2>1, <2>2, ValueType DEF OnWire, Awaits, At
      <4> QED  BY <4>1
    <3>3. t \in Subscription
      BY <2>3, <3>1, <3>2, SubscriptionType, BoundAssumption
    <3> HIDE DEF t
    <3> QED  BY <2>1, <3>3 DEF TypeOK
  <2> QED  BY <2>1, <2>4, <2>5, <2>6, AnsweredType, ReturnType DEF TypeOK
<1>11. CASE ClearedOne(p)
  <2> DEFINE v == op[p].char
             hs == {subs[v].h[k] : k \in Kinds}
             rest == {w \in Chars \ {v} : subs[w] # None}
  <2>1. /\ Answered(p) /\ UNCHANGED <<nameMu, nameRead>> /\ At(p, "await", "clear")
        /\ subs' = [subs EXCEPT ![v] = None] /\ gone' = gone \union (hs \ {0})
        /\ ClearNext(p, rest)
    BY <1>11 DEF ClearedOne
  <2>2. Holds(p) /\ op[p].name = "clear" /\ v \in Chars
    BY <2>1 DEF At, Busy, Holds, Called, CalledBy
  <2>3. subs[v] \in Subscription
    BY <2>2 DEF Records, RecordOf, TypeOK
  <2>4. hs \subseteq 0..MaxOps
    BY <2>3 DEF Subscription
  <2>5. rest \in SUBSET Chars
    OBVIOUS
  <2> HIDE DEF hs, rest
  <2>6. gone' \in SUBSET (1..MaxOps)
    BY <2>1, <2>4 DEF TypeOK
  <2>7. subs' \in [Chars -> Subscription \union {None}]
    BY <2>1 DEF TypeOK
  <2>8. UNCHANGED <<dead, peer, ntf, nOp>>
    BY <2>1 DEF Answered
  <2> QED  BY <1>4, <2>1, <2>5, <2>6, <2>7, <2>8, AnsweredType DEF TypeOK
<1>12. CASE NameAnswered(p)
  <2>1. /\ Answered(p) /\ UNCHANGED <<lock, subs, gone>>
        /\ nameMu' \in {nameMu, None} /\ nameRead' \in BOOLEAN
    BY <1>12 DEF NameAnswered, TypeOK
  <2>2. op' \in [Procs -> Operation] /\ pc' \in [Procs -> {"idle", "lock", "send", "await"}]
    <3>1. CASE Return(p)
      BY <3>1, ReturnType
    <3>2. CASE /\ pc' = [pc EXCEPT ![p] = "send"]
               /\ op' = [op EXCEPT ![p].kind = "ntf"]
      <4>1. [op[p] EXCEPT !.kind = "ntf"] \in Operation
        BY <1>0 DEF Operation, Kinds
      <4> QED  BY <3>2, <4>1 DEF TypeOK
    <3> QED  BY <1>12, <3>1, <3>2 DEF NameAnswered
  <2>3. UNCHANGED <<dead, peer, ntf, nOp>>
    BY <2>1 DEF Answered
  <2> QED  BY <2>1, <2>2, <2>3, AnsweredType DEF TypeOK
<1>13. ASSUME Failed(p), Return(p), lock' \in {lock, None}, nameMu' \in {nameMu, None},
              nameRead' \in BOOLEAN, gone' \in SUBSET (1..MaxOps),
              subs' \in [Chars -> Subscription \union {None}]
       PROVE  TypeOK'
  <2>1. UNCHANGED <<dead, peer, ntf, nOp>>
    BY <1>13 DEF Failed
  <2> QED  BY <1>13, <2>1, FailedType, ReturnType DEF TypeOK
<1>14. CASE SubscribeFails(p)
  <2>1. /\ Failed(p) /\ Return(p) /\ lock' = None /\ UNCHANGED <<nameMu, nameRead>>
        /\ subs' = [subs EXCEPT ![op[p].char] = op[p].prev] /\ gone' = gone \union {op[p].id}
        /\ op[p].name = "sub" /\ Busy(p)
    BY <1>14 DEF SubscribeFails, Failed, Busy
  <2>2. op[p].prev \in Subscription
    BY <2>1 DEF Called, CalledBy
  <2>3. subs' \in [Chars -> Subscription \union {None}]
    BY <2>1, <2>2 DEF TypeOK
  <2>4. gone' \in SUBSET (1..MaxOps)
    <3>1. op[p].id \in 1..MaxOps
      BY <1>0, <2>1 DEF Busy
    <3> QED  BY <2>1, <3>1 DEF TypeOK
  <2> QED  BY <1>13, <2>1, <2>3, <2>4 DEF TypeOK
<1>15. CASE ErrorReturned(p)
  BY <1>13, <1>15 DEF ErrorReturned, TypeOK
<1>16. CASE NameFails(p)
  <2>1. nameRead' \in BOOLEAN
    BY <1>16 DEF NameFails, TypeOK
  <2> QED  BY <1>13, <1>16, <2>1 DEF NameFails, TypeOK
<1> QED  BY <1>1, <1>2, <1>3, <1>5, <1>6, <1>7, <1>8, <1>9, <1>10, <1>11, <1>12, <1>14, <1>15,
            <1>16 DEF Steps, Fails

(* What the peer, the bearer and the dispatcher leave alone. *)
LEMMA OtherKeeps ==
  ASSUME OtherStep \/ UNCHANGED vars
  PROVE  UNCHANGED <<lock, nameMu, nameRead, subs, pc, op, gone, doubt, nOp>>
  BY DEF OtherStep, PeerAnswers, Drain, BearerDies, PeerNotifies, HandleNotification, Invoke,
         HandlerReturns, vars, cli, calls, ntf

(* The peer, the bearer and the dispatcher keep the types. *)
LEMMA OtherType ==
  ASSUME TypeOK, OnWire, OtherStep \/ UNCHANGED vars
  PROVE  TypeOK'
<1>0. UNCHANGED <<lock, nameMu, nameRead, subs, pc, op, gone, doubt, nOp>>
  BY OtherKeeps
<1> USE DEF cli, calls, ntf
<1>1. CASE PeerAnswers
  <2>1. wire # None /\ wire \in Transaction /\ (wire.ccc # None => wire.char \in Chars)
        /\ wire.ccc \in (SUBSET Kinds) \union {None}
    BY <1>1, WireIs DEF PeerAnswers, OnWire, Awaits
  <2>2. \A st \in {"ok", "refused"} : [wire EXCEPT !.st = st] \in Transaction
    BY <2>1 DEF Transaction
  <2>3. wire' \in Transaction
    BY <1>1, <2>2 DEF PeerAnswers
  <2>4. peer' \in [Chars -> SUBSET Kinds]
    <3>1. peer' = peer \/ (wire.ccc # None /\ peer' = [peer EXCEPT ![wire.char] = wire.ccc])
      BY <1>1 DEF PeerAnswers
    <3>2. wire.ccc # None => wire.ccc \in SUBSET Kinds
      BY <2>1
    <3> QED  BY <3>1, <3>2 DEF TypeOK
  <2> QED  BY <1>0, <1>1, <2>3, <2>4 DEF PeerAnswers, TypeOK
<1>2. CASE Drain \/ BearerDies \/ HandlerReturns
  BY <1>0, <1>2 DEF Drain, BearerDies, HandlerReturns, TypeOK
<1>3. ASSUME NEW v \in Chars, NEW k \in Kinds, PeerNotifies(v, k)  PROVE TypeOK'
  <2>1. nNtf' \in 0..MaxNtf
    BY <1>3, BoundAssumption DEF PeerNotifies, TypeOK
  <2>2. ntfq' \in Seq(Chars \X Kinds)
    <3> DEFINE E == Chars \X Kinds
    <3>1. <<v, k>> \in E /\ ntfq \in Seq(E) /\ ntfq' = Append(ntfq, <<v, k>>)
      BY <1>3 DEF PeerNotifies, TypeOK
    <3> HIDE DEF E
    <3>2. ntfq' \in Seq(E)
      BY <3>1
    <3> QED  BY <3>2 DEF E
  <2> QED  BY <1>0, <1>3, <2>1, <2>2 DEF PeerNotifies, TypeOK
<1>4. CASE HandleNotification
  <2> DEFINE E == Chars \X Kinds
             h == SubOf(Head(ntfq)[1]).h[Head(ntfq)[2]]
  <2>1. Head(ntfq) \in E /\ ntfq' \in Seq(E)
    <3>1. ntfq \in Seq(E) /\ ntfq # <<>> /\ ntfq' = Tail(ntfq)
      BY <1>4 DEF HandleNotification, TypeOK
    <3> HIDE DEF E
    <3> QED  BY <3>1
  <2>2. h \in 0..MaxOps
    <3>1. Head(ntfq)[1] \in Chars /\ Head(ntfq)[2] \in Kinds
      BY <2>1
    <3> QED  BY <3>1, SubIs
  <2>3. disp' = None \/ (h # 0 /\ disp' = [h |-> h, st |-> "read"])
    BY <1>4 DEF HandleNotification
  <2> HIDE DEF h
  <2>4. disp' \in Dispatch \union {None}
    BY <2>2, <2>3 DEF Dispatch
  <2> QED  BY <1>0, <1>4, <2>1, <2>4 DEF HandleNotification, TypeOK
<1>5. CASE Invoke
  <2>1. disp \in Dispatch
    BY <1>5 DEF Invoke, TypeOK
  <2>2. [disp EXCEPT !.st = "run"] \in Dispatch /\ disp.h \in 1..MaxOps
    BY <2>1 DEF Dispatch
  <2>3. late' \in [1..MaxOps -> Nat]
    BY <1>5, <2>2 DEF Invoke, TypeOK
  <2> QED  BY <1>0, <1>5, <2>2, <2>3 DEF Invoke, TypeOK
<1>6. CASE UNCHANGED vars
  BY <1>6 DEF vars, TypeOK
<1> QED  BY <1>1, <1>2, <1>3, <1>4, <1>5, <1>6 DEF OtherStep

(* Type correctness is preserved by every step. *)
LEMMA TypeStep ==
  TypeOK /\ Called /\ OnWire /\ Records /\ Handlers /\ [Next]_vars => TypeOK'
<1> SUFFICES ASSUME TypeOK, Called, OnWire, Records, Handlers, [Next]_vars  PROVE TypeOK'
  OBVIOUS
<1>1. ASSUME NEW p \in Procs, CallStep(p) \/ Steps(p) \/ Fails(p)  PROVE TypeOK'
  <2>1. pc[p] # "idle" => op[p].id > 0
    BY OpIs DEF Handlers
  <2> QED  BY <1>1, <2>1, StepsType
<1> QED  BY <1>1, NextCases, OtherType
-----------------------------------------------------------------------------
(* The calls of other goroutines are as they were. *)
Others(p) == \A q \in Procs \ {p} : pc'[q] = pc[q] /\ op'[q] = op[q]

(* A step of a goroutine changes no other goroutine's call. *)
LEMMA OthersKeep ==
  ASSUME TypeOK, NEW p \in Procs, CallStep(p) \/ Steps(p) \/ Fails(p)
  PROVE  Others(p)
<1>0. (\E l, o : pc' = [pc EXCEPT ![p] = l] /\ (op' = [op EXCEPT ![p] = o] \/ op' = op))
        => Others(p)
  BY DEF Others, TypeOK
<1>1. CASE CallStep(p)
  <2>1. PICK name, v, k : Call(p, name, v, k)
    BY <1>1 DEF CallStep
  <2> QED  BY <1>0, <2>1 DEF Call
<1>2. ASSUME Return(p)  PROVE Others(p)
  BY <1>0, <1>2 DEF Return
<1>3. ASSUME NEW rest, ClearNext(p, rest)  PROVE Others(p)
  <2>1. CASE rest = {}
    BY <1>2, <1>3, <2>1 DEF ClearNext
  <2>2. CASE rest # {}
    <3>1. PICK v \in rest : op' = [op EXCEPT ![p] = [op[p] EXCEPT !.char = v]]
      BY <1>3, <2>2 DEF ClearNext
    <3> QED  BY <1>0, <1>3, <2>2, <3>1 DEF ClearNext
  <2> QED  BY <2>1, <2>2
<1>4. CASE Subscribe(p)
  <2>1. CASE Return(p)
    BY <1>2, <2>1
  <2>2. CASE ~Return(p)
    <3>1. /\ pc' = [pc EXCEPT ![p] = "send"]
          /\ op' = [op EXCEPT ![p] = [op[p] EXCEPT !.prev = SubOf(op[p].char)]]
      BY <1>4, <2>2 DEF Subscribe
    <3> QED  BY <1>0, <3>1
  <2> QED  BY <2>1, <2>2
<1>5. CASE Unsubscribe(p)
  <2>1. CASE Return(p)
    BY <1>2, <2>1
  <2>2. CASE ~Return(p)
    <3>1. /\ pc' = [pc EXCEPT ![p] = "send"]
          /\ op' = [op EXCEPT ![p] = [op[p] EXCEPT !.prev = SubOf(op[p].char)]]
      BY <1>5, <2>2 DEF Unsubscribe
    <3> QED  BY <1>0, <3>1
  <2> QED  BY <2>1, <2>2
<1>6. CASE Request(p) \/ Name(p) \/ Send(p)
  <2>1. Return(p) \/ (op' = op /\ \E l : pc' = [pc EXCEPT ![p] = l])
    BY <1>6 DEF Request, Name, Send
  <2> QED  BY <1>0, <1>2, <2>1
<1>7. CASE NameAnswered(p)
  <2>1. \/ Return(p)
        \/ /\ pc' = [pc EXCEPT ![p] = "send"]
           /\ op' = [op EXCEPT ![p] = [op[p] EXCEPT !.kind = "ntf"]]
    BY <1>7 DEF NameAnswered
  <2> QED  BY <1>0, <1>2, <2>1
<1>8. CASE ClearSubscriptions(p) \/ ClearedOne(p)
  BY <1>3, <1>8 DEF ClearSubscriptions, ClearedOne
<1>9. CASE SubscribeDone(p) \/ UnsubscribeDone(p) \/ RequestDone(p) \/ Fails(p)
  BY <1>2, <1>9 DEF SubscribeDone, UnsubscribeDone, RequestDone, Fails, SubscribeFails,
     ErrorReturned, NameFails
<1> QED  BY <1>1, <1>4, <1>5, <1>6, <1>7, <1>8, <1>9 DEF Steps

(* What a step of p does to its call, to the lock and to the bearer: the   *)
(* call begins, takes the lock it needs, sends its request, sends another  *)
(* one after an answer, or ends.                                           *)
Begins(p) == pc[p] = "idle" /\ pc'[p] = "lock" /\ UNCHANGED <<lock, wire>>
Takes(p) ==
  /\ pc[p] = "lock" /\ pc'[p] = "send" /\ op'[p].name = op[p].name /\ wire' = wire
  /\ IF op[p].name = "name" THEN lock' = lock ELSE lock = None /\ lock' = p
Sends(p) ==
  /\ pc[p] = "send" /\ pc'[p] = "await" /\ op'[p] = op[p] /\ lock' = lock /\ wire = None
  /\ wire' = [own |-> p, char |-> op[p].char, ccc |-> Value(p), st |-> "sent"]
Resends(p) ==
  /\ pc[p] = "await" /\ pc'[p] = "send" /\ op'[p].name = op[p].name
  /\ lock' = lock /\ wire' = None
Finishes(p) ==
  /\ pc'[p] = "idle" /\ op'[p] = NoOp
  /\ lock' = IF Holds(p) THEN None ELSE lock
  /\ IF pc[p] = "await" THEN wire' = None \/ wire' = [wire EXCEPT !.own = None]
                        ELSE wire' = wire
Effect(p) ==
  /\ Begins(p) \/ Takes(p) \/ Sends(p) \/ Resends(p) \/ Finishes(p)
  /\ CalledBy(p)' /\ Others(p)

(* A call that returns, having given back what it held, has the effect of  *)
(* finishing.                                                              *)
LEMMA FinishEffect ==
  ASSUME TypeOK, NEW p \in Procs, Return(p), Others(p),
         lock' = IF Holds(p) THEN None ELSE lock,
         IF pc[p] = "await" THEN wire' = None \/ wire' = [wire EXCEPT !.own = None]
                            ELSE wire' = wire
  PROVE  Effect(p) /\ Finishes(p)
<1>1. pc'[p] = "idle" /\ op'[p] = NoOp
  BY DEF Return, TypeOK
<1>2. CalledBy(p)'
  BY <1>1 DEF CalledBy, NoOp, Busy
<1> QED  BY <1>1, <1>2 DEF Effect, Finishes

(* Every step of a call begins it, takes the lock, sends, sends once more, *)
(* or finishes it.                                                         *)
LEMMA EffectOf ==
  ASSUME TypeOK, Called, LockHeld, OnWire, NEW p \in Procs, CallStep(p) \/ Steps(p) \/ Fails(p)
  PROVE  Effect(p)
<1> USE DEF cli, calls, ntf
<1>0. CalledBy(p) /\ Others(p) /\ op[p] \in Operation /\ (Holds(p) <=> lock = p)
  BY OthersKeep, OpIs DEF Called, LockHeld
<1>1. CASE CallStep(p)
  <2>1. PICK name \in Names \ {"none"}, v \in Chars \union {None}, k \in Kinds \union {None} :
          /\ Call(p, name, v, k)
          /\ name \in {"sub", "unsub"} => v \in Chars /\ k \in Kinds
    BY <1>1 DEF CallStep
  <2>2. /\ pc'[p] = "lock" /\ pc[p] = "idle" /\ UNCHANGED <<lock, wire>>
        /\ op'[p].name = name /\ op'[p].char = v /\ op'[p].kind = k
    BY <2>1 DEF Call, TypeOK
  <2>3. CalledBy(p)'
    BY <2>1, <2>2 DEF CalledBy, Busy
  <2> QED  BY <1>0, <2>2, <2>3 DEF Effect, Begins
<1>2. CASE Subscribe(p) \/ Unsubscribe(p)
  <2> DEFINE s == SubOf(op[p].char)
  <2>1. /\ pc[p] = "lock" /\ op[p].name \in {"sub", "unsub"} /\ lock = None /\ wire' = wire
        /\ \/ Return(p) /\ lock' = lock
           \/ /\ lock' = p /\ pc' = [pc EXCEPT ![p] = "send"]
              /\ op' = [op EXCEPT ![p] = [op[p] EXCEPT !.prev = s]]
    BY <1>2 DEF Subscribe, Unsubscribe, Locks, At
  <2>2. op[p].char \in Chars /\ op[p].kind \in Kinds
    BY <1>0, <2>1 DEF CalledBy
  <2>3. s \in Subscription
    BY <2>2, SubIs
  <2> HIDE DEF s
  <2>4. CASE Return(p) /\ lock' = lock
    BY <1>0, <2>1, <2>4, FinishEffect DEF Holds, Busy
  <2>5. CASE /\ lock' = p /\ pc' = [pc EXCEPT ![p] = "send"]
             /\ op' = [op EXCEPT ![p] = [op[p] EXCEPT !.prev = s]]
    <3>1. /\ pc'[p] = "send" /\ op'[p].name = op[p].name /\ op'[p].char = op[p].char
          /\ op'[p].kind = op[p].kind /\ op'[p].prev = s
      BY <1>0, <2>5 DEF TypeOK, Operation
    <3>2. CalledBy(p)'
      BY <2>1, <2>2, <2>3, <3>1 DEF CalledBy
    <3> QED  BY <1>0, <2>1, <2>5, <3>1, <3>2 DEF Effect, Takes
  <2> QED  BY <2>1, <2>4, <2>5
<1>3. CASE ClearSubscriptions(p)
  <2>1. /\ pc[p] = "lock" /\ op[p].name = "clear" /\ lock = None /\ wire' = wire
        /\ ClearNext(p, {v \in Chars : subs[v] # None})
    BY <1>3 DEF ClearSubscriptions, Locks, At
  <2>2. CASE Return(p) /\ lock' = None
    BY <1>0, <2>1, <2>2, FinishEffect DEF Holds, Busy
  <2>3. CASE ~(Return(p) /\ lock' = None)
    <3>1. PICK v \in Chars : op' = [op EXCEPT ![p] = [op[p] EXCEPT !.char = v]]
      BY <2>1, <2>3 DEF ClearNext
    <3>2. pc' = [pc EXCEPT ![p] = "send"] /\ lock' = p
      BY <2>1, <2>3 DEF ClearNext
    <3>3. pc'[p] = "send" /\ op'[p].name = "clear" /\ op'[p].char = v
      BY <1>0, <2>1, <3>1, <3>2 DEF TypeOK, Operation
    <3>4. CalledBy(p)'
      BY <3>3 DEF CalledBy
    <3> QED  BY <1>0, <2>1, <3>2, <3>3, <3>4 DEF Effect, Takes
  <2> QED  BY <2>2, <2>3
<1>4. CASE Request(p)
  <2>1. /\ pc[p] = "lock" /\ op[p].name = "req" /\ lock = None /\ wire' = wire /\ lock' = p
        /\ pc'[p] = "send" /\ op'[p] = op[p]
    BY <1>4 DEF Request, Locks, At, TypeOK
  <2>2. CalledBy(p)'
    BY <2>1 DEF CalledBy
  <2> QED  BY <1>0, <2>1, <2>2 DEF Effect, Takes
<1>5. CASE Name(p)
  <2>1. pc[p] = "lock" /\ op[p].name = "name" /\ UNCHANGED <<lock, wire>>
    BY <1>5 DEF Name, At
  <2>2. CASE Return(p)
    BY <1>0, <2>1, <2>2, FinishEffect DEF Holds
  <2>3. CASE ~Return(p)
    <3>1. pc'[p] = "send" /\ op'[p] = op[p]
      BY <1>5, <2>3 DEF Name, TypeOK
    <3>2. CalledBy(p)'
      BY <2>1, <3>1 DEF CalledBy
    <3> QED  BY <1>0, <2>1, <3>1, <3>2 DEF Effect, Takes
  <2> QED  BY <2>2, <2>3
<1>6. CASE Send(p)
  <2>1. Sends(p)
    BY <1>6 DEF Send, Sends, TypeOK
  <2>2. CalledBy(p)'
    BY <1>0, <2>1 DEF CalledBy, Sends, Busy
  <2> QED  BY <1>0, <2>1, <2>2 DEF Effect
<1>7. CASE SubscribeDone(p) \/ UnsubscribeDone(p) \/ RequestDone(p)
  <2>1. /\ pc[p] = "await" /\ op[p].name \in {"sub", "unsub", "req"} /\ wire' = None
        /\ Return(p) /\ lock' = None
    BY <1>7 DEF SubscribeDone, UnsubscribeDone, RequestDone, At, Answered
  <2> QED  BY <1>0, <2>1, FinishEffect DEF Holds, Busy
<1>8. CASE ClearedOne(p)
  <2>1. /\ pc[p] = "await" /\ op[p].name = "clear" /\ wire' = None
        /\ ClearNext(p, {w \in Chars \ {op[p].char} : subs[w] # None})
    BY <1>8 DEF ClearedOne, At, Answered
  <2>2. Holds(p) /\ lock = p
    BY <1>0, <2>1 DEF Holds, Busy
  <2>3. CASE Return(p) /\ lock' = None
    BY <1>0, <2>1, <2>2, <2>3, FinishEffect
  <2>4. CASE ~(Return(p) /\ lock' = None)
    <3>1. PICK v \in Chars : op' = [op EXCEPT ![p] = [op[p] EXCEPT !.char = v]]
      BY <2>1, <2>4 DEF ClearNext
    <3>2. pc' = [pc EXCEPT ![p] = "send"] /\ lock' = p
      BY <2>1, <2>4 DEF ClearNext
    <3>3. pc'[p] = "send" /\ op'[p].name = "clear" /\ op'[p].char = v
      BY <1>0, <2>1, <3>1, <3>2 DEF TypeOK, Operation
    <3>4. CalledBy(p)'
      BY <3>3 DEF CalledBy
    <3> QED  BY <1>0, <2>1, <2>2, <3>2, <3>3, <3>4 DEF Effect, Resends
  <2> QED  BY <2>3, <2>4
<1>9. CASE NameAnswered(p)
  <2>1. pc[p] = "await" /\ op[p].name = "name" /\ wire' = None /\ lock' = lock
    BY <1>9 DEF NameAnswered, At, Answered
  <2>2. CASE Return(p)
    BY <1>0, <2>1, <2>2, FinishEffect DEF Holds
  <2>3. CASE ~Return(p)
    <3>1. /\ pc' = [pc EXCEPT ![p] = "send"]
          /\ op' = [op EXCEPT ![p] = [op[p] EXCEPT !.kind = "ntf"]]
      BY <1>9, <2>3 DEF NameAnswered
    <3>2. pc'[p] = "send" /\ op'[p].name = "name"
      BY <1>0, <2>1, <3>1 DEF TypeOK, Operation
    <3>3. CalledBy(p)'
      BY <3>2 DEF CalledBy
    <3> QED  BY <1>0, <2>1, <3>2, <3>3 DEF Effect, Resends
  <2> QED  BY <2>2, <2>3
<1>10. CASE Fails(p)
  <2>1. /\ Return(p) /\ Failed(p)
        /\ \/ op[p].name = "name" /\ lock' = lock
           \/ op[p].name # "name" /\ lock' = None
    BY <1>10 DEF Fails, SubscribeFails, ErrorReturned, NameFails
  <2>2. /\ Busy(p)
        /\ pc[p] = "await" => wire' = None \/ wire' = [wire EXCEPT !.own = None]
        /\ pc[p] # "await" => wire' = wire
    BY <2>1 DEF Failed, Busy
  <2>3. lock' = IF Holds(p) THEN None ELSE lock
    BY <2>1, <2>2 DEF Holds
  <2> QED  BY <1>0, <2>1, <2>2, <2>3, FinishEffect
<1> QED  BY <1>1, <1>2, <1>3, <1>4, <1>5, <1>6, <1>7, <1>8, <1>9, <1>10 DEF Steps

(* A step of p keeps every call well formed, the lock with the call that   *)
(* took it, and the bearer with the call that awaits its answer.           *)
LEMMA ControlStep ==
  ASSUME TypeOK, Called, LockHeld, OnWire, NEW p \in Procs, Effect(p)
  PROVE  Called' /\ LockHeld' /\ OnWire'
<1>0. /\ None \notin Procs /\ CalledBy(p) /\ Awaits(p) /\ (Holds(p) <=> lock = p)
      /\ (wire = None \/ wire \in Transaction)
  BY NoneAssumption DEF Called, OnWire, LockHeld, TypeOK
<1>1. ASSUME NEW q \in Procs \ {p}
      PROVE  /\ CalledBy(q)' /\ (Holds(q)' <=> lock = q) /\ Value(q)' = Value(q)
             /\ pc'[q] = pc[q] /\ op'[q] = op[q] /\ Awaits(q)
  <2>1. pc'[q] = pc[q] /\ op'[q] = op[q]
    BY DEF Effect, Others
  <2>2. Value(q)' = Value(q)
    BY <2>1 DEF Value
  <2>3. CalledBy(q) /\ Awaits(q) /\ (Holds(q) <=> lock = q)
    BY DEF Called, OnWire, LockHeld
  <2>4. CalledBy(q)' /\ (Holds(q)' <=> Holds(q))
    BY <2>1, <2>3 DEF CalledBy, Holds, Busy
  <2> QED  BY <2>1, <2>2, <2>3, <2>4
<1>2. Called'
  BY <1>1 DEF Called, Effect
<1>3. LockHeld'
  <2>1. SUFFICES /\ Holds(p)' <=> lock' = p
                 /\ \A q \in Procs \ {p} : lock' = q <=> lock = q
    BY <1>1 DEF LockHeld
  <2>2. CASE Begins(p)
    BY <1>0, <2>2 DEF Begins, Holds, Busy
  <2>3. CASE Takes(p)
    BY <1>0, <2>3 DEF Takes, Holds, Busy
  <2>4. CASE Sends(p)
    BY <1>0, <2>4 DEF Sends, Holds, Busy
  <2>5. CASE Resends(p)
    BY <1>0, <2>5 DEF Resends, Holds, Busy
  <2>6. CASE Finishes(p)
    BY <1>0, <2>6 DEF Finishes, Holds, Busy
  <2> QED  BY <2>2, <2>3, <2>4, <2>5, <2>6 DEF Effect
<1>4. ASSUME wire' = wire, pc[p] # "await", pc'[p] # "await"  PROVE OnWire'
  BY <1>0, <1>1, <1>4 DEF OnWire, Awaits
<1>5. ASSUME wire' = None, pc[p] = "await", pc'[p] # "await"  PROVE OnWire'
  BY <1>0, <1>1, <1>5 DEF OnWire, Awaits
<1>6. ASSUME wire' = [wire EXCEPT !.own = None], pc[p] = "await", pc'[p] # "await"  PROVE OnWire'
  <2>1. wire \in Transaction
    BY <1>0, <1>6 DEF Awaits
  <2>2. /\ wire'.own = None /\ wire'.char = wire.char /\ wire'.ccc = wire.ccc
    BY <1>6, <2>1 DEF Transaction
  <2> QED  BY <1>0, <1>1, <1>6, <2>2 DEF OnWire, Awaits
<1>7. ASSUME Sends(p)  PROVE OnWire'
  <2> DEFINE w == [own |-> p, char |-> op[p].char, ccc |-> Value(p), st |-> "sent"]
  <2>1. Value(p) \in (SUBSET Kinds) \union {None} /\ (Value(p) # None => op[p].char \in Chars)
    BY <1>7, ValueType DEF Sends, Busy
  <2>2. w \in Transaction
    BY <2>1, OpIs DEF Transaction
  <2>3. w # None
    BY <2>2, NoneAssumption
  <2>4. w.own = p /\ w.char = op[p].char /\ w.ccc = Value(p)
    OBVIOUS
  <2>5. wire' = w /\ wire = None /\ pc'[p] = "await" /\ op'[p] = op[p]
    BY <1>7 DEF Sends
  <2> HIDE DEF w
  <2>6. Value(p)' = Value(p)
    BY <2>5 DEF Value
  <2>7. Awaits(p)' /\ \A q \in Procs \ {p} : Awaits(q)'
    BY <1>1, <2>3, <2>4, <2>5, <2>6 DEF Awaits
  <2>8. wire'.ccc # None => wire'.char \in Chars
    BY <2>1, <2>4, <2>5
  <2>9. \A q \in Procs : Awaits(q)'
    BY <2>7
  <2> QED  BY <2>8, <2>9 DEF OnWire
<1>8. ASSUME Finishes(p)  PROVE OnWire'
  <2>1. pc'[p] # "await"
    BY <1>8 DEF Finishes
  <2>2. CASE pc[p] = "await"
    <3>1. wire' = None \/ wire' = [wire EXCEPT !.own = None]
      BY <1>8, <2>2 DEF Finishes
    <3> QED  BY <1>5, <1>6, <2>1, <2>2, <3>1
  <2>3. CASE pc[p] # "await"
    BY <1>4, <1>8, <2>1, <2>3 DEF Finishes
  <2> QED  BY <2>2, <2>3
<1>9. OnWire'
  BY <1>4, <1>5, <1>7, <1>8 DEF Effect, Begins, Takes, Resends
<1> QED  BY <1>2, <1>3, <1>9

(* The peer and the bearer keep the calls, the lock and the request with   *)
(* its call.                                                               *)
LEMMA OtherControl ==
  ASSUME TypeOK, Called, LockHeld, OnWire, OtherStep \/ UNCHANGED vars
  PROVE  Called' /\ LockHeld' /\ OnWire'
<1>0. UNCHANGED <<lock, pc, op>>
  BY OtherKeeps
<1>1. \A p \in Procs : Value(p)' = Value(p)
  BY <1>0 DEF Value
<1>2. Called' /\ LockHeld'
  BY <1>0 DEF Called, CalledBy, LockHeld, Holds, Busy
<1>3. CASE wire' = wire
  BY <1>0, <1>1, <1>2, <1>3 DEF OnWire, Awaits
<1>4. CASE PeerAnswers
  <2>1. wire \in Transaction /\ wire # None
    BY <1>4, WireIs DEF PeerAnswers
  <2>2. \E st \in {"ok", "refused"} : wire' = [wire EXCEPT !.st = st]
    BY <1>4 DEF PeerAnswers
  <2>3. /\ wire' \in Transaction /\ wire'.own = wire.own /\ wire'.char = wire.char
        /\ wire'.ccc = wire.ccc
    BY <2>1, <2>2 DEF Transaction
  <2>4. wire' # None
    BY <2>3, NoneAssumption
  <2> QED  BY <1>0, <1>1, <1>2, <2>1, <2>3, <2>4 DEF OnWire, Awaits
<1>5. CASE Drain
  <2>1. wire # None /\ wire.own = None /\ wire' = None
    BY <1>5 DEF Drain
  <2> QED  BY <1>0, <1>2, <2>1, NoneAssumption DEF OnWire, Awaits
<1>6. CASE wire' # wire
  BY <1>4, <1>5, <1>6 DEF OtherStep, BearerDies, PeerNotifies, HandleNotification, Invoke,
     HandlerReturns, vars
<1> QED  BY <1>2, <1>3, <1>6
-----------------------------------------------------------------------------
(* An empty subscription is paired, and so is one with a handler added or  *)
(* removed together with its flag.                                         *)
LEMMA PairedSub ==
  ASSUME TypeOK, Records, NEW v \in Chars
  PROVE  Paired(SubOf(v))
  BY DEF SubOf, NoSub, NoHandlers, Paired, Records, RecordOf

(* Adding a kind with its handler keeps bits and handlers paired. *)
LEMMA PairedAdd ==
  ASSUME NEW s \in Subscription, Paired(s), NEW k \in Kinds, NEW h \in 1..MaxOps
  PROVE  Paired([ccc |-> s.ccc \union {k}, h |-> [s.h EXCEPT ![k] = h]])
<1>1. s.h \in [Kinds -> 0..MaxOps]
  BY DEF Subscription
<1> QED  BY <1>1 DEF Paired

(* Removing a kind with its handler keeps bits and handlers paired. *)
LEMMA PairedRemove ==
  ASSUME NEW s \in Subscription, Paired(s), NEW k \in Kinds
  PROVE  Paired([ccc |-> s.ccc \ {k}, h |-> [s.h EXCEPT ![k] = 0]])
<1>1. s.h \in [Kinds -> 0..MaxOps]
  BY DEF Subscription
<1> QED  BY <1>1 DEF Paired

(* Only the holder of the lock changes a subscription, so that no other    *)
(* call has one in hand.                                                   *)
LEMMA RecordsKept ==
  ASSUME TypeOK, LockHeld, Records, NEW p \in Procs, Others(p), lock = None \/ lock = p,
         \A v \in Chars : subs'[v] # None => Paired(subs'[v]),
         RecordOf(p)'
  PROVE  Records'
<1>1. ASSUME NEW q \in Procs \ {p}  PROVE ~Holds(q)'
  <2>1. ~Holds(q)
    BY NoneAssumption DEF LockHeld
  <2> QED  BY <2>1 DEF Others, Holds, Busy
<1>2. ASSUME NEW q \in Procs  PROVE RecordOf(q)'
  BY <1>1 DEF RecordOf
<1> QED  BY <1>2 DEF Records, RecordOf

(* Every step keeps the subscriptions paired and the call in flight in     *)
(* step with the one it changes.                                           *)
LEMMA RecordsStep ==
  ASSUME TypeOK, Called, LockHeld, OnWire, Records, Handlers, NEW p \in Procs,
         CallStep(p) \/ Steps(p) \/ Fails(p)
  PROVE  Records'
<1> USE DEF cli, calls, ntf
<1>0. /\ CalledBy(p) /\ Others(p) /\ op[p] \in Operation /\ (Holds(p) <=> lock = p)
      /\ (pc[p] # "idle" => op[p].id \in 1..MaxOps)
      /\ \A v \in Chars : subs[v] # None => Paired(subs[v])
  BY OthersKeep, OpIs DEF Called, LockHeld, Handlers, Records, RecordOf
<1>1. ASSUME subs' = subs, ~Holds(p)'  PROVE Records'
  <2>1. ASSUME NEW q \in Procs, Holds(q)'  PROVE Holds(q) /\ op'[q] = op[q]
    BY <1>0, <1>1, <2>1 DEF Others, Holds, Busy
  <2> QED  BY <1>0, <1>1, <2>1 DEF Records, RecordOf
<1>2. ASSUME subs' = subs, Holds(p), op'[p] = op[p]  PROVE Records'
  <2>1. ASSUME NEW q \in Procs, Holds(q)'  PROVE Holds(q) /\ op'[q] = op[q]
    BY <1>0, <1>2, <2>1 DEF Others, Holds, Busy
  <2> QED  BY <1>0, <1>2, <2>1 DEF Records, RecordOf
<1>3. Return(p) => ~Holds(p)'
  BY DEF Return, Holds, Busy, TypeOK
<1>4. CASE CallStep(p)
  <2>1. subs' = subs /\ pc'[p] = "lock"
    BY <1>4 DEF CallStep, Call, TypeOK
  <2> QED  BY <1>1, <2>1 DEF Holds, Busy
<1>5. CASE Subscribe(p)
  <2> DEFINE v == op[p].char
             k == op[p].kind
             s == SubOf(v)
             t == [ccc |-> s.ccc \union {k}, h |-> [s.h EXCEPT ![k] = op[p].id]]
  <2>1. pc[p] = "lock" /\ op[p].name = "sub" /\ lock = None /\ subs' = [subs EXCEPT ![v] = t]
    BY <1>5 DEF Subscribe, At, Locks
  <2>2. v \in Chars /\ k \in Kinds /\ op[p].id \in 1..MaxOps
    BY <1>0, <2>1 DEF CalledBy
  <2>3. s \in Subscription /\ Paired(s)
    BY <2>2, SubIs, PairedSub
  <2>4. Paired(t)
    BY <2>2, <2>3, PairedAdd
  <2>5. subs'[v] = t /\ \A w \in Chars : subs'[w] # None => Paired(subs'[w])
    <3> HIDE DEF t
    <3> QED  BY <1>0, <2>1, <2>2, <2>4 DEF TypeOK
  <2>6. RecordOf(p)'
    <3>1. CASE Return(p)
      BY <1>3, <3>1 DEF RecordOf
    <3>2. CASE ~Return(p)
      <4>1. op' = [op EXCEPT ![p] = [op[p] EXCEPT !.prev = s]] /\ k \notin s.ccc
        BY <1>5, <3>2 DEF Subscribe
      <4>2. /\ op'[p].name = "sub" /\ op'[p].char = v /\ op'[p].kind = k /\ op'[p].prev = s
            /\ op'[p].id = op[p].id
        BY <1>0, <2>1, <4>1 DEF TypeOK, Operation
      <4> HIDE DEF s, v, k
      <4> QED  BY <2>3, <2>5, <4>1, <4>2 DEF RecordOf
    <3> QED  BY <3>1, <3>2
  <2> HIDE DEF t
  <2> QED  BY <1>0, <2>1, <2>5, <2>6, RecordsKept
<1>6. CASE Unsubscribe(p)
  <2> DEFINE v == op[p].char
             s == SubOf(v)
  <2>1. pc[p] = "lock" /\ op[p].name = "unsub" /\ lock = None /\ subs' = [subs EXCEPT ![v] = s]
    BY <1>6 DEF Unsubscribe, At, Locks
  <2>2. v \in Chars
    BY <1>0, <2>1 DEF CalledBy
  <2>3. Paired(s)
    BY <2>2, PairedSub
  <2>4. subs'[v] = s /\ \A w \in Chars : subs'[w] # None => Paired(subs'[w])
    <3> HIDE DEF s
    <3> QED  BY <1>0, <2>1, <2>2, <2>3 DEF TypeOK
  <2>5. RecordOf(p)'
    <3>1. CASE Return(p)
      BY <1>3, <3>1 DEF RecordOf
    <3>2. CASE ~Return(p)
      <4>1. op' = [op EXCEPT ![p] = [op[p] EXCEPT !.prev = s]]
        BY <1>6, <3>2 DEF Unsubscribe
      <4>2. op'[p].name = "unsub" /\ op'[p].char = v /\ op'[p].prev = s
        BY <1>0, <2>1, <4>1 DEF TypeOK, Operation
      <4> HIDE DEF s, v
      <4> QED  BY <2>4, <4>2 DEF RecordOf
    <3> QED  BY <3>1, <3>2
  <2> HIDE DEF s
  <2> QED  BY <1>0, <2>1, <2>4, <2>5, RecordsKept
<1>7. ASSUME NEW rest \in SUBSET Chars, ClearNext(p, rest), op[p].name = "clear",
             \A w \in rest : subs'[w] # None
      PROVE  RecordOf(p)'
  <2>1. CASE rest = {}
    BY <1>3, <1>7, <2>1 DEF ClearNext, RecordOf
  <2>2. CASE rest # {}
    <3>1. PICK v \in rest : op' = [op EXCEPT ![p] = [op[p] EXCEPT !.char = v]]
      BY <1>7, <2>2 DEF ClearNext
    <3>2. op'[p].name = "clear" /\ op'[p].char = v
      BY <1>0, <1>7, <3>1 DEF TypeOK, Operation
    <3> QED  BY <1>7, <3>1, <3>2 DEF RecordOf
  <2> QED  BY <2>1, <2>2
<1>8. CASE ClearSubscriptions(p)
  <2> DEFINE rest == {v \in Chars : subs[v] # None}
  <2>1. /\ op[p].name = "clear" /\ lock = None /\ subs' = subs /\ ClearNext(p, rest)
    BY <1>8 DEF ClearSubscriptions, At, Locks
  <2>2. RecordOf(p)'
    BY <1>7, <2>1
  <2> QED  BY <1>0, <2>1, <2>2, RecordsKept
<1>9. CASE ClearedOne(p)
  <2> DEFINE v == op[p].char
             rest == {w \in Chars \ {v} : subs[w] # None}
  <2>1. /\ pc[p] = "await" /\ op[p].name = "clear" /\ subs' = [subs EXCEPT ![v] = None]
        /\ ClearNext(p, rest)
    BY <1>9 DEF ClearedOne, At
  <2>2. lock = p
    BY <1>0, <2>1 DEF Holds, Busy
  <2>3. \A w \in Chars : subs'[w] = None \/ subs'[w] = subs[w]
    BY <2>1 DEF TypeOK
  <2>4. \A w \in rest : subs'[w] # None
    BY <2>1 DEF TypeOK
  <2>5. RecordOf(p)'
    BY <1>7, <2>1, <2>4
  <2> QED  BY <1>0, <2>2, <2>3, <2>5, RecordsKept
<1>10. CASE Request(p)
  <2>1. /\ op[p].name = "req" /\ lock = None /\ subs' = subs /\ op' = op
    BY <1>10 DEF Request, At, Locks
  <2>2. RecordOf(p)'
    BY <2>1 DEF RecordOf
  <2> QED  BY <1>0, <2>1, <2>2, RecordsKept
<1>11. CASE Name(p) \/ NameAnswered(p) \/ NameFails(p)
  <2>1. subs' = subs
    BY <1>11 DEF Name, NameAnswered, NameFails
  <2>2. ~Holds(p)'
    <3>1. CASE Return(p)
      BY <1>3, <3>1
    <3>2. CASE ~Return(p)
      <4>1. op[p].name = "name" /\ (op' = op \/ op' = [op EXCEPT ![p] = [op[p] EXCEPT !.kind = "ntf"]])
        BY <1>11, <3>2 DEF Name, NameAnswered, NameFails, At
      <4>2. op'[p].name = "name"
        BY <1>0, <4>1 DEF TypeOK, Operation
      <4> QED  BY <4>2 DEF Holds
    <3> QED  BY <3>1, <3>2
  <2> QED  BY <1>1, <2>1, <2>2
<1>12. CASE Send(p)
  <2>1. subs' = subs /\ op' = op
    BY <1>12 DEF Send
  <2>2. CASE Holds(p)
    BY <1>2, <2>1, <2>2
  <2>3. CASE ~Holds(p)
    <3>1. op[p].name = "name"
      BY <1>12, <2>3 DEF Send, Holds, Busy
    <3> QED  BY <1>1, <2>1, <3>1 DEF Holds
  <2> QED  BY <2>2, <2>3
<1>13. CASE SubscribeDone(p) \/ RequestDone(p) \/ ErrorReturned(p)
  BY <1>1, <1>3, <1>13 DEF SubscribeDone, RequestDone, ErrorReturned
<1>14. CASE UnsubscribeDone(p)
  <2> DEFINE v == op[p].char
             k == op[p].kind
             s == subs[v]
             t == [ccc |-> wire.ccc, h |-> [s.h EXCEPT ![k] = 0]]
  <2>1. /\ pc[p] = "await" /\ op[p].name = "unsub" /\ Return(p) /\ subs' = [subs EXCEPT ![v] = t]
    BY <1>14 DEF UnsubscribeDone, At
  <2>2. Holds(p) /\ lock = p /\ v \in Chars /\ k \in Kinds /\ op[p].prev \in Subscription
    BY <1>0, <2>1 DEF Holds, Busy, CalledBy
  <2>3. s = op[p].prev /\ s \in Subscription
    BY <2>1, <2>2 DEF Records, RecordOf
  <2>4. Paired(s)
    BY <1>0, <2>2, <2>3, NoneAssumption
  <2>5. wire.ccc = s.ccc \ {k}
    BY <2>1, <2>3, ValueIs DEF OnWire, Awaits
  <2>6. Paired(t)
    <3> HIDE DEF s, k
    <3> QED  BY <2>2, <2>3, <2>4, <2>5, PairedRemove
  <2>7. \A w \in Chars : subs'[w] # None => Paired(subs'[w])
    <3> HIDE DEF t
    <3> QED  BY <1>0, <2>1, <2>6 DEF TypeOK
  <2> QED  BY <1>0, <1>3, <2>1, <2>2, <2>7, RecordsKept DEF RecordOf
<1>15. CASE SubscribeFails(p)
  <2>1. /\ op[p].name = "sub" /\ Return(p) /\ Busy(p)
        /\ subs' = [subs EXCEPT ![op[p].char] = op[p].prev]
    BY <1>15 DEF SubscribeFails, Failed, Busy
  <2>2. Holds(p) /\ lock = p
    BY <1>0, <2>1 DEF Holds
  <2>3. Paired(op[p].prev)
    BY <2>1, <2>2 DEF Records, RecordOf
  <2>4. \A w \in Chars : subs'[w] # None => Paired(subs'[w])
    BY <1>0, <2>1, <2>3 DEF TypeOK
  <2> QED  BY <1>0, <1>3, <2>1, <2>2, <2>4, RecordsKept DEF RecordOf
<1> QED  BY <1>4, <1>5, <1>6, <1>8, <1>9, <1>10, <1>11, <1>12, <1>13, <1>14, <1>15
         DEF Steps, Fails
-----------------------------------------------------------------------------
(* A write under way is the holder's. *)
LEMMA HolderWrites ==
  ASSUME TypeOK, Called, LockHeld, OnWire, NEW v \in Chars, Applies(v)
  PROVE  /\ lock \in Procs /\ wire.own = lock /\ pc[lock] = "await" /\ op[lock].char = v
         /\ wire.ccc = Value(lock) /\ op[lock].name \in {"sub", "unsub", "clear"}
<1>1. wire # None /\ wire.own # None /\ wire.ccc # None /\ wire.char = v
  BY DEF Applies
<1>2. wire.own \in Procs
  BY <1>1, WireIs
<1>3. PICK q \in Procs : q = wire.own
  BY <1>2
<1>4. pc[q] = "await" /\ wire.char = op[q].char /\ wire.ccc = Value(q)
  BY <1>1, <1>3 DEF OnWire, Awaits
<1>5. op[q].name \in {"sub", "unsub", "clear"}
  BY <1>1, <1>4, ValueType DEF Busy
<1>6. lock = q
  BY <1>4, <1>5 DEF LockHeld, Holds, Busy
<1> QED  BY <1>1, <1>3, <1>4, <1>5, <1>6

(* A step that leaves the bearer, the peer and what is recorded alone. *)
LEMMA AgreementKept ==
  ASSUME Agreement, UNCHANGED <<wire, peer, doubt>>, \A v \in Chars : Recorded(v)' = Recorded(v)
  PROVE  Agreement'
<1>1. \A v \in Chars : Applies(v)' <=> Applies(v)
  BY DEF Applies
<1>2. Applied' /\ Doubted'
  BY DEF Agreement, Applied, Doubted
<1> QED  BY <1>1, <1>2 DEF Agreement

(* The end of a call that holds the lock, or the end of one write of       *)
(* ClearSubscriptions: what matters is the subscription it was changing.   *)
LEMMA HolderAgrees ==
  ASSUME TypeOK, Called, LockHeld, OnWire, Agreement, NEW p \in Procs, lock = p,
         NEW c, c = op[p].char, peer' = peer,
         lock' = None \/ (lock' = p /\ op'[p].name # "sub"),
         \A v \in Chars \ {c} : subs'[v] = subs[v] /\ (v \in doubt' <=> v \in doubt),
         c \in Chars => c \in doubt' \/ SubOf(c)'.ccc = peer[c],
         Applied', Doubted'
  PROVE  Agreement'
<1>1. ASSUME NEW v \in Chars \ doubt'  PROVE peer'[v] = Recorded(v)'
  <2>1. Recorded(v)' = SubOf(v)'.ccc
    BY DEF Recorded
  <2>2. CASE v = c
    BY <1>1, <2>1, <2>2
  <2>3. CASE v # c
    <3>1. ~Applies(v) /\ v \notin doubt
      BY <2>3, HolderWrites
    <3>2. peer[v] = Recorded(v)
      BY <3>1 DEF Agreement
    <3>3. Recorded(v) = SubOf(v).ccc
      BY <2>3 DEF Recorded
    <3>4. SubOf(v)' = SubOf(v)
      BY <2>3 DEF SubOf
    <3> QED  BY <2>1, <3>2, <3>3, <3>4
  <2> QED  BY <2>2, <2>3
<1> QED  BY <1>1 DEF Agreement

(* The answer to a call: its write was applied. *)
LEMMA AnsweredAgrees ==
  ASSUME TypeOK, OnWire, Agreement, NEW p \in Procs, Answered(p)
  PROVE  /\ peer' = peer /\ Applied' /\ Doubted' /\ pc[p] = "await"
         /\ wire.char = op[p].char /\ wire.ccc = Value(p)
         /\ \A v : v # op[p].char => (v \in doubt' <=> v \in doubt)
         /\ wire.ccc # None => peer[op[p].char] = wire.ccc
         /\ wire.ccc = None => doubt' = doubt
<1>1. /\ peer' = peer /\ wire' = None /\ pc[p] = "await" /\ wire # None /\ wire.st = "ok"
      /\ doubt' = IF wire.ccc = None THEN doubt ELSE doubt \ {wire.char}
  BY DEF Answered
<1>2. wire.char = op[p].char /\ wire.ccc = Value(p)
  BY <1>1 DEF OnWire, Awaits
<1>3. Applied' /\ Doubted'
  BY <1>1 DEF Applied, Doubted
<1>4. wire.ccc # None => peer[op[p].char] = wire.ccc
  BY <1>1, <1>2 DEF Agreement, Applied
<1>5. \A v : v # op[p].char => (v \in doubt' <=> v \in doubt)
  BY <1>1, <1>2
<1> QED  BY <1>1, <1>2, <1>3, <1>4, <1>5

(* The failure of a call: its write was not applied, or is in doubt. *)
LEMMA FailedAgrees ==
  ASSUME TypeOK, Called, LockHeld, OnWire, Agreement, NEW p \in Procs, Failed(p)
  PROVE  /\ peer' = peer /\ Applied' /\ Doubted' /\ Busy(p)
         /\ \A v : v # op[p].char => (v \in doubt' <=> v \in doubt)
         /\ doubt \subseteq doubt'
         /\ \A v \in Chars \ doubt' : Applies(v) => op[p].name = "name" /\ wire' = wire
<1>1. peer' = peer /\ Busy(p)
  BY DEF Failed, Busy
<1>2. CASE pc[p] = "await"
  <2>1. wire # None /\ wire.own = p /\ wire.char = op[p].char /\ wire \in Transaction
    BY <1>2, WireIs DEF OnWire, Awaits
  <2>2. CASE wire' = None /\ doubt' = doubt /\ wire.st = "refused"
    <3>1. \A v \in Chars : ~Applies(v)
      BY <2>2 DEF Applies
    <3> QED  BY <1>1, <2>2, <3>1 DEF Applied, Doubted
  <2>3. CASE /\ wire' = [wire EXCEPT !.own = None]
             /\ doubt' = IF wire.ccc = None THEN doubt ELSE doubt \union {wire.char}
    <3>1. wire'.char = wire.char /\ wire'.ccc = wire.ccc /\ wire'.st = wire.st
      BY <2>1, <2>3 DEF Transaction
    <3>2. Applied'
      BY <1>1, <2>1, <3>1 DEF Applied, Agreement
    <3>3. Doubted'
      BY <2>3, <3>1 DEF Doubted
    <3>4. \A v \in Chars \ doubt' : ~Applies(v)
      BY <2>3 DEF Applies
    <3> QED  BY <1>1, <2>1, <2>3, <3>2, <3>3, <3>4
  <2> QED  BY <1>2, <2>2, <2>3 DEF Failed
<1>3. CASE pc[p] = "send"
  <2>1. wire' = wire /\ doubt' = doubt
    BY <1>3 DEF Failed
  <2>2. Applied' /\ Doubted'
    BY <1>1, <2>1 DEF Agreement, Applied, Doubted
  <2>3. ASSUME NEW v \in Chars, Applies(v)  PROVE op[p].name = "name"
    <3>1. lock # p
      BY <1>3, <2>3, HolderWrites
    <3> QED  BY <1>1, <3>1 DEF LockHeld, Holds
  <2> QED  BY <1>1, <2>1, <2>2, <2>3
<1> QED  BY <1>2, <1>3 DEF Failed

(* A step of another goroutine than the holder's, or one that only sends,  *)
(* records nothing new.                                                    *)
LEMMA RecordedKept ==
  ASSUME TypeOK, NEW p \in Procs, Others(p), subs' = subs, lock' = lock, lock # p \/ op'[p] = op[p]
  PROVE  \A v \in Chars : Recorded(v)' = Recorded(v)
<1>1. lock # None => lock \in Procs /\ op'[lock] = op[lock]
  BY DEF Others, TypeOK
<1>2. \A v \in Chars : SubOf(v)' = SubOf(v)
  BY DEF SubOf
<1> QED  BY <1>1, <1>2 DEF Recorded

(* The calls keep the agreement. *)
LEMMA AgreementStep ==
  ASSUME TypeOK, Called, LockHeld, OnWire, Records, Agreement, NEW p \in Procs,
         CallStep(p) \/ Steps(p) \/ Fails(p)
  PROVE  Agreement'
<1> USE DEF cli, calls, ntf
<1>0. /\ CalledBy(p) /\ Others(p) /\ op[p] \in Operation /\ (Holds(p) <=> lock = p) /\ RecordOf(p)
      /\ None \notin Procs
  BY OthersKeep, OpIs, NoneAssumption DEF Called, LockHeld, Records
<1>1. CASE CallStep(p)
  <2>1. UNCHANGED <<subs, lock, wire, peer, doubt>> /\ pc[p] = "idle"
    BY <1>1 DEF CallStep, Call
  <2>2. lock # p
    BY <1>0, <2>1 DEF Holds, Busy
  <2> QED  BY <1>0, <2>1, <2>2, RecordedKept, AgreementKept
<1>2. ASSUME lock = None, UNCHANGED <<wire, peer, doubt>>,
             \A v \in Chars : SubOf(v)'.ccc = SubOf(v).ccc,
             lock' = None \/ (lock' = p /\ op'[p].name # "sub")
      PROVE  Agreement'
  <2>1. \A v \in Chars : Recorded(v) = SubOf(v).ccc
    BY <1>2 DEF Recorded
  <2>2. \A v \in Chars : Recorded(v)' = SubOf(v).ccc
    BY <1>2 DEF Recorded
  <2> QED  BY <1>2, <2>1, <2>2, AgreementKept
<1>3. CASE Subscribe(p)
  <2> DEFINE k == op[p].kind
             s == SubOf(op[p].char)
             t == [ccc |-> s.ccc \union {k}, h |-> [s.h EXCEPT ![k] = op[p].id]]
  <2>1. /\ op[p].name = "sub" /\ lock = None /\ UNCHANGED <<wire, peer, doubt>>
        /\ subs' = [subs EXCEPT ![op[p].char] = t]
    BY <1>3 DEF Subscribe, Locks, At
  <2>2. PICK c \in Chars : c = op[p].char
    BY <1>0, <2>1 DEF CalledBy
  <2>3. k \in Kinds /\ op[p].id \in 0..MaxOps /\ s \in Subscription /\ s.ccc \in SUBSET Kinds
    BY <1>0, <2>1, <2>2, OpIs, SubIs DEF CalledBy
  <2>4. t \in Subscription
    BY <2>3, SubscriptionType
  <2>5. t # None /\ t.ccc = s.ccc \union {k}
    BY <2>4, NoneAssumption
  <2>6. subs'[c] = t /\ \A w \in Chars \ {c} : subs'[w] = subs[w]
    <3> HIDE DEF t
    <3> QED  BY <2>1, <2>2 DEF TypeOK
  <2>7. SubOf(c)'.ccc = s.ccc \union {k} /\ \A w \in Chars \ {c} : SubOf(w)' = SubOf(w)
    <3> HIDE DEF t
    <3> QED  BY <2>5, <2>6 DEF SubOf
  <2>8. CASE k \in s.ccc
    <3>1. lock' = None
      BY <1>3, <2>1, <2>8 DEF Subscribe
    <3>2. ASSUME NEW w \in Chars  PROVE SubOf(w)'.ccc = SubOf(w).ccc
      <4>1. s.ccc \union {k} = s.ccc
        BY <2>8
      <4>2. SubOf(c)'.ccc = SubOf(c).ccc
        BY <2>2, <2>7, <4>1
      <4> QED  BY <2>7, <4>2
    <3> QED  BY <1>2, <2>1, <3>1, <3>2
  <2>9. CASE k \notin s.ccc
    <3>1. lock' = p /\ op' = [op EXCEPT ![p] = [op[p] EXCEPT !.prev = s]]
      BY <1>3, <2>9 DEF Subscribe
    <3>2. op'[p].name = "sub" /\ op'[p].char = c /\ op'[p].prev = SubOf(c)
      BY <1>0, <2>1, <2>2, <3>1 DEF TypeOK, Operation
    <3>3. \A w \in Chars : Recorded(w) = SubOf(w).ccc
      BY <2>1 DEF Recorded
    <3>4. \A w \in Chars : Recorded(w)' = SubOf(w).ccc
      BY <1>0, <2>7, <3>1, <3>2 DEF Recorded
    <3> QED  BY <2>1, <3>3, <3>4, AgreementKept
  <2> QED  BY <2>8, <2>9
<1>4. CASE Unsubscribe(p)
  <2> DEFINE v == op[p].char
             s == SubOf(v)
  <2>1. /\ op[p].name = "unsub" /\ lock = None /\ UNCHANGED <<wire, peer, doubt>>
        /\ subs' = [subs EXCEPT ![v] = s]
        /\ lock' = None \/ (lock' = p /\ op' = [op EXCEPT ![p] = [op[p] EXCEPT !.prev = s]])
    BY <1>4 DEF Unsubscribe, Locks, At
  <2>2. v \in Chars
    BY <1>0, <2>1, OpIs DEF CalledBy
  <2>3. s \in Subscription /\ s # None
    BY <2>2, SubIs, NoneAssumption
  <2>4. \A w \in Chars : SubOf(w)' = SubOf(w)
    <3>1. PICK c \in Chars : c = v
      BY <2>2
    <3>2. subs'[c] = SubOf(c) /\ SubOf(c) # None /\ \A w \in Chars \ {c} : subs'[w] = subs[w]
      BY <2>1, <2>3, <3>1 DEF TypeOK
    <3>3. SubOf(c)' = SubOf(c)
      BY <3>2 DEF SubOf
    <3> QED  BY <3>2, <3>3 DEF SubOf
  <2>5. lock' = p => op'[p].name = "unsub"
    <3> HIDE DEF s
    <3> QED  BY <1>0, <2>1 DEF TypeOK, Operation
  <2> QED  BY <1>2, <2>1, <2>4, <2>5
<1>5. CASE ClearSubscriptions(p)
  <2> DEFINE rest == {v \in Chars : subs[v] # None}
  <2>1. /\ op[p].name = "clear" /\ lock = None /\ UNCHANGED <<wire, peer, doubt, subs>>
        /\ ClearNext(p, rest)
    BY <1>5 DEF ClearSubscriptions, Locks, At
  <2>2. lock' = None \/ (lock' = p /\ \E v \in rest : op' = [op EXCEPT ![p] = [op[p] EXCEPT !.char = v]])
    BY <2>1 DEF ClearNext
  <2>3. lock' = p => op'[p].name = "clear"
    BY <1>0, <2>1, <2>2 DEF TypeOK, Operation
  <2>4. \A v \in Chars : SubOf(v)' = SubOf(v)
    BY <2>1 DEF SubOf
  <2> QED  BY <1>2, <2>1, <2>2, <2>3, <2>4
<1>6. CASE Request(p)
  <2>1. /\ op[p].name = "req" /\ lock = None /\ UNCHANGED <<wire, peer, doubt, subs>>
        /\ lock' = p /\ op' = op
    BY <1>6 DEF Request, Locks, At
  <2>2. \A v \in Chars : SubOf(v)' = SubOf(v)
    BY <2>1 DEF SubOf
  <2> QED  BY <1>2, <2>1, <2>2
<1>7. CASE Name(p)
  <2>1. UNCHANGED <<subs, lock, wire, peer, doubt>> /\ op[p].name = "name"
    BY <1>7 DEF Name, At
  <2>2. lock # p
    BY <1>0, <2>1 DEF Holds
  <2> QED  BY <1>0, <2>1, <2>2, RecordedKept, AgreementKept
<1>8. CASE Send(p)
  <2> DEFINE w == [own |-> p, char |-> op[p].char, ccc |-> Value(p), st |-> "sent"]
  <2>1. UNCHANGED <<subs, lock, peer, doubt, op>> /\ wire = None /\ wire' = w
    BY <1>8 DEF Send
  <2>2. w.st = "sent" /\ w.own = p
    OBVIOUS
  <2> HIDE DEF w
  <2>3. Applied' /\ Doubted'
    BY <1>0, <2>1, <2>2 DEF Applied, Doubted
  <2>4. \A v \in Chars : Recorded(v)' = Recorded(v)
    BY <1>0, <2>1, RecordedKept
  <2>5. \A v \in Chars : ~Applies(v)
    BY <2>1 DEF Applies
  <2> QED  BY <2>1, <2>3, <2>4, <2>5 DEF Agreement
<1>9. CASE SubscribeDone(p)
  <2>1. /\ Answered(p) /\ op[p].name = "sub" /\ lock' = None /\ subs' = subs
    BY <1>9 DEF SubscribeDone, At
  <2>2. PICK c \in Chars : c = op[p].char
    BY <1>0, <2>1 DEF CalledBy
  <2>3. Holds(p) /\ lock = p /\ wire.ccc = op[p].prev.ccc \union {op[p].kind} /\ wire.ccc # None
    BY <1>0, <2>1, AnsweredAgrees, ValueIs, ValueType DEF Holds, Busy
  <2>4. subs[c] # None /\ subs[c].ccc = wire.ccc
    <3>1. subs[c] = [ccc |-> wire.ccc, h |-> [op[p].prev.h EXCEPT ![op[p].kind] = op[p].id]]
      BY <1>0, <2>1, <2>2, <2>3 DEF RecordOf
    <3>2. op[p].prev \in Subscription /\ op[p].kind \in Kinds /\ op[p].id \in 0..MaxOps
      BY <1>0, <2>1, <2>3, OpIs DEF CalledBy, Holds
    <3>3. wire.ccc \in SUBSET Kinds
      BY <2>3, WireIs, <2>1 DEF Answered
    <3>4. subs[c] \in Subscription
      BY <3>1, <3>2, <3>3, SubscriptionType
    <3> QED  BY <3>1, <3>4, NoneAssumption
  <2>5. SubOf(c)'.ccc = peer[c]
    BY <2>1, <2>2, <2>3, <2>4, AnsweredAgrees DEF SubOf
  <2> QED  BY <2>1, <2>2, <2>3, <2>5, AnsweredAgrees, HolderAgrees
<1>10. CASE UnsubscribeDone(p)
  <2> DEFINE t == [ccc |-> wire.ccc, h |-> [subs[op[p].char].h EXCEPT ![op[p].kind] = 0]]
  <2>1. /\ Answered(p) /\ op[p].name = "unsub" /\ lock' = None
        /\ subs' = [subs EXCEPT ![op[p].char] = t]
    BY <1>10 DEF UnsubscribeDone, At
  <2>2. PICK c \in Chars : c = op[p].char
    BY <1>0, <2>1 DEF CalledBy
  <2>3. Holds(p) /\ lock = p /\ wire.ccc # None
    BY <1>0, <2>1, AnsweredAgrees, ValueType DEF Holds, Busy
  <2>4. t \in Subscription
    <3>1. subs[c] \in Subscription /\ op[p].kind \in Kinds
      BY <1>0, <2>1, <2>2, <2>3 DEF RecordOf, CalledBy, Holds
    <3>2. wire.ccc \in SUBSET Kinds
      BY <2>3, WireIs, <2>1 DEF Answered
    <3> QED  BY <2>2, <3>1, <3>2, SubscriptionType, BoundAssumption
  <2>5. t.ccc = wire.ccc /\ t # None
    BY <2>4, NoneAssumption
  <2> HIDE DEF t
  <2>6. subs'[c] = t /\ \A v \in Chars \ {c} : subs'[v] = subs[v]
    BY <2>1, <2>2 DEF TypeOK
  <2>7. SubOf(c)'.ccc = peer[c]
    BY <2>1, <2>2, <2>3, <2>5, <2>6, AnsweredAgrees DEF SubOf
  <2> QED  BY <2>1, <2>2, <2>3, <2>6, <2>7, AnsweredAgrees, HolderAgrees
<1>11. CASE ClearedOne(p)
  <2> DEFINE rest == {w \in Chars \ {op[p].char} : subs[w] # None}
  <2>1. /\ Answered(p) /\ pc[p] = "await" /\ op[p].name = "clear"
        /\ subs' = [subs EXCEPT ![op[p].char] = None] /\ ClearNext(p, rest)
    BY <1>11 DEF ClearedOne, At
  <2>2. PICK c \in Chars : c = op[p].char
    BY <1>0, <2>1 DEF CalledBy, Busy
  <2>3. lock = p /\ wire.ccc = {} /\ wire.ccc # None
    BY <1>0, <2>1, AnsweredAgrees, ValueIs, ValueType DEF Holds, Busy
  <2>4. lock' = None \/ (lock' = p /\ op'[p].name = "clear")
    <3>1. \/ lock' = None
          \/ lock' = p /\ \E v \in rest : op' = [op EXCEPT ![p] = [op[p] EXCEPT !.char = v]]
      BY <2>1 DEF ClearNext
    <3> QED  BY <1>0, <2>1, <3>1 DEF TypeOK, Operation
  <2>5. subs'[c] = None /\ \A v \in Chars \ {c} : subs'[v] = subs[v]
    BY <2>1, <2>2 DEF TypeOK
  <2>6. SubOf(c)'.ccc = peer[c]
    BY <2>1, <2>2, <2>3, <2>5, AnsweredAgrees DEF SubOf, NoSub
  <2> QED  BY <2>1, <2>2, <2>3, <2>4, <2>5, <2>6, AnsweredAgrees, HolderAgrees
<1>12. ASSUME op[p].name \in {"req", "unsub", "clear"}, Busy(p), lock' = None, subs' = subs,
              peer' = peer, Applied', Doubted', doubt \subseteq doubt',
              \A v : v # op[p].char => (v \in doubt' <=> v \in doubt),
              \A v \in Chars \ doubt' : ~Applies(v)
       PROVE  Agreement'
  <2>1. lock = p
    BY <1>0, <1>12 DEF Holds
  <2>2. ASSUME NEW v \in Chars \ doubt'  PROVE SubOf(v)'.ccc = peer[v]
    <3>1. peer[v] = Recorded(v)
      BY <1>12 DEF Agreement
    <3>2. Recorded(v) = SubOf(v).ccc
      BY <1>12, <2>1 DEF Recorded
    <3> QED  BY <1>12, <3>1, <3>2 DEF SubOf
  <2>3. PICK c : c = op[p].char
    OBVIOUS
  <2> QED  BY <1>12, <2>1, <2>2, <2>3, HolderAgrees
<1>13. CASE RequestDone(p)
  <2>1. Answered(p) /\ op[p].name = "req" /\ lock' = None /\ subs' = subs
    BY <1>13 DEF RequestDone, At
  <2>2. wire.ccc = None
    BY <2>1, AnsweredAgrees, ValueIs
  <2>3. \A v \in Chars \ doubt' : ~Applies(v)
    BY <2>2 DEF Applies
  <2> QED  BY <1>12, <2>1, <2>2, <2>3, AnsweredAgrees DEF Busy
<1>14. CASE ErrorReturned(p)
  <2>1. Failed(p) /\ op[p].name \in {"req", "unsub", "clear"} /\ lock' = None /\ subs' = subs
    BY <1>14 DEF ErrorReturned
  <2>2. \A v \in Chars \ doubt' : ~Applies(v)
    BY <2>1, FailedAgrees
  <2> QED  BY <1>12, <2>1, <2>2, FailedAgrees
<1>15. CASE SubscribeFails(p)
  <2>1. /\ Failed(p) /\ op[p].name = "sub" /\ lock' = None
        /\ subs' = [subs EXCEPT ![op[p].char] = op[p].prev]
    BY <1>15 DEF SubscribeFails
  <2>2. PICK c \in Chars : c = op[p].char
    BY <1>0, <2>1 DEF CalledBy
  <2>3. lock = p /\ op[p].prev \in Subscription
    BY <1>0, <2>1, FailedAgrees DEF Holds, CalledBy
  <2>4. subs'[c] = op[p].prev /\ \A v \in Chars \ {c} : subs'[v] = subs[v]
    BY <2>1, <2>2 DEF TypeOK
  <2>5. SubOf(c)' = op[p].prev
    BY <2>3, <2>4, NoneAssumption DEF SubOf
  <2>6. ASSUME c \notin doubt'  PROVE SubOf(c)'.ccc = peer[c]
    <3>1. ~Applies(c) /\ c \notin doubt
      BY <2>1, <2>6, FailedAgrees
    <3>2. peer[c] = Recorded(c)
      BY <3>1 DEF Agreement
    <3>3. Recorded(c) = op[p].prev.ccc
      BY <1>0, <2>1, <2>2, <2>3 DEF Recorded
    <3> QED  BY <2>5, <3>2, <3>3
  <2> QED  BY <2>1, <2>2, <2>3, <2>4, <2>6, FailedAgrees, HolderAgrees
<1>16. CASE NameAnswered(p) \/ NameFails(p)
  <2>1. UNCHANGED <<lock, subs>> /\ op[p].name = "name" /\ (Answered(p) \/ Failed(p))
    BY <1>16 DEF NameAnswered, NameFails, At
  <2>2. lock # p
    BY <1>0, <2>1 DEF Holds
  <2>3. \A v \in Chars : Recorded(v)' = Recorded(v)
    BY <1>0, <2>1, <2>2, RecordedKept
  <2>4. /\ peer' = peer /\ Applied' /\ Doubted' /\ doubt \subseteq doubt'
        /\ \A v \in Chars \ doubt' : Applies(v) => wire' = wire
    <3>1. CASE Answered(p)
      <4>1. wire.ccc = None
        BY <2>1, <3>1, AnsweredAgrees, ValueIs
      <4> QED  BY <3>1, <4>1, AnsweredAgrees DEF Applies
    <3>2. CASE Failed(p)
      BY <3>2, FailedAgrees
    <3> QED  BY <2>1, <3>1, <3>2
  <2>5. ASSUME NEW v \in Chars \ doubt'  PROVE Applies(v)' \/ peer'[v] = Recorded(v)'
    <3>1. Applies(v) \/ peer[v] = Recorded(v)
      BY <2>4 DEF Agreement
    <3> QED  BY <2>3, <2>4, <3>1 DEF Applies
  <2> QED  BY <2>4, <2>5 DEF Agreement
<1> QED  BY <1>1, <1>3, <1>4, <1>5, <1>6, <1>7, <1>8, <1>9, <1>10, <1>11, <1>13, <1>14, <1>15,
            <1>16 DEF Steps, Fails

(* So do the peer and the bearer: an answered write is applied, and only   *)
(* that one.                                                               *)
LEMMA OtherAgrees ==
  ASSUME TypeOK, OnWire, Agreement, OtherStep \/ UNCHANGED vars
  PROVE  Agreement'
<1>0. UNCHANGED <<lock, op, subs, doubt>>
  BY OtherKeeps
<1>1. \A v \in Chars : Recorded(v)' = Recorded(v)
  BY <1>0 DEF Recorded, SubOf
<1>2. CASE PeerAnswers
  <2>1. wire # None /\ wire.st = "sent" /\ wire \in Transaction
    BY <1>2, WireIs DEF PeerAnswers
  <2>2. \A v \in Chars \ doubt : peer[v] = Recorded(v)
    BY <2>1 DEF Agreement, Applies
  <2>3. \A st : /\ [wire EXCEPT !.st = st].st = st /\ [wire EXCEPT !.st = st].own = wire.own
                /\ [wire EXCEPT !.st = st].ccc = wire.ccc /\ [wire EXCEPT !.st = st].char = wire.char
    BY <2>1 DEF Transaction
  <2>4. /\ wire'.own = wire.own /\ wire'.ccc = wire.ccc /\ wire'.char = wire.char
        /\ \/ /\ wire'.st = "ok"
              /\ peer' = IF wire.ccc = None THEN peer ELSE [peer EXCEPT ![wire.char] = wire.ccc]
           \/ wire'.st = "refused" /\ peer' = peer
    BY <1>2, <2>3 DEF PeerAnswers
  <2>5. Doubted'
    BY <1>0, <2>1, <2>4 DEF Agreement, Doubted
  <2>6. CASE wire'.st = "ok" /\ wire.ccc # None
    <3>1. wire.char \in Chars /\ peer' = [peer EXCEPT ![wire.char] = wire.ccc]
      BY <2>1, <2>4, <2>6 DEF OnWire
    <3>2. Applied'
      BY <2>4, <3>1 DEF Applied, TypeOK
    <3>3. ASSUME NEW v \in Chars \ doubt  PROVE Applies(v)' \/ peer'[v] = Recorded(v)'
      <4>1. CASE v = wire.char
        <5>1. wire.own # None
          BY <2>1, <2>6, <4>1 DEF Agreement, Doubted
        <5>2. wire' # None
          <6>1. wire' = [wire EXCEPT !.st = "ok"]
            BY <1>2, <2>3, <2>6 DEF PeerAnswers
          <6>2. wire' \in Transaction
            BY <2>1, <6>1 DEF Transaction
          <6> QED  BY <6>2, NoneAssumption
        <5> QED  BY <2>4, <2>6, <4>1, <5>1, <5>2 DEF Applies
      <4>2. CASE v # wire.char
        BY <1>1, <2>2, <3>1, <4>2 DEF TypeOK
      <4> QED  BY <4>1, <4>2
    <3> QED  BY <1>0, <2>5, <3>2, <3>3 DEF Agreement
  <2>7. CASE ~(wire'.st = "ok" /\ wire.ccc # None)
    <3>1. peer' = peer /\ Applied'
      BY <2>4, <2>7 DEF Applied
    <3> QED  BY <1>0, <1>1, <2>2, <2>5, <3>1 DEF Agreement
  <2> QED  BY <2>6, <2>7
<1>3. CASE Drain
  <2>1. wire.own = None /\ wire' = None /\ peer' = peer
    BY <1>3 DEF Drain
  <2>2. Applied' /\ Doubted'
    BY <2>1 DEF Applied, Doubted
  <2>3. \A v \in Chars : ~Applies(v)
    BY <2>1 DEF Applies
  <2> QED  BY <1>0, <1>1, <2>1, <2>2, <2>3 DEF Agreement
<1>4. CASE ~PeerAnswers /\ ~Drain
  <2>1. UNCHANGED <<wire, peer>>
    BY <1>4 DEF OtherStep, BearerDies, PeerNotifies, HandleNotification, Invoke,
       HandlerReturns, vars
  <2> QED  BY <1>0, <1>1, <2>1, AgreementKept
<1> QED  BY <1>2, <1>3, <1>4
-----------------------------------------------------------------------------
(* A step of a call under way installs at most its own handler, in one     *)
(* place, and removes the handlers it adds to gone.                        *)
LEMMA HandlersKept ==
  ASSUME TypeOK, Handlers, NEW p \in Procs, Others(p), nOp' = nOp, pc[p] # "idle",
         pc'[p] = "idle" \/ (pc'[p] # "lock" /\ op'[p].id = op[p].id),
         NEW c, NEW d,
         \A h \in 1..MaxOps, v \in Chars, k \in Kinds : Installed(h, v, k)' =>
           Installed(h, v, k) \/ (pc[p] = "lock" /\ h = op[p].id /\ v = c /\ k = d),
         gone \subseteq gone',
         \A h \in gone' \ gone :
           /\ h \in 1..MaxOps /\ \E v \in Chars, k \in Kinds : Installed(h, v, k)
           /\ \A v \in Chars, k \in Kinds : ~Installed(h, v, k)'
  PROVE  Handlers'
<1>1. \A q \in Procs \ {p} : pc'[q] = pc[q] /\ op'[q] = op[q]
  BY DEF Others
<1>2. \A q \in Procs : op[q].id \in 0..MaxOps
  BY OpIs
<1>3. ASSUME NEW h \in 1..MaxOps, NEW v \in Chars, NEW k \in Kinds, Installed(h, v, k)'
      PROVE  /\ h <= nOp /\ h \notin gone'
             /\ \A w \in Chars, j \in Kinds : Installed(h, w, j)' => w = v /\ j = k
  <2>1. h <= nOp /\ h \notin gone
    BY <1>3 DEF Handlers
  <2>2. h \notin gone'
    BY <1>3, <2>1
  <2>3. ASSUME NEW w \in Chars, NEW j \in Kinds, Installed(h, w, j)'  PROVE w = v /\ j = k
    BY <1>3, <2>3 DEF Handlers
  <2> QED  BY <2>1, <2>2, <2>3
<1>4. \A h \in gone' : h <= nOp
  BY DEF Handlers
<1>5. ASSUME NEW q \in Procs, pc'[q] # "idle"
      PROVE  /\ 0 < op'[q].id /\ op'[q].id <= nOp
             /\ \A r \in Procs : pc'[r] # "idle" /\ op'[r].id = op'[q].id => r = q
  BY <1>1, <1>5 DEF Handlers
<1>6. ASSUME NEW q \in Procs, NEW h \in 1..MaxOps, pc'[q] = "lock", op'[q].id = h
      PROVE  h \notin gone' /\ \A v \in Chars, k \in Kinds : ~Installed(h, v, k)'
  <2>1. q # p /\ pc[q] = "lock" /\ op[q].id = h
    BY <1>1, <1>6
  <2>2. h \notin gone /\ h # op[p].id /\ \A v \in Chars, k \in Kinds : ~Installed(h, v, k)
    BY <2>1 DEF Handlers
  <2> QED  BY <2>2
<1> QED  BY <1>3, <1>4, <1>5, <1>6 DEF Handlers

(* A step that changes neither the subscriptions nor gone. *)
LEMMA HandlersSame ==
  ASSUME TypeOK, Handlers, NEW p \in Procs, Others(p), UNCHANGED <<subs, gone, nOp>>,
         pc[p] # "idle", pc'[p] = "idle" \/ (pc'[p] # "lock" /\ op'[p].id = op[p].id)
  PROVE  Handlers'
<1>1. \A h \in 1..MaxOps, v \in Chars, k \in Kinds : Installed(h, v, k)' => Installed(h, v, k)
  BY DEF Installed
<1> QED  BY <1>1, HandlersKept

(* The calls keep the handlers: each is installed in one place until it is *)
(* replaced or removed, and never again.                                   *)
LEMMA HandlersStep ==
  ASSUME TypeOK, Called, LockHeld, OnWire, Records, Handlers, NEW p \in Procs,
         CallStep(p) \/ Steps(p) \/ Fails(p)
  PROVE  Handlers' /\ gone \subseteq gone' /\ UNCHANGED <<late, disp>>
<1> USE DEF cli, calls, ntf
<1>0. /\ CalledBy(p) /\ Others(p) /\ op[p] \in Operation /\ (Holds(p) <=> lock = p) /\ RecordOf(p)
      /\ \A v \in Chars : subs[v] # None => subs[v] \in Subscription /\ Paired(subs[v])
  BY OthersKeep, OpIs DEF Called, LockHeld, Records, TypeOK
<1>1. UNCHANGED <<late, disp>>
  BY DEF CallStep, Call, Steps, Subscribe, Unsubscribe, ClearSubscriptions, Request, Locks, Name,
     Send, SubscribeDone, UnsubscribeDone, ClearedOne, RequestDone, NameAnswered, Answered,
     Fails, SubscribeFails, ErrorReturned, NameFails, Failed
<1>2. Return(p) => pc'[p] = "idle"
  BY DEF Return, TypeOK
<1>3. CASE CallStep(p)
  <2>1. PICK name, v, k : Call(p, name, v, k)
    BY <1>3 DEF CallStep
  <2>2. /\ UNCHANGED <<subs, gone>> /\ nOp' = nOp + 1 /\ nOp < MaxOps /\ nOp \in Nat
        /\ pc[p] = "idle" /\ op'[p].id = nOp + 1
    BY <2>1, BoundAssumption DEF Call, TypeOK
  <2>3. \A h, w, j : Installed(h, w, j)' <=> Installed(h, w, j)
    BY <2>2 DEF Installed
  <2>4. \A q \in Procs \ {p} : pc'[q] = pc[q] /\ op'[q] = op[q] /\ op[q].id \in 0..MaxOps
    BY <1>0, OpIs DEF Others
  <2>5. gone \subseteq 1..MaxOps
    BY DEF TypeOK
  <2>6. ASSUME NEW h \in 1..MaxOps, NEW w \in Chars, NEW j \in Kinds, Installed(h, w, j)'
        PROVE  /\ h <= nOp' /\ h \notin gone'
               /\ \A x \in Chars, y \in Kinds : Installed(h, x, y)' => x = w /\ y = j
    BY <2>2, <2>3, <2>6 DEF Handlers
  <2>7. \A h \in gone' : h <= nOp'
    BY <2>2, <2>5 DEF Handlers
  <2>8. ASSUME NEW q \in Procs, pc'[q] # "idle"
        PROVE  /\ 0 < op'[q].id /\ op'[q].id <= nOp'
               /\ \A r \in Procs : pc'[r] # "idle" /\ op'[r].id = op'[q].id => r = q
    <3>1. \A r \in Procs \ {p} : pc[r] # "idle" => 0 < op[r].id /\ op[r].id <= nOp
      BY DEF Handlers
    <3>2. CASE q = p
      BY <2>2, <2>4, <3>1, <3>2
    <3>3. CASE q # p
      BY <2>2, <2>4, <2>8, <3>1, <3>3 DEF Handlers
    <3> QED  BY <3>2, <3>3
  <2>9. ASSUME NEW q \in Procs, NEW h \in 1..MaxOps, pc'[q] = "lock", op'[q].id = h
        PROVE  h \notin gone' /\ \A w \in Chars, j \in Kinds : ~Installed(h, w, j)'
    <3>1. CASE q = p
      <4>1. ~(h <= nOp)
        BY <2>2, <2>9, <3>1
      <4> QED  BY <2>2, <2>3, <4>1 DEF Handlers
    <3>2. CASE q # p
      BY <2>2, <2>3, <2>4, <2>9, <3>2 DEF Handlers
    <3> QED  BY <3>1, <3>2
  <2> QED  BY <1>1, <2>2, <2>6, <2>7, <2>8, <2>9 DEF Handlers
<1>4. CASE Subscribe(p)
  <2> DEFINE k == op[p].kind
             s == SubOf(op[p].char)
             t == [ccc |-> s.ccc \union {k}, h |-> [s.h EXCEPT ![k] = op[p].id]]
  <2>1. /\ pc[p] = "lock" /\ op[p].name = "sub" /\ nOp' = nOp
        /\ subs' = [subs EXCEPT ![op[p].char] = t]
    BY <1>4 DEF Subscribe, Locks, At
  <2>2. PICK c \in Chars : c = op[p].char
    BY <1>0, <2>1 DEF CalledBy
  <2>3. PICK d \in Kinds : d = op[p].kind
    BY <1>0, <2>1 DEF CalledBy
  <2>4. /\ s.h \in [Kinds -> 0..MaxOps] /\ SubOf(c) = s
        /\ \A h \in 1..MaxOps, j \in Kinds : s.h[j] = h => Installed(h, c, j)
    <3>1. SubOf(c) = s
      BY <2>2
    <3>2. \A h \in 1..MaxOps, j \in Kinds : SubOf(c).h[j] = h => Installed(h, c, j)
      BY DEF SubOf, NoSub, NoHandlers, Installed
    <3>3. SubOf(c).h \in [Kinds -> 0..MaxOps]
      BY SubIs
    <3> HIDE DEF s
    <3> QED  BY <3>1, <3>2, <3>3
  <2>5. t.h = [s.h EXCEPT ![d] = op[p].id]
    BY <2>3
  <2>6. subs'[c] = t /\ \A w \in Chars \ {c} : subs'[w] = subs[w]
    <3> HIDE DEF t
    <3> QED  BY <2>1, <2>2 DEF TypeOK
  <2> HIDE DEF t, s
  <2>7. ASSUME NEW h \in 1..MaxOps, NEW w \in Chars, NEW j \in Kinds, Installed(h, w, j)'
        PROVE  \/ h = op[p].id /\ w = c /\ j = d
               \/ Installed(h, w, j) /\ ~(w = c /\ j = d)
    <3>1. CASE w = c /\ j = d
      BY <2>4, <2>5, <2>6, <2>7, <3>1 DEF Installed
    <3>2. CASE w = c /\ j # d
      <4>1. s.h[j] = h
        BY <2>4, <2>5, <2>6, <2>7, <3>2 DEF Installed
      <4> QED  BY <2>4, <3>2, <4>1
    <3>3. CASE w # c
      BY <2>6, <2>7, <3>3 DEF Installed
    <3> QED  BY <3>1, <3>2, <3>3
  <2>8. \/ gone' = gone /\ pc'[p] = "send" /\ op'[p].id = op[p].id
        \/ gone' = gone \union ({s.h[d]} \ {0}) /\ pc'[p] = "idle"
    <3>1. CASE k \in s.ccc
      BY <1>2, <1>4, <2>3, <3>1 DEF Subscribe, s
    <3>2. CASE k \notin s.ccc
      <4>1. gone' = gone /\ pc' = [pc EXCEPT ![p] = "send"]
            /\ op' = [op EXCEPT ![p] = [op[p] EXCEPT !.prev = s]]
        BY <1>4, <3>2 DEF Subscribe, s
      <4> QED  BY <1>0, <4>1 DEF TypeOK, Operation
    <3> QED  BY <3>1, <3>2
  <2>9. ASSUME NEW h \in gone' \ gone
        PROVE  /\ h \in 1..MaxOps /\ \E v \in Chars, j \in Kinds : Installed(h, v, j)
               /\ \A v \in Chars, j \in Kinds : ~Installed(h, v, j)'
    <3>1. h = s.h[d] /\ h # 0
      BY <2>8
    <3>2. h \in 1..MaxOps
      BY <2>4, <3>1
    <3>3. Installed(h, c, d)
      BY <2>4, <3>1, <3>2
    <3>4. h # op[p].id
      BY <2>1, <3>2, <3>3 DEF Handlers
    <3>5. ASSUME NEW v \in Chars, NEW j \in Kinds, Installed(h, v, j)'  PROVE FALSE
      <4>1. Installed(h, v, j) /\ ~(v = c /\ j = d)
        BY <2>7, <3>2, <3>4, <3>5
      <4> QED  BY <3>2, <3>3, <4>1 DEF Handlers
    <3> QED  BY <3>2, <3>3, <3>5
  <2>10. gone \subseteq gone'
    BY <2>8
  <2>11. pc'[p] = "idle" \/ (pc'[p] # "lock" /\ op'[p].id = op[p].id)
    BY <2>8
  <2>12. \A h \in 1..MaxOps, v \in Chars, j \in Kinds : Installed(h, v, j)' =>
           Installed(h, v, j) \/ (pc[p] = "lock" /\ h = op[p].id /\ v = c /\ j = d)
    BY <2>1, <2>7
  <2> QED  BY <1>0, <1>1, <2>1, <2>9, <2>10, <2>11, <2>12, HandlersKept
<1>5. ASSUME NEW c \in Chars, \A w \in Chars \ {c} : subs'[w] = subs[w], nOp' = nOp,
             subs'[c] # None =>
               \A h \in 1..MaxOps, j \in Kinds : subs'[c].h[j] = h => Installed(h, c, j),
             gone \subseteq gone',
             \A h \in gone' \ gone :
               /\ h \in 1..MaxOps /\ \E j \in Kinds : Installed(h, c, j)
               /\ subs'[c] # None => \A j \in Kinds : subs'[c].h[j] # h,
             pc[p] # "idle", pc'[p] = "idle" \/ (pc'[p] # "lock" /\ op'[p].id = op[p].id)
      PROVE  Handlers'
  <2>1. \A h \in 1..MaxOps, v \in Chars, j \in Kinds : Installed(h, v, j)' => Installed(h, v, j)
    BY <1>5 DEF Installed
  <2>2. ASSUME NEW h \in gone' \ gone
        PROVE  /\ h \in 1..MaxOps /\ \E v \in Chars, j \in Kinds : Installed(h, v, j)
               /\ \A v \in Chars, j \in Kinds : ~Installed(h, v, j)'
    <3>1. h \in 1..MaxOps
      BY <1>5
    <3>2. PICK i \in Kinds : Installed(h, c, i)
      BY <1>5
    <3>3. ASSUME NEW v \in Chars, NEW j \in Kinds, Installed(h, v, j)'  PROVE FALSE
      <4>1. Installed(h, v, j)
        BY <2>1, <3>1, <3>3
      <4>2. v = c
        BY <3>1, <3>2, <4>1 DEF Handlers
      <4> QED  BY <1>5, <3>3, <4>2 DEF Installed
    <3> QED  BY <3>1, <3>2, <3>3
  <2>3. PICK d : d = 0
    OBVIOUS
  <2> QED  BY <1>0, <1>5, <2>1, <2>2, HandlersKept
<1>6. CASE Unsubscribe(p)
  <2> DEFINE s == SubOf(op[p].char)
  <2>1. /\ pc[p] = "lock" /\ op[p].name = "unsub" /\ nOp' = nOp /\ gone' = gone
        /\ subs' = [subs EXCEPT ![op[p].char] = s]
    BY <1>6 DEF Unsubscribe, Locks, At
  <2>2. PICK c \in Chars : c = op[p].char
    BY <1>0, <2>1 DEF CalledBy
  <2>3. subs'[c] = s /\ \A w \in Chars \ {c} : subs'[w] = subs[w]
    <3> HIDE DEF s
    <3> QED  BY <2>1, <2>2 DEF TypeOK
  <2>4. \A h \in 1..MaxOps, j \in Kinds : s.h[j] = h => Installed(h, c, j)
    <3>1. \A h \in 1..MaxOps, j \in Kinds : SubOf(c).h[j] = h => Installed(h, c, j)
      BY DEF SubOf, NoSub, NoHandlers, Installed
    <3> QED  BY <2>2, <3>1
  <2>5. pc'[p] = "idle" \/ (pc'[p] # "lock" /\ op'[p].id = op[p].id)
    <3>1. CASE Return(p)
      BY <1>2, <3>1
    <3>2. CASE ~Return(p)
      <4>1. pc' = [pc EXCEPT ![p] = "send"] /\ op' = [op EXCEPT ![p] = [op[p] EXCEPT !.prev = s]]
        BY <1>6, <3>2 DEF Unsubscribe
      <4> HIDE DEF s
      <4> QED  BY <1>0, <4>1 DEF TypeOK, Operation
    <3> QED  BY <3>1, <3>2
  <2> HIDE DEF s
  <2> QED  BY <1>1, <1>5, <2>1, <2>3, <2>4, <2>5
<1>7. ASSUME NEW rest, ClearNext(p, rest)
      PROVE  pc'[p] = "idle" \/ (pc'[p] # "lock" /\ op'[p].id = op[p].id)
  <2>1. CASE Return(p)
    BY <1>2, <2>1
  <2>2. CASE ~Return(p)
    <3>1. /\ pc' = [pc EXCEPT ![p] = "send"]
          /\ \E v \in rest : op' = [op EXCEPT ![p] = [op[p] EXCEPT !.char = v]]
      BY <1>7, <2>2 DEF ClearNext
    <3> QED  BY <1>0, <3>1 DEF TypeOK, Operation
  <2> QED  BY <2>1, <2>2
<1>8. CASE ClearSubscriptions(p)
  <2>1. /\ pc[p] = "lock" /\ UNCHANGED <<subs, gone, nOp>>
        /\ pc'[p] = "idle" \/ (pc'[p] # "lock" /\ op'[p].id = op[p].id)
    BY <1>7, <1>8 DEF ClearSubscriptions, Locks, At
  <2> QED  BY <1>0, <1>1, <2>1, HandlersSame
<1>9. CASE ClearedOne(p)
  <2>1. /\ pc[p] = "await" /\ op[p].name = "clear" /\ nOp' = nOp
        /\ subs' = [subs EXCEPT ![op[p].char] = None]
        /\ gone' = gone \union ({subs[op[p].char].h[k] : k \in Kinds} \ {0})
        /\ pc'[p] = "idle" \/ (pc'[p] # "lock" /\ op'[p].id = op[p].id)
    BY <1>7, <1>9 DEF ClearedOne, At, Answered
  <2>2. PICK c \in Chars : c = op[p].char
    BY <1>0, <2>1 DEF CalledBy, Busy
  <2>3. subs'[c] = None /\ \A w \in Chars \ {c} : subs'[w] = subs[w]
    BY <2>1, <2>2 DEF TypeOK
  <2>4. subs[c] # None /\ subs[c] \in Subscription
    BY <1>0, <2>1, <2>2 DEF RecordOf, Holds, Busy
  <2>5. ASSUME NEW h \in gone' \ gone
        PROVE  h \in 1..MaxOps /\ \E j \in Kinds : Installed(h, c, j)
    <3>1. PICK j \in Kinds : h = subs[c].h[j] /\ h # 0
      BY <2>1, <2>2
    <3>2. h \in 0..MaxOps
      BY <2>4, <3>1 DEF Subscription
    <3> QED  BY <2>4, <3>1, <3>2 DEF Installed
  <2> QED  BY <1>1, <1>5, <2>1, <2>3, <2>5
<1>10. CASE UnsubscribeDone(p)
  <2> DEFINE t == [ccc |-> wire.ccc, h |-> [subs[op[p].char].h EXCEPT ![op[p].kind] = 0]]
  <2>1. /\ pc[p] = "await" /\ op[p].name = "unsub" /\ nOp' = nOp /\ pc'[p] = "idle"
        /\ subs' = [subs EXCEPT ![op[p].char] = t]
        /\ gone' = gone \union ({op[p].prev.h[op[p].kind]} \ {0})
    BY <1>2, <1>10 DEF UnsubscribeDone, At, Answered
  <2>2. PICK c \in Chars : c = op[p].char
    BY <1>0, <2>1 DEF CalledBy
  <2>3. PICK d \in Kinds : d = op[p].kind
    BY <1>0, <2>1 DEF CalledBy
  <2>4. /\ subs[c] = op[p].prev /\ op[p].prev \in Subscription
    BY <1>0, <2>1, <2>2 DEF RecordOf, CalledBy, Holds, Busy
  <2>5. subs[c] # None /\ subs[c].h \in [Kinds -> 0..MaxOps]
    BY <2>4, NoneAssumption DEF Subscription
  <2>6. t.h = [subs[c].h EXCEPT ![d] = 0]
    BY <2>2, <2>3
  <2> HIDE DEF t
  <2>7. subs'[c] = t /\ \A w \in Chars \ {c} : subs'[w] = subs[w]
    BY <2>1, <2>2 DEF TypeOK
  <2>8. ASSUME NEW h \in 1..MaxOps, NEW j \in Kinds, subs'[c].h[j] = h
        PROVE  Installed(h, c, j) /\ j # d
    BY <2>5, <2>6, <2>7, <2>8 DEF Installed
  <2>9. ASSUME NEW h \in gone' \ gone
        PROVE  h \in 1..MaxOps /\ Installed(h, c, d)
    <3>1. h = subs[c].h[d] /\ h # 0
      BY <2>1, <2>3, <2>4
    <3> QED  BY <2>5, <3>1 DEF Installed
  <2>10. ASSUME NEW h \in gone' \ gone, NEW j \in Kinds  PROVE subs'[c].h[j] # h
    BY <2>8, <2>9 DEF Handlers
  <2>11. gone \subseteq gone'
    BY <2>1
  <2> QED  BY <1>1, <1>5, <2>1, <2>7, <2>8, <2>9, <2>10, <2>11
<1>11. CASE SubscribeFails(p)
  <2>1. /\ Busy(p) /\ op[p].name = "sub" /\ nOp' = nOp /\ pc'[p] = "idle"
        /\ subs' = [subs EXCEPT ![op[p].char] = op[p].prev] /\ gone' = gone \union {op[p].id}
    BY <1>2, <1>11 DEF SubscribeFails, Failed, Busy
  <2>2. PICK c \in Chars : c = op[p].char
    BY <1>0, <2>1 DEF CalledBy
  <2>3. PICK d \in Kinds : d = op[p].kind
    BY <1>0, <2>1 DEF CalledBy
  <2> DEFINE s == op[p].prev
             i == op[p].id
             t == [ccc |-> s.ccc \union {op[p].kind}, h |-> [s.h EXCEPT ![op[p].kind] = i]]
  <2>4. /\ s \in Subscription /\ Paired(s) /\ d \notin s.ccc /\ subs[c] = t
    BY <1>0, <2>1, <2>2, <2>3 DEF RecordOf, CalledBy, Holds
  <2>5. s.h \in [Kinds -> 0..MaxOps] /\ s.ccc \in SUBSET Kinds
    BY <2>4 DEF Subscription
  <2>6. s.h[d] = 0
    BY <2>4 DEF Paired
  <2>7. i \in 1..MaxOps
    BY <2>1, OpIs DEF Handlers, Busy
  <2>8. subs[c] # None /\ subs[c].h = [s.h EXCEPT ![d] = i]
    <3>1. subs[c].h = [s.h EXCEPT ![d] = i]
      BY <2>3, <2>4
    <3>2. s.ccc \union {op[p].kind} \in SUBSET Kinds /\ i \in 0..MaxOps
      BY <2>3, <2>5, <2>7
    <3>3. t \in Subscription
      BY <2>3, <2>4, <3>2, SubscriptionType
    <3> QED  BY <2>4, <3>1, <3>3, NoneAssumption
  <2>9. subs'[c] = s /\ \A w \in Chars \ {c} : subs'[w] = subs[w]
    BY <2>1, <2>2 DEF TypeOK
  <2> HIDE DEF s, i
  <2>10. ASSUME NEW h \in 1..MaxOps, NEW j \in Kinds, subs'[c].h[j] = h
         PROVE  Installed(h, c, j) /\ j # d
    BY <2>5, <2>6, <2>8, <2>9, <2>10 DEF Installed
  <2>11. Installed(i, c, d)
    BY <2>5, <2>8 DEF Installed
  <2>12. \A j \in Kinds : subs'[c].h[j] # i
    BY <2>7, <2>10, <2>11 DEF Handlers
  <2>13. \A h \in gone' \ gone : h = i
    BY <2>1 DEF i
  <2>14. gone \subseteq gone' /\ pc[p] # "idle"
    BY <2>1 DEF Busy
  <2> QED  BY <1>1, <1>5, <2>1, <2>7, <2>9, <2>10, <2>11, <2>12, <2>13, <2>14
<1>12. CASE SubscribeDone(p) \/ RequestDone(p) \/ ErrorReturned(p) \/ NameFails(p)
  <2>1. UNCHANGED <<subs, gone, nOp>> /\ pc'[p] = "idle" /\ pc[p] # "idle"
    BY <1>2, <1>12 DEF SubscribeDone, RequestDone, ErrorReturned, NameFails, At, Answered, Failed
  <2> QED  BY <1>0, <1>1, <2>1, HandlersSame
<1>13. CASE Request(p) \/ Name(p) \/ Send(p)
  <2>1. /\ UNCHANGED <<subs, gone, nOp>> /\ pc[p] # "idle"
        /\ Return(p) \/ (op' = op /\ \E l \in {"send", "await"} : pc' = [pc EXCEPT ![p] = l])
    BY <1>13 DEF Request, Locks, Name, Send, At
  <2>2. pc'[p] = "idle" \/ (pc'[p] # "lock" /\ op'[p].id = op[p].id)
    BY <1>2, <2>1 DEF TypeOK
  <2> QED  BY <1>0, <1>1, <2>1, <2>2, HandlersSame
<1>14. CASE NameAnswered(p)
  <2>1. /\ UNCHANGED <<subs, gone, nOp>> /\ pc[p] # "idle"
        /\ \/ Return(p)
           \/ /\ pc' = [pc EXCEPT ![p] = "send"]
              /\ op' = [op EXCEPT ![p] = [op[p] EXCEPT !.kind = "ntf"]]
    BY <1>14 DEF NameAnswered, At, Answered
  <2>2. pc'[p] = "idle" \/ (pc'[p] # "lock" /\ op'[p].id = op[p].id)
    BY <1>0, <1>2, <2>1 DEF TypeOK, Operation
  <2> QED  BY <1>0, <1>1, <2>1, <2>2, HandlersSame
<1> QED  BY <1>3, <1>4, <1>6, <1>8, <1>9, <1>10, <1>11, <1>12, <1>13, <1>14 DEF Steps, Fails
-----------------------------------------------------------------------------
(* The dispatcher reads only handlers that are installed, so that it       *)
(* cannot read one again that is gone.                                     *)
LEMMA OtherHandlers ==
  ASSUME TypeOK, Handlers, LateOnce, OtherStep \/ UNCHANGED vars
  PROVE  Handlers' /\ LateOnce'
<1>0. UNCHANGED <<subs, pc, op, gone, nOp>>
  BY OtherKeeps
<1>1. Handlers'
  BY <1>0 DEF Handlers, Installed
<1> USE DEF ntf
<1>2. CASE HandleNotification
  <2> DEFINE v == Head(ntfq)[1]
             k == Head(ntfq)[2]
             h == SubOf(v).h[k]
  <2>1. v \in Chars /\ k \in Kinds
    <3> DEFINE E == Chars \X Kinds
    <3>1. Head(ntfq) \in E
      <4>1. ntfq \in Seq(E) /\ ntfq # <<>>
        BY <1>2 DEF HandleNotification, TypeOK
      <4> HIDE DEF E
      <4> QED  BY <4>1
    <3> QED  BY <3>1
  <2>2. /\ late' = late /\ (disp' = None \/ (h # 0 /\ disp' = [h |-> h, st |-> "read"]))
    BY <1>2 DEF HandleNotification
  <2> HIDE DEF v, k
  <2>3. h # 0 => h \in 1..MaxOps /\ Installed(h, v, k)
    <3>1. h \in 0..MaxOps
      BY <2>1, SubIs
    <3> QED  BY <2>1, <3>1 DEF SubOf, NoSub, NoHandlers, Installed
  <2>4. h # 0 => h \notin gone
    BY <2>1, <2>3 DEF Handlers
  <2> HIDE DEF h
  <2>5. LateOnce'
    BY <1>0, <2>2, <2>4 DEF LateOnce
  <2> QED  BY <1>1, <2>5
<1>3. CASE Invoke
  <2>1. /\ disp # None /\ disp.st = "read" /\ disp \in Dispatch /\ disp.h \in 1..MaxOps
        /\ disp' = [disp EXCEPT !.st = "run"]
        /\ late' = IF disp.h \in gone THEN [late EXCEPT ![disp.h] = late[disp.h] + 1] ELSE late
    BY <1>3 DEF Invoke, TypeOK, Dispatch
  <2>2. disp'.st = "run"
    BY <2>1 DEF Dispatch
  <2>3. late[disp.h] = 0 /\ late \in [1..MaxOps -> Nat]
    BY <2>1 DEF LateOnce, TypeOK
  <2>4. ASSUME NEW g \in 1..MaxOps
        PROVE  late'[g] <= 1 /\ (late'[g] # 0 => g \in gone)
    <3>1. late[g] <= 1 /\ (late[g] # 0 => g \in gone)
      BY DEF LateOnce
    <3>2. CASE g = disp.h /\ g \in gone
      BY <2>1, <2>3, <3>2
    <3>3. CASE ~(g = disp.h /\ g \in gone)
      BY <2>1, <2>3, <3>1, <3>3
    <3> QED  BY <3>2, <3>3
  <2> QED  BY <1>0, <1>1, <2>2, <2>4 DEF LateOnce
<1>4. CASE ~HandleNotification /\ ~Invoke
  <2>1. late' = late /\ (disp' = disp \/ disp' = None)
    BY <1>4 DEF OtherStep, PeerAnswers, Drain, BearerDies, PeerNotifies, HandlerReturns, vars
  <2> QED  BY <1>0, <1>1, <2>1 DEF LateOnce
<1> QED  BY <1>2, <1>3, <1>4

(* The inductive invariant holds initially ... *)
LEMMA Initially == Init => IInv
<1> SUFFICES ASSUME Init  PROVE IInv
  OBVIOUS
<1>1. TypeOK
  <2>1. NoOp \in Operation
    BY BoundAssumption DEF NoOp, Operation, Names
  <2>2. ntfq \in Seq(Chars \X Kinds)
    <3> DEFINE E == Chars \X Kinds
    <3> HIDE DEF E
    <3>1. ntfq \in Seq(E)
      BY DEF Init
    <3> QED  BY <3>1 DEF E
  <2>3. nOp \in 0..MaxOps /\ nNtf \in 0..MaxNtf
    BY BoundAssumption DEF Init
  <2> QED  BY <2>1, <2>2, <2>3 DEF Init, TypeOK
<1>2. \A p \in Procs : pc[p] = "idle" /\ op[p].name = "none" /\ ~Busy(p) /\ ~Holds(p)
  BY DEF Init, NoOp, Busy, Holds
<1>3. Called
  BY <1>2 DEF Called, CalledBy
<1>4. LockHeld
  BY <1>2, NoneAssumption DEF Init, LockHeld
<1>5. OnWire
  BY <1>2 DEF Init, OnWire, Awaits
<1>6. Records
  BY <1>2 DEF Init, Records, RecordOf
<1>7. Agreement
  <2>1. \A v \in Chars : Recorded(v) = peer[v]
    BY DEF Init, Recorded, SubOf, NoSub
  <2> QED  BY <2>1 DEF Init, Agreement, Applied, Doubted
<1>8. Handlers
  BY <1>2 DEF Init, Handlers, Installed
<1>9. LateOnce
  BY DEF Init, LateOnce
<1> QED  BY <1>1, <1>3, <1>4, <1>5, <1>6, <1>7, <1>8, <1>9 DEF IInv

(* ... and every step preserves it. *)
LEMMA Inductive == IInv /\ [Next]_vars => IInv'
<1> SUFFICES ASSUME IInv, [Next]_vars  PROVE IInv'
  OBVIOUS
<1>1. /\ TypeOK /\ Called /\ LockHeld /\ OnWire /\ Records /\ Agreement /\ Handlers /\ LateOnce
  BY DEF IInv
<1>2. TypeOK'
  BY <1>1, TypeStep
<1>3. ASSUME NEW p \in Procs, CallStep(p) \/ Steps(p) \/ Fails(p)  PROVE IInv'
  <2>1. Called' /\ LockHeld' /\ OnWire'
    BY <1>1, <1>3, EffectOf, ControlStep
  <2>2. Records' /\ Agreement'
    BY <1>1, <1>3, RecordsStep, AgreementStep
  <2>3. Handlers' /\ gone \subseteq gone' /\ UNCHANGED <<late, disp>>
    BY <1>1, <1>3, HandlersStep
  <2>4. LateOnce'
    BY <1>1, <2>3 DEF LateOnce
  <2> QED  BY <1>2, <2>1, <2>2, <2>3, <2>4 DEF IInv
<1>4. ASSUME OtherStep \/ UNCHANGED vars  PROVE IInv'
  <2>1. Called' /\ LockHeld' /\ OnWire' /\ Agreement' /\ Handlers' /\ LateOnce'
    BY <1>1, <1>4, OtherControl, OtherAgrees, OtherHandlers
  <2>2. Records'
    <3>1. UNCHANGED <<subs, pc, op>>
      BY <1>4, OtherKeeps
    <3> QED  BY <1>1, <3>1 DEF Records, RecordOf, Holds, Busy
  <2> QED  BY <1>2, <2>1, <2>2 DEF IInv
<1> QED  BY <1>3, <1>4, NextCases

(* The inductive invariant of the GATT client. *)
THEOREM Invariant == Spec => []IInv
<1> QED  BY Initially, Inductive, PTL DEF Spec

(* The client's variables keep their types. *)
THEOREM TypeCorrect == Spec => []TypeOK
<1>1. IInv => TypeOK
  BY DEF IInv
<1> QED  BY <1>1, Invariant, PTL

(* The subscriptions the client has recorded are the peer's CCCDs whenever *)
(* no call holds the lock, unless the last write to one was abandoned, and *)
(* a flag the peer has set always has its handler: setHandlers installs    *)
(* one before the write and removes it after, rolling back on failure.     *)
THEOREM ClientAgreesWithPeer == Spec => []LocalMatchesPeer
<1>1. IInv => LocalMatchesPeer
  <2> SUFFICES ASSUME IInv, NEW v \in Chars \ doubt
               PROVE  /\ lock = None => SubOf(v).ccc = peer[v]
                      /\ \A k \in peer[v] : SubOf(v).h[k] # 0
    BY DEF LocalMatchesPeer
  <2>1. /\ TypeOK /\ Called /\ LockHeld /\ OnWire /\ Records /\ Agreement
        /\ peer[v] \in SUBSET Kinds
    BY DEF IInv, TypeOK
  <2>2. ASSUME lock = None  PROVE SubOf(v).ccc = peer[v]
    <3>1. ~Applies(v)
      BY <2>1, <2>2, HolderWrites, NoneAssumption
    <3> QED  BY <2>1, <2>2, <3>1 DEF Agreement, Recorded
  <2>3. peer[v] \subseteq SubOf(v).ccc
    <3>1. ASSUME lock \in Procs, op[lock].name = "sub", op[lock].char = v
          PROVE  SubOf(v).ccc = op[lock].prev.ccc \union {op[lock].kind}
      <4>1. RecordOf(lock) /\ Holds(lock)
        BY <2>1, <3>1 DEF Records, LockHeld
      <4>2. subs[v].ccc = op[lock].prev.ccc \union {op[lock].kind}
        BY <3>1, <4>1 DEF RecordOf
      <4>3. subs[v] # None
        <5>1. op[lock].prev \in Subscription /\ op[lock].kind \in Kinds /\ op[lock].id \in 0..MaxOps
          BY <2>1, <3>1, <4>1, OpIs DEF Called, CalledBy, Holds
        <5>2. op[lock].prev.ccc \union {op[lock].kind} \in SUBSET Kinds
          BY <5>1 DEF Subscription
        <5>3. subs[v] \in Subscription
          BY <3>1, <4>1, <5>1, <5>2, SubscriptionType DEF RecordOf
        <5> QED  BY <5>3, NoneAssumption
      <4> QED  BY <4>2, <4>3 DEF SubOf
    <3>2. CASE ~Applies(v)
      <4>1. peer[v] = Recorded(v)
        BY <2>1, <3>2 DEF Agreement
      <4> QED  BY <2>1, <3>1, <4>1 DEF Recorded, TypeOK
    <3>3. CASE Applies(v)
      <4>1. /\ lock \in Procs /\ op[lock].char = v /\ wire.ccc = Value(lock) /\ pc[lock] = "await"
            /\ op[lock].name \in {"sub", "unsub", "clear"}
        BY <2>1, <3>3, HolderWrites
      <4>2. peer[v] = Value(lock)
        BY <2>1, <3>3, <4>1 DEF Agreement, Applied, Applies
      <4>3. CASE op[lock].name = "sub"
        BY <3>1, <4>1, <4>2, <4>3, ValueIs
      <4>4. CASE op[lock].name = "unsub"
        <5>1. subs[v] = op[lock].prev /\ op[lock].prev \in Subscription
          BY <2>1, <4>1, <4>4 DEF Records, RecordOf, Called, CalledBy, Holds, Busy
        <5>2. SubOf(v) = op[lock].prev
          BY <5>1, NoneAssumption DEF SubOf
        <5> QED  BY <4>1, <4>2, <4>4, <5>2, ValueIs
      <4>5. CASE op[lock].name = "clear"
        BY <4>1, <4>2, <4>5, ValueIs
      <4> QED  BY <4>1, <4>3, <4>4, <4>5
    <3> QED  BY <3>2, <3>3
  <2>4. Paired(SubOf(v))
    BY <2>1, PairedSub
  <2> QED  BY <2>1, <2>2, <2>3, <2>4 DEF Paired
<1> QED  BY <1>1, Invariant, PTL

(* A handler that Subscribe has replaced, or Unsubscribe or                *)
(* ClearSubscriptions removed, is invoked at most once after that call     *)
(* returned: by the dispatcher that had read it before.                    *)
THEOREM RemovedHandlersStop == Spec => []AtMostOnceMore
<1>1. IInv => AtMostOnceMore
  BY DEF IInv, LateOnce, AtMostOnceMore
<1> QED  BY <1>1, Invariant, PTL
-----------------------------------------------------------------------------
(* The MTUs, and the numbers of a long read. *)
LongType ==
  /\ tx \in Nat \ {0} /\ room \in Nat \ {0}
  /\ read \in Nat /\ buf \in Nat /\ size \in Nat

(* A long read has what it has read, never more than there is; its last    *)
(* part was full, or ended the value; and the client's MTU was not more    *)
(* than the server's buffer, or that is on record.                         *)
LongGoesOn ==
  phase = "long" =>
    /\ buf <= size
    /\ read = room - 1 \/ buf = size
    /\ tx <= room \/ over

(* The inductive invariant of a long read. *)
LongIInv == LongType /\ LongGoesOn /\ LongReadWhole

(* What a read request answers with: all there is, or a full part. *)
LEMMA PartIs ==
  ASSUME NEW n \in Nat, NEW m \in Nat \ {0}
  PROVE  /\ handleReadRequest(n, m) \in Nat
         /\ handleReadRequest(n, m) <= n
         /\ handleReadRequest(n, m) = m - 1 \/ handleReadRequest(n, m) = n
  BY DEF handleReadRequest

(* The steps that are not about a long read leave it alone. *)
LEMMA ElsewhereLong ==
  ASSUME LongIInv, UNCHANGED <<tx, room, read, buf, size, over>>,
         phase' # "long" \/ phase' = phase,
         ret' = ret \/ ret'.name # "long" \/ ~ret'.ok
  PROVE  LongIInv'
<1>1. LongType'
  BY DEF LongIInv, LongType
<1>2. LongGoesOn'
  BY DEF LongIInv, LongGoesOn
<1>3. LongReadWhole'
  BY DEF LongIInv, LongReadWhole
<1> QED  BY <1>1, <1>2, <1>3 DEF LongIInv

(* Every step keeps it. *)
LEMMA LongStep == LongIInv /\ [SessionNext]_sessionVars => LongIInv'
<1> SUFFICES ASSUME LongIInv, [SessionNext]_sessionVars  PROVE LongIInv'
  OBVIOUS
<1>1. CASE UNCHANGED sessionVars
  BY <1>1, ElsewhereLong DEF sessionVars, mtus, long
<1>2. ASSUME NEW new, Change(new)  PROVE LongIInv'
  BY <1>2, ElsewhereLong DEF Change, mtus, long
<1>3. CASE Accepted
  BY <1>3, ElsewhereLong DEF Accepted, mtus, long
<1>4. ASSUME NEW m \in MTUs, NEW ok \in BOOLEAN, ExchangeMTU(m, ok)  PROVE LongIInv'
  <2>1. phase # "long" /\ phase' = phase /\ UNCHANGED <<read, buf, size, over, ret>>
    BY <1>4 DEF ExchangeMTU, Unlocked, long
  <2>2. tx' \in Nat \ {0} /\ room' \in Nat \ {0}
    <3>1. m \in Nat \ {0} /\ ServerRx \in Nat \ {0}
      BY MtuAssumption
    <3> QED  BY <1>4, <3>1 DEF ExchangeMTU, MinOf, LongIInv, LongType
  <2> QED  BY <2>1, <2>2 DEF LongIInv, LongType, LongGoesOn, LongReadWhole
<1>5. ASSUME NEW m \in MTUs, handleExchangeMTURequest(m)  PROVE LongIInv'
  <2>1. /\ m \in Nat \ {0} /\ tx' = m /\ over' = (over \/ m > room)
        /\ UNCHANGED <<room, phase, read, buf, size, ret>>
    BY <1>5, MtuAssumption DEF handleExchangeMTURequest
  <2>2. (over => over') /\ (m > room => over')
    BY <2>1
  <2>3. LongType'
    BY <2>1 DEF LongIInv, LongType
  <2>4. LongGoesOn'
    <3>1. tx' <= room' \/ over'
      BY <2>1, <2>2 DEF LongIInv, LongType
    <3> QED  BY <2>1, <3>1 DEF LongIInv, LongGoesOn
  <2>5. LongReadWhole'
    BY <2>1, <2>2 DEF LongIInv, LongReadWhole
  <2> QED  BY <2>3, <2>4, <2>5 DEF LongIInv
<1>6. CASE \/ CachedProfile \/ \E force \in BOOLEAN : DiscoverProfile(force)
           \/ RequestFails \/ HandleWrapped
  BY <1>6, ElsewhereLong
     DEF CachedProfile, DiscoverProfile, RequestFails, HandleWrapped,
         Returns, NoRet, mtus, long
<1>7. CASE \/ DiscoverServices \/ DiscoverCharacteristics
           \/ DiscoverDescriptors
  <2>1. UNCHANGED <<tx, room, read, buf, size, over>>
    BY <1>7, Zenon DEF DiscoverServices, DiscoverCharacteristics,
                DiscoverDescriptors, mtus, long
  <2>2. \A i : ToService(i) =>
          phase' # "long" /\ (ret' = ret \/ ret'.name # "long")
    BY DEF ToService, Returns
  <2>3. \A i : ToChar(i) =>
          phase' # "long" /\ (ret' = ret \/ ret'.name # "long")
    BY <2>2, Zenon DEF ToChar
  <2>4. /\ phase' # "long" \/ phase' = phase
        /\ ret' = ret \/ ret'.name # "long"
    BY <1>7, <2>2, <2>3, Zenon DEF DiscoverServices, DiscoverCharacteristics,
                            DiscoverDescriptors
  <2> QED  BY <2>1, <2>4, ElsewhereLong, Zenon
<1>8. ASSUME NEW n \in Lengths, ReadLong(n)  PROVE LongIInv'
  <2> DEFINE p == handleReadRequest(n, room)
  <2>1. /\ n \in Nat /\ size' = n /\ over' = (tx > room) /\ read' = p /\ buf' = p
        /\ ret'.name # "long" /\ UNCHANGED <<tx, room>>
    BY <1>8, LengthsAssumption DEF ReadLong, NoRet, mtus
  <2>2. p \in Nat /\ p <= n /\ (p = room - 1 \/ p = n)
    BY <2>1, PartIs DEF LongIInv, LongType
  <2>3. LongType' /\ LongReadWhole'
    BY <2>1, <2>2 DEF LongIInv, LongType, LongReadWhole
  <2>4. tx' <= room' \/ over'
    <3>1. tx > room => over'
      BY <2>1
    <3> QED  BY <2>1, <3>1 DEF LongIInv, LongType
  <2> QED  BY <2>1, <2>2, <2>3, <2>4 DEF LongIInv, LongGoesOn
<1>9. CASE ReadBlob
  <2> DEFINE p == handleReadRequest(size - buf, room)
  <2>1. phase = "long" /\ size - buf \in Nat
    BY <1>9 DEF ReadBlob, LongIInv, LongType, LongGoesOn
  <2>2. /\ read' = p /\ buf' = buf + p
        /\ UNCHANGED <<tx, room, phase, size, over, ret>>
    BY <1>9, <2>1 DEF ReadBlob, handleReadBlobRequest, mtus,
                      LongIInv, LongType
  <2>3. p \in Nat /\ p <= size - buf /\ (p = room - 1 \/ p = size - buf)
    BY <2>1, PartIs DEF LongIInv, LongType
  <2>4. LongReadWhole'
    BY <2>2 DEF LongIInv, LongReadWhole
  <2>5. LongType' /\ LongGoesOn'
    BY <2>1, <2>2, <2>3 DEF LongIInv, LongType, LongGoesOn
  <2> QED  BY <2>4, <2>5 DEF LongIInv
<1>10. CASE ReadLongDone
  <2>1. /\ phase = "long" /\ read < tx - 1 /\ phase' = "idle"
        /\ ret' = [name |-> "long", ok |-> TRUE, val |-> <<size, buf>>]
        /\ UNCHANGED <<tx, room, read, buf, size, over>>
    BY <1>10 DEF ReadLongDone, Full, Returns, mtus,
                 long, LongIInv, LongType
  <2>2. buf <= size /\ (buf = size \/ over)
    BY <2>1 DEF LongIInv, LongType, LongGoesOn
  <2> QED  BY <2>1, <2>2 DEF LongIInv, LongType, LongGoesOn, LongReadWhole
<1>11. CASE ReadLongFails
  BY <1>11, ElsewhereLong DEF ReadLongFails, Returns, mtus, long
<1>12. ASSUME NEW p \in Parts, handlePrepareWriteRequest(p)  PROVE LongIInv'
  BY <1>12, ElsewhereLong DEF handlePrepareWriteRequest, NoRet, mtus,
                              long
<1>13. CASE handleExecuteWriteRequest \/ CancelPrepared
  BY <1>13, ElsewhereLong DEF handleExecuteWriteRequest, CancelPrepared,
                              Returns, mtus, long
<1> QED  BY <1>1, <1>2, <1>3, <1>4, <1>5, <1>6, <1>7, <1>8, <1>9, <1>10, <1>11, <1>12, <1>13
         DEF SessionNext, AddService, SetServices, RemoveAllServices

(* A long read returns the whole value, for values of any length and       *)
(* whatever MTUs are exchanged while ReadLongCharacteristic reads, unless  *)
(* TxMTU was more than what the server sends at some point of the read.    *)
THEOREM LongReadsWhole == SessionSpec => []LongReadWhole
<1>1. SessionInit => LongIInv
  BY MtuAssumption DEF SessionInit, NoRet, LongIInv, LongType, LongGoesOn, LongReadWhole
<1>2. LongIInv => LongReadWhole
  BY DEF LongIInv
<1> QED  BY <1>1, <1>2, LongStep, PTL DEF SessionSpec
-----------------------------------------------------------------------------
(* Induction, over sets of naturals. *)

(* A set of naturals has a least element. *)
LEMMA LeastNat ==
  ASSUME NEW T \in SUBSET Nat, T # {}
  PROVE  \E m \in T : \A k \in T : m <= k
<1> DEFINE less == {p \in Nat \X Nat : p[1] < p[2]}
<1>1. IsWellFoundedOn(less, Nat)
  <2>1. less = OpToRel(<, Nat)
    BY DEF OpToRel
  <2> QED  BY <2>1, NatLessThanWellFounded
<1>2. \A k, m \in Nat : <<k, m>> \in less <=> k < m
  OBVIOUS
<1> HIDE DEF less
<1>3. PICK m \in T : \A k \in T : <<k, m>> \notin less
  BY <1>1, WFMin
<1>4. ASSUME NEW k \in T  PROVE m <= k
  <2>1. k \in Nat /\ m \in Nat
    OBVIOUS
  <2>2. ~(k < m)
    BY <1>2, <1>3, <2>1, Zenon
  <2> QED  BY <2>1, <2>2
<1> QED  BY <1>4

(* A set that has 0 and the successor of each of its elements has them all. *)
LEMMA EveryNat ==
  ASSUME NEW T, 0 \in T, \A n \in Nat : n \in T => n + 1 \in T
  PROVE  \A n \in Nat : n \in T
<1> SUFFICES ASSUME NEW n \in Nat, n \notin T  PROVE FALSE
  OBVIOUS
<1> DEFINE U == {k \in Nat : k \notin T}
<1>1. PICK m \in U : \A k \in U : m <= k
  <2>1. U \in SUBSET Nat /\ n \in U
    OBVIOUS
  <2> HIDE DEF U
  <2> QED  BY <2>1, LeastNat
<1>2. m \in Nat /\ m # 0 /\ m - 1 \in Nat
  OBVIOUS
<1>3. m - 1 \notin U
  BY <1>1, <1>2
<1>4. m - 1 + 1 \in T
  BY <1>2, <1>3
<1> QED  BY <1>1, <1>2, <1>4

(* A set of numbers up to n has a largest one, which is Max. *)
LEMMA MaxIs ==
  ASSUME NEW n \in Nat, NEW s \in SUBSET (1..n), s # {}
  PROVE  Max(s) \in s /\ \A i \in s : i <= Max(s)
<1> DEFINE T == {d \in Nat : n - d \in s}
<1>1. PICK i \in s : TRUE
  OBVIOUS
<1>2. n - i \in Nat /\ n - (n - i) = i
  OBVIOUS
<1>3. T \in SUBSET Nat /\ n - i \in T
  BY <1>2
<1>4. PICK d \in T : \A k \in T : d <= k
  <2> HIDE DEF T
  <2> QED  BY <1>3, LeastNat
<1>5. ASSUME NEW j \in s  PROVE n - d >= j
  <2>1. n - j \in Nat /\ n - (n - j) = j
    OBVIOUS
  <2>2. d <= n - j
    BY <1>4, <2>1
  <2> QED  BY <1>4, <2>1, <2>2
<1>6. \E x \in s : \A y \in s : x >= y
  BY <1>4, <1>5
<1>7. Max(s) \in s /\ \A y \in s : Max(s) >= y
  BY <1>6 DEF Max
<1> QED  BY <1>7

(* The largest of 1..n, and of a set that has n or has not. *)
LEMMA MaxOf ==
  ASSUME NEW n \in Nat
  PROVE  /\ Max(1..(n + 1)) = n + 1
         /\ (1..(n + 1)) \ {n + 1} = 1..n
         /\ \A s \in SUBSET (1..(n + 1)) : n + 1 \in s => Max(s) = n + 1
         /\ \A s \in SUBSET (1..(n + 1)) : n + 1 \notin s => s \in SUBSET (1..n)
         /\ \A s \in SUBSET (1..(n + 1)) : s \ {n + 1} \in SUBSET (1..n)
<1>1. ASSUME NEW s \in SUBSET (1..(n + 1)), n + 1 \in s  PROVE Max(s) = n + 1
  <2>1. Max(s) \in s /\ n + 1 <= Max(s)
    <3>1. n + 1 \in Nat /\ s # {}
      BY <1>1
    <3> QED  BY <1>1, <3>1, MaxIs
  <2>2. Max(s) \in 1..(n + 1)
    BY <2>1
  <2> QED  BY <2>1, <2>2
<1>2. 1..(n + 1) \in SUBSET (1..(n + 1)) /\ n + 1 \in 1..(n + 1)
  OBVIOUS
<1>3. Max(1..(n + 1)) = n + 1
  BY <1>1, <1>2
<1>4. (1..(n + 1)) \ {n + 1} = 1..n
  OBVIOUS
<1> QED  BY <1>1, <1>3, <1>4

-----------------------------------------------------------------------------
(* Folds over sequences, each step a function of the result so far. *)

(* r holds the results of the first steps of F, from init. *)
Results(r, F, init, n) ==
  r[0] = init /\ \A k \in Nat : k < n => r[k + 1] = F[k + 1][r[k]]

(* g is what a fold over the subsets of 1..n goes through, as far as its   *)
(* values are in A.                                                        *)
IsFold(g, F, init, A, n) ==
  /\ g[{}] = init
  /\ \A s \in SUBSET (1..n) : s # {} /\ g[s \ {Max(s)}] \in A =>
       g[s] = F[Max(s)][g[s \ {Max(s)}]]

(* The function that a fold over the subsets of 1..n goes through: it      *)
(* exists, with values in A.                                               *)
LEMMA FoldExists ==
  ASSUME NEW A, NEW init \in A, NEW F, NEW N \in Nat, F \in [1..N -> [A -> A]]
  PROVE  \E g \in [SUBSET (1..N) -> A] : IsFold(g, F, init, A, N)
<1> DEFINE Good(g, n) ==
             /\ g \in [SUBSET (1..n) -> A]
             /\ \A s \in SUBSET (1..n) :
                  g[s] = IF s = {} THEN init ELSE F[Max(s)][g[s \ {Max(s)}]]
<1> DEFINE T == {n \in Nat : n <= N => \E g : Good(g, n)}
<1>0. \A n \in Nat : n \in T <=> (n <= N => \E g : Good(g, n))
  <2> HIDE DEF Good
  <2> QED  OBVIOUS
<1> HIDE DEF T
<1>1. 0 \in T
  <2> DEFINE g0 == [s \in SUBSET (1..0) |-> init]
  <2>1. 1..0 = {} /\ SUBSET (1..0) = {{}}
    OBVIOUS
  <2>2. Good(g0, 0)
    BY <2>1
  <2> HIDE DEF Good, g0
  <2> QED  BY <1>0, <2>2
<1>2. ASSUME NEW n \in Nat, n \in T  PROVE n + 1 \in T
  <2> SUFFICES ASSUME n + 1 <= N  PROVE \E h : Good(h, n + 1)
    <3> HIDE DEF Good
    <3> QED  BY <1>0
  <2>1. PICK g : Good(g, n)
    <3> HIDE DEF Good
    <3> QED  BY <1>0, <1>2
  <2> DEFINE h == [s \in SUBSET (1..(n + 1)) |->
                     IF n + 1 \in s THEN F[n + 1][g[s \ {n + 1}]] ELSE g[s]]
  <2>2. /\ F[n + 1] \in [A -> A]
        /\ \A s \in SUBSET (1..(n + 1)) : n + 1 \in s => Max(s) = n + 1
        /\ \A s \in SUBSET (1..(n + 1)) : n + 1 \notin s => s \in SUBSET (1..n)
        /\ \A s \in SUBSET (1..(n + 1)) : s \ {n + 1} \in SUBSET (1..n)
    <3>1. n + 1 \in 1..N
      OBVIOUS
    <3> QED  BY <3>1, MaxOf
  <2>3. h \in [SUBSET (1..(n + 1)) -> A]
    <3>1. ASSUME NEW s \in SUBSET (1..(n + 1))
          PROVE  (IF n + 1 \in s THEN F[n + 1][g[s \ {n + 1}]] ELSE g[s]) \in A
      <4>1. s \ {n + 1} \in SUBSET (1..n) /\ (n + 1 \notin s => s \in SUBSET (1..n))
        BY <2>2
      <4>2. g[s \ {n + 1}] \in A /\ (n + 1 \notin s => g[s] \in A)
        BY <2>1, <4>1
      <4> QED  BY <2>2, <4>2
    <3> QED  BY <3>1
  <2>4. ASSUME NEW s \in SUBSET (1..(n + 1))
        PROVE  h[s] = IF s = {} THEN init ELSE F[Max(s)][h[s \ {Max(s)}]]
    <3>1. CASE n + 1 \in s
      <4>1. Max(s) = n + 1 /\ s \ {n + 1} \in SUBSET (1..n)
        BY <2>2, <3>1
      <4>2. s \ {n + 1} \in SUBSET (1..(n + 1)) /\ n + 1 \notin s \ {n + 1}
        BY <4>1
      <4>3. h[s \ {n + 1}] = g[s \ {n + 1}]
        BY <4>2
      <4>4. h[s] = F[n + 1][g[s \ {n + 1}]]
        BY <3>1
      <4> HIDE DEF h
      <4> QED  BY <3>1, <4>1, <4>3, <4>4
    <3>2. CASE n + 1 \notin s
      <4>1. s \in SUBSET (1..n)
        BY <2>2, <3>2
      <4>2. h[s] = g[s]
        BY <3>2
      <4>3. CASE s = {}
        BY <2>1, <4>1, <4>2, <4>3
      <4>4. CASE s # {}
        <5>1. Max(s) \in s
          BY <4>1, <4>4, MaxIs
        <5> DEFINE u == s \ {Max(s)}
        <5>2. u \in SUBSET (1..(n + 1)) /\ n + 1 \notin u
          BY <3>2
        <5>3. h[u] = g[u]
          BY <5>2
        <5>4. g[s] = F[Max(s)][g[u]]
          BY <2>1, <4>1, <4>4
        <5> HIDE DEF h
        <5> QED  BY <4>2, <4>4, <5>3, <5>4
      <4> QED  BY <4>3, <4>4
    <3> QED  BY <3>1, <3>2
  <2>5. Good(h, n + 1)
    BY <2>3, <2>4
  <2> HIDE DEF h, Good
  <2> QED  BY <2>5
<1>3. \A n \in Nat : n \in T
  BY <1>1, <1>2, EveryNat
<1>4. PICK g : Good(g, N)
  <2> HIDE DEF Good
  <2> QED  BY <1>0, <1>3
<1>5. {} \in SUBSET (1..N)
  OBVIOUS
<1> QED  BY <1>4, <1>5 DEF IsFold

(* Two sequences of results agree as far as their steps do. *)
LEMMA ResultsAgree ==
  ASSUME NEW r, NEW q, NEW F, NEW G, NEW init, NEW n \in Nat,
         Results(r, F, init, n), Results(q, G, init, n),
         \A k \in 1..n : F[k] = G[k]
  PROVE  \A k \in 0..n : r[k] = q[k]
<1> DEFINE T == {k \in Nat : k <= n => r[k] = q[k]}
<1>1. 0 \in T
  BY DEF Results
<1>2. ASSUME NEW k \in Nat, k \in T  PROVE k + 1 \in T
  <2> SUFFICES ASSUME k + 1 <= n  PROVE r[k + 1] = q[k + 1]
    BY <1>2
  <2>1. k < n /\ k + 1 \in 1..n /\ k <= n
    OBVIOUS
  <2>2. r[k] = q[k]
    BY <1>2, <2>1
  <2> QED  BY <2>1, <2>2 DEF Results
<1>3. \A k \in Nat : k \in T
  <2> HIDE DEF T
  <2> QED  BY <1>1, <1>2, EveryNat
<1> QED  BY <1>3

(* v is the last of n results, all in A. *)
Folded(v, F, init, A, n) == \E r \in [0..n -> A] : Results(r, F, init, n) /\ r[n] = v

(* What such a function holds for 1..k is the result of the first k steps. *)
LEMMA FoldSteps ==
  ASSUME NEW A, NEW init \in A, NEW F, NEW n \in Nat, F \in [1..n -> [A -> A]], NEW g,
         IsFold(g, F, init, A, n)
  PROVE  Folded(g[1..n], F, init, A, n)
<1> DEFINE T == {k \in Nat : k <= n => g[1..k] \in A}
<1>1. ASSUME NEW k \in Nat, k + 1 <= n, g[1..k] \in A
      PROVE  g[1..(k + 1)] = F[k + 1][g[1..k]] /\ F[k + 1] \in [A -> A]
  <2>1. Max(1..(k + 1)) = k + 1 /\ (1..(k + 1)) \ {k + 1} = 1..k
    BY MaxOf
  <2>2. 1..(k + 1) \in SUBSET (1..n) /\ 1 \in 1..(k + 1) /\ k + 1 \in 1..n
    BY <1>1
  <2> QED  BY <1>1, <2>1, <2>2 DEF IsFold
<1>2. 1..0 = {}
  OBVIOUS
<1>3. 0 \in T
  BY <1>2 DEF IsFold
<1>4. ASSUME NEW k \in Nat, k \in T  PROVE k + 1 \in T
  <2> SUFFICES ASSUME k + 1 <= n  PROVE g[1..(k + 1)] \in A
    OBVIOUS
  <2>1. g[1..k] \in A
    BY <1>4
  <2> QED  BY <1>1, <2>1
<1>5. \A k \in Nat : k \in T
  <2> HIDE DEF T
  <2> QED  BY <1>3, <1>4, EveryNat
<1>6. \A k \in 0..n : k \in Nat /\ g[1..k] \in A
  BY <1>5
<1> DEFINE r == [k \in 0..n |-> g[1..k]]
<1>7. r \in [0..n -> A] /\ r[n] = g[1..n] /\ r[0] = init
  BY <1>2, <1>6 DEF IsFold
<1>8. ASSUME NEW k \in Nat, k < n  PROVE r[k + 1] = F[k + 1][r[k]]
  <2>1. k \in Nat /\ k + 1 <= n /\ k \in 0..n /\ k + 1 \in 0..n
    BY <1>8
  <2>2. r[k] = g[1..k] /\ r[k + 1] = g[1..(k + 1)] /\ g[1..k] \in A
    BY <1>6, <2>1
  <2> HIDE DEF r
  <2> QED  BY <1>1, <2>1, <2>2
<1> HIDE DEF r
<1> QED  BY <1>7, <1>8 DEF Results, Folded

(* v is what folding the steps G[x] of the elements x of q makes of init. *)
Along(G, q) == [i \in 1..Len(q) |-> G[q[i]]]
FoldsTo(v, G, init, A, q) == Folded(v, Along(G, q), init, A, Len(q))

(* The result is determined, element by element. *)
LEMMA FoldsStepwise ==
  ASSUME NEW A, NEW init \in A, NEW S, NEW G, G \in [S -> [A -> A]], NEW q \in Seq(S)
  PROVE  /\ \A v : FoldsTo(v, G, init, A, q) => v \in A /\ (q = <<>> => v = init)
         /\ \A p \in S : \A v, w :
              FoldsTo(v, G, init, A, q) /\ FoldsTo(w, G, init, A, Append(q, p)) => w = G[p][v]
<1> DEFINE n == Len(q)
<1>0. n \in Nat /\ DOMAIN q = 1..n
  OBVIOUS
<1>1. ASSUME NEW v, FoldsTo(v, G, init, A, q)  PROVE v \in A /\ (q = <<>> => v = init)
  <2>1. PICK r \in [0..n -> A] : Results(r, Along(G, q), init, n) /\ r[n] = v
    BY <1>1 DEF FoldsTo, Folded
  <2>2. n \in 0..n /\ (q = <<>> => n = 0)
    BY <1>0
  <2> QED  BY <2>1, <2>2 DEF Results
<1>2. ASSUME NEW p \in S, NEW v, NEW w, FoldsTo(v, G, init, A, q),
             FoldsTo(w, G, init, A, Append(q, p))
      PROVE  w = G[p][v]
  <2> DEFINE F == Along(G, Append(q, p))
  <2>1. /\ Len(Append(q, p)) = n + 1
        /\ Append(q, p)[n + 1] = p /\ \A i \in 1..n : Append(q, p)[i] = q[i]
    OBVIOUS
  <2>2. PICK r \in [0..n -> A] : Results(r, Along(G, q), init, n) /\ r[n] = v
    BY <1>2 DEF FoldsTo, Folded
  <2>3. PICK t \in [0..(n + 1) -> A] : Results(t, F, init, n + 1) /\ t[n + 1] = w
    BY <1>2, <2>1 DEF FoldsTo, Folded
  <2>4. F[n + 1] = G[p] /\ \A k \in 1..n : Along(G, q)[k] = F[k]
    BY <1>0, <2>1 DEF Along
  <2> HIDE DEF F, n
  <2>5. Results(t, F, init, n) /\ t[n + 1] = F[n + 1][t[n]]
    <3>1. n < n + 1 /\ \A k \in Nat : k < n => k < n + 1
      BY <1>0
    <3> QED  BY <1>0, <2>3, <3>1 DEF Results
  <2>6. r[n] = t[n]
    <3>1. n \in 0..n
      BY <1>0
    <3> QED  BY <1>0, <2>2, <2>4, <2>5, <3>1, ResultsAgree
  <2> QED  BY <2>2, <2>3, <2>4, <2>5, <2>6
<1> QED  BY <1>1, <1>2

-----------------------------------------------------------------------------
(* The folds of AttSession.  Parts, and runs of parts, to attributes of    *)
(* Attrs, and the places that their octets go to.                             *)
Written(Attrs) == [a : Attrs, off : Nat, len : Nat]
Octet(Attrs) == Attrs \X Nat

(* The octets of the parts in a queue. *)
Sum(q) == FoldLeft(LAMBDA n, p : n + p.len, 0, q)

(* Adding the length of a part. *)
SumSteps(Attrs) == [p \in Written(Attrs) |-> [x \in Nat |-> x + p.len]]

(* The fold is the result of these steps. *)
LEMMA SumIs ==
  ASSUME NEW Attrs, NEW q \in Seq(Written(Attrs))
  PROVE  FoldsTo(Sum(q), SumSteps(Attrs), 0, Nat, q)
<1> DEFINE n == Len(q)
           F == Along(SumSteps(Attrs), q)
           Fold(g) == g = [s \in SUBSET (1..n) |->
                             IF s = {} THEN 0
                             ELSE g[s \ {Max(s)}] + q[Max(s)].len]
           f == CHOOSE g : Fold(g)
<1>1. n \in Nat /\ DOMAIN q = 1..n /\ 0 \in Nat /\ \A i \in 1..n : q[i] \in Written(Attrs)
  OBVIOUS
<1>2. F \in [1..n -> [Nat -> Nat]] /\ \A i \in 1..n, x \in Nat : F[i][x] = x + q[i].len
  <2>1. \A p \in Written(Attrs), x \in Nat : x + p.len \in Nat
    BY DEF Written
  <2> QED  BY <1>1, <2>1 DEF Along, SumSteps
<1>3. Sum(q) = f[1..n]
  BY <1>1 DEF Sum, FoldLeft, MapThenFoldSet
<1>4. PICK g \in [SUBSET (1..n) -> Nat] : IsFold(g, F, 0, Nat, n)
  <2> HIDE DEF F, n
  <2> QED  BY <1>1, <1>2, FoldExists
<1>5. Fold(g)
  <2> HIDE DEF F, n
  <2>1. ASSUME NEW s \in SUBSET (1..n), s # {}
        PROVE  g[s] = g[s \ {Max(s)}] + q[Max(s)].len
    <3>1. Max(s) \in 1..n /\ s \ {Max(s)} \in SUBSET (1..n)
      BY <1>1, <2>1, MaxIs
    <3>2. g[s \ {Max(s)}] \in Nat
      BY <3>1
    <3> QED  BY <1>2, <1>4, <2>1, <3>1, <3>2 DEF IsFold
  <2> QED  BY <1>4, <2>1 DEF IsFold
<1>6. Fold(f)
  <2> HIDE DEF Fold
  <2> QED  BY <1>5
<1>7. IsFold(f, F, 0, Nat, n)
  <2> HIDE DEF f, F, n
  <2>1. f[{}] = 0
    BY <1>6
  <2>2. ASSUME NEW s \in SUBSET (1..n), s # {}, f[s \ {Max(s)}] \in Nat
        PROVE  f[s] = F[Max(s)][f[s \ {Max(s)}]]
    <3>1. Max(s) \in 1..n
      BY <1>1, <2>2, MaxIs
    <3>2. f[s] = f[s \ {Max(s)}] + q[Max(s)].len
      BY <1>6, <2>2
    <3> QED  BY <1>2, <2>2, <3>1, <3>2
  <2> QED  BY <2>1, <2>2 DEF IsFold
<1>8. Folded(f[1..n], F, 0, Nat, n)
  <2> HIDE DEF f, F, n
  <2> QED  BY <1>1, <1>2, <1>7, FoldSteps
<1> QED  BY <1>3, <1>8 DEF FoldsTo

(* Where the octets of a part go. *)
Of(w) == [i \in 1..w.len |-> <<w.a, w.off + i>>]

(* They are octets. *)
LEMMA OctetType ==
  ASSUME NEW Attrs, NEW w \in Written(Attrs)
  PROVE  Of(w) \in Seq(Octet(Attrs)) /\ Len(Of(w)) = w.len /\ w.len \in Nat
<1>1. w.len \in Nat /\ w.a \in Attrs /\ w.off \in Nat
  BY DEF Written
<1>2. \A i \in 1..w.len : <<w.a, w.off + i>> \in Octet(Attrs)
  BY <1>1 DEF Octet
<1>3. Of(w) \in [1..w.len -> Octet(Attrs)]
  BY <1>2 DEF Of
<1> QED  BY <1>1, <1>3, SeqDef, LenProperties

(* Adding the octets of a part. *)
OctetSteps(Attrs) == [p \in Written(Attrs) |-> [x \in Seq(Octet(Attrs)) |-> x \o Of(p)]]

(* The fold is the result of these steps. *)
LEMMA OctetsIs ==
  ASSUME NEW Attrs, NEW q \in Seq(Written(Attrs))
  PROVE  FoldsTo(Octets(q), OctetSteps(Attrs), <<>>, Seq(Octet(Attrs)), q)
<1> DEFINE n == Len(q)
           F == Along(OctetSteps(Attrs), q)
           Fold(g) == g = [s \in SUBSET (1..n) |->
                             IF s = {} THEN <<>>
                             ELSE g[s \ {Max(s)}] \o Of(q[Max(s)])]
           f == CHOOSE g : Fold(g)
<1>1. /\ n \in Nat /\ DOMAIN q = 1..n /\ <<>> \in Seq(Octet(Attrs))
      /\ \A i \in 1..n : q[i] \in Written(Attrs)
  OBVIOUS
<1>2. /\ F \in [1..n -> [Seq(Octet(Attrs)) -> Seq(Octet(Attrs))]]
      /\ \A i \in 1..n, x \in Seq(Octet(Attrs)) : F[i][x] = x \o Of(q[i])
  <2>1. \A p \in Written(Attrs), x \in Seq(Octet(Attrs)) : x \o Of(p) \in Seq(Octet(Attrs))
    BY OctetType, ConcatProperties
  <2> QED  BY <1>1, <2>1 DEF Along, OctetSteps
<1>3. Octets(q) = f[1..n]
  BY <1>1 DEF Of, Octets, FoldLeft, MapThenFoldSet
<1>4. PICK g \in [SUBSET (1..n) -> Seq(Octet(Attrs))] : IsFold(g, F, <<>>, Seq(Octet(Attrs)), n)
  <2> HIDE DEF F, n
  <2> QED  BY <1>1, <1>2, FoldExists
<1>5. Fold(g)
  <2> HIDE DEF F, n
  <2>1. ASSUME NEW s \in SUBSET (1..n), s # {}
        PROVE  g[s] = g[s \ {Max(s)}] \o Of(q[Max(s)])
    <3>1. Max(s) \in 1..n /\ s \ {Max(s)} \in SUBSET (1..n)
      BY <1>1, <2>1, MaxIs
    <3>2. g[s \ {Max(s)}] \in Seq(Octet(Attrs))
      BY <3>1
    <3> QED  BY <1>2, <1>4, <2>1, <3>1, <3>2 DEF IsFold
  <2> QED  BY <1>4, <2>1 DEF IsFold
<1>6. Fold(f)
  <2> HIDE DEF Fold
  <2> QED  BY <1>5
<1>7. IsFold(f, F, <<>>, Seq(Octet(Attrs)), n)
  <2> HIDE DEF f, F, n
  <2>1. f[{}] = <<>>
    BY <1>6
  <2>2. ASSUME NEW s \in SUBSET (1..n), s # {}, f[s \ {Max(s)}] \in Seq(Octet(Attrs))
        PROVE  f[s] = F[Max(s)][f[s \ {Max(s)}]]
    <3>1. Max(s) \in 1..n
      BY <1>1, <2>2, MaxIs
    <3>2. f[s] = f[s \ {Max(s)}] \o Of(q[Max(s)])
      BY <1>6, <2>2
    <3> QED  BY <1>2, <2>2, <3>1, <3>2
  <2> QED  BY <2>1, <2>2 DEF IsFold
<1>8. Folded(f[1..n], F, <<>>, Seq(Octet(Attrs)), n)
  <2> HIDE DEF f, F, n
  <2> QED  BY <1>1, <1>2, <1>7, FoldSteps
<1> QED  BY <1>3, <1>8 DEF FoldsTo

(* A run of the parts so far: one more, or the last one longer. *)
LEMMA WithPartType ==
  ASSUME NEW Attrs, NEW x \in Seq(Written(Attrs)), NEW p \in Written(Attrs)
  PROVE  WithPart(x, p) \in Seq(Written(Attrs))
<1>1. CASE x # <<>> /\ Joins(Last(x), p)
  <2>1. Len(x) \in Nat /\ Len(x) # 0 /\ DOMAIN x = 1..Len(x) /\ x \in [1..Len(x) -> Written(Attrs)]
    BY <1>1, EmptySeq, LenProperties
  <2>2. x[Len(x)] \in Written(Attrs) /\ Len(x) \in 1..Len(x)
    BY <2>1
  <2>3. [x[Len(x)] EXCEPT !.len = @ + p.len] \in Written(Attrs)
    BY <2>2 DEF Written
  <2>4. [x EXCEPT ![Len(x)].len = @ + p.len] \in [1..Len(x) -> Written(Attrs)]
    <3> DEFINE w == [x[Len(x)] EXCEPT !.len = @ + p.len]
    <3>1. [x EXCEPT ![Len(x)] = w] \in [1..Len(x) -> Written(Attrs)]
      <4>1. w \in Written(Attrs)
        BY <2>3
      <4> HIDE DEF w
      <4> QED  BY <2>1, <4>1
    <3> QED  BY <3>1
  <2>5. [x EXCEPT ![Len(x)].len = @ + p.len] \in Seq(Written(Attrs))
    BY <2>1, <2>4, SeqDef
  <2> QED  BY <1>1, <2>5 DEF WithPart
<1>2. CASE ~(x # <<>> /\ Joins(Last(x), p))
  BY <1>2 DEF WithPart
<1> QED  BY <1>1, <1>2

(* Adding a part to the runs. *)
RunSteps(Attrs) ==
  [p \in Written(Attrs) |-> [x \in Seq(Written(Attrs)) |-> WithPart(x, p)]]

(* The fold is the result of these steps. *)
LEMMA RunsIs ==
  ASSUME NEW Attrs, NEW q \in Seq(Written(Attrs))
  PROVE  FoldsTo(Runs(q), RunSteps(Attrs), <<>>, Seq(Written(Attrs)), q)
<1> DEFINE n == Len(q)
           F == Along(RunSteps(Attrs), q)
           Fold(g) == g = [s \in SUBSET (1..n) |->
                             IF s = {} THEN <<>>
                             ELSE WithPart(g[s \ {Max(s)}], q[Max(s)])]
           f == CHOOSE g : Fold(g)
<1>1. /\ n \in Nat /\ DOMAIN q = 1..n /\ <<>> \in Seq(Written(Attrs))
      /\ \A i \in 1..n : q[i] \in Written(Attrs)
  OBVIOUS
<1>2. /\ F \in [1..n -> [Seq(Written(Attrs)) -> Seq(Written(Attrs))]]
      /\ \A i \in 1..n, x \in Seq(Written(Attrs)) : F[i][x] = WithPart(x, q[i])
  BY <1>1, WithPartType DEF Along, RunSteps
<1>3. Runs(q) = f[1..n]
  BY <1>1 DEF Runs, FoldLeft, MapThenFoldSet
<1>4. PICK g \in [SUBSET (1..n) -> Seq(Written(Attrs))] : IsFold(g, F, <<>>, Seq(Written(Attrs)), n)
  <2> HIDE DEF F, n
  <2> QED  BY <1>1, <1>2, FoldExists
<1>5. Fold(g)
  <2> HIDE DEF F, n
  <2>1. ASSUME NEW s \in SUBSET (1..n), s # {}
        PROVE  g[s] = WithPart(g[s \ {Max(s)}], q[Max(s)])
    <3>1. Max(s) \in 1..n /\ s \ {Max(s)} \in SUBSET (1..n)
      BY <1>1, <2>1, MaxIs
    <3>2. g[s \ {Max(s)}] \in Seq(Written(Attrs))
      BY <3>1
    <3> QED  BY <1>2, <1>4, <2>1, <3>1, <3>2 DEF IsFold
  <2> QED  BY <1>4, <2>1 DEF IsFold
<1>6. Fold(f)
  <2> HIDE DEF Fold
  <2> QED  BY <1>5
<1>7. IsFold(f, F, <<>>, Seq(Written(Attrs)), n)
  <2> HIDE DEF f, F, n
  <2>1. f[{}] = <<>>
    BY <1>6
  <2>2. ASSUME NEW s \in SUBSET (1..n), s # {}, f[s \ {Max(s)}] \in Seq(Written(Attrs))
        PROVE  f[s] = F[Max(s)][f[s \ {Max(s)}]]
    <3>1. Max(s) \in 1..n
      BY <1>1, <2>2, MaxIs
    <3>2. f[s] = WithPart(f[s \ {Max(s)}], q[Max(s)])
      BY <1>6, <2>2
    <3> QED  BY <1>2, <2>2, <3>1, <3>2
  <2> QED  BY <2>1, <2>2 DEF IsFold
<1>8. Folded(f[1..n], F, <<>>, Seq(Written(Attrs)), n)
  <2> HIDE DEF f, F, n
  <2> QED  BY <1>1, <1>2, <1>7, FoldSteps
<1> QED  BY <1>3, <1>8 DEF FoldsTo

(* What the steps are. *)
LEMMA StepTypes ==
  ASSUME NEW Attrs
  PROVE  /\ SumSteps(Attrs) \in [Written(Attrs) -> [Nat -> Nat]]
         /\ OctetSteps(Attrs) \in [Written(Attrs) -> [Seq(Octet(Attrs)) -> Seq(Octet(Attrs))]]
         /\ RunSteps(Attrs) \in [Written(Attrs) -> [Seq(Written(Attrs)) -> Seq(Written(Attrs))]]
<1>1. SumSteps(Attrs) \in [Written(Attrs) -> [Nat -> Nat]]
  BY DEF SumSteps, Written
<1>2. \A w \in Written(Attrs), x \in Seq(Octet(Attrs)) : x \o Of(w) \in Seq(Octet(Attrs))
  BY OctetType, ConcatProperties
<1>3. OctetSteps(Attrs) \in [Written(Attrs) -> [Seq(Octet(Attrs)) -> Seq(Octet(Attrs))]]
  BY <1>2 DEF OctetSteps
<1>4. RunSteps(Attrs) \in [Written(Attrs) -> [Seq(Written(Attrs)) -> Seq(Written(Attrs))]]
  BY WithPartType DEF RunSteps
<1> QED  BY <1>1, <1>3, <1>4

(* What the folds make of a queue, and of the empty one. *)
LEMMA FoldTypes ==
  ASSUME NEW Attrs, NEW q \in Seq(Written(Attrs))
  PROVE  /\ Sum(q) \in Nat /\ (q = <<>> => Sum(q) = 0)
         /\ Octets(q) \in Seq(Octet(Attrs)) /\ (q = <<>> => Octets(q) = <<>>)
         /\ Runs(q) \in Seq(Written(Attrs)) /\ (q = <<>> => Runs(q) = <<>>)
<1>1. Sum(q) \in Nat /\ (q = <<>> => Sum(q) = 0)
  <2> DEFINE G == SumSteps(Attrs)
             A == Nat
             S == Written(Attrs)
  <2>1. G \in [S -> [A -> A]] /\ 0 \in A /\ q \in Seq(S)
    BY StepTypes
  <2>2. FoldsTo(Sum(q), G, 0, A, q)
    BY SumIs
  <2> HIDE DEF G, A, S
  <2>3. Sum(q) \in A /\ (q = <<>> => Sum(q) = 0)
    BY <2>1, <2>2, FoldsStepwise
  <2> QED  BY <2>3 DEF A
<1>2. Octets(q) \in Seq(Octet(Attrs)) /\ (q = <<>> => Octets(q) = <<>>)
  <2> DEFINE G == OctetSteps(Attrs)
             A == Seq(Octet(Attrs))
             S == Written(Attrs)
  <2>1. G \in [S -> [A -> A]] /\ <<>> \in A /\ q \in Seq(S)
    BY StepTypes
  <2>2. FoldsTo(Octets(q), G, <<>>, A, q)
    BY OctetsIs
  <2> HIDE DEF G, A, S
  <2>3. Octets(q) \in A /\ (q = <<>> => Octets(q) = <<>>)
    BY <2>1, <2>2, FoldsStepwise
  <2> QED  BY <2>3 DEF A
<1>3. Runs(q) \in Seq(Written(Attrs)) /\ (q = <<>> => Runs(q) = <<>>)
  <2> DEFINE G == RunSteps(Attrs)
             A == Seq(Written(Attrs))
             S == Written(Attrs)
  <2>1. G \in [S -> [A -> A]] /\ <<>> \in A /\ q \in Seq(S)
    BY StepTypes
  <2>2. FoldsTo(Runs(q), G, <<>>, A, q)
    BY RunsIs
  <2> HIDE DEF G, A, S
  <2>3. Runs(q) \in A /\ (q = <<>> => Runs(q) = <<>>)
    BY <2>1, <2>2, FoldsStepwise
  <2> QED  BY <2>3 DEF A
<1> QED  BY <1>1, <1>2, <1>3

(* What one more element adds. *)
LEMMA FoldsGrow ==
  ASSUME NEW Attrs, NEW q \in Seq(Written(Attrs)), NEW p \in Written(Attrs)
  PROVE  /\ Sum(Append(q, p)) = Sum(q) + p.len
         /\ Octets(Append(q, p)) = Octets(q) \o Of(p)
         /\ Runs(Append(q, p)) = WithPart(Runs(q), p)
<1>1. Sum(Append(q, p)) = Sum(q) + p.len
  <2> DEFINE G == SumSteps(Attrs)
             A == Nat
             S == Written(Attrs)
  <2>1. /\ G \in [S -> [A -> A]] /\ 0 \in A
        /\ Append(q, p) \in Seq(S) /\ q \in Seq(S) /\ p \in S
    BY StepTypes, AppendProperties
  <2>2. FoldsTo(Sum(q), G, 0, A, q) /\ FoldsTo(Sum(Append(q, p)), G, 0, A, Append(q, p))
    BY <2>1, SumIs
  <2>3. Sum(q) \in A /\ \A x \in A : G[p][x] = x + p.len
    BY FoldTypes DEF SumSteps
  <2> HIDE DEF G, A, S
  <2>4. Sum(Append(q, p)) = G[p][Sum(q)]
    BY <2>1, <2>2, FoldsStepwise
  <2> QED  BY <2>3, <2>4
<1>2. Octets(Append(q, p)) = Octets(q) \o Of(p)
  <2> DEFINE G == OctetSteps(Attrs)
             A == Seq(Octet(Attrs))
             S == Written(Attrs)
  <2>1. /\ G \in [S -> [A -> A]] /\ <<>> \in A
        /\ Append(q, p) \in Seq(S) /\ q \in Seq(S) /\ p \in S
    BY StepTypes, AppendProperties
  <2>2. /\ FoldsTo(Octets(q), G, <<>>, A, q)
        /\ FoldsTo(Octets(Append(q, p)), G, <<>>, A, Append(q, p))
    BY <2>1, OctetsIs
  <2>3. Octets(q) \in A /\ \A x \in A : G[p][x] = x \o Of(p)
    BY FoldTypes DEF OctetSteps
  <2> HIDE DEF G, A, S
  <2>4. Octets(Append(q, p)) = G[p][Octets(q)]
    BY <2>1, <2>2, FoldsStepwise
  <2> QED  BY <2>3, <2>4
<1>3. Runs(Append(q, p)) = WithPart(Runs(q), p)
  <2> DEFINE G == RunSteps(Attrs)
             A == Seq(Written(Attrs))
             S == Written(Attrs)
  <2>1. /\ G \in [S -> [A -> A]] /\ <<>> \in A
        /\ Append(q, p) \in Seq(S) /\ q \in Seq(S) /\ p \in S
    BY StepTypes, AppendProperties
  <2>2. /\ FoldsTo(Runs(q), G, <<>>, A, q)
        /\ FoldsTo(Runs(Append(q, p)), G, <<>>, A, Append(q, p))
    BY <2>1, RunsIs
  <2>3. Runs(q) \in A /\ \A x \in A : G[p][x] = WithPart(x, p)
    BY FoldTypes DEF RunSteps
  <2> HIDE DEF G, A, S
  <2>4. Runs(Append(q, p)) = G[p][Runs(q)]
    BY <2>1, <2>2, FoldsStepwise
  <2> QED  BY <2>3, <2>4
<1> QED  BY <1>1, <1>2, <1>3

(* A set of sequences that has the empty one and every way to append to    *)
(* one of its elements has them all.                                       *)
LEMMA EverySeq ==
  ASSUME NEW S, NEW T, <<>> \in T, \A q \in Seq(S), p \in S : q \in T => Append(q, p) \in T
  PROVE  \A q \in Seq(S) : q \in T
<1> DEFINE U == {n \in Nat : \A q \in Seq(S) : Len(q) = n => q \in T}
<1>1. 0 \in U
  <2>1. \A q \in Seq(S) : Len(q) = 0 => q = <<>>
    BY EmptySeq
  <2> QED  BY <2>1
<1>2. ASSUME NEW n \in Nat, n \in U  PROVE n + 1 \in U
  <2> SUFFICES ASSUME NEW q \in Seq(S), Len(q) = n + 1  PROVE q \in T
    OBVIOUS
  <2> DEFINE f == SubSeq(q, 1, n)
  <2>1. f \in Seq(S) /\ Len(f) = n /\ q[n + 1] \in S /\ \A i \in 1..n : f[i] = q[i]
    OBVIOUS
  <2>2. q = Append(f, q[n + 1])
    <3> HIDE DEF f
    <3>1. Append(f, q[n + 1]) \in Seq(S) /\ Len(Append(f, q[n + 1])) = n + 1
      BY <2>1
    <3>2. \A i \in 1..(n + 1) : q[i] = Append(f, q[n + 1])[i]
      BY <2>1
    <3> QED  BY <3>1, <3>2, SeqEqual
  <2>3. f \in T
    BY <1>2, <2>1
  <2> HIDE DEF f
  <2> QED  BY <2>1, <2>2, <2>3
<1>3. \A n \in Nat : n \in U
  <2> HIDE DEF U
  <2> QED  BY <1>1, <1>2, EveryNat
<1> QED  BY <1>3

(* A prefix is as long at most, and agrees as far as it goes. *)
LEMMA PrefixIs ==
  ASSUME NEW X, NEW s \in Seq(X), NEW t \in Seq(X)
  PROVE  IsPrefix(s, t) <=> Len(s) <= Len(t) /\ \A i \in 1..Len(s) : s[i] = t[i]
<1>1. SubSeq(s, 1, Len(s)) = s
  BY SubSeqFull
<1>2. ASSUME Len(s) <= Len(t)
      PROVE  SubSeq(t, 1, Len(s)) = s <=> \A i \in 1..Len(s) : s[i] = t[i]
  <2>1. /\ SubSeq(t, 1, Len(s)) \in Seq(X) /\ Len(SubSeq(t, 1, Len(s))) = Len(s)
        /\ \A i \in 1..Len(s) : SubSeq(t, 1, Len(s))[i] = t[i]
    BY <1>2
  <2>2. (\A i \in 1..Len(s) : s[i] = t[i]) => SubSeq(t, 1, Len(s)) = s
    BY <2>1, SeqEqual
  <2> QED  BY <2>1, <2>2
<1> QED  BY <1>1, <1>2 DEF IsPrefix

(* The first writes put a prefix of the octets that all do. *)
LEMMA OctetsOfFirst ==
  ASSUME NEW Attrs, NEW q \in Seq(Written(Attrs))
  PROVE  \A k \in 0..Len(q) :
           IsPrefix(Octets(SubSeq(q, 1, k)), Octets(q))
<1> DEFINE S == Written(Attrs)
           X == Octet(Attrs)
           Good(u) == \A k \in 0..Len(u) :
                        IsPrefix(Octets(SubSeq(u, 1, k)), Octets(u))
           T == {u \in Seq(S) : Good(u)}
<1>0. ASSUME NEW u \in Seq(S)
      PROVE  /\ Octets(u) \in Seq(X) /\ (u = <<>> => Octets(u) = <<>>)
             /\ \A p \in S : Octets(Append(u, p)) = Octets(u) \o Of(p)
  BY FoldTypes, FoldsGrow
<1>1. ASSUME NEW u \in Seq(X)  PROVE IsPrefix(u, u)
  BY PrefixIs
<1>2. <<>> \in T
  <2>1. <<>> \in Seq(S) /\ Len(<<>>) = 0
    OBVIOUS
  <2>2. ASSUME NEW k \in 0..Len(<<>>)
        PROVE  IsPrefix(Octets(SubSeq(<<>>, 1, k)), Octets(<<>>))
    <3>1. k = 0 /\ SubSeq(<<>>, 1, 0) = <<>>
      BY <2>1
    <3>2. Octets(<<>>) \in Seq(X)
      BY <1>0, <2>1
    <3> QED  BY <1>1, <3>1, <3>2
  <2> QED  BY <2>1, <2>2
<1>3. ASSUME NEW u \in Seq(S), NEW p \in S, u \in T  PROVE Append(u, p) \in T
  <2> DEFINE v == Append(u, p)
             ou == Octets(u)
             ov == Octets(v)
  <2>1. v \in Seq(S) /\ Len(v) = Len(u) + 1 /\ Len(u) \in Nat
    OBVIOUS
  <2>2. ou \in Seq(X) /\ ov = ou \o Of(p) /\ ov \in Seq(X) /\ Of(p) \in Seq(X)
    BY <1>0, <2>1, OctetType
  <2> SUFFICES ASSUME NEW k \in 0..Len(v)
               PROVE  IsPrefix(Octets(SubSeq(v, 1, k)), ov)
    BY <2>1
  <2>3. CASE k = Len(u) + 1
    <3>1. SubSeq(v, 1, k) = v
      BY <2>1, <2>3, SubSeqFull
    <3> QED  BY <1>1, <2>2, <3>1
  <2>4. CASE k # Len(u) + 1
    <3>1. k \in 0..Len(u)
      BY <2>1, <2>4
    <3>2. SubSeq(v, 1, k) = SubSeq(u, 1, k) /\ SubSeq(u, 1, k) \in Seq(S)
      BY <2>1, <3>1
    <3> DEFINE ok == Octets(SubSeq(u, 1, k))
    <3>3. ok \in Seq(X) /\ IsPrefix(ok, ou)
      BY <1>0, <1>3, <3>1, <3>2
    <3> HIDE DEF ok, ou, ov, v, X, S
    <3>4. Len(ok) <= Len(ou) /\ \A i \in 1..Len(ok) : ok[i] = ou[i]
      BY <2>2, <3>3, PrefixIs
    <3>5. Len(ok) \in Nat /\ Len(ou) \in Nat /\ Len(Of(p)) \in Nat
      BY <2>2, <3>3
    <3>6. Len(ov) = Len(ou) + Len(Of(p)) /\ \A i \in 1..Len(ou) : ov[i] = ou[i]
      BY <2>2, ConcatProperties
    <3>7. Len(ok) <= Len(ov) /\ \A i \in 1..Len(ok) : ok[i] = ov[i]
      BY <3>4, <3>5, <3>6
    <3>8. IsPrefix(ok, ov)
      BY <2>2, <3>3, <3>7, PrefixIs
    <3> QED  BY <3>2, <3>8 DEF ok
  <2> QED  BY <2>3, <2>4
<1>4. \A u \in Seq(S) : u \in T
  <2> HIDE DEF T, S
  <2> QED  BY <1>2, <1>3, EverySeq
<1> QED  BY <1>4

(* No two runs that follow one another could have been joined. *)
Apart(rs) == \A i \in 2..Len(rs) : ~Joins(rs[i - 1], rs[i])

(* The last run made longer by a part that continues it. *)
LEMMA LongerRun ==
  ASSUME NEW Attrs, NEW w \in Written(Attrs), NEW p \in Written(Attrs), Joins(w, p)
  PROVE  /\ [w EXCEPT !.len = @ + p.len] \in Written(Attrs)
         /\ Of([w EXCEPT !.len = @ + p.len]) = Of(w) \o Of(p)
         /\ \A v \in Written(Attrs) :
              Joins(v, [w EXCEPT !.len = @ + p.len]) <=> Joins(v, w)
<1> DEFINE l == [w EXCEPT !.len = @ + p.len]
<1>1. /\ l \in Written(Attrs) /\ l.a = w.a /\ l.off = w.off /\ l.len = w.len + p.len
      /\ p.a = w.a /\ p.off = w.off + w.len
      /\ w.len \in Nat /\ p.len \in Nat /\ w.off \in Nat
  BY DEF Written, Joins
<1> HIDE DEF l
<1>2. /\ Of(l) \in Seq(Octet(Attrs)) /\ Of(w) \in Seq(Octet(Attrs)) /\ Of(p) \in Seq(Octet(Attrs))
      /\ Len(Of(l)) = l.len /\ Len(Of(w)) = w.len /\ Len(Of(p)) = p.len
  BY <1>1, OctetType
<1>3. /\ Of(w) \o Of(p) \in Seq(Octet(Attrs)) /\ Len(Of(w) \o Of(p)) = w.len + p.len
      /\ \A i \in 1..(w.len + p.len) :
           (Of(w) \o Of(p))[i] = IF i <= w.len THEN Of(w)[i] ELSE Of(p)[i - w.len]
  <2> DEFINE wo == Of(w)
             po == Of(p)
  <2>1. wo \in Seq(Octet(Attrs)) /\ po \in Seq(Octet(Attrs)) /\ Len(wo) = w.len /\ Len(po) = p.len
    BY <1>2
  <2> HIDE DEF wo, po
  <2>2. /\ wo \o po \in Seq(Octet(Attrs)) /\ Len(wo \o po) = Len(wo) + Len(po)
        /\ \A i \in 1..(Len(wo) + Len(po)) :
             (wo \o po)[i] = IF i <= Len(wo) THEN wo[i] ELSE po[i - Len(wo)]
    BY <2>1, ConcatProperties
  <2> QED  BY <2>1, <2>2 DEF wo, po
<1>4. ASSUME NEW i \in 1..(w.len + p.len)  PROVE Of(l)[i] = (Of(w) \o Of(p))[i]
  <2>1. Of(l)[i] = <<w.a, w.off + i>>
    BY <1>1 DEF Of
  <2>2. CASE i <= w.len
    <3>1. i \in 1..w.len
      BY <1>1, <2>2
    <3>2. Of(w)[i] = <<w.a, w.off + i>>
      BY <3>1 DEF Of
    <3> QED  BY <1>3, <2>1, <2>2, <3>2
  <2>3. CASE ~(i <= w.len)
    <3>1. i - w.len \in 1..p.len /\ p.off + (i - w.len) = w.off + i
      BY <1>1, <2>3
    <3>2. Of(p)[i - w.len] = <<w.a, w.off + i>>
      BY <1>1, <3>1 DEF Of
    <3> QED  BY <1>3, <2>1, <2>3, <3>2
  <2> QED  BY <2>2, <2>3
<1>5. Of(l) = Of(w) \o Of(p)
  BY <1>1, <1>2, <1>3, <1>4, SeqEqual
<1>6. \A v \in Written(Attrs) : Joins(v, l) <=> Joins(v, w)
  BY <1>1 DEF Joins
<1> QED  BY <1>1, <1>5, <1>6 DEF l

(* One more part: the octets of the runs grow by its own, and no two runs  *)
(* that could be joined come to follow one another.                        *)
LEMMA WithPartMatches ==
  ASSUME NEW Attrs, NEW rs \in Seq(Written(Attrs)), NEW p \in Written(Attrs), Apart(rs)
  PROVE  /\ Octets(WithPart(rs, p)) = Octets(rs) \o Of(p)
         /\ Apart(WithPart(rs, p))
<1> DEFINE S == Written(Attrs)
           n == Len(rs)
<1>0. n \in Nat /\ DOMAIN rs = 1..n /\ \A i \in 1..n : rs[i] \in S
  BY LenProperties
<1>1. CASE rs # <<>> /\ Joins(Last(rs), p)
  <2> DEFINE f == SubSeq(rs, 1, n - 1)
             l == [rs[n] EXCEPT !.len = @ + p.len]
             new == WithPart(rs, p)
  <2>1. n \in Nat \ {0} /\ n - 1 \in Nat /\ n \in 1..n
    BY <1>0, <1>1, EmptySeq
  <2>2. Joins(rs[n], p) /\ rs[n] \in S
    BY <1>0, <1>1, <2>1 DEF Last
  <2>3. /\ l \in S /\ Of(l) = Of(rs[n]) \o Of(p)
        /\ \A v \in S : Joins(v, l) <=> Joins(v, rs[n])
    BY <2>2, LongerRun
  <2>4. new = [rs EXCEPT ![n] = l]
    BY <1>1 DEF WithPart
  <2>5. f \in Seq(S) /\ Len(f) = n - 1 /\ \A i \in 1..(n - 1) : f[i] = rs[i]
    <3> DEFINE m == n - 1
    <3>1. m \in Nat /\ m <= Len(rs)
      BY <1>0, <2>1
    <3> HIDE DEF m
    <3>2. /\ SubSeq(rs, 1, m) \in Seq(S) /\ Len(SubSeq(rs, 1, m)) = m
          /\ \A i \in 1..m : SubSeq(rs, 1, m)[i] = rs[i]
      BY <3>1
    <3> QED  BY <3>2 DEF m
  <2> HIDE DEF l, f, new, S
  <2>6. /\ new \in Seq(S) /\ Len(new) = n /\ new[n] = l
        /\ \A i \in 1..n : i # n => new[i] = rs[i]
    BY <2>1, <2>3, <2>4, ExceptSeq DEF S
  <2>7. rs = Append(f, rs[n])
    <3>1. Append(f, rs[n]) \in Seq(S) /\ Len(Append(f, rs[n])) = n
      BY <2>1, <2>2, <2>5
    <3>2. \A i \in 1..n : rs[i] = Append(f, rs[n])[i]
      BY <2>1, <2>2, <2>5
    <3> QED  BY <3>1, <3>2, SeqEqual DEF S
  <2>8. new = Append(f, l)
    <3>1. Append(f, l) \in Seq(S) /\ Len(Append(f, l)) = n
      BY <2>1, <2>3, <2>5
    <3>2. \A i \in 1..n : new[i] = Append(f, l)[i]
      BY <2>1, <2>3, <2>5, <2>6
    <3> QED  BY <2>6, <3>1, <3>2, SeqEqual
  <2>9. Octets(new) = Octets(rs) \o Of(p)
    <3>1. Octets(rs) = Octets(f) \o Of(rs[n])
      BY <2>2, <2>5, <2>7, FoldsGrow DEF S
    <3>2. Octets(new) = Octets(f) \o (Of(rs[n]) \o Of(p))
      BY <2>3, <2>5, <2>8, FoldsGrow DEF S
    <3>3. Octets(f) \in Seq(Octet(Attrs))
      BY <2>5, FoldTypes DEF S
    <3>4. Of(rs[n]) \in Seq(Octet(Attrs)) /\ Of(p) \in Seq(Octet(Attrs))
      BY <2>2, OctetType DEF S
    <3> DEFINE a == Octets(f)
               b == Of(rs[n])
               c == Of(p)
    <3>5. a \in Seq(Octet(Attrs)) /\ b \in Seq(Octet(Attrs)) /\ c \in Seq(Octet(Attrs))
      BY <3>3, <3>4
    <3> HIDE DEF a, b, c
    <3>6. (a \o b) \o c = a \o (b \o c)
      BY <3>5, ConcatAssociative, SMTT(30)
    <3> QED  BY <3>1, <3>2, <3>6 DEF a, b, c
  <2>10. Apart(new)
    <3> SUFFICES ASSUME NEW i \in 2..n  PROVE ~Joins(new[i - 1], new[i])
      BY <2>6 DEF Apart
    <3>1. ~Joins(rs[i - 1], rs[i]) /\ i \in 1..n /\ i - 1 \in 1..n /\ i - 1 # n
      BY <1>0 DEF Apart
    <3>2. new[i - 1] = rs[i - 1] /\ rs[i - 1] \in S
      BY <1>0, <2>6, <3>1
    <3>3. CASE i = n
      BY <2>3, <2>6, <3>1, <3>2, <3>3
    <3>4. CASE i # n
      BY <2>6, <3>1, <3>2, <3>4
    <3> QED  BY <3>3, <3>4
  <2> QED  BY <2>9, <2>10 DEF new
<1>2. CASE ~(rs # <<>> /\ Joins(Last(rs), p))
  <2>1. WithPart(rs, p) = Append(rs, p)
    BY <1>2 DEF WithPart
  <2>2. Octets(Append(rs, p)) = Octets(rs) \o Of(p)
    BY FoldsGrow
  <2>3. /\ Len(Append(rs, p)) = n + 1 /\ Append(rs, p)[n + 1] = p
        /\ \A i \in 1..n : Append(rs, p)[i] = rs[i]
    BY AppendProperties
  <2>4. Apart(Append(rs, p))
    <3> SUFFICES ASSUME NEW i \in 2..(n + 1)
                 PROVE  ~Joins(Append(rs, p)[i - 1], Append(rs, p)[i])
      BY <2>3 DEF Apart
    <3>1. CASE i = n + 1
      <4>1. n \in 1..n /\ i - 1 = n /\ rs # <<>>
        BY <1>0, <3>1
      <4>2. ~Joins(rs[n], p)
        BY <1>2, <4>1 DEF Last
      <4> QED  BY <2>3, <3>1, <4>1, <4>2
    <3>2. CASE i # n + 1
      <4>1. i \in 2..n /\ i \in 1..n /\ i - 1 \in 1..n
        BY <1>0, <3>2
      <4> QED  BY <2>3, <4>1 DEF Apart
    <3> QED  BY <3>1, <3>2
  <2> QED  BY <2>1, <2>2, <2>4
<1> QED  BY <1>1, <1>2

(* The runs of a queue put the octets that its parts put, in order, and    *)
(* everything that could be joined is.                                     *)
LEMMA RunsMatch ==
  ASSUME NEW Attrs, NEW q \in Seq(Written(Attrs))
  PROVE  /\ Octets(Runs(q)) = Octets(q)
         /\ Apart(Runs(q))
<1> DEFINE S == Written(Attrs)
           Good(u) == /\ Octets(Runs(u)) = Octets(u)
                      /\ Apart(Runs(u))
           T == {u \in Seq(S) : Good(u)}
<1>1. <<>> \in T
  <2>1. <<>> \in Seq(S) /\ Len(<<>>) = 0
    OBVIOUS
  <2>2. Runs(<<>>) = <<>>
    BY <2>1, FoldTypes
  <2>3. Apart(<<>>)
    BY <2>1 DEF Apart
  <2> QED  BY <2>1, <2>2, <2>3
<1>2. ASSUME NEW u \in Seq(S), NEW p \in S, u \in T  PROVE Append(u, p) \in T
  <2>1. Append(u, p) \in Seq(S) /\ Runs(u) \in Seq(S)
    BY FoldTypes
  <2>2. /\ Runs(Append(u, p)) = WithPart(Runs(u), p)
        /\ Octets(Append(u, p)) = Octets(u) \o Of(p)
    BY FoldsGrow
  <2>3. Good(u)
    BY <1>2
  <2>4. /\ Octets(WithPart(Runs(u), p))
             = Octets(Runs(u)) \o Of(p)
        /\ Apart(WithPart(Runs(u), p))
    BY <2>1, <2>3, WithPartMatches
  <2>5. Good(Append(u, p))
    BY <2>2, <2>3, <2>4
  <2> QED  BY <2>1, <2>5
<1>3. \A u \in Seq(S) : u \in T
  <2> HIDE DEF T, S
  <2> QED  BY <1>1, <1>2, EverySeq
<1> QED  BY <1>3

-----------------------------------------------------------------------------
(* Server.prepared holds parts, within its bounds, and preparedBytes says  *)
(* how many octets they have.                                              *)
Queued ==
  /\ prepared \in Seq(Parts) /\ Len(prepared) <= maxPreparedWrites
  /\ Sum(prepared) = preparedBytes /\ preparedBytes <= maxPreparedWriteBytes

(* A step that takes a part, drops the queue, or leaves it alone. *)
Queues ==
  \/ UNCHANGED <<prepared, preparedBytes>>
  \/ \E p \in Parts : /\ prepared' = Append(prepared, p) /\ preparedBytes' = preparedBytes + p.len
                      /\ ~(Len(prepared) >= maxPreparedWrites)
                      /\ ~(preparedBytes + p.len > maxPreparedWriteBytes)
  \/ prepared' = <<>> /\ preparedBytes' = 0

(* Every step is one, and only Execute Write returns a delivery. *)
LEMMA QueueSteps ==
  ASSUME [SessionNext]_sessionVars
  PROVE  /\ Queues
         /\ \/ ret' = ret \/ ret'.name # "execute"
            \/ handleExecuteWriteRequest
<1> DEFINE Other == UNCHANGED <<prepared, preparedBytes>> /\ (ret' = ret \/ ret'.name # "execute")
<1>0. Other => Queues /\ (ret' = ret \/ ret'.name # "execute")
  BY DEF Queues
<1>1. CASE UNCHANGED sessionVars
  BY <1>1 DEF sessionVars, queue, Queues
<1>2. ASSUME NEW new, Change(new)  PROVE Other
  BY <1>2 DEF Change, queue
<1>3. CASE Accepted
  BY <1>3, <1>0 DEF Accepted, queue
<1>4. ASSUME NEW m, NEW ok,
             ExchangeMTU(m, ok) \/ handleExchangeMTURequest(m)
      PROVE  Other
  BY <1>4 DEF ExchangeMTU, handleExchangeMTURequest, queue
<1>5. CASE \/ CachedProfile \/ \E force \in BOOLEAN : DiscoverProfile(force)
           \/ RequestFails \/ HandleWrapped
  <2>1. Other
    BY <1>5 DEF CachedProfile, DiscoverProfile, RequestFails,
                HandleWrapped, Returns, NoRet, queue
  <2> QED  BY <1>0, <2>1
<1>6. CASE \/ DiscoverServices \/ DiscoverCharacteristics
           \/ DiscoverDescriptors
  <2>1. UNCHANGED <<prepared, preparedBytes>>
    BY <1>6, Zenon DEF DiscoverServices, DiscoverCharacteristics,
                DiscoverDescriptors, queue
  <2>2. \A i : ToService(i) => ret' = ret \/ ret'.name # "execute"
    BY DEF ToService, Returns
  <2>3. \A i : ToChar(i) => ret' = ret \/ ret'.name # "execute"
    BY <2>2, Zenon DEF ToChar
  <2>4. ret' = ret \/ ret'.name # "execute"
    BY <1>6, <2>2, <2>3, Zenon DEF DiscoverServices, DiscoverCharacteristics,
                            DiscoverDescriptors
  <2> QED  BY <1>0, <2>1, <2>4, Zenon
<1>7. ASSUME NEW n, ReadLong(n)  PROVE Other
  BY <1>7 DEF ReadLong, NoRet, queue
<1>8. CASE ReadBlob \/ ReadLongDone \/ ReadLongFails
  <2>1. Other
    BY <1>8 DEF ReadBlob, ReadLongDone, ReadLongFails,
                Returns, queue
  <2> QED  BY <1>0, <2>1
<1>9. ASSUME NEW p \in Parts, handlePrepareWriteRequest(p)
      PROVE  Queues /\ ret'.name # "execute"
  BY <1>9 DEF handlePrepareWriteRequest, NoRet, queue, Queues
<1>10. CASE CancelPrepared
  BY <1>10 DEF CancelPrepared, clearPrepared, Returns, Queues
<1>11. CASE handleExecuteWriteRequest
  BY <1>11 DEF handleExecuteWriteRequest, clearPrepared, Queues
<1> HIDE DEF Other
<1> QED  BY <1>0, <1>1, <1>2, <1>3, <1>4, <1>5, <1>6, <1>7, <1>8, <1>9, <1>10, <1>11
         DEF SessionNext, AddService, SetServices, RemoveAllServices

(* The attributes that parts are written to. *)
Targets == {p.a : p \in Parts}

(* The queue stays as it is described. *)
LEMMA QueuedStep == Queued /\ [SessionNext]_sessionVars => Queued'
<1> SUFFICES ASSUME Queued, [SessionNext]_sessionVars  PROVE Queued'
  OBVIOUS
<1>0. Queues
  BY QueueSteps
<1>1. Parts \subseteq Written(Targets) /\ maxPreparedWrites \in Nat /\ maxPreparedWriteBytes \in Nat
  BY PartsAssumption DEF Written, Targets
<1>2. CASE UNCHANGED <<prepared, preparedBytes>>
  BY <1>2 DEF Queued
<1>3. ASSUME NEW p \in Parts, prepared' = Append(prepared, p), preparedBytes' = preparedBytes + p.len,
             ~(Len(prepared) >= maxPreparedWrites),
             ~(preparedBytes + p.len > maxPreparedWriteBytes)
      PROVE  Queued'
  <2>1. prepared \in Seq(Written(Targets)) /\ p \in Written(Targets) /\ p.len \in Nat
    BY <1>1, SeqMonotonic DEF Queued, Written
  <2>2. Sum(prepared) \in Nat /\ Sum(Append(prepared, p)) = Sum(prepared) + p.len
    BY <2>1, FoldTypes, FoldsGrow
  <2>3. Sum(prepared') = preparedBytes' /\ preparedBytes' <= maxPreparedWriteBytes
    BY <1>1, <1>3, <2>1, <2>2 DEF Queued
  <2>4. prepared' \in Seq(Parts) /\ Len(prepared') <= maxPreparedWrites
    BY <1>1, <1>3 DEF Queued
  <2> QED  BY <2>3, <2>4 DEF Queued
<1>4. CASE prepared' = <<>> /\ preparedBytes' = 0
  <2>1. <<>> \in Seq(Written(Targets)) /\ <<>> \in Seq(Parts) /\ Len(<<>>) = 0
    OBVIOUS
  <2>2. Sum(<<>>) = 0
    BY <2>1, FoldTypes
  <2> QED  BY <1>1, <1>4, <2>1, <2>2 DEF Queued
<1> QED  BY <1>0, <1>2, <1>3, <1>4 DEF Queues

(* What Execute Write delivers. *)
LEMMA ExecuteDelivers ==
  ASSUME Queued, handleExecuteWriteRequest
  PROVE  /\ prepared' = <<>>
         /\ IsPrefix(Octets(ret'.val), Octets(prepared))
         /\ ret'.ok => Octets(ret'.val) = Octets(prepared)
         /\ Apart(ret'.val)
<1> DEFINE rs == Runs(prepared)
<1>1. prepared \in Seq(Written(Targets))
  <2>1. Parts \subseteq Written(Targets)
    BY PartsAssumption DEF Written, Targets
  <2> QED  BY <2>1, SeqMonotonic DEF Queued
<1>2. rs \in Seq(Written(Targets)) /\ Len(rs) \in Nat
  BY <1>1, FoldTypes, LenProperties
<1>3. Octets(rs) = Octets(prepared) /\ Apart(rs)
  BY <1>1, RunsMatch
<1>4. PICK k \in 0..Len(rs) : ret' = [name |-> "execute", ok |-> k = Len(rs), val |-> SubSeq(rs, 1, k)]
  BY DEF handleExecuteWriteRequest, Returns
<1> HIDE DEF rs
<1>5. ret'.val = SubSeq(rs, 1, k) /\ (ret'.ok <=> k = Len(rs))
  BY <1>4
<1>6. IsPrefix(Octets(SubSeq(rs, 1, k)), Octets(rs))
  BY <1>2, OctetsOfFirst
<1>7. k = Len(rs) => SubSeq(rs, 1, k) = rs
  BY <1>2, SubSeqFull
<1>8. Apart(SubSeq(rs, 1, k))
  <2>1. Len(SubSeq(rs, 1, k)) = k /\ \A i \in 1..k : SubSeq(rs, 1, k)[i] = rs[i]
    BY <1>2
  <2>2. \A i \in 2..k : i \in 1..k /\ i - 1 \in 1..k /\ i \in 2..Len(rs)
    BY <1>2
  <2> QED  BY <1>3, <2>1, <2>2 DEF Apart
<1>9. prepared' = <<>>
  BY DEF handleExecuteWriteRequest, clearPrepared
<1> QED  BY <1>3, <1>5, <1>6, <1>7, <1>8, <1>9

(* Execute Write delivers the octets of the prepared parts in the order    *)
(* they came, or a prefix of them when a handler refuses; parts that       *)
(* continue one another come as one write; and the queue keeps its bounds, *)
(* its octets counted right: for parts of any length and any bounds.       *)
THEOREM ExecuteDeliversParts == SessionSpec => ExecuteMatchesParts
<1>1. SessionInit => Queued
  <2>1. <<>> \in Seq(Written(Targets)) /\ <<>> \in Seq(Parts) /\ Len(<<>>) = 0
    OBVIOUS
  <2>2. Sum(<<>>) = 0
    BY <2>1, FoldTypes
  <2> QED  BY <2>1, <2>2, PartsAssumption DEF SessionInit, Queued
<1>2. Queued /\ Queued' /\ [SessionNext]_sessionVars =>
        [/\ Len(prepared') <= maxPreparedWrites
         /\ FoldLeft(LAMBDA n, p : n + p.len, 0, prepared') = preparedBytes'
         /\ preparedBytes' <= maxPreparedWriteBytes
         /\ ret'.name = "execute" /\ ret' # ret =>
              /\ prepared' = <<>>
              /\ IsPrefix(Octets(ret'.val), Octets(prepared))
              /\ ret'.ok => Octets(ret'.val) = Octets(prepared)
              /\ \A i \in 2..Len(ret'.val) :
                   LET p == ret'.val[i - 1]
                       q == ret'.val[i]
                   IN ~(q.a = p.a /\ q.off = p.off + p.len)]_sessionVars
  <2> SUFFICES ASSUME Queued, Queued', [SessionNext]_sessionVars
               PROVE  /\ Len(prepared') <= maxPreparedWrites
                      /\ FoldLeft(LAMBDA n, p : n + p.len, 0, prepared') = preparedBytes'
                      /\ preparedBytes' <= maxPreparedWriteBytes
                      /\ ret'.name = "execute" /\ ret' # ret =>
                           /\ prepared' = <<>>
                           /\ IsPrefix(Octets(ret'.val), Octets(prepared))
                           /\ ret'.ok => Octets(ret'.val) = Octets(prepared)
                           /\ Apart(ret'.val)
    BY DEF Apart, Joins
  <2>1. /\ Len(prepared') <= maxPreparedWrites
        /\ Sum(prepared') = preparedBytes' /\ preparedBytes' <= maxPreparedWriteBytes
    BY DEF Queued
  <2>2. ret'.name = "execute" /\ ret' # ret => handleExecuteWriteRequest
    BY QueueSteps
  <2> QED  BY <2>1, <2>2, ExecuteDelivers DEF Sum
<1> QED  BY <1>1, <1>2, QueuedStep, PTL DEF SessionSpec, ExecuteMatchesParts
-----------------------------------------------------------------------------
(* The database.  Its attributes, and what the positions in it are.        *)
AttrTypes == {"svc", "char", "val", "desc", "ccc"}
Attribute == [h : Nat, typ : AttrTypes, tlen : Nat, vlen : Nat, endh : Nat]

(* What a characteristic with its declaration at h looks like at its x-th  *)
(* attribute.                                                              *)
CharAttr(c, h, x) ==
  IF x = 1 THEN Attr(h, "char", 2, 3 + c.len, h + CharSize(c) - 1)
  ELSE IF x = 2 THEN Attr(h + 1, "val", c.len, 0, h + 1)
  ELSE IF x <= 2 + Len(c.descs) THEN Attr(h + x - 1, "desc", c.descs[x - 2], 0, h + x - 1)
  ELSE Attr(h + x - 1, "ccc", 2, 0, h + x - 1)

(* A sequence is its length and its elements. *)
LEMMA SeqIs ==
  ASSUME NEW S, NEW n \in Nat, NEW f, f \in [1..n -> S]
  PROVE  f \in Seq(S) /\ Len(f) = n
<1>1. f \in Seq(S)
  BY SeqDef
<1>2. Len(f) \in Nat /\ 1..Len(f) = 1..n
  BY <1>1, LenProperties
<1>3. Len(f) = n
  <2>1. \A x \in 1..n : x <= Len(f)
    BY <1>2
  <2>2. \A x \in 1..Len(f) : x <= n
    BY <1>2
  <2>3. CASE n < Len(f)
    BY <1>2, <2>2, <2>3
  <2>4. CASE Len(f) < n
    BY <1>2, <2>1, <2>4
  <2> QED  BY <1>2, <2>3, <2>4
<1> QED  BY <1>1, <1>3

(* Attributes. *)
LEMMA AttrIs ==
  ASSUME NEW h \in Nat, NEW typ \in AttrTypes, NEW t \in Nat, NEW v \in Nat, NEW e \in Nat
  PROVE  /\ Attr(h, typ, t, v, e) \in Attribute
         /\ Attr(h, typ, t, v, e).h = h /\ Attr(h, typ, t, v, e).typ = typ
         /\ Attr(h, typ, t, v, e).tlen = t /\ Attr(h, typ, t, v, e).vlen = v
         /\ Attr(h, typ, t, v, e).endh = e
BY DEF Attr, Attribute

(* Joining two sequences. *)
LEMMA JoinIs ==
  ASSUME NEW S, NEW u \in Seq(S), NEW v \in Seq(S)
  PROVE  /\ u \o v \in Seq(S) /\ Len(u \o v) = Len(u) + Len(v)
         /\ \A x \in 1..Len(u) : (u \o v)[x] = u[x]
         /\ \A x \in 1..Len(v) : (u \o v)[Len(u) + x] = v[x]
<1>1. Len(u) \in Nat /\ Len(v) \in Nat
  BY LenProperties
<1>2. /\ u \o v \in Seq(S) /\ Len(u \o v) = Len(u) + Len(v)
      /\ \A x \in 1..(Len(u) + Len(v)) :
           (u \o v)[x] = IF x <= Len(u) THEN u[x] ELSE v[x - Len(u)]
  BY ConcatProperties
<1>3. \A x \in 1..Len(v) : /\ Len(u) + x \in 1..(Len(u) + Len(v))
                           /\ ~(Len(u) + x <= Len(u)) /\ Len(u) + x - Len(u) = x
  BY <1>1
<1>4. \A x \in 1..Len(u) : x \in 1..(Len(u) + Len(v)) /\ x <= Len(u)
  BY <1>1
<1> QED  BY <1>2, <1>3, <1>4

(* genCharAttr, attribute by attribute. *)
LEMMA CharAttrsAre ==
  ASSUME NEW c \in Characteristic, NEW h \in Nat
  PROVE  /\ CharSize(c) \in Nat /\ CharSize(c) >= 2
         /\ genCharAttr(c, h) \in Seq(Attribute) /\ Len(genCharAttr(c, h)) = CharSize(c)
         /\ \A x \in 1..CharSize(c) : genCharAttr(c, h)[x] = CharAttr(c, h, x)
<1> DEFINE n == Len(c.descs)
           m == c.cccs
           two == <<Attr(h, "char", 2, 3 + c.len, h + 1 + n + m), Attr(h + 1, "val", c.len, 0, h + 1)>>
           ds == [i \in 1..n |-> genDescAttr("desc", c.descs[i], h + 1 + i)]
           cs == [i \in 1..m |-> genDescAttr("ccc", 2, h + 1 + n + i)]
<1>1. /\ n \in Nat /\ m \in Nat /\ c.len \in Nat
      /\ \A i \in 1..n : c.descs[i] \in Nat
  BY LenProperties, ElementOfSeq DEF Characteristic, UUIDLen
<1>a. /\ "char" \in AttrTypes /\ "val" \in AttrTypes /\ "desc" \in AttrTypes
      /\ "ccc" \in AttrTypes
  BY DEF AttrTypes
<1>b. /\ h + 1 \in Nat /\ h + 1 + n + m \in Nat /\ 3 + c.len \in Nat /\ 2 \in Nat /\ 0 \in Nat
      /\ \A i \in 1..n : h + 1 + i \in Nat
      /\ \A i \in 1..m : h + 1 + n + i \in Nat
  <2>1. n \in Nat /\ m \in Nat /\ c.len \in Nat
    BY <1>1
  <2> HIDE DEF n, m
  <2> QED  BY <2>1
<1>2. two \in Seq(Attribute) /\ Len(two) = 2
  <2>1. Attr(h, "char", 2, 3 + c.len, h + 1 + n + m) \in Attribute
    BY <1>a, <1>b, AttrIs
  <2>2. Attr(h + 1, "val", c.len, 0, h + 1) \in Attribute
    BY <1>1, <1>a, <1>b, AttrIs
  <2>3. \A a, b \in Attribute : <<a, b>> \in Seq(Attribute) /\ Len(<<a, b>>) = 2
    OBVIOUS
  <2> QED  BY <2>1, <2>2, <2>3, Zenon
<1>3. ds \in Seq(Attribute) /\ Len(ds) = n
  <2>1. \A i \in 1..n : genDescAttr("desc", c.descs[i], h + 1 + i) \in Attribute
    BY <1>1, <1>a, <1>b, AttrIs DEF genDescAttr
  <2>2. ds \in [1..n -> Attribute]
    BY <2>1
  <2> HIDE DEF ds, n
  <2> QED  BY <1>1, <2>2, SeqIs
<1>4. cs \in Seq(Attribute) /\ Len(cs) = m
  <2>1. \A i \in 1..m : genDescAttr("ccc", 2, h + 1 + n + i) \in Attribute
    BY <1>1, <1>a, <1>b, AttrIs DEF genDescAttr
  <2>2. cs \in [1..m -> Attribute]
    BY <2>1
  <2> HIDE DEF cs, m
  <2> QED  BY <1>1, <2>2, SeqIs
<1>5. genCharAttr(c, h) = (two \o ds) \o cs
  BY DEF genCharAttr
<1>6. CharSize(c) = 2 + n + m /\ CharSize(c) \in Nat /\ CharSize(c) >= 2
  BY <1>1 DEF CharSize
<1>7. /\ two \o ds \in Seq(Attribute) /\ Len(two \o ds) = 2 + n
      /\ \A x \in 1..2 : (two \o ds)[x] = two[x]
      /\ \A x \in 1..n : (two \o ds)[2 + x] = ds[x]
  <2> HIDE DEF two, ds, n
  <2> QED  BY <1>2, <1>3, JoinIs
<1>8. /\ genCharAttr(c, h) \in Seq(Attribute) /\ Len(genCharAttr(c, h)) = 2 + n + m
      /\ \A x \in 1..(2 + n) : genCharAttr(c, h)[x] = (two \o ds)[x]
      /\ \A x \in 1..m : genCharAttr(c, h)[2 + n + x] = cs[x]
  <2> HIDE DEF two, ds, cs, n, m
  <2>1. PICK s : s = two \o ds
    OBVIOUS
  <2>2. s \in Seq(Attribute) /\ Len(s) = 2 + n /\ genCharAttr(c, h) = s \o cs
    BY <1>5, <1>7, <2>1
  <2>3. /\ s \o cs \in Seq(Attribute) /\ Len(s \o cs) = Len(s) + Len(cs)
        /\ \A x \in 1..Len(s) : (s \o cs)[x] = s[x]
        /\ \A x \in 1..Len(cs) : (s \o cs)[Len(s) + x] = cs[x]
    <3>1. s \in Seq(Attribute) /\ cs \in Seq(Attribute)
      BY <1>4, <2>2
    <3> QED  BY <3>1, JoinIs
  <2> QED  BY <1>1, <1>4, <2>1, <2>2, <2>3
<1>9. ASSUME NEW x \in 1..CharSize(c)  PROVE genCharAttr(c, h)[x] = CharAttr(c, h, x)
  <2> DEFINE g == genCharAttr(c, h)
             a == CharAttr(c, h, x)
             s == two \o ds
  <2>0. /\ \A y \in 1..(2 + n) : g[y] = s[y]
        /\ \A y \in 1..2 : s[y] = two[y]
        /\ \A y \in 1..n : s[2 + y] = ds[y]
        /\ \A y \in 1..m : g[2 + n + y] = cs[y]
    BY <1>7, <1>8
  <2>d. \A y \in 1..n : ds[y] = Attr(h + 1 + y, "desc", c.descs[y], 0, h + 1 + y)
    BY DEF genDescAttr
  <2>c. \A y \in 1..m : cs[y] = Attr(h + 1 + n + y, "ccc", 2, 0, h + 1 + n + y)
    BY DEF genDescAttr
  <2>t. two[1] = Attr(h, "char", 2, 3 + c.len, h + 1 + n + m) /\ two[2] = Attr(h + 1, "val", c.len, 0, h + 1)
    OBVIOUS
  <2>n. n = Len(c.descs)
    OBVIOUS
  <2> HIDE DEF g, two, ds, cs, s, n, m
  <2>1. CASE x = 1
    <3>1. g[1] = two[1]
      BY <1>1, <2>0
    <3>2. h + 1 + n + m = h + CharSize(c) - 1
      BY <1>1, <1>6
    <3> QED  BY <2>1, <2>t, <3>1, <3>2 DEF CharAttr, g
  <2>2. CASE x = 2
    <3>1. g[2] = two[2]
      BY <1>1, <2>0
    <3> QED  BY <2>2, <2>t, <3>1 DEF CharAttr, g
  <2>3. CASE x > 2 /\ x <= 2 + n
    <3> DEFINE y == x - 2
    <3>1. y \in 1..n /\ 2 + y = x /\ h + 1 + y = h + x - 1 /\ x \in 1..(2 + n)
      BY <1>1, <2>3
    <3> HIDE DEF y
    <3>2. g[x] = Attr(h + x - 1, "desc", c.descs[y], 0, h + x - 1)
      BY <2>0, <2>d, <3>1
    <3>3. a = Attr(h + x - 1, "desc", c.descs[y], 0, h + x - 1)
      BY <2>3, <2>n, <3>1 DEF CharAttr, y
    <3> QED  BY <3>2, <3>3 DEF g
  <2>4. CASE x > 2 + n
    <3> DEFINE y == x - 2 - n
    <3>1. y \in 1..m /\ 2 + n + y = x /\ h + 1 + n + y = h + x - 1 /\ x > 2
      BY <1>1, <1>6, <2>4
    <3> HIDE DEF y
    <3>2. g[x] = Attr(h + x - 1, "ccc", 2, 0, h + x - 1)
      BY <2>0, <2>c, <3>1
    <3>3. a = Attr(h + x - 1, "ccc", 2, 0, h + x - 1)
      BY <1>1, <2>4, <2>n, <3>1 DEF CharAttr
    <3> QED  BY <3>2, <3>3 DEF g
  <2>5. x = 1 \/ x = 2 \/ (x > 2 /\ x <= 2 + n) \/ x > 2 + n
    BY <1>1, <1>6, <1>9
  <2> QED  BY <2>1, <2>2, <2>3, <2>4, <2>5 DEF g
<1> QED  BY <1>6, <1>8, <1>9

-----------------------------------------------------------------------------
(* The folds of AttDatabase. *)

(* Adding a number. *)
TotalSteps == [p \in Nat |-> [x \in Nat |-> x + p]]

(* The fold is the result of these steps: its type, its start, and what    *)
(* one more element adds.                                                  *)
LEMMA TotalIs ==
  ASSUME NEW q \in Seq(Nat)
  PROVE  /\ Total(q) \in Nat /\ (q = <<>> => Total(q) = 0)
         /\ \A p \in Nat : Total(Append(q, p)) = Total(q) + p
<1> DEFINE S == Nat
           A == Nat
           G == TotalSteps
<1>1. \A p \in S, x \in A : x + p \in A
  OBVIOUS
<1>2. G \in [S -> [A -> A]] /\ 0 \in A
  BY <1>1 DEF TotalSteps
<1>g. \A p \in S, x \in A : G[p][x] = x + p
  BY DEF TotalSteps
<1>3. ASSUME NEW u \in Seq(S)  PROVE FoldsTo(Total(u), G, 0, A, u)
  <2> DEFINE n == Len(u)
             F == Along(G, u)
             Fold(g) == g = [s \in SUBSET (1..n) |->
                               IF s = {} THEN 0
                               ELSE g[s \ {Max(s)}] + u[Max(s)]]
             f == CHOOSE g : Fold(g)
  <2>1. n \in Nat /\ DOMAIN u = 1..n /\ \A i \in 1..n : u[i] \in S
    OBVIOUS
  <2>2. F \in [1..n -> [A -> A]] /\ \A i \in 1..n, x \in A : F[i][x] = x + u[i]
    <3> HIDE DEF G, S, A
    <3> QED  BY <1>2, <1>g, <2>1 DEF Along
  <2>3. Total(u) = f[1..n]
    BY <2>1 DEF Total, FoldLeft, MapThenFoldSet
  <2> HIDE DEF G, S, A, F, n
  <2>4. PICK g \in [SUBSET (1..n) -> A] : IsFold(g, F, 0, A, n)
    BY <1>2, <2>1, <2>2, FoldExists
  <2>5. Fold(g)
    <3>1. ASSUME NEW s \in SUBSET (1..n), s # {}
          PROVE  g[s] = g[s \ {Max(s)}] + u[Max(s)]
      <4>1. Max(s) \in 1..n /\ s \ {Max(s)} \in SUBSET (1..n)
        BY <2>1, <3>1, MaxIs
      <4>2. g[s \ {Max(s)}] \in A
        BY <4>1
      <4> QED  BY <2>2, <2>4, <3>1, <4>1, <4>2 DEF IsFold
    <3> QED  BY <2>4, <3>1 DEF IsFold
  <2>6. Fold(f)
    <3> HIDE DEF Fold
    <3> QED  BY <2>5
  <2> HIDE DEF f
  <2>7. IsFold(f, F, 0, A, n)
    <3>1. f[{}] = 0
      BY <2>6
    <3>2. ASSUME NEW s \in SUBSET (1..n), s # {}, f[s \ {Max(s)}] \in A
          PROVE  f[s] = F[Max(s)][f[s \ {Max(s)}]]
      <4>1. Max(s) \in 1..n
        BY <2>1, <3>2, MaxIs
      <4>2. f[s] = f[s \ {Max(s)}] + u[Max(s)]
        BY <2>6, <3>2
      <4> QED  BY <2>2, <3>2, <4>1, <4>2
    <3> QED  BY <3>1, <3>2 DEF IsFold
  <2>8. Folded(f[1..n], F, 0, A, n)
    BY <1>2, <2>1, <2>2, <2>7, FoldSteps
  <2> QED  BY <2>3, <2>8 DEF FoldsTo, n, F
<1> HIDE DEF G, S, A
<1>4. ASSUME NEW u \in Seq(S)  PROVE Total(u) \in A /\ (u = <<>> => Total(u) = 0)
  BY <1>2, <1>3, FoldsStepwise
<1>5. ASSUME NEW p \in S, q \in Seq(S)  PROVE Total(Append(q, p)) = Total(q) + p
  <2>1. Append(q, p) \in Seq(S)
    BY <1>5
  <2>2. FoldsTo(Total(q), G, 0, A, q) /\ FoldsTo(Total(Append(q, p)), G, 0, A, Append(q, p))
    BY <1>3, <1>5, <2>1
  <2>3. Total(Append(q, p)) = G[p][Total(q)]
    BY <1>2, <1>5, <2>2, FoldsStepwise
  <2> QED  BY <1>g, <1>4, <1>5, <2>3
<1> QED  BY <1>4, <1>5 DEF S, A

(* Taking an attribute of this type. *)
TypeSteps(typ) == [p \in Attribute |-> [x \in Seq(Attribute) |-> (IF p.typ = typ THEN Append(x, p) ELSE x)]]

(* The fold is the result of these steps: its type, its start, and what    *)
(* one more element adds.                                                  *)
LEMMA OfTypeFolds ==
  ASSUME NEW typ, NEW q \in Seq(Attribute)
  PROVE  /\ OfType(typ, q) \in Seq(Attribute) /\ (q = <<>> => OfType(typ, q) = <<>>)
         /\ \A p \in Attribute : OfType(typ, Append(q, p)) = (IF p.typ = typ THEN Append(OfType(typ, q), p) ELSE OfType(typ, q))
<1> DEFINE S == Attribute
           A == Seq(Attribute)
           G == TypeSteps(typ)
<1>1. \A p \in S, x \in A : (IF p.typ = typ THEN Append(x, p) ELSE x) \in A
  OBVIOUS
<1>2. G \in [S -> [A -> A]] /\ <<>> \in A
  BY <1>1 DEF TypeSteps
<1>g. \A p \in S, x \in A : G[p][x] = (IF p.typ = typ THEN Append(x, p) ELSE x)
  BY DEF TypeSteps
<1>3. ASSUME NEW u \in Seq(S)  PROVE FoldsTo(OfType(typ, u), G, <<>>, A, u)
  <2> DEFINE n == Len(u)
             F == Along(G, u)
             Fold(g) == g = [s \in SUBSET (1..n) |->
                               IF s = {} THEN <<>>
                               ELSE (IF u[Max(s)].typ = typ THEN Append(g[s \ {Max(s)}], u[Max(s)]) ELSE g[s \ {Max(s)}])]
             f == CHOOSE g : Fold(g)
  <2>1. n \in Nat /\ DOMAIN u = 1..n /\ \A i \in 1..n : u[i] \in S
    OBVIOUS
  <2>2. F \in [1..n -> [A -> A]] /\ \A i \in 1..n, x \in A : F[i][x] = (IF u[i].typ = typ THEN Append(x, u[i]) ELSE x)
    <3> HIDE DEF G, S, A
    <3> QED  BY <1>2, <1>g, <2>1 DEF Along
  <2>3. OfType(typ, u) = f[1..n]
    BY <2>1 DEF OfType, FoldLeft, MapThenFoldSet
  <2> HIDE DEF G, S, A, F, n
  <2>4. PICK g \in [SUBSET (1..n) -> A] : IsFold(g, F, <<>>, A, n)
    BY <1>2, <2>1, <2>2, FoldExists
  <2>5. Fold(g)
    <3>1. ASSUME NEW s \in SUBSET (1..n), s # {}
          PROVE  g[s] = (IF u[Max(s)].typ = typ THEN Append(g[s \ {Max(s)}], u[Max(s)]) ELSE g[s \ {Max(s)}])
      <4>1. Max(s) \in 1..n /\ s \ {Max(s)} \in SUBSET (1..n)
        BY <2>1, <3>1, MaxIs
      <4>2. g[s \ {Max(s)}] \in A
        BY <4>1
      <4> QED  BY <2>2, <2>4, <3>1, <4>1, <4>2 DEF IsFold
    <3> QED  BY <2>4, <3>1 DEF IsFold
  <2>6. Fold(f)
    <3> HIDE DEF Fold
    <3> QED  BY <2>5
  <2> HIDE DEF f
  <2>7. IsFold(f, F, <<>>, A, n)
    <3>1. f[{}] = <<>>
      BY <2>6
    <3>2. ASSUME NEW s \in SUBSET (1..n), s # {}, f[s \ {Max(s)}] \in A
          PROVE  f[s] = F[Max(s)][f[s \ {Max(s)}]]
      <4>1. Max(s) \in 1..n
        BY <2>1, <3>2, MaxIs
      <4>2. f[s] = (IF u[Max(s)].typ = typ THEN Append(f[s \ {Max(s)}], u[Max(s)]) ELSE f[s \ {Max(s)}])
        BY <2>6, <3>2
      <4> QED  BY <2>2, <3>2, <4>1, <4>2
    <3> QED  BY <3>1, <3>2 DEF IsFold
  <2>8. Folded(f[1..n], F, <<>>, A, n)
    BY <1>2, <2>1, <2>2, <2>7, FoldSteps
  <2> QED  BY <2>3, <2>8 DEF FoldsTo, n, F
<1> HIDE DEF G, S, A
<1>4. ASSUME NEW u \in Seq(S)  PROVE OfType(typ, u) \in A /\ (u = <<>> => OfType(typ, u) = <<>>)
  BY <1>2, <1>3, FoldsStepwise
<1>5. ASSUME NEW p \in S, q \in Seq(S)  PROVE OfType(typ, Append(q, p)) = (IF p.typ = typ THEN Append(OfType(typ, q), p) ELSE OfType(typ, q))
  <2>1. Append(q, p) \in Seq(S)
    BY <1>5
  <2>2. FoldsTo(OfType(typ, q), G, <<>>, A, q) /\ FoldsTo(OfType(typ, Append(q, p)), G, <<>>, A, Append(q, p))
    BY <1>3, <1>5, <2>1
  <2>3. OfType(typ, Append(q, p)) = G[p][OfType(typ, q)]
    BY <1>2, <1>5, <2>2, FoldsStepwise
  <2> QED  BY <1>g, <1>4, <1>5, <2>3
<1> QED  BY <1>4, <1>5 DEF S, A

(* Adding a characteristic. *)
BodySteps(h) == [p \in Characteristic |-> [x \in Seq(Attribute) |-> x \o genCharAttr(p, h + Len(x))]]

(* The fold is the result of these steps: its type, its start, and what    *)
(* one more element adds.                                                  *)
LEMMA BodyFolds ==
  ASSUME NEW h \in Nat, NEW q \in Seq(Characteristic)
  PROVE  /\ Body(q, h) \in Seq(Attribute) /\ (q = <<>> => Body(q, h) = <<>>)
         /\ \A p \in Characteristic : Body(Append(q, p), h) = Body(q, h) \o genCharAttr(p, h + Len(Body(q, h)))
<1> DEFINE S == Characteristic
           A == Seq(Attribute)
           G == BodySteps(h)
<1>1. \A p \in S, x \in A : x \o genCharAttr(p, h + Len(x)) \in A
  <2>1. ASSUME NEW p \in S, NEW x \in A  PROVE x \o genCharAttr(p, h + Len(x)) \in A
    <3>1. h + Len(x) \in Nat
      OBVIOUS
    <3>2. genCharAttr(p, h + Len(x)) \in Seq(Attribute)
      BY <3>1, CharAttrsAre
    <3> QED  BY <3>2, JoinIs
  <2> QED  BY <2>1
<1>2. G \in [S -> [A -> A]] /\ <<>> \in A
  BY <1>1 DEF BodySteps
<1>g. \A p \in S, x \in A : G[p][x] = x \o genCharAttr(p, h + Len(x))
  BY DEF BodySteps
<1>3. ASSUME NEW u \in Seq(S)  PROVE FoldsTo(Body(u, h), G, <<>>, A, u)
  <2> DEFINE n == Len(u)
             F == Along(G, u)
             Fold(g) == g = [s \in SUBSET (1..n) |->
                               IF s = {} THEN <<>>
                               ELSE g[s \ {Max(s)}] \o genCharAttr(u[Max(s)], h + Len(g[s \ {Max(s)}]))]
             f == CHOOSE g : Fold(g)
  <2>1. n \in Nat /\ DOMAIN u = 1..n /\ \A i \in 1..n : u[i] \in S
    OBVIOUS
  <2>2. F \in [1..n -> [A -> A]] /\ \A i \in 1..n, x \in A : F[i][x] = x \o genCharAttr(u[i], h + Len(x))
    <3> HIDE DEF G, S, A
    <3> QED  BY <1>2, <1>g, <2>1 DEF Along
  <2>3. Body(u, h) = f[1..n]
    BY <2>1 DEF Body, FoldLeft, MapThenFoldSet
  <2> HIDE DEF G, S, A, F, n
  <2>4. PICK g \in [SUBSET (1..n) -> A] : IsFold(g, F, <<>>, A, n)
    BY <1>2, <2>1, <2>2, FoldExists
  <2>5. Fold(g)
    <3>1. ASSUME NEW s \in SUBSET (1..n), s # {}
          PROVE  g[s] = g[s \ {Max(s)}] \o genCharAttr(u[Max(s)], h + Len(g[s \ {Max(s)}]))
      <4>1. Max(s) \in 1..n /\ s \ {Max(s)} \in SUBSET (1..n)
        BY <2>1, <3>1, MaxIs
      <4>2. g[s \ {Max(s)}] \in A
        BY <4>1
      <4> QED  BY <2>2, <2>4, <3>1, <4>1, <4>2 DEF IsFold
    <3> QED  BY <2>4, <3>1 DEF IsFold
  <2>6. Fold(f)
    <3> HIDE DEF Fold
    <3> QED  BY <2>5
  <2> HIDE DEF f
  <2>7. IsFold(f, F, <<>>, A, n)
    <3>1. f[{}] = <<>>
      BY <2>6
    <3>2. ASSUME NEW s \in SUBSET (1..n), s # {}, f[s \ {Max(s)}] \in A
          PROVE  f[s] = F[Max(s)][f[s \ {Max(s)}]]
      <4>1. Max(s) \in 1..n
        BY <2>1, <3>2, MaxIs
      <4>2. f[s] = f[s \ {Max(s)}] \o genCharAttr(u[Max(s)], h + Len(f[s \ {Max(s)}]))
        BY <2>6, <3>2
      <4> QED  BY <2>2, <3>2, <4>1, <4>2
    <3> QED  BY <3>1, <3>2 DEF IsFold
  <2>8. Folded(f[1..n], F, <<>>, A, n)
    BY <1>2, <2>1, <2>2, <2>7, FoldSteps
  <2> QED  BY <2>3, <2>8 DEF FoldsTo, n, F
<1> HIDE DEF G, S, A
<1>4. ASSUME NEW u \in Seq(S)  PROVE Body(u, h) \in A /\ (u = <<>> => Body(u, h) = <<>>)
  BY <1>2, <1>3, FoldsStepwise
<1>5. ASSUME NEW p \in S, q \in Seq(S)  PROVE Body(Append(q, p), h) = Body(q, h) \o genCharAttr(p, h + Len(Body(q, h)))
  <2>1. Append(q, p) \in Seq(S)
    BY <1>5
  <2>2. FoldsTo(Body(q, h), G, <<>>, A, q) /\ FoldsTo(Body(Append(q, p), h), G, <<>>, A, Append(q, p))
    BY <1>3, <1>5, <2>1
  <2>3. Body(Append(q, p), h) = G[p][Body(q, h)]
    BY <1>2, <1>5, <2>2, FoldsStepwise
  <2> QED  BY <1>g, <1>4, <1>5, <2>3
<1> QED  BY <1>4, <1>5 DEF S, A

-----------------------------------------------------------------------------
(* Where things are.  Sums of the first numbers of a sequence. *)
LEMMA FirstTotals ==
  ASSUME NEW n \in Nat, NEW f \in [1..n -> Nat]
  PROVE  /\ Total([k \in 1..0 |-> f[k]]) = 0
         /\ \A j \in 0..n : Total([k \in 1..j |-> f[k]]) \in Nat
         /\ \A j \in 1..n : Total([k \in 1..j |-> f[k]]) = Total([k \in 1..(j - 1) |-> f[k]]) + f[j]
<1> DEFINE first(j) == [k \in 1..j |-> f[k]]
<1>1. ASSUME NEW j \in 0..n  PROVE first(j) \in Seq(Nat) /\ Len(first(j)) = j
  <2>1. j \in Nat /\ first(j) \in [1..j -> Nat]
    OBVIOUS
  <2> QED  BY <2>1, SeqIs
<1>2. first(0) = <<>>
  <2>1. Len(first(0)) = 0 /\ first(0) \in Seq(Nat)
    BY <1>1
  <2> QED  BY <2>1, EmptySeq
<1>3. ASSUME NEW j \in 1..n  PROVE first(j) = Append(first(j - 1), f[j]) /\ j - 1 \in 0..n /\ f[j] \in Nat
  <2>0. j \in 0..n /\ j - 1 \in 0..n /\ f[j] \in Nat
    OBVIOUS
  <2> DEFINE u == first(j - 1)
             v == first(j)
  <2>1. u \in Seq(Nat) /\ Len(u) = j - 1 /\ v \in Seq(Nat) /\ Len(v) = j
    BY <1>1, <2>0
  <2>2. \A k \in 1..j : v[k] = f[k]
    OBVIOUS
  <2>3. \A k \in 1..(j - 1) : u[k] = f[k]
    OBVIOUS
  <2> HIDE DEF u, v
  <2>4. Append(u, f[j]) \in Seq(Nat) /\ Len(Append(u, f[j])) = j
    BY <2>0, <2>1
  <2>5. \A k \in 1..j : Append(u, f[j])[k] = v[k]
    BY <2>0, <2>1, <2>2, <2>3
  <2>6. v = Append(u, f[j])
    BY <2>1, <2>4, <2>5, SeqEqual
  <2> QED  BY <2>0, <2>6 DEF u, v
<1> HIDE DEF first
<1>4. Total(first(0)) = 0
  BY <1>1, <1>2, TotalIs
<1>5. \A j \in 0..n : Total(first(j)) \in Nat
  BY <1>1, TotalIs
<1>6. ASSUME NEW j \in 1..n  PROVE Total(first(j)) = Total(first(j - 1)) + f[j]
  BY <1>1, <1>3, TotalIs
<1> QED  BY <1>4, <1>5, <1>6 DEF first

(* The attributes before the j-th characteristic of a service. *)
Offset(chars, j) == Total([k \in 1..(j - 1) |-> CharSize(chars[k])])

(* Offsets are natural, and grow by the size of each characteristic.       *)
LEMMA OffsetsAre ==
  ASSUME NEW chars \in Seq(Characteristic)
  PROVE  /\ Len(chars) \in Nat /\ SizeOf(chars) \in Nat /\ SizeOf(chars) = Offset(chars, Len(chars) + 1)
         /\ \A j \in 1..Len(chars) : chars[j] \in Characteristic /\ CharSize(chars[j]) \in Nat /\ CharSize(chars[j]) >= 2
         /\ Offset(chars, 1) = 0
         /\ \A j \in 1..(Len(chars) + 1) : Offset(chars, j) \in Nat
         /\ \A j \in 1..Len(chars) : Offset(chars, j + 1) = Offset(chars, j) + CharSize(chars[j])
<1> DEFINE n == Len(chars)
           f == [k \in 1..n |-> CharSize(chars[k])]
           T(j) == Total([k \in 1..j |-> f[k]])
<1>1. n \in Nat /\ DOMAIN chars = 1..n /\ \A j \in 1..n : chars[j] \in Characteristic
  OBVIOUS
<1>2. \A j \in 1..n : chars[j] \in Characteristic /\ CharSize(chars[j]) \in Nat /\ CharSize(chars[j]) >= 2
  <2>1. \A c \in Characteristic : CharSize(c) \in Nat /\ CharSize(c) >= 2
    <3>1. 0 \in Nat
      OBVIOUS
    <3> QED  BY <3>1, CharAttrsAre
  <2> QED  BY <1>1, <2>1
<1>3. f \in [1..n -> Nat] /\ \A j \in 1..n : f[j] = CharSize(chars[j])
  BY <1>2
<1>4. ASSUME NEW j \in 0..n  PROVE Offset(chars, j + 1) = T(j)
  <2>1. j + 1 - 1 = j /\ \A k \in 1..j : k \in 1..n
    BY <1>1
  <2>2. [k \in 1..(j + 1 - 1) |-> CharSize(chars[k])] = [k \in 1..j |-> f[k]]
    BY <1>3, <2>1
  <2> HIDE DEF f
  <2> QED  BY <2>2 DEF Offset
<1>5. SizeOf(chars) = T(n)
  <2>1. [k \in DOMAIN chars |-> CharSize(chars[k])] = [k \in 1..n |-> f[k]]
    BY <1>1
  <2> QED  BY <2>1 DEF SizeOf
<1> HIDE DEF f
<1>6. /\ T(0) = 0
      /\ \A j \in 0..n : T(j) \in Nat
      /\ \A j \in 1..n : T(j) = T(j - 1) + f[j]
  <2> HIDE DEF n
  <2> QED  BY <1>1, <1>3, FirstTotals
<1> HIDE DEF T, n
<1>7. Offset(chars, 1) = 0
  <2>1. 0 \in 0..n /\ 0 + 1 = 1
    BY <1>1
  <2> QED  BY <1>4, <1>6, <2>1
<1>8. ASSUME NEW j \in 1..(n + 1)  PROVE Offset(chars, j) \in Nat
  <2>1. j - 1 \in 0..n /\ j - 1 + 1 = j
    BY <1>1
  <2> QED  BY <1>4, <1>6, <2>1
<1>9. ASSUME NEW j \in 1..n  PROVE Offset(chars, j + 1) = Offset(chars, j) + CharSize(chars[j])
  <2>1. j \in 0..n /\ j - 1 \in 0..n /\ j - 1 + 1 = j
    BY <1>1
  <2>2. Offset(chars, j + 1) = T(j) /\ Offset(chars, j) = T(j - 1)
    BY <1>4, <2>1
  <2> QED  BY <1>3, <1>6, <2>2
<1>10. SizeOf(chars) = Offset(chars, n + 1) /\ SizeOf(chars) \in Nat
  <2>1. n \in 0..n
    BY <1>1
  <2> QED  BY <1>4, <1>5, <1>6, <2>1
<1> QED  BY <1>1, <1>2, <1>7, <1>8, <1>9, <1>10 DEF n

(* One more characteristic does not move those before it. *)
LEMMA OffsetsKept ==
  ASSUME NEW chars \in Seq(Characteristic), NEW c \in Characteristic, NEW j \in 1..(Len(chars) + 1)
  PROVE  Offset(Append(chars, c), j) = Offset(chars, j)
<1>1. \A k \in 1..(j - 1) : Append(chars, c)[k] = chars[k]
  OBVIOUS
<1>2. [k \in 1..(j - 1) |-> CharSize(Append(chars, c)[k])] = [k \in 1..(j - 1) |-> CharSize(chars[k])]
  BY <1>1
<1> QED  BY <1>2 DEF Offset

(* b holds the attributes of the characteristics, the first of them at     *)
(* handle h, and nothing else.                                             *)
BodyHolds(b, chars, h) ==
  /\ b \in Seq(Attribute) /\ Len(b) = SizeOf(chars)
  /\ \A j \in 1..Len(chars) : \A x \in 1..CharSize(chars[j]) :
       /\ Offset(chars, j) + x \in 1..Len(b)
       /\ b[Offset(chars, j) + x] = CharAttr(chars[j], h + Offset(chars, j), x)
  /\ \A y \in 1..Len(b) :
       \E j \in 1..Len(chars) : \E x \in 1..CharSize(chars[j]) : y = Offset(chars, j) + x

(* Adding a characteristic keeps it so. *)
LEMMA BodyGrows ==
  ASSUME NEW h \in Nat, NEW u \in Seq(Characteristic), NEW c \in Characteristic, NEW b,
         BodyHolds(b, u, h)
  PROVE  BodyHolds(b \o genCharAttr(c, h + Len(b)), Append(u, c), h)
<1>1. PICK n, v, g, w : /\ n = Len(u) /\ v = Append(u, c) /\ g = genCharAttr(c, h + Len(b))
                        /\ w = b \o genCharAttr(c, h + Len(b))
  OBVIOUS
<1>2. /\ n \in Nat /\ v \in Seq(Characteristic) /\ Len(v) = n + 1 /\ v[n + 1] = c
      /\ \A j \in 1..n : v[j] = u[j]
  BY <1>1
<1>3. b \in Seq(Attribute) /\ Len(b) \in Nat /\ Len(b) = SizeOf(u) /\ h + Len(b) \in Nat
  BY DEF BodyHolds
<1>4. /\ CharSize(c) \in Nat /\ CharSize(c) >= 2 /\ g \in Seq(Attribute) /\ Len(g) = CharSize(c)
      /\ \A x \in 1..CharSize(c) : g[x] = CharAttr(c, h + Len(b), x)
  BY <1>1, <1>3, CharAttrsAre
<1>5. /\ \A j \in 1..(n + 1) : Offset(v, j) = Offset(u, j)
      /\ Offset(u, n + 1) = Len(b)
      /\ Len(b) + CharSize(c) = SizeOf(v)
  <2>1. \A j \in 1..(n + 1) : Offset(v, j) = Offset(u, j)
    BY <1>1, OffsetsKept
  <2>2. Offset(u, n + 1) = Len(b)
    BY <1>1, <1>3, OffsetsAre
  <2>3. SizeOf(v) = Offset(v, n + 1 + 1) /\ Offset(v, n + 1 + 1) = Offset(v, n + 1) + CharSize(v[n + 1])
    <3>1. n + 1 \in 1..Len(v)
      BY <1>2
    <3> QED  BY <1>2, <3>1, OffsetsAre
  <2>4. Offset(v, n + 1) = Offset(u, n + 1)
    BY <1>2, <2>1
  <2> QED  BY <1>2, <2>1, <2>2, <2>3, <2>4
<1>6. /\ w \in Seq(Attribute) /\ Len(w) = Len(b) + CharSize(c)
      /\ \A x \in 1..Len(b) : w[x] = b[x]
      /\ \A x \in 1..CharSize(c) : w[Len(b) + x] = g[x]
  <2>1. /\ b \o g \in Seq(Attribute) /\ Len(b \o g) = Len(b) + Len(g)
        /\ \A x \in 1..Len(b) : (b \o g)[x] = b[x]
        /\ \A x \in 1..Len(g) : (b \o g)[Len(b) + x] = g[x]
    <3>1. b \in Seq(Attribute) /\ g \in Seq(Attribute)
      BY <1>3, <1>4
    <3> QED  BY <3>1, JoinIs
  <2> QED  BY <1>1, <1>4, <2>1
<1>7. ASSUME NEW j \in 1..Len(v), NEW x \in 1..CharSize(v[j])
      PROVE  /\ Offset(v, j) + x \in 1..Len(w)
             /\ w[Offset(v, j) + x] = CharAttr(v[j], h + Offset(v, j), x)
  <2>1. CASE j \in 1..n
    <3>1. v[j] = u[j] /\ Offset(v, j) = Offset(u, j)
      BY <1>2, <1>5, <2>1
    <3>2. Offset(u, j) + x \in 1..Len(b) /\ b[Offset(u, j) + x] = CharAttr(u[j], h + Offset(u, j), x)
      BY <1>1, <1>7, <2>1, <3>1 DEF BodyHolds
    <3>3. 1..Len(b) \subseteq 1..Len(w)
      BY <1>3, <1>4, <1>6
    <3> QED  BY <1>6, <3>1, <3>2, <3>3
  <2>2. CASE j = n + 1
    <3>1. v[j] = c /\ Offset(v, j) = Len(b)
      BY <1>2, <1>5, <2>2
    <3>2. x \in 1..CharSize(c) /\ Len(b) + x \in 1..Len(w)
      BY <1>3, <1>4, <1>6, <1>7, <3>1
    <3> QED  BY <1>4, <1>6, <3>1, <3>2
  <2> QED  BY <1>2, <1>7, <2>1, <2>2
<1>8. ASSUME NEW y \in 1..Len(w)
      PROVE  \E j \in 1..Len(v) : \E x \in 1..CharSize(v[j]) : y = Offset(v, j) + x
  <2>1. CASE y \in 1..Len(b)
    <3>1. PICK j \in 1..n : \E x \in 1..CharSize(u[j]) : y = Offset(u, j) + x
      BY <1>1, <2>1 DEF BodyHolds
    <3>2. j \in 1..Len(v) /\ v[j] = u[j] /\ Offset(v, j) = Offset(u, j)
      BY <1>2, <1>5, <3>1
    <3> QED  BY <3>1, <3>2
  <2>2. CASE y > Len(b)
    <3>1. y - Len(b) \in 1..CharSize(c) /\ y = Len(b) + (y - Len(b))
      BY <1>3, <1>4, <1>6, <2>2
    <3>2. n + 1 \in 1..Len(v) /\ v[n + 1] = c /\ Offset(v, n + 1) = Len(b)
      BY <1>2, <1>5
    <3> QED  BY <3>1, <3>2
  <2> QED  BY <1>3, <1>8, <2>1, <2>2
<1>9. BodyHolds(w, v, h)
  BY <1>5, <1>6, <1>7, <1>8 DEF BodyHolds
<1> QED  BY <1>1, <1>9

(* So the characteristics of a service are laid out. *)
LEMMA BodyIs ==
  ASSUME NEW h \in Nat, NEW chars \in Seq(Characteristic)
  PROVE  BodyHolds(Body(chars, h), chars, h)
<1> DEFINE T == {u \in Seq(Characteristic) : BodyHolds(Body(u, h), u, h)}
<1>1. <<>> \in T
  <2>1. <<>> \in Seq(Characteristic) /\ Len(<<>>) = 0 /\ <<>> \in Seq(Attribute)
    OBVIOUS
  <2>2. Body(<<>>, h) = <<>> /\ SizeOf(<<>>) = 0
    <3>0. \A e \in Seq(Characteristic) : SizeOf(e) = Offset(e, Len(e) + 1) /\ Offset(e, 1) = 0
      BY OffsetsAre
    <3>1. SizeOf(<<>>) = Offset(<<>>, 0 + 1) /\ Offset(<<>>, 1) = 0
      BY <2>1, <3>0
    <3>2. \A e \in Seq(Characteristic) : e = <<>> => Body(e, h) = <<>>
      BY BodyFolds
    <3>3. 0 + 1 = 1
      OBVIOUS
    <3> QED  BY <2>1, <3>1, <3>2, <3>3
  <2>3. 1..0 = {}
    OBVIOUS
  <2>4. BodyHolds(<<>>, <<>>, h)
    BY <2>1, <2>2, <2>3 DEF BodyHolds
  <2> QED  BY <2>1, <2>2, <2>4
<1>2. ASSUME NEW u \in Seq(Characteristic), NEW c \in Characteristic, u \in T  PROVE Append(u, c) \in T
  <2>1. Append(u, c) \in Seq(Characteristic) /\ BodyHolds(Body(u, h), u, h)
    BY <1>2
  <2>2. Body(Append(u, c), h) = Body(u, h) \o genCharAttr(c, h + Len(Body(u, h)))
    BY BodyFolds
  <2>3. BodyHolds(Body(Append(u, c), h), Append(u, c), h)
    BY <2>1, <2>2, BodyGrows
  <2> QED  BY <2>1, <2>3
<1>3. \A u \in Seq(Characteristic) : u \in T
  <2> HIDE DEF T
  <2> QED  BY <1>1, <1>2, EverySeq
<1> QED  BY <1>3

(* Where the services start. *)
LEMMA StartsAre ==
  ASSUME NEW u \in Seq(Service)
  PROVE  /\ Len(u) \in Nat
         /\ \A i \in 1..Len(u) : /\ u[i] \in Service /\ u[i].len \in UUIDLen
                                 /\ u[i].chars \in Seq(Characteristic) /\ SizeOf(u[i].chars) \in Nat
         /\ SvcStart(u, 1) = 1
         /\ \A i \in 1..(Len(u) + 1) : SvcStart(u, i) \in Nat /\ SvcStart(u, i) >= 1
         /\ \A i \in 1..Len(u) : SvcStart(u, i + 1) = SvcStart(u, i) + 1 + SizeOf(u[i].chars)
<1> DEFINE n == Len(u)
           f == [k \in 1..n |-> 1 + SizeOf(u[k].chars)]
           T(j) == Total([k \in 1..j |-> f[k]])
<1>1. n \in Nat /\ \A j \in 1..n : u[j] \in Service
  OBVIOUS
<1>2. \A i \in 1..n : /\ u[i] \in Service /\ u[i].len \in UUIDLen
                      /\ u[i].chars \in Seq(Characteristic) /\ SizeOf(u[i].chars) \in Nat
  <2>1. \A c \in Seq(Characteristic) : SizeOf(c) \in Nat
    BY OffsetsAre
  <2>2. \A s \in Service : s.len \in UUIDLen /\ s.chars \in Seq(Characteristic)
    BY DEF Service
  <2> QED  BY <1>1, <2>1, <2>2
<1>3. f \in [1..n -> Nat] /\ \A j \in 1..n : f[j] = 1 + SizeOf(u[j].chars)
  <2>1. \A j \in 1..n : 1 + SizeOf(u[j].chars) \in Nat
    BY <1>2
  <2> QED  BY <2>1
<1>4. ASSUME NEW j \in 0..n  PROVE SvcStart(u, j + 1) = 1 + T(j)
  <2>1. j + 1 - 1 = j /\ \A k \in 1..j : k \in 1..n
    BY <1>1
  <2>2. [k \in 1..(j + 1 - 1) |-> 1 + SizeOf(u[k].chars)] = [k \in 1..j |-> f[k]]
    BY <1>3, <2>1
  <2> HIDE DEF f
  <2> QED  BY <2>2 DEF SvcStart
<1> HIDE DEF f
<1>5. /\ T(0) = 0
      /\ \A j \in 0..n : T(j) \in Nat
      /\ \A j \in 1..n : T(j) = T(j - 1) + f[j]
  <2> HIDE DEF n
  <2> QED  BY <1>1, <1>3, FirstTotals
<1> HIDE DEF T, n
<1>6. SvcStart(u, 1) = 1
  <2>1. 0 \in 0..n /\ 0 + 1 = 1
    BY <1>1
  <2> QED  BY <1>4, <1>5, <2>1
<1>7. ASSUME NEW i \in 1..(n + 1)  PROVE SvcStart(u, i) \in Nat /\ SvcStart(u, i) >= 1
  <2>1. i - 1 \in 0..n /\ i - 1 + 1 = i
    BY <1>1
  <2>2. SvcStart(u, i) = 1 + T(i - 1) /\ T(i - 1) \in Nat
    BY <1>4, <1>5, <2>1
  <2> QED  BY <2>2
<1>8. ASSUME NEW i \in 1..n  PROVE SvcStart(u, i + 1) = SvcStart(u, i) + 1 + SizeOf(u[i].chars)
  <2>1. i \in 0..n /\ i - 1 \in 0..n /\ i - 1 + 1 = i
    BY <1>1
  <2>2. SvcStart(u, i + 1) = 1 + T(i) /\ SvcStart(u, i) = 1 + T(i - 1) /\ T(i) = T(i - 1) + f[i]
    BY <1>4, <1>5, <2>1
  <2>3. f[i] = 1 + SizeOf(u[i].chars) /\ SizeOf(u[i].chars) \in Nat /\ T(i - 1) \in Nat
    BY <1>2, <1>3, <1>5, <2>1
  <2> QED  BY <2>2, <2>3
<1> QED  BY <1>1, <1>2, <1>6, <1>7, <1>8 DEF n

(* One more service does not move those before it. *)
LEMMA StartsKept ==
  ASSUME NEW u \in Seq(Service), NEW s \in Service, NEW i \in 1..(Len(u) + 1)
  PROVE  SvcStart(Append(u, s), i) = SvcStart(u, i)
<1>1. \A k \in 1..(i - 1) : Append(u, s)[k] = u[k]
  OBVIOUS
<1>2. [k \in 1..(i - 1) |-> 1 + SizeOf(Append(u, s)[k].chars)]
        = [k \in 1..(i - 1) |-> 1 + SizeOf(u[k].chars)]
  BY <1>1
<1> QED  BY <1>2 DEF SvcStart

(* A service is its declaration, and its characteristics. *)
LEMMA SvcAttrsAre ==
  ASSUME NEW s \in Service, NEW h \in Nat
  PROVE  /\ genSvcAttr(s, h) \in Seq(Attribute) /\ Len(genSvcAttr(s, h)) = 1 + SizeOf(s.chars)
         /\ SizeOf(s.chars) \in Nat
         /\ genSvcAttr(s, h)[1] = Attr(h, "svc", 2, s.len, h + SizeOf(s.chars))
         /\ \A y \in 1..SizeOf(s.chars) : genSvcAttr(s, h)[1 + y] = Body(s.chars, h + 1)[y]
         /\ BodyHolds(Body(s.chars, h + 1), s.chars, h + 1)
<1>1. PICK b, a : b = Body(s.chars, h + 1) /\ a = Attr(h, "svc", 2, s.len, h + SizeOf(s.chars))
  OBVIOUS
<1>2. s.chars \in Seq(Characteristic) /\ s.len \in Nat /\ h + 1 \in Nat
  BY DEF Service, UUIDLen
<1>3. BodyHolds(b, s.chars, h + 1)
  BY <1>1, <1>2, BodyIs
<1>4. b \in Seq(Attribute) /\ Len(b) = SizeOf(s.chars) /\ Len(b) \in Nat
  BY <1>3 DEF BodyHolds
<1>5. genSvcAttr(s, h) = <<a>> \o b
  BY <1>1, <1>4 DEF genSvcAttr
<1>6. a \in Attribute
  <2>1. h + SizeOf(s.chars) \in Nat /\ "svc" \in AttrTypes
    BY <1>4 DEF AttrTypes
  <2> QED  BY <1>1, <1>2, <2>1, AttrIs
<1>7. <<a>> \in Seq(Attribute) /\ Len(<<a>>) = 1 /\ <<a>>[1] = a
  BY <1>6
<1>8. PICK o : o = <<a>>
  OBVIOUS
<1>9. /\ o \o b \in Seq(Attribute) /\ Len(o \o b) = Len(o) + Len(b)
      /\ \A x \in 1..Len(o) : (o \o b)[x] = o[x]
      /\ \A x \in 1..Len(b) : (o \o b)[Len(o) + x] = b[x]
  <2>1. o \in Seq(Attribute) /\ b \in Seq(Attribute)
    BY <1>4, <1>7, <1>8
  <2> QED  BY <2>1, JoinIs
<1>10. Len(o) = 1 /\ o[1] = a /\ 1 \in 1..1 /\ genSvcAttr(s, h) = o \o b
  BY <1>5, <1>7, <1>8
<1> QED  BY <1>1, <1>3, <1>4, <1>9, <1>10

(* Adding a service. *)
SvcSteps == [p \in Service |-> [x \in Seq(Attribute) |-> x \o genSvcAttr(p, 1 + Len(x))]]

(* The fold is the result of these steps: its type, its start, and what    *)
(* one more element adds.                                                  *)
LEMMA SvcFolds ==
  ASSUME NEW q \in Seq(Service)
  PROVE  /\ svcAttrs(q) \in Seq(Attribute) /\ (q = <<>> => svcAttrs(q) = <<>>)
         /\ \A p \in Service : svcAttrs(Append(q, p)) = svcAttrs(q) \o genSvcAttr(p, 1 + Len(svcAttrs(q)))
<1> DEFINE S == Service
           A == Seq(Attribute)
           G == SvcSteps
<1>1. \A p \in S, x \in A : x \o genSvcAttr(p, 1 + Len(x)) \in A
  <2>1. ASSUME NEW p \in S, NEW x \in A  PROVE x \o genSvcAttr(p, 1 + Len(x)) \in A
    <3>1. 1 + Len(x) \in Nat
      OBVIOUS
    <3>2. genSvcAttr(p, 1 + Len(x)) \in Seq(Attribute)
      BY <3>1, SvcAttrsAre
    <3> QED  BY <3>2, JoinIs
  <2> QED  BY <2>1
<1>2. G \in [S -> [A -> A]] /\ <<>> \in A
  BY <1>1 DEF SvcSteps
<1>g. \A p \in S, x \in A : G[p][x] = x \o genSvcAttr(p, 1 + Len(x))
  BY DEF SvcSteps
<1>3. ASSUME NEW u \in Seq(S)  PROVE FoldsTo(svcAttrs(u), G, <<>>, A, u)
  <2> DEFINE n == Len(u)
             F == Along(G, u)
             Fold(g) == g = [s \in SUBSET (1..n) |->
                               IF s = {} THEN <<>>
                               ELSE g[s \ {Max(s)}] \o genSvcAttr(u[Max(s)], 1 + Len(g[s \ {Max(s)}]))]
             f == CHOOSE g : Fold(g)
  <2>1. n \in Nat /\ DOMAIN u = 1..n /\ \A i \in 1..n : u[i] \in S
    OBVIOUS
  <2>2. F \in [1..n -> [A -> A]] /\ \A i \in 1..n, x \in A : F[i][x] = x \o genSvcAttr(u[i], 1 + Len(x))
    <3> HIDE DEF G, S, A
    <3> QED  BY <1>2, <1>g, <2>1 DEF Along
  <2>3. svcAttrs(u) = f[1..n]
    BY <2>1 DEF svcAttrs, FoldLeft, MapThenFoldSet
  <2> HIDE DEF G, S, A, F, n
  <2>4. PICK g \in [SUBSET (1..n) -> A] : IsFold(g, F, <<>>, A, n)
    BY <1>2, <2>1, <2>2, FoldExists
  <2>5. Fold(g)
    <3>1. ASSUME NEW s \in SUBSET (1..n), s # {}
          PROVE  g[s] = g[s \ {Max(s)}] \o genSvcAttr(u[Max(s)], 1 + Len(g[s \ {Max(s)}]))
      <4>1. Max(s) \in 1..n /\ s \ {Max(s)} \in SUBSET (1..n)
        BY <2>1, <3>1, MaxIs
      <4>2. g[s \ {Max(s)}] \in A
        BY <4>1
      <4> QED  BY <2>2, <2>4, <3>1, <4>1, <4>2 DEF IsFold
    <3> QED  BY <2>4, <3>1 DEF IsFold
  <2>6. Fold(f)
    <3> HIDE DEF Fold
    <3> QED  BY <2>5
  <2> HIDE DEF f
  <2>7. IsFold(f, F, <<>>, A, n)
    <3>1. f[{}] = <<>>
      BY <2>6
    <3>2. ASSUME NEW s \in SUBSET (1..n), s # {}, f[s \ {Max(s)}] \in A
          PROVE  f[s] = F[Max(s)][f[s \ {Max(s)}]]
      <4>1. Max(s) \in 1..n
        BY <2>1, <3>2, MaxIs
      <4>2. f[s] = f[s \ {Max(s)}] \o genSvcAttr(u[Max(s)], 1 + Len(f[s \ {Max(s)}]))
        BY <2>6, <3>2
      <4> QED  BY <2>2, <3>2, <4>1, <4>2
    <3> QED  BY <3>1, <3>2 DEF IsFold
  <2>8. Folded(f[1..n], F, <<>>, A, n)
    BY <1>2, <2>1, <2>2, <2>7, FoldSteps
  <2> QED  BY <2>3, <2>8 DEF FoldsTo, n, F
<1> HIDE DEF G, S, A
<1>4. ASSUME NEW u \in Seq(S)  PROVE svcAttrs(u) \in A /\ (u = <<>> => svcAttrs(u) = <<>>)
  BY <1>2, <1>3, FoldsStepwise
<1>5. ASSUME NEW p \in S, q \in Seq(S)  PROVE svcAttrs(Append(q, p)) = svcAttrs(q) \o genSvcAttr(p, 1 + Len(svcAttrs(q)))
  <2>1. Append(q, p) \in Seq(S)
    BY <1>5
  <2>2. FoldsTo(svcAttrs(q), G, <<>>, A, q) /\ FoldsTo(svcAttrs(Append(q, p)), G, <<>>, A, Append(q, p))
    BY <1>3, <1>5, <2>1
  <2>3. svcAttrs(Append(q, p)) = G[p][svcAttrs(q)]
    BY <1>2, <1>5, <2>2, FoldsStepwise
  <2> QED  BY <1>g, <1>4, <1>5, <2>3
<1> QED  BY <1>4, <1>5 DEF S, A

(* a holds the attributes of the services from handle 1 on, and nothing    *)
(* else; the declaration of the i-th one has ends[i] as its end.           *)
SvcsHold(a, u, ends) ==
  /\ a \in Seq(Attribute) /\ Len(a) = SvcStart(u, Len(u) + 1) - 1
  /\ \A i \in 1..Len(u) :
       /\ SvcStart(u, i) \in 1..Len(a)
       /\ a[SvcStart(u, i)] = Attr(SvcStart(u, i), "svc", 2, u[i].len, ends[i])
  /\ \A i \in 1..Len(u) : \A j \in 1..Len(u[i].chars) : \A x \in 1..CharSize(u[i].chars[j]) :
       /\ CharStart(u, i, j) + x - 1 \in 1..Len(a)
       /\ a[CharStart(u, i, j) + x - 1] = CharAttr(u[i].chars[j], CharStart(u, i, j), x)
  /\ \A y \in 1..Len(a) :
       \/ \E i \in 1..Len(u) : y = SvcStart(u, i)
       \/ \E i \in 1..Len(u) : \E j \in 1..Len(u[i].chars) : \E x \in 1..CharSize(u[i].chars[j]) :
            y = CharStart(u, i, j) + x - 1

(* The end of a service is before the next one. *)
Ends(u) == [i \in 1..Len(u) |-> SvcStart(u, i + 1) - 1]

(* The start of a characteristic. *)
LEMMA CharStartIs ==
  ASSUME NEW u, NEW i, NEW j
  PROVE  CharStart(u, i, j) = SvcStart(u, i) + 1 + Offset(u[i].chars, j)
BY DEF CharStart, Offset

(* Adding a service keeps it so. *)
LEMMA SvcsGrow ==
  ASSUME NEW u \in Seq(Service), NEW s \in Service, NEW a, SvcsHold(a, u, Ends(u))
  PROVE  SvcsHold(a \o genSvcAttr(s, 1 + Len(a)), Append(u, s), Ends(Append(u, s)))
<1>1. PICK n, v, g, w, b, h :
        /\ n = Len(u) /\ v = Append(u, s) /\ h = 1 + Len(a) /\ g = genSvcAttr(s, h)
        /\ w = a \o g /\ b = Body(s.chars, h + 1)
  OBVIOUS
<1>2. /\ n \in Nat /\ v \in Seq(Service) /\ Len(v) = n + 1 /\ v[n + 1] = s
      /\ \A i \in 1..n : v[i] = u[i]
  BY <1>1
<1>3. a \in Seq(Attribute) /\ Len(a) \in Nat /\ Len(a) = SvcStart(u, n + 1) - 1 /\ h \in Nat
  BY <1>1 DEF SvcsHold
<1>4. /\ SizeOf(s.chars) \in Nat /\ g \in Seq(Attribute) /\ Len(g) = 1 + SizeOf(s.chars)
      /\ g[1] = Attr(h, "svc", 2, s.len, h + SizeOf(s.chars))
      /\ \A y \in 1..SizeOf(s.chars) : g[1 + y] = b[y]
      /\ BodyHolds(b, s.chars, h + 1)
  BY <1>1, <1>3, SvcAttrsAre
<1>5. /\ \A i \in 1..(n + 1) : SvcStart(v, i) = SvcStart(u, i)
      /\ SvcStart(u, n + 1) = h /\ SvcStart(v, n + 1) = h
      /\ SvcStart(v, n + 2) = h + 1 + SizeOf(s.chars)
  <2>1. \A i \in 1..(n + 1) : SvcStart(v, i) = SvcStart(u, i)
    BY <1>1, StartsKept
  <2>2. n + 1 \in 1..(n + 1) /\ n + 1 \in 1..Len(v) /\ n + 1 \in 1..(Len(u) + 1) /\ n + 1 + 1 = n + 2
    BY <1>1, <1>2
  <2>3. SvcStart(u, n + 1) \in Nat
    BY <2>2, StartsAre
  <2>4. SvcStart(u, n + 1) = h
    BY <1>1, <1>3, <2>3
  <2>5. SvcStart(v, n + 1 + 1) = SvcStart(v, n + 1) + 1 + SizeOf(v[n + 1].chars)
    BY <1>2, <2>2, StartsAre
  <2> QED  BY <1>2, <2>1, <2>2, <2>4, <2>5
<1>6. /\ w \in Seq(Attribute) /\ Len(w) = Len(a) + 1 + SizeOf(s.chars)
      /\ \A x \in 1..Len(a) : w[x] = a[x]
      /\ \A x \in 1..(1 + SizeOf(s.chars)) : w[Len(a) + x] = g[x]
  <2>1. /\ a \o g \in Seq(Attribute) /\ Len(a \o g) = Len(a) + Len(g)
        /\ \A x \in 1..Len(a) : (a \o g)[x] = a[x]
        /\ \A x \in 1..Len(g) : (a \o g)[Len(a) + x] = g[x]
    <3>1. a \in Seq(Attribute) /\ g \in Seq(Attribute)
      BY <1>3, <1>4
    <3> QED  BY <3>1, JoinIs
  <2>2. w = a \o g /\ Len(g) = 1 + SizeOf(s.chars)
    BY <1>1, <1>4
  <2>3. Len(w) = Len(a) + 1 + SizeOf(s.chars)
    BY <1>3, <1>4, <2>1, <2>2
  <2> QED  BY <2>1, <2>2, <2>3
<1>z. PICK l, z : /\ l \in Nat /\ z \in Nat /\ Len(a) = l /\ SizeOf(s.chars) = z
                  /\ h = l + 1 /\ Len(w) = l + 1 + z /\ Len(b) = z
  <2>1. Len(b) = SizeOf(s.chars)
    BY <1>4 DEF BodyHolds
  <2>2. Len(a) \in Nat /\ SizeOf(s.chars) \in Nat /\ h = Len(a) + 1
    BY <1>1, <1>3, <1>4
  <2> QED  BY <1>6, <2>1, <2>2
<1>7. \A i \in 1..n : \A j : CharStart(v, i, j) = CharStart(u, i, j)
  <2>1. ASSUME NEW i \in 1..n, NEW j  PROVE CharStart(v, i, j) = CharStart(u, i, j)
    <3>1. v[i] = u[i] /\ SvcStart(v, i) = SvcStart(u, i)
      BY <1>2, <1>5
    <3> QED  BY <3>1, CharStartIs
  <2> QED  BY <2>1
<1>8. 1..Len(a) \subseteq 1..Len(w) /\ 1..n \subseteq 1..Len(v) /\ n + 1 \in 1..Len(v)
  BY <1>2, <1>3, <1>4, <1>6
<1>9. Len(w) = SvcStart(v, Len(v) + 1) - 1
  <2>1. Len(v) + 1 = n + 2
    BY <1>2
  <2> QED  BY <1>1, <1>3, <1>4, <1>5, <1>6, <2>1, SMTT(30)
<1>10. ASSUME NEW i \in 1..Len(v)
       PROVE  /\ SvcStart(v, i) \in 1..Len(w)
              /\ w[SvcStart(v, i)] = Attr(SvcStart(v, i), "svc", 2, v[i].len, Ends(v)[i])
  <2>1. CASE i \in 1..n
    <3>1. v[i] = u[i] /\ SvcStart(v, i) = SvcStart(u, i)
      BY <1>2, <1>5, <2>1
    <3>2. /\ SvcStart(u, i) \in 1..Len(a)
          /\ a[SvcStart(u, i)] = Attr(SvcStart(u, i), "svc", 2, u[i].len, Ends(u)[i])
      BY <1>1, <2>1 DEF SvcsHold
    <3>3. Ends(u)[i] = Ends(v)[i]
      <4>1. i + 1 \in 1..(n + 1)
        BY <1>2, <2>1
      <4>2. SvcStart(v, i + 1) = SvcStart(u, i + 1)
        BY <1>5, <4>1
      <4> QED  BY <1>1, <1>10, <2>1, <4>2 DEF Ends
    <3> QED  BY <1>6, <1>8, <3>1, <3>2, <3>3
  <2>2. CASE i = n + 1
    <3>1. v[i] = s /\ SvcStart(v, i) = h
      BY <1>2, <1>5, <2>2
    <3>2. h = Len(a) + 1 /\ 1 \in 1..(1 + SizeOf(s.chars)) /\ h \in 1..Len(w)
      BY <1>z
    <3>3. Ends(v)[i] = h + SizeOf(s.chars)
      <4>1. i + 1 = n + 2
        BY <1>2, <2>2
      <4>2. Ends(v)[i] = SvcStart(v, n + 2) - 1
        BY <1>10, <4>1 DEF Ends
      <4> QED  BY <1>3, <1>4, <1>5, <4>2
    <3> QED  BY <1>4, <1>6, <3>1, <3>2, <3>3, SMTT(30)
  <2> QED  BY <1>2, <1>10, <2>1, <2>2
<1>11. ASSUME NEW i \in 1..Len(v), NEW j \in 1..Len(v[i].chars), NEW x \in 1..CharSize(v[i].chars[j])
       PROVE  /\ CharStart(v, i, j) + x - 1 \in 1..Len(w)
              /\ w[CharStart(v, i, j) + x - 1] = CharAttr(v[i].chars[j], CharStart(v, i, j), x)
  <2>1. CASE i \in 1..n
    <3>1. v[i] = u[i] /\ CharStart(v, i, j) = CharStart(u, i, j)
      BY <1>2, <1>7, <2>1
    <3>2. /\ CharStart(u, i, j) + x - 1 \in 1..Len(a)
          /\ a[CharStart(u, i, j) + x - 1] = CharAttr(u[i].chars[j], CharStart(u, i, j), x)
      <4>1. j \in 1..Len(u[i].chars) /\ x \in 1..CharSize(u[i].chars[j]) /\ i \in 1..Len(u)
        BY <1>1, <1>11, <2>1, <3>1
      <4> QED  BY <1>1, <4>1, Zenon DEF SvcsHold
    <3> QED  BY <1>6, <1>8, <3>1, <3>2
  <2>2. CASE i = n + 1
    <3>1. v[i] = s /\ SvcStart(v, i) = h
      BY <1>2, <1>5, <2>2
    <3>2. CharStart(v, i, j) = h + 1 + Offset(s.chars, j)
      BY <3>1, CharStartIs
    <3>3. /\ Offset(s.chars, j) + x \in 1..Len(b)
          /\ b[Offset(s.chars, j) + x] = CharAttr(s.chars[j], h + 1 + Offset(s.chars, j), x)
          /\ Len(b) = SizeOf(s.chars)
      BY <1>4, <1>11, <3>1 DEF BodyHolds
    <3>4. PICK y \in 1..SizeOf(s.chars) : y = Offset(s.chars, j) + x
      BY <3>3
    <3>5. CharStart(v, i, j) + x - 1 = Len(a) + (1 + y)
      <4>1. Offset(s.chars, j) \in Nat /\ x \in Nat
        <5>1. j \in 1..(Len(s.chars) + 1) /\ s.chars \in Seq(Characteristic)
          BY <1>11, <3>1 DEF Service
        <5>2. CharSize(s.chars[j]) \in Nat
          BY <1>11, <3>1, <5>1, OffsetsAre
        <5> QED  BY <1>11, <3>1, <5>1, <5>2, OffsetsAre, SMTT(30)
      <4>2. h \in Nat /\ Len(a) = h - 1
        BY <1>z
      <4> QED  BY <3>2, <3>4, <4>1, <4>2, SMTT(30)
    <3>6. /\ 1 + y \in 1..(1 + SizeOf(s.chars)) /\ Len(a) + (1 + y) \in 1..Len(w)
      BY <1>z, <3>4
    <3>7. w[Len(a) + (1 + y)] = b[y]
      BY <1>4, <1>6, <3>4, <3>6
    <3> QED  BY <3>1, <3>2, <3>3, <3>4, <3>5, <3>6, <3>7
  <2> QED  BY <1>2, <1>11, <2>1, <2>2
<1>12. ASSUME NEW y \in 1..Len(w)
       PROVE  \/ \E i \in 1..Len(v) : y = SvcStart(v, i)
              \/ \E i \in 1..Len(v) : \E j \in 1..Len(v[i].chars) : \E x \in 1..CharSize(v[i].chars[j]) :
                   y = CharStart(v, i, j) + x - 1
  <2>1. CASE y \in 1..Len(a)
    <3>1. CASE \E i \in 1..n : y = SvcStart(u, i)
      <4>1. PICK i \in 1..n : y = SvcStart(u, i)
        BY <3>1
      <4>2. i \in 1..(n + 1) /\ i \in 1..Len(v)
        BY <1>2, <1>8, <4>1
      <4>3. y = SvcStart(v, i)
        BY <1>5, <4>1, <4>2
      <4> QED  BY <4>2, <4>3
    <3>2. ASSUME NEW i \in 1..n, NEW j \in 1..Len(u[i].chars), NEW x \in 1..CharSize(u[i].chars[j]),
                 y = CharStart(u, i, j) + x - 1
          PROVE  \E k \in 1..Len(v) : \E jj \in 1..Len(v[k].chars) : \E xx \in 1..CharSize(v[k].chars[jj]) :
                   y = CharStart(v, k, jj) + xx - 1
      <4>1. i \in 1..Len(v) /\ v[i] = u[i] /\ CharStart(v, i, j) = CharStart(u, i, j)
        BY <1>2, <1>7, <1>8, <3>2
      <4> QED  BY <3>2, <4>1
    <3> QED  BY <1>1, <2>1, <3>1, <3>2 DEF SvcsHold
  <2>2. CASE y = h
    BY <1>5, <1>8, <2>2
  <2>3. CASE y > h
    <3>1. y - h \in 1..Len(b)
      BY <1>z, <1>12, <2>3
    <3>2. PICK j \in 1..Len(s.chars) : \E x \in 1..CharSize(s.chars[j]) : y - h = Offset(s.chars, j) + x
      BY <1>4, <3>1 DEF BodyHolds
    <3>3. PICK x \in 1..CharSize(s.chars[j]) : y - h = Offset(s.chars, j) + x
      BY <3>2
    <3>4. Offset(s.chars, j) \in Nat /\ x \in Nat
      <4>1. j \in 1..(Len(s.chars) + 1) /\ s.chars \in Seq(Characteristic)
        BY <3>2 DEF Service
      <4>2. CharSize(s.chars[j]) \in Nat
        BY <3>2, <4>1, OffsetsAre
      <4> QED  BY <3>3, <4>1, <4>2, OffsetsAre
    <3>5. CharStart(v, n + 1, j) = h + 1 + Offset(s.chars, j)
      BY <1>2, <1>5, CharStartIs
    <3>6. y = CharStart(v, n + 1, j) + x - 1
      <4>1. h \in Nat /\ y \in Nat
        BY <1>z, <1>12
      <4> QED  BY <3>3, <3>4, <3>5, <4>1, SMTT(30)
    <3> QED  BY <1>2, <1>8, <3>2, <3>3, <3>6
  <2> QED  BY <1>1, <1>3, <1>12, <2>1, <2>2, <2>3
<1>13. SvcsHold(w, v, Ends(v))
  BY <1>6, <1>9, <1>10, <1>11, <1>12 DEF SvcsHold
<1> QED  BY <1>1, <1>13

(* Numbers that grow by d at least from one to the next. *)
LEMMA Growing ==
  ASSUME NEW m \in Nat, NEW d \in Nat, NEW f, \A i \in 1..m : f[i] \in Nat,
         \A i \in 1..(m - 1) : f[i] + d <= f[i + 1]
  PROVE  \A i, k \in 1..m : i < k => f[i] + d <= f[k]
<1> SUFFICES ASSUME NEW i \in 1..m  PROVE \A k \in 1..m : i < k => f[i] + d <= f[k]
  OBVIOUS
<1> DEFINE T == {k \in Nat : k \in 1..m /\ i < k => f[i] + d <= f[k]}
<1>1. 0 \in T
  OBVIOUS
<1>2. ASSUME NEW k \in Nat, k \in T  PROVE k + 1 \in T
  <2> SUFFICES ASSUME k + 1 \in 1..m, i < k + 1  PROVE f[i] + d <= f[k + 1]
    OBVIOUS
  <2>1. k \in 1..m /\ k \in 1..(m - 1) /\ f[k] \in Nat /\ f[k + 1] \in Nat /\ f[i] \in Nat
    OBVIOUS
  <2>2. f[k] + d <= f[k + 1]
    BY <2>1
  <2>3. CASE i = k
    BY <2>2, <2>3
  <2>4. CASE i < k
    <3>1. f[i] + d <= f[k]
      BY <1>2, <2>1, <2>4
    <3> QED  BY <2>1, <2>2, <3>1
  <2> QED  BY <2>3, <2>4
<1>3. \A k \in Nat : k \in T
  <2> HIDE DEF T
  <2> QED  BY <1>1, <1>2, EveryNat
<1> QED  BY <1>3

(* Services, and the characteristics of one, follow one another. *)
LEMMA StartsGrow ==
  ASSUME NEW u \in Seq(Service)
  PROVE  \A i, k \in 1..(Len(u) + 1) : i < k => SvcStart(u, i) < SvcStart(u, k)
<1>1. PICK m : m = Len(u) + 1 /\ m \in Nat
  OBVIOUS
<1> DEFINE f == [i \in 1..m |-> SvcStart(u, i)]
<1>2. \A i \in 1..m : f[i] \in Nat /\ f[i] = SvcStart(u, i)
  BY <1>1, StartsAre
<1>3. ASSUME NEW i \in 1..(m - 1)  PROVE f[i] + 1 <= f[i + 1]
  <2>1. i \in 1..Len(u) /\ i \in 1..m /\ i + 1 \in 1..m
    BY <1>1
  <2>2. SvcStart(u, i + 1) = SvcStart(u, i) + 1 + SizeOf(u[i].chars) /\ SizeOf(u[i].chars) \in Nat
    BY <2>1, StartsAre
  <2>3. f[i] \in Nat /\ f[i] = SvcStart(u, i) /\ f[i + 1] = SvcStart(u, i + 1)
    BY <1>2, <2>1
  <2> QED  BY <2>2, <2>3
<1> HIDE DEF f
<1>4. \A i, k \in 1..m : i < k => f[i] + 1 <= f[k]
  <2>1. 1 \in Nat
    OBVIOUS
  <2> QED  BY <1>1, <1>2, <1>3, <2>1, Growing
<1> QED  BY <1>1, <1>2, <1>4

(* Where the characteristics of a service start: behind its declaration,   *)
(* two handles apart at least, and before the next service.                *)
LEMMA CharStartsAre ==
  ASSUME NEW u \in Seq(Service), NEW i \in 1..Len(u)
  PROVE  /\ Len(u[i].chars) \in Nat
         /\ \A j \in 1..Len(u[i].chars) : /\ u[i].chars[j] \in Characteristic
                                          /\ CharSize(u[i].chars[j]) \in Nat
                                          /\ CharSize(u[i].chars[j]) >= 2
         /\ CharStart(u, i, 1) = SvcStart(u, i) + 1
         /\ CharStart(u, i, Len(u[i].chars) + 1) = SvcStart(u, i + 1)
         /\ \A j \in 1..(Len(u[i].chars) + 1) : CharStart(u, i, j) \in Nat
         /\ \A j \in 1..Len(u[i].chars) : CharStart(u, i, j + 1) = CharStart(u, i, j) + CharSize(u[i].chars[j])
         /\ \A j, k \in 1..(Len(u[i].chars) + 1) : j < k => CharStart(u, i, j) + 2 <= CharStart(u, i, k)
<1>1. PICK cs, h, m : cs = u[i].chars /\ h = SvcStart(u, i) /\ m = Len(cs) + 1
  OBVIOUS
<1>2. /\ cs \in Seq(Characteristic) /\ h \in Nat /\ SizeOf(cs) \in Nat
      /\ SvcStart(u, i + 1) = h + 1 + SizeOf(cs)
  <2>1. i \in 1..(Len(u) + 1)
    OBVIOUS
  <2> QED  BY <1>1, <2>1, StartsAre
<1>3. /\ Len(cs) \in Nat /\ m \in Nat /\ SizeOf(cs) = Offset(cs, m)
      /\ \A j \in 1..Len(cs) : cs[j] \in Characteristic /\ CharSize(cs[j]) \in Nat /\ CharSize(cs[j]) >= 2
      /\ Offset(cs, 1) = 0
      /\ \A j \in 1..m : Offset(cs, j) \in Nat
      /\ \A j \in 1..Len(cs) : Offset(cs, j + 1) = Offset(cs, j) + CharSize(cs[j])
  <2>1. cs \in Seq(Characteristic)
    BY <1>2
  <2>2. /\ Len(cs) \in Nat /\ SizeOf(cs) = Offset(cs, Len(cs) + 1)
        /\ \A j \in 1..Len(cs) : cs[j] \in Characteristic /\ CharSize(cs[j]) \in Nat /\ CharSize(cs[j]) >= 2
        /\ Offset(cs, 1) = 0
        /\ \A j \in 1..(Len(cs) + 1) : Offset(cs, j) \in Nat
        /\ \A j \in 1..Len(cs) : Offset(cs, j + 1) = Offset(cs, j) + CharSize(cs[j])
    BY <2>1, OffsetsAre, Zenon
  <2>3. m = Len(cs) + 1 /\ m \in Nat
    BY <1>1, <2>2
  <2> QED  BY <2>2, <2>3
<1>4. \A j : CharStart(u, i, j) = h + 1 + Offset(cs, j)
  BY <1>1, CharStartIs
<1>5. \A j \in 1..m : CharStart(u, i, j) \in Nat
  BY <1>2, <1>3, <1>4
<1>6. CharStart(u, i, 1) = h + 1 /\ CharStart(u, i, m) = SvcStart(u, i + 1)
  <2>1. CharStart(u, i, 1) = h + 1 + Offset(cs, 1) /\ CharStart(u, i, m) = h + 1 + Offset(cs, m)
    BY <1>4
  <2> QED  BY <1>2, <1>3, <2>1
<1>7. ASSUME NEW j \in 1..Len(cs)
      PROVE  CharStart(u, i, j + 1) = CharStart(u, i, j) + CharSize(cs[j])
  <2>1. j \in 1..m /\ j + 1 \in 1..m
    BY <1>1, <1>3
  <2>2. /\ CharStart(u, i, j) = h + 1 + Offset(cs, j) /\ CharStart(u, i, j + 1) = h + 1 + Offset(cs, j + 1)
        /\ Offset(cs, j) \in Nat /\ Offset(cs, j + 1) = Offset(cs, j) + CharSize(cs[j])
        /\ CharSize(cs[j]) \in Nat
    BY <1>3, <1>4, <2>1
  <2> QED  BY <1>2, <2>2
<1>8. \A j, k \in 1..m : j < k => CharStart(u, i, j) + 2 <= CharStart(u, i, k)
  <2> DEFINE f == [j \in 1..m |-> CharStart(u, i, j)]
  <2>1. \A j \in 1..m : f[j] \in Nat /\ f[j] = CharStart(u, i, j)
    BY <1>5
  <2>2. ASSUME NEW j \in 1..(m - 1)  PROVE f[j] + 2 <= f[j + 1]
    <3>1. j \in 1..Len(cs) /\ j \in 1..m /\ j + 1 \in 1..m
      BY <1>1, <1>3
    <3>2. f[j] \in Nat /\ f[j + 1] = f[j] + CharSize(cs[j]) /\ CharSize(cs[j]) \in Nat /\ CharSize(cs[j]) >= 2
      BY <1>3, <1>7, <2>1, <3>1
    <3> QED  BY <3>2
  <2> HIDE DEF f
  <2>3. \A j, k \in 1..m : j < k => f[j] + 2 <= f[k]
    <3>1. 2 \in Nat
      OBVIOUS
    <3> QED  BY <1>3, <2>1, <2>2, <3>1, Growing
  <2> QED  BY <2>1, <2>3
<1> QED  BY <1>1, <1>3, <1>5, <1>6, <1>7, <1>8

(* What an attribute of a characteristic is. *)
LEMMA CharAttrIs ==
  ASSUME NEW c \in Characteristic, NEW h \in Nat, NEW x \in 1..CharSize(c)
  PROVE  /\ CharAttr(c, h, x).h = h + x - 1
         /\ CharAttr(c, h, x).typ # "svc"
         /\ CharAttr(c, h, x).typ = "char" <=> x = 1
         /\ CharAttr(c, h, x).typ = "ccc" <=> x > 2 + Len(c.descs)
         /\ x = 1 => CharAttr(c, h, x).vlen = 3 + c.len
         /\ CharAttr(c, h, x).tlen \in UUIDLen
<1>1. PICK n : n = Len(c.descs)
  OBVIOUS
<1>2. /\ n \in Nat /\ c.cccs \in Nat /\ c.len \in UUIDLen /\ CharSize(c) = 2 + n + c.cccs
      /\ \A i \in 1..n : c.descs[i] \in UUIDLen
  BY <1>1, LenProperties, ElementOfSeq DEF Characteristic, CharSize
<1>3. x \in Nat /\ x >= 1 /\ 2 \in UUIDLen
  BY <1>2 DEF UUIDLen
<1>4. \A a, t, l, v, e : /\ Attr(a, t, l, v, e).h = a /\ Attr(a, t, l, v, e).typ = t
                         /\ Attr(a, t, l, v, e).tlen = l /\ Attr(a, t, l, v, e).vlen = v
  BY DEF Attr
<1>5. CASE x = 1
  <2>1. CharAttr(c, h, x) = Attr(h, "char", 2, 3 + c.len, h + CharSize(c) - 1)
    BY <1>5 DEF CharAttr
  <2>2. h = h + x - 1 /\ ~(x > 2 + n)
    BY <1>2, <1>5
  <2> QED  BY <1>1, <1>3, <1>4, <1>5, <2>1, <2>2
<1>6. CASE x = 2
  <2>1. CharAttr(c, h, x) = Attr(h + 1, "val", c.len, 0, h + 1)
    BY <1>6 DEF CharAttr
  <2>2. h + 1 = h + x - 1 /\ ~(x > 2 + n) /\ x # 1
    BY <1>2, <1>6
  <2> QED  BY <1>1, <1>2, <1>4, <2>1, <2>2
<1>7. CASE x > 2 /\ x <= 2 + n
  <2>1. CharAttr(c, h, x) = Attr(h + x - 1, "desc", c.descs[x - 2], 0, h + x - 1)
    BY <1>1, <1>3, <1>7 DEF CharAttr
  <2>2. x - 2 \in 1..n /\ ~(x > 2 + n) /\ x # 1
    BY <1>2, <1>3, <1>7
  <2>3. c.descs[x - 2] \in UUIDLen
    BY <1>2, <2>2
  <2> QED  BY <1>1, <1>4, <2>1, <2>2, <2>3
<1>8. CASE x > 2 + n
  <2>1. x # 1 /\ x # 2 /\ ~(x <= 2 + n)
    BY <1>2, <1>3, <1>8
  <2>2. CharAttr(c, h, x) = Attr(h + x - 1, "ccc", 2, 0, h + x - 1)
    BY <1>1, <2>1 DEF CharAttr
  <2> QED  BY <1>1, <1>3, <1>4, <1>8, <2>1, <2>2
<1> QED  BY <1>2, <1>3, <1>5, <1>6, <1>7, <1>8

(* The attributes of all services. *)
LEMMA AllAttrsAre ==
  ASSUME NEW u \in Seq(Service)
  PROVE  SvcsHold(svcAttrs(u), u, Ends(u))
<1> DEFINE T == {v \in Seq(Service) : SvcsHold(svcAttrs(v), v, Ends(v))}
<1>1. <<>> \in T
  <2>0. <<>> \in Seq(Service) /\ <<>> \in Seq(Attribute) /\ Len(<<>>) = 0
    OBVIOUS
  <2>1. PICK e : e = <<>> /\ e \in Seq(Service) /\ e \in Seq(Attribute) /\ Len(e) = 0
    BY <2>0
  <2>2. svcAttrs(e) = e /\ SvcStart(e, 1) = 1
    BY <2>1, SvcFolds, StartsAre
  <2>3. Len(e) + 1 = 1 /\ 1..Len(e) = {} /\ 1 - 1 = 0
    BY <2>1
  <2>4. SvcsHold(e, e, Ends(e))
    BY <2>1, <2>2, <2>3 DEF SvcsHold
  <2> QED  BY <2>1, <2>2, <2>4
<1>2. ASSUME NEW v \in Seq(Service), NEW s \in Service, v \in T  PROVE Append(v, s) \in T
  <2>1. Append(v, s) \in Seq(Service) /\ SvcsHold(svcAttrs(v), v, Ends(v))
    BY <1>2
  <2>2. svcAttrs(Append(v, s)) = svcAttrs(v) \o genSvcAttr(s, 1 + Len(svcAttrs(v)))
    BY SvcFolds
  <2>3. SvcsHold(svcAttrs(Append(v, s)), Append(v, s), Ends(Append(v, s)))
    BY <2>1, <2>2, SvcsGrow
  <2> QED  BY <2>1, <2>3
<1>3. \A v \in Seq(Service) : v \in T
  <2> HIDE DEF T
  <2> QED  BY <1>1, <1>2, EverySeq
<1> QED  BY <1>3

(* The services start where declarations of services are, and only there,  *)
(* and so it is with characteristics.                                      *)
LEMMA Declarations ==
  ASSUME NEW u \in Seq(Service), NEW a, NEW ends, SvcsHold(a, u, ends), NEW y \in 1..Len(a)
  PROVE  /\ a[y].typ = "svc" <=> \E i \in 1..Len(u) : y = SvcStart(u, i)
         /\ a[y].typ = "char" <=> \E i \in 1..Len(u) : \E j \in 1..Len(u[i].chars) : y = CharStart(u, i, j)
         /\ a[y].h = y /\ a[y].tlen \in UUIDLen
<1>1. /\ \A i \in 1..Len(u) : a[SvcStart(u, i)] = Attr(SvcStart(u, i), "svc", 2, u[i].len, ends[i])
      /\ \A i \in 1..Len(u) : \A j \in 1..Len(u[i].chars) : \A x \in 1..CharSize(u[i].chars[j]) :
           a[CharStart(u, i, j) + x - 1] = CharAttr(u[i].chars[j], CharStart(u, i, j), x)
  BY DEF SvcsHold
<1>2. ASSUME NEW i \in 1..Len(u), y = SvcStart(u, i)
      PROVE  a[y].typ = "svc" /\ a[y].h = y /\ a[y].tlen \in UUIDLen
  <2>1. a[y] = Attr(y, "svc", 2, u[i].len, ends[i]) /\ 2 \in UUIDLen
    BY <1>1, <1>2 DEF UUIDLen
  <2> QED  BY <2>1 DEF Attr
<1>3. ASSUME NEW i \in 1..Len(u), NEW j \in 1..Len(u[i].chars), NEW x \in 1..CharSize(u[i].chars[j]),
             y = CharStart(u, i, j) + x - 1
      PROVE  /\ a[y].typ # "svc" /\ a[y].h = y /\ a[y].tlen \in UUIDLen
             /\ a[y].typ = "char" <=> x = 1
             /\ x = 1 => y = CharStart(u, i, j)
  <2>1. PICK c, h : c = u[i].chars[j] /\ h = CharStart(u, i, j)
    OBVIOUS
  <2>2. c \in Characteristic /\ h \in Nat /\ CharSize(c) \in Nat
    <3>1. j \in 1..(Len(u[i].chars) + 1)
      BY CharStartsAre
    <3> QED  BY <2>1, <3>1, CharStartsAre
  <2>3. a[y] = CharAttr(c, h, x) /\ x \in 1..CharSize(c) /\ y = h + x - 1
    BY <1>1, <1>3, <2>1
  <2>4. /\ CharAttr(c, h, x).h = h + x - 1 /\ CharAttr(c, h, x).typ # "svc"
        /\ CharAttr(c, h, x).typ = "char" <=> x = 1
        /\ CharAttr(c, h, x).tlen \in UUIDLen
    BY <2>2, <2>3, CharAttrIs
  <2>5. x = 1 => y = h
    BY <2>2, <2>3
  <2> QED  BY <2>1, <2>3, <2>4, <2>5
<1>4. ASSUME NEW i \in 1..Len(u), NEW j \in 1..Len(u[i].chars), y = CharStart(u, i, j)
      PROVE  a[y].typ = "char"
  <2>1. 1 \in 1..CharSize(u[i].chars[j]) /\ y = y + 1 - 1
    BY CharStartsAre
  <2> QED  BY <1>3, <1>4, <2>1
<1>5. \/ \E i \in 1..Len(u) : y = SvcStart(u, i)
      \/ \E i \in 1..Len(u) : \E j \in 1..Len(u[i].chars) : \E x \in 1..CharSize(u[i].chars[j]) :
           y = CharStart(u, i, j) + x - 1
  BY DEF SvcsHold
<1>6. CASE \E i \in 1..Len(u) : y = SvcStart(u, i)
  BY <1>2, <1>4, <1>6
<1>7. CASE \E i \in 1..Len(u) : \E j \in 1..Len(u[i].chars) : \E x \in 1..CharSize(u[i].chars[j]) :
             y = CharStart(u, i, j) + x - 1
  <2>a. PICK i \in 1..Len(u) : \E j \in 1..Len(u[i].chars) : \E x \in 1..CharSize(u[i].chars[j]) :
          y = CharStart(u, i, j) + x - 1
    BY <1>7
  <2>b. PICK j \in 1..Len(u[i].chars) : \E x \in 1..CharSize(u[i].chars[j]) :
          y = CharStart(u, i, j) + x - 1
    BY <2>a
  <2>1. PICK x \in 1..CharSize(u[i].chars[j]) : y = CharStart(u, i, j) + x - 1
    BY <2>b
  <2>2. /\ a[y].typ # "svc" /\ a[y].h = y /\ a[y].tlen \in UUIDLen
        /\ a[y].typ = "char" <=> x = 1
        /\ x = 1 => y = CharStart(u, i, j)
    BY <1>3, <2>1
  <2>3. ~\E k \in 1..Len(u) : y = SvcStart(u, k)
    BY <1>2, <2>2
  <2> QED  BY <1>4, <2>2, <2>3
<1> QED  BY <1>5, <1>6, <1>7

(* The database: the last service ends with the handle space. *)
LEMMA DatabaseIs ==
  ASSUME NEW u \in Seq(Service)
  PROVE  SvcsHold(NewDB(u), u, [i \in 1..Len(u) |-> SvcEnd(u, i)])
<1> DEFINE last(a) == {i \in DOMAIN a : a[i].typ = "svc" /\ \A j \in i+1..Len(a) : a[j].typ # "svc"}
           end(a, i) == IF i \in last(a) THEN [a[i] EXCEPT !.endh = HMax] ELSE a[i]
<1>1. PICK a, n, ends : /\ a = svcAttrs(u) /\ n = Len(u) /\ ends = [i \in 1..Len(u) |-> SvcEnd(u, i)]
  OBVIOUS
<1>2. SvcsHold(a, u, Ends(u)) /\ a \in Seq(Attribute) /\ Len(a) \in Nat /\ DOMAIN a = 1..Len(a) /\ n \in Nat
  <2>1. SvcsHold(a, u, Ends(u))
    BY <1>1, AllAttrsAre
  <2> QED  BY <1>1, <2>1 DEF SvcsHold
<1>3. \A y \in 1..Len(a) : a[y].typ = "svc" <=> \E i \in 1..n : y = SvcStart(u, i)
  BY <1>1, <1>2, Declarations
<1>4. \A i \in 1..n : SvcStart(u, i) \in 1..Len(a) /\ (SvcStart(u, i) \in last(a) <=> i = n)
  <2> SUFFICES ASSUME NEW i \in 1..n
               PROVE  SvcStart(u, i) \in 1..Len(a) /\ (SvcStart(u, i) \in last(a) <=> i = n)
    OBVIOUS
  <2>1. \A k \in 1..n : SvcStart(u, k) \in 1..Len(a)
    BY <1>1, <1>2 DEF SvcsHold
  <2>2. \A k, l \in 1..n : k < l => SvcStart(u, k) < SvcStart(u, l)
    <3>1. 1..n \subseteq 1..(Len(u) + 1)
      BY <1>1, <1>2
    <3> QED  BY <3>1, StartsGrow
  <2>3. CASE i = n
    <3>1. \A j \in (SvcStart(u, i) + 1)..Len(a) : a[j].typ # "svc"
      <4> SUFFICES ASSUME NEW j \in (SvcStart(u, i) + 1)..Len(a), a[j].typ = "svc"  PROVE FALSE
        OBVIOUS
      <4>1. j \in 1..Len(a) /\ j > SvcStart(u, i)
        BY <1>2, <2>1
      <4>2. PICK k \in 1..n : j = SvcStart(u, k)
        BY <1>3, <4>1
      <4>3. k = i \/ k < i
        BY <1>2, <2>3, <4>2
      <4>4. SvcStart(u, k) \in Nat /\ SvcStart(u, i) \in Nat
        BY <1>2, <2>1
      <4> QED  BY <2>2, <4>1, <4>2, <4>3, <4>4
    <3>2. a[SvcStart(u, i)].typ = "svc"
      BY <1>3, <2>1
    <3> QED  BY <1>2, <2>1, <2>3, <3>1, <3>2
  <2>4. CASE i # n
    <3>1. i < n /\ n \in 1..n
      BY <1>2, <2>4
    <3>2. SvcStart(u, n) \in (SvcStart(u, i) + 1)..Len(a) /\ a[SvcStart(u, n)].typ = "svc"
      BY <1>2, <1>3, <2>1, <2>2, <3>1
    <3> QED  BY <2>1, <2>4, <3>2
  <2> QED  BY <2>3, <2>4
<1>5. \A y \in 1..Len(a) : y \in last(a) => a[y].typ = "svc"
  OBVIOUS
<1>6. NewDB(u) = [y \in 1..Len(a) |-> end(a, y)]
  BY <1>1, <1>2 DEF NewDB
<1> HIDE DEF last
<1>7. PICK d : d = NewDB(u)
  OBVIOUS
<1>8. \A y \in 1..Len(a) : d[y] = end(a, y)
  BY <1>6, <1>7
<1>9. ASSUME NEW i \in 1..n
      PROVE  /\ SvcStart(u, i) \in 1..Len(a)
             /\ d[SvcStart(u, i)] = Attr(SvcStart(u, i), "svc", 2, u[i].len, ends[i])
  <2>1. PICK y, e : y = SvcStart(u, i) /\ e = Ends(u)[i]
    OBVIOUS
  <2>2. /\ y \in 1..Len(a) /\ d[y] = end(a, y) /\ a[y] = Attr(y, "svc", 2, u[i].len, e)
        /\ y \in last(a) <=> i = n
    BY <1>1, <1>2, <1>4, <1>8, <2>1 DEF SvcsHold
  <2>3. ends[i] = SvcEnd(u, i)
    BY <1>1, <1>9
  <2>4. CASE i = n
    <3>1. ends[i] = HMax
      BY <1>1, <2>3, <2>4 DEF SvcEnd
    <3>2. d[y] = [Attr(y, "svc", 2, u[i].len, e) EXCEPT !.endh = HMax]
      BY <2>2, <2>4
    <3>3. d[y] = Attr(y, "svc", 2, u[i].len, HMax)
      BY <3>2 DEF Attr
    <3> QED  BY <2>1, <2>2, <3>1, <3>3
  <2>5. CASE i # n
    <3>1. ends[i] = e
      BY <1>1, <1>9, <2>1, <2>3, <2>5 DEF SvcEnd, Ends
    <3>2. d[y] = a[y]
      BY <2>2, <2>5
    <3> QED  BY <2>1, <2>2, <3>1, <3>2
  <2> QED  BY <2>4, <2>5
<1>10. \A y \in 1..Len(a) : a[y].typ # "svc" => d[y] = a[y]
  BY <1>5, <1>8
<1>11. d \in Seq(Attribute) /\ Len(d) = Len(a)
  <2>1. \A b \in Attribute : [b EXCEPT !.endh = HMax] \in Attribute
    BY HMaxAssumption DEF Attribute
  <2>2. \A y \in 1..Len(a) : a[y] \in Attribute
    BY <1>2
  <2>3. \A y \in 1..Len(a) : end(a, y) \in Attribute
    BY <2>1, <2>2
  <2>4. d \in [1..Len(a) -> Attribute]
    BY <1>6, <1>7, <2>3
  <2> QED  BY <1>2, <2>4, SeqIs
<1>12. ASSUME NEW i \in 1..n, NEW j \in 1..Len(u[i].chars), NEW x \in 1..CharSize(u[i].chars[j])
       PROVE  /\ CharStart(u, i, j) + x - 1 \in 1..Len(a)
              /\ d[CharStart(u, i, j) + x - 1] = CharAttr(u[i].chars[j], CharStart(u, i, j), x)
  <2>1. PICK y, c, h : y = CharStart(u, i, j) + x - 1 /\ c = u[i].chars[j] /\ h = CharStart(u, i, j)
    OBVIOUS
  <2>2. y \in 1..Len(a) /\ a[y] = CharAttr(c, h, x)
    BY <1>1, <1>2, <1>12, <2>1 DEF SvcsHold
  <2>3. c \in Characteristic /\ h \in Nat
    <3>1. i \in 1..Len(u) /\ j \in 1..(Len(u[i].chars) + 1)
      BY <1>1, <1>12, CharStartsAre
    <3> QED  BY <1>1, <1>12, <2>1, <3>1, CharStartsAre
  <2>4. a[y].typ # "svc"
    <3>1. x \in 1..CharSize(c)
      BY <2>1
    <3>2. CharAttr(c, h, x).typ # "svc"
      BY <2>3, <3>1, CharAttrIs
    <3> QED  BY <2>2, <3>2
  <2> QED  BY <1>10, <2>1, <2>2, <2>4
<1>13. SvcsHold(d, u, ends)
  <2>1. /\ Len(a) = SvcStart(u, Len(u) + 1) - 1
        /\ \A y \in 1..Len(a) :
             \/ \E i \in 1..Len(u) : y = SvcStart(u, i)
             \/ \E i \in 1..Len(u) : \E j \in 1..Len(u[i].chars) : \E x \in 1..CharSize(u[i].chars[j]) :
                  y = CharStart(u, i, j) + x - 1
    BY <1>2, Zenon DEF SvcsHold
  <2>2. \A i \in 1..Len(u) :
          /\ SvcStart(u, i) \in 1..Len(a)
          /\ d[SvcStart(u, i)] = Attr(SvcStart(u, i), "svc", 2, u[i].len, ends[i])
    BY <1>1, <1>9, Zenon
  <2>3. \A i \in 1..Len(u) : \A j \in 1..Len(u[i].chars) : \A x \in 1..CharSize(u[i].chars[j]) :
          /\ CharStart(u, i, j) + x - 1 \in 1..Len(a)
          /\ d[CharStart(u, i, j) + x - 1] = CharAttr(u[i].chars[j], CharStart(u, i, j), x)
    BY <1>1, <1>12, Zenon
  <2>4. d \in Seq(Attribute) /\ Len(d) = Len(a)
    BY <1>11
  <2>5. /\ Len(d) = SvcStart(u, Len(u) + 1) - 1
        /\ \A y \in 1..Len(d) :
             \/ \E i \in 1..Len(u) : y = SvcStart(u, i)
             \/ \E i \in 1..Len(u) : \E j \in 1..Len(u[i].chars) : \E x \in 1..CharSize(u[i].chars[j]) :
                  y = CharStart(u, i, j) + x - 1
    <3>1. Len(d) = SvcStart(u, Len(u) + 1) - 1
      BY <2>1, <2>4, Zenon
    <3>2. \A y \in 1..Len(d) : y \in 1..Len(a)
      BY <2>4, Zenon
    <3> QED  BY <2>1, <3>1, <3>2, Zenon
  <2>6. \A i \in 1..Len(u) :
          /\ SvcStart(u, i) \in 1..Len(d)
          /\ d[SvcStart(u, i)] = Attr(SvcStart(u, i), "svc", 2, u[i].len, ends[i])
    BY <2>2, <2>4, Zenon
  <2>7. \A i \in 1..Len(u) : \A j \in 1..Len(u[i].chars) : \A x \in 1..CharSize(u[i].chars[j]) :
          /\ CharStart(u, i, j) + x - 1 \in 1..Len(d)
          /\ d[CharStart(u, i, j) + x - 1] = CharAttr(u[i].chars[j], CharStart(u, i, j), x)
    BY <2>3, <2>4, Zenon
  <2> QED  BY <2>4, <2>5, <2>6, <2>7, Zenon DEF SvcsHold
<1> QED  BY <1>1, <1>7, <1>13

-----------------------------------------------------------------------------
(* Responses.  g picks the attributes of a type, in order. *)
Picks(g, typ, es, K) ==
  /\ g \in [1..K -> 1..Len(es)]
  /\ \A s, t \in 1..K : s < t => g[s] < g[t]
  /\ \A x \in 1..Len(es) : es[x].typ = typ <=> \E t \in 1..K : g[t] = x

(* OfType is what they are. *)
LEMMA OfTypeIs ==
  ASSUME NEW typ, NEW es \in Seq(Attribute), NEW K \in Nat, NEW g, Picks(g, typ, es, K)
  PROVE  /\ OfType(typ, es) \in Seq(Attribute) /\ Len(OfType(typ, es)) = K
         /\ \A t \in 1..K : OfType(typ, es)[t] = es[g[t]]
<1> DEFINE Taken(u, k, f) == /\ OfType(typ, u) \in Seq(Attribute) /\ Len(OfType(typ, u)) = k
                             /\ \A t \in 1..k : OfType(typ, u)[t] = u[f[t]]
           T == {u \in Seq(Attribute) : \A k \in Nat : \A f : Picks(f, typ, u, k) => Taken(u, k, f)}
<1>1. <<>> \in T
  <2>0. <<>> \in Seq(Attribute) /\ Len(<<>>) = 0
    OBVIOUS
  <2>1. PICK e : e = <<>> /\ e \in Seq(Attribute) /\ Len(e) = 0
    BY <2>0
  <2>2. OfType(typ, e) = e
    BY <2>1, OfTypeFolds
  <2>3. ASSUME NEW k \in Nat, NEW f, Picks(f, typ, e, k)  PROVE k = 0
    <3>1. 1..0 = {} /\ (k # 0 => 1 \in 1..k)
      OBVIOUS
    <3> QED  BY <2>1, <2>3, <3>1 DEF Picks
  <2>4. ASSUME NEW k \in Nat, NEW f, Picks(f, typ, e, k)  PROVE Taken(e, k, f)
    <3>1. k = 0 /\ 1..0 = {}
      BY <2>3, <2>4
    <3> QED  BY <2>1, <2>2, <3>1
  <2> HIDE DEF Taken
  <2> QED  BY <2>1, <2>4
<1>2. ASSUME NEW u \in Seq(Attribute), NEW a \in Attribute, u \in T  PROVE Append(u, a) \in T
  <2>1. PICK v, n : v = Append(u, a) /\ n = Len(u)
    OBVIOUS
  <2>2. n \in Nat /\ v \in Seq(Attribute) /\ Len(v) = n + 1 /\ v[n + 1] = a /\ \A x \in 1..n : v[x] = u[x]
    BY <2>1
  <2>3. OfType(typ, v) = IF a.typ = typ THEN Append(OfType(typ, u), a) ELSE OfType(typ, u)
    BY <2>1, OfTypeFolds
  <2>4. ASSUME NEW k \in Nat, NEW f, Picks(f, typ, v, k)  PROVE Taken(v, k, f)
    <3>1. /\ f \in [1..k -> 1..(n + 1)] /\ \A s, t \in 1..k : s < t => f[s] < f[t]
          /\ \A x \in 1..(n + 1) : v[x].typ = typ <=> \E t \in 1..k : f[t] = x
      BY <2>2, <2>4 DEF Picks
    <3>2. n + 1 \in 1..(n + 1) /\ \A x \in 1..n : x \in 1..(n + 1)
      BY <2>2
    <3>3. CASE a.typ = typ
      <4>1. PICK t \in 1..k : f[t] = n + 1
        BY <2>2, <3>1, <3>2, <3>3
      <4>2. t = k
        <5>1. k \in 1..k /\ (t # k => t < k)
          BY <4>1
        <5>2. t < k => f[t] < f[k]
          BY <3>1, <4>1, <5>1
        <5>3. f[k] \in 1..(n + 1)
          BY <3>1, <5>1
        <5> QED  BY <2>2, <4>1, <5>1, <5>2, <5>3
      <4>3. PICK m : m = k - 1 /\ m \in Nat /\ k = m + 1
        BY <4>1
      <4> DEFINE r == [s \in 1..m |-> f[s]]
      <4>4. \A s \in 1..m : s \in 1..k /\ r[s] = f[s] /\ f[s] \in 1..n
        <5>1. ASSUME NEW s \in 1..m  PROVE s \in 1..k /\ f[s] \in 1..n
          <6>1. s \in 1..k /\ k \in 1..k /\ s < k
            BY <4>3
          <6>2. f[s] \in 1..(n + 1) /\ f[s] < n + 1
            BY <3>1, <4>1, <4>2, <6>1
          <6> QED  BY <2>2, <6>1, <6>2
        <5> QED  BY <5>1
      <4>5. r \in [1..m -> 1..n]
        BY <4>4
      <4> HIDE DEF r
      <4>6. Picks(r, typ, u, m)
        <5>1. \A s, q \in 1..m : s < q => r[s] < r[q]
          BY <3>1, <4>4
        <5>2. ASSUME NEW x \in 1..n  PROVE u[x].typ = typ <=> \E s \in 1..m : r[s] = x
          <6>1. u[x].typ = typ <=> \E s \in 1..k : f[s] = x
            BY <2>2, <3>1, <3>2
          <6>2. \A s \in 1..k : s \in 1..m \/ s = k
            BY <4>3
          <6>3. f[k] # x
            BY <2>2, <4>1, <4>2
          <6> QED  BY <4>4, <6>1, <6>2, <6>3
        <5> QED  BY <2>1, <4>5, <5>1, <5>2 DEF Picks
      <4>7. Taken(u, m, r)
        BY <1>2, <4>3, <4>6
      <4>8. PICK o : o = OfType(typ, u) /\ OfType(typ, v) = Append(o, a)
        BY <2>3, <3>3
      <4>9. o \in Seq(Attribute) /\ Len(o) = m /\ \A s \in 1..m : o[s] = u[r[s]]
        BY <4>7, <4>8
      <4>10. /\ Append(o, a) \in Seq(Attribute) /\ Len(Append(o, a)) = k
             /\ Append(o, a)[k] = a /\ \A s \in 1..m : Append(o, a)[s] = o[s]
        BY <4>3, <4>9
      <4>11. \A s \in 1..k : Append(o, a)[s] = v[f[s]]
        <5>1. \A s \in 1..m : Append(o, a)[s] = v[f[s]]
          BY <2>2, <4>4, <4>9, <4>10
        <5>2. Append(o, a)[k] = v[f[k]]
          BY <2>2, <4>1, <4>2, <4>10
        <5>3. \A s \in 1..k : s \in 1..m \/ s = k
          BY <4>3
        <5> QED  BY <5>1, <5>2, <5>3
      <4> QED  BY <4>8, <4>10, <4>11
    <3>4. CASE a.typ # typ
      <4>1. \A t \in 1..k : f[t] \in 1..n
        <5>1. \A t \in 1..k : f[t] # n + 1
          BY <2>2, <3>1, <3>2, <3>4
        <5>2. \A t \in 1..k : f[t] \in 1..(n + 1)
          BY <3>1
        <5> QED  BY <2>2, <5>1, <5>2
      <4>2. f \in [1..k -> 1..n]
        BY <3>1, <4>1
      <4>3. Picks(f, typ, u, k)
        BY <2>1, <2>2, <3>1, <3>2, <4>2 DEF Picks
      <4>4. Taken(u, k, f)
        BY <1>2, <4>3
      <4>5. OfType(typ, v) = OfType(typ, u)
        BY <2>3, <3>4
      <4> QED  BY <2>2, <4>1, <4>4, <4>5
    <3> QED  BY <3>3, <3>4
  <2> HIDE DEF Taken
  <2> QED  BY <2>1, <2>2, <2>4
<1>3. \A u \in Seq(Attribute) : u \in T
  <2> HIDE DEF T
  <2> QED  BY <1>1, <1>2, EverySeq
<1>4. Taken(es, K, g)
  <2>1. es \in T
    BY <1>3
  <2> HIDE DEF Taken
  <2> QED  BY <2>1
<1> QED  BY <1>4

(* What a request with a range looks at. *)
LEMMA SubrangeIs ==
  ASSUME NEW d \in Seq(Attribute), NEW start1 \in Nat, start1 >= 1, NEW end \in Nat
  PROVE  \E e \in Nat :
           /\ e = IF end < Len(d) THEN end ELSE Len(d)
           /\ subrange(d, start1, end) \in Seq(Attribute)
           /\ Len(subrange(d, start1, end)) = IF start1 <= e THEN e - start1 + 1 ELSE 0
           /\ \A x \in 1..Len(subrange(d, start1, end)) :
                /\ start1 + x - 1 \in 1..Len(d) /\ start1 + x - 1 \in start1..end
                /\ subrange(d, start1, end)[x] = d[start1 + x - 1]
<1>1. PICK e, l : e = (IF end < Len(d) THEN end ELSE Len(d)) /\ l = Len(d)
  OBVIOUS
<1>2. e \in Nat /\ l \in Nat /\ e <= l /\ e <= end
  BY <1>1
<1>3. PICK s : s = SubSeq(d, start1, e)
  OBVIOUS
<1>4. subrange(d, start1, end) = s
  <2>1. (IF start1 = 0 THEN 1 ELSE start1) = start1
    OBVIOUS
  <2> QED  BY <1>1, <1>3, <2>1, Zenon DEF subrange
<1>5. CASE start1 <= e
  <2>1. /\ s \in Seq(Attribute) /\ Len(s) = e - start1 + 1
        /\ \A x \in 1..(e - start1 + 1) : s[x] = d[start1 + x - 1]
    <3>1. start1 \in 1..Len(d) /\ e \in Nat /\ e <= Len(d) /\ start1 \in Nat
      BY <1>1, <1>2, <1>5
    <3> QED  BY <1>3, <1>5, <3>1
  <2>2. \A x \in 1..Len(s) : start1 + x - 1 \in 1..l /\ start1 + x - 1 \in start1..end
    BY <1>2, <1>5, <2>1
  <2> QED  BY <1>1, <1>2, <1>4, <1>5, <2>1, <2>2
<1>6. CASE ~(start1 <= e)
  <2>1. s = <<>> /\ s \in Seq(Attribute) /\ Len(s) = 0 /\ 1..0 = {}
    BY <1>2, <1>3, <1>6
  <2> QED  BY <1>1, <1>2, <1>4, <1>6, <2>1
<1> QED  BY <1>5, <1>6

(* p says where the attributes of a type in a range are. *)
PlacesOf(p, typ, d, start1, end, K) ==
  /\ p \in [1..K -> Nat] /\ \A s, t \in 1..K : s < t => p[s] < p[t]
  /\ \A t \in 1..K : p[t] \in 1..Len(d) /\ p[t] \in start1..end /\ d[p[t]].typ = typ
  /\ \A x \in 1..Len(d) : x \in start1..end /\ d[x].typ = typ => \E t \in 1..K : p[t] = x

(* A list that holds the attributes at these places. *)
Listed(es, d, p, K) == es \in Seq(Attribute) /\ Len(es) = K /\ \A t \in 1..K : es[t] = d[p[t]]

(* What a request finds there. *)
LEMMA PageIs ==
  ASSUME NEW typ, NEW d \in Seq(Attribute), NEW start1 \in Nat, start1 >= 1, NEW end \in Nat,
         NEW K \in Nat, NEW p, PlacesOf(p, typ, d, start1, end, K)
  PROVE  Listed(OfType(typ, subrange(d, start1, end)), d, p, K)
<1>1. PICK es, l : es = subrange(d, start1, end) /\ l = Len(d)
  OBVIOUS
<1>2. PICK e \in Nat :
        /\ e = IF end < Len(d) THEN end ELSE Len(d)
        /\ es \in Seq(Attribute)
        /\ Len(es) = IF start1 <= e THEN e - start1 + 1 ELSE 0
        /\ \A x \in 1..Len(es) : /\ start1 + x - 1 \in 1..Len(d) /\ start1 + x - 1 \in start1..end
                                 /\ es[x] = d[start1 + x - 1]
  <2>1. \E e \in Nat :
        /\ e = IF end < Len(d) THEN end ELSE Len(d)
        /\ subrange(d, start1, end) \in Seq(Attribute)
        /\ Len(subrange(d, start1, end)) = IF start1 <= e THEN e - start1 + 1 ELSE 0
        /\ \A x \in 1..Len(subrange(d, start1, end)) :
             /\ start1 + x - 1 \in 1..Len(d) /\ start1 + x - 1 \in start1..end
             /\ subrange(d, start1, end)[x] = d[start1 + x - 1]
    BY SubrangeIs
  <2> QED  BY <1>1, <2>1
<1>3. l \in Nat /\ e <= l /\ e <= end
  BY <1>1, <1>2
<1>p. \A t \in 1..K : p[t] \in Nat /\ p[t] >= start1 /\ p[t] <= end /\ p[t] <= l
  <2>1. \A t \in 1..K : p[t] \in 1..l /\ p[t] \in start1..end
    BY <1>1 DEF PlacesOf
  <2> QED  BY <1>3, <2>1
<1> DEFINE g == [t \in 1..K |-> p[t] - start1 + 1]
<1>4. \A t \in 1..K : g[t] \in 1..Len(es) /\ g[t] = p[t] - start1 + 1 /\ start1 + g[t] - 1 = p[t]
  <2> SUFFICES ASSUME NEW t \in 1..K
               PROVE  g[t] \in 1..Len(es) /\ g[t] = p[t] - start1 + 1 /\ start1 + g[t] - 1 = p[t]
    OBVIOUS
  <2>1. p[t] \in Nat /\ p[t] >= start1 /\ p[t] <= end /\ p[t] <= l
    BY <1>p
  <2>2. p[t] <= e /\ start1 <= e
    BY <1>1, <1>2, <1>3, <2>1
  <2>3. Len(es) = e - start1 + 1
    BY <1>2, <2>2
  <2>4. p[t] - start1 + 1 \in 1..Len(es) /\ start1 + (p[t] - start1 + 1) - 1 = p[t]
    BY <2>1, <2>2, <2>3, SMTT(30)
  <2> QED  BY <2>4
<1>5. g \in [1..K -> 1..Len(es)]
  BY <1>4
<1> HIDE DEF g
<1>6. \A s, t \in 1..K : s < t => g[s] < g[t]
  <2> SUFFICES ASSUME NEW s \in 1..K, NEW t \in 1..K, s < t  PROVE g[s] < g[t]
    OBVIOUS
  <2>1. p[s] \in Nat /\ p[t] \in Nat /\ p[s] < p[t]
    BY <1>p DEF PlacesOf
  <2>2. g[s] = p[s] - start1 + 1 /\ g[t] = p[t] - start1 + 1
    BY <1>4
  <2> QED  BY <2>1, <2>2
<1>7. ASSUME NEW x \in 1..Len(es)  PROVE es[x].typ = typ <=> \E t \in 1..K : g[t] = x
  <2>1. PICK y : y = start1 + x - 1
    OBVIOUS
  <2>2. y \in 1..Len(d) /\ y \in start1..end /\ es[x] = d[y] /\ x \in Nat
    <3>1. Len(es) \in Nat
      BY <1>2
    <3> QED  BY <1>2, <1>7, <2>1, <3>1
  <2>3. ASSUME NEW t \in 1..K  PROVE g[t] = x <=> p[t] = y
    <3>1. p[t] \in Nat /\ g[t] = p[t] - start1 + 1
      BY <1>p, <1>4
    <3> QED  BY <2>1, <2>2, <3>1, SMTT(30)
  <2>4. (\E t \in 1..K : g[t] = x) <=> (\E t \in 1..K : p[t] = y)
    BY <2>3
  <2>5. d[y].typ = typ <=> \E t \in 1..K : p[t] = y
    BY <2>2 DEF PlacesOf
  <2> QED  BY <2>2, <2>4, <2>5
<1>8. Picks(g, typ, es, K)
  BY <1>5, <1>6, <1>7 DEF Picks
<1>9. /\ OfType(typ, es) \in Seq(Attribute) /\ Len(OfType(typ, es)) = K
      /\ \A t \in 1..K : OfType(typ, es)[t] = es[g[t]]
  <2>1. es \in Seq(Attribute)
    BY <1>2
  <2> QED  BY <1>8, <2>1, OfTypeIs
<1>10. \A t \in 1..K : es[g[t]] = d[p[t]]
  BY <1>2, <1>4
<1> QED  BY <1>1, <1>9, <1>10 DEF Listed

(* The first entry fits. *)
FirstFits(n, mtu) == n[1] \in Nat /\ n[1] <= mtu

(* A response holds at least one entry when the first one fits. *)
LEMMA FitIs ==
  ASSUME NEW S, NEW es \in Seq(S), Len(es) >= 1, NEW n, NEW mtu \in Int, FirstFits(n, mtu)
  PROVE  \E k \in 1..Len(es) : /\ Fit(es, n, mtu) \in Seq(S) /\ Len(Fit(es, n, mtu)) = k
                               /\ \A x \in 1..k : Fit(es, n, mtu)[x] = es[x]
<1> DEFINE same == {k \in 0..Len(es) : \A i \in 1..k : n[i] = n[1] /\ k * n[1] <= mtu}
           L == Len(es)
           T == {d \in Nat : L - d \in same}
           max == CHOOSE k \in same : \A j \in same : j <= k
<1>1. L \in Nat /\ L >= 1
  OBVIOUS
<1>2. 1 \in same
  <2>1. 1 \in 0..Len(es) /\ \A i \in 1..1 : i = 1
    BY <1>1
  <2>2. 1 * n[1] = n[1] /\ n[1] <= mtu
    BY DEF FirstFits
  <2>3. \A i \in 1..1 : n[i] = n[1] /\ 1 * n[1] <= mtu
    BY <2>1, <2>2
  <2> QED  BY <2>1, <2>3
<1>3. \A k \in same : k \in 0..L
  OBVIOUS
<1>4. Fit(es, n, mtu) = SubSeq(es, 1, max)
  BY DEF Fit
<1> HIDE DEF same
<1>5. T \in SUBSET Nat /\ L - 1 \in T
  <2>1. L - 1 \in Nat /\ L - (L - 1) = 1
    BY <1>1
  <2> QED  BY <1>2, <2>1
<1> HIDE DEF L
<1>6. PICK d \in T : \A e \in T : d <= e
  <2> HIDE DEF T
  <2> QED  BY <1>5, LeastNat
<1>7. L - d \in same /\ \A j \in same : j <= L - d
  <2>1. d \in Nat /\ L - d \in same
    BY <1>6
  <2>2. ASSUME NEW j \in same  PROVE j <= L - d
    <3>1. j \in 0..L
      BY <1>3
    <3>2. L - j \in Nat /\ L - (L - j) = j
      BY <1>1, <3>1
    <3>3. L - j \in T
      BY <2>2, <3>2
    <3>4. d <= L - j
      BY <1>6, <3>3
    <3> QED  BY <1>1, <2>1, <3>1, <3>4
  <2> QED  BY <2>1, <2>2
<1>8. max \in same /\ \A j \in same : j <= max
  BY <1>7
<1> HIDE DEF max, T
<1>9. max \in 1..L
  BY <1>1, <1>2, <1>3, <1>8
<1>10. /\ SubSeq(es, 1, max) \in Seq(S) /\ Len(SubSeq(es, 1, max)) = max
       /\ \A x \in 1..max : SubSeq(es, 1, max)[x] = es[x]
  <2>1. max \in 1..Len(es)
    BY <1>9 DEF L
  <2> QED  BY <2>1
<1> QED  BY <1>4, <1>9, <1>10 DEF L

-----------------------------------------------------------------------------
(* A database that is laid out as its services say, within the handles. *)
Laid(d, o) ==
  /\ o \in Seq(Service) /\ SvcsHold(d, o, [i \in 1..Len(o) |-> SvcEnd(o, i)])
  /\ Len(d) <= HMax

(* The end of a service: the last handle for the last one, and before the  *)
(* next service for the others.                                            *)
LEMMA SvcEndIs ==
  ASSUME NEW d, NEW o, Laid(d, o), NEW i \in 1..Len(o)
  PROVE  /\ SvcStart(o, i + 1) \in Nat /\ SvcStart(o, i + 1) - 1 <= Len(d) /\ Len(d) \in Nat
         /\ SvcEnd(o, i) \in Nat /\ SvcEnd(o, i) >= SvcStart(o, i + 1) - 1
         /\ i = Len(o) => SvcEnd(o, i) = HMax
         /\ i # Len(o) => /\ SvcEnd(o, i) = SvcStart(o, i + 1) - 1 /\ SvcEnd(o, i) < HMax
                          /\ SvcStart(o, i + 1) <= HMax
         /\ i # Len(o) => SvcEnd(o, i) = SvcStart(o, i + 1) - 1
<1>1. PICK n, l : n = Len(o) /\ l = Len(d)
  OBVIOUS
<1>2. /\ o \in Seq(Service) /\ n \in Nat /\ l \in Nat /\ HMax \in Nat /\ l <= HMax
      /\ l = SvcStart(o, n + 1) - 1
  BY <1>1, HMaxAssumption DEF Laid, SvcsHold
<1>3. /\ \A k \in 1..(n + 1) : SvcStart(o, k) \in Nat /\ SvcStart(o, k) >= 1
      /\ \A k, m \in 1..(n + 1) : k < m => SvcStart(o, k) < SvcStart(o, m)
  BY <1>1, <1>2, StartsAre, StartsGrow
<1>4. i + 1 \in 1..(n + 1) /\ n + 1 \in 1..(n + 1)
  BY <1>1, <1>2
<1>5. CASE i = n
  <2>1. SvcEnd(o, i) = HMax /\ i + 1 = n + 1
    BY <1>1, <1>5 DEF SvcEnd
  <2>2. SvcStart(o, n + 1) \in Nat
    BY <1>3, <1>4
  <2> QED  BY <1>1, <1>2, <1>5, <2>1, <2>2
<1>6. CASE i # n
  <2>1. i + 1 < n + 1 /\ SvcEnd(o, i) = SvcStart(o, i + 1) - 1
    BY <1>1, <1>2, <1>6 DEF SvcEnd
  <2>2. /\ SvcStart(o, i + 1) < SvcStart(o, n + 1) /\ SvcStart(o, i + 1) \in Nat
        /\ SvcStart(o, n + 1) \in Nat /\ SvcStart(o, i + 1) >= 1
    BY <1>3, <1>4, <2>1
  <2> QED  BY <1>1, <1>2, <1>6, <2>1, <2>2
<1> QED  BY <1>5, <1>6

(* A service with a handle in the range of another one is that one. *)
LEMMA SvcApart ==
  ASSUME NEW o \in Seq(Service), NEW i \in 1..Len(o), NEW k \in 1..Len(o), NEW x \in Nat,
         SvcStart(o, k) <= x, x < SvcStart(o, k + 1), SvcStart(o, i) <= x,
         i # Len(o) => x < SvcStart(o, i + 1)
  PROVE  k = i
<1>1. PICK n : n = Len(o) /\ n \in Nat
  OBVIOUS
<1>2. /\ \A a \in 1..(n + 1) : SvcStart(o, a) \in Nat
      /\ \A a, b \in 1..(n + 1) : a < b => SvcStart(o, a) < SvcStart(o, b)
  BY <1>1, StartsAre, StartsGrow
<1>3. {i, k, i + 1, k + 1} \subseteq 1..(n + 1) /\ i <= n /\ k <= n
  BY <1>1
<1>4. CASE k < i
  <2>1. k + 1 = i \/ k + 1 < i
    BY <1>4
  <2>2. SvcStart(o, k + 1) <= SvcStart(o, i)
    BY <1>2, <1>3, <2>1
  <2> QED  BY <1>2, <1>3, <2>2
<1>5. CASE i < k
  <2>1. (i + 1 = k \/ i + 1 < k) /\ i # n
    BY <1>1, <1>5
  <2>2. SvcStart(o, i + 1) <= SvcStart(o, k) /\ x < SvcStart(o, i + 1)
    BY <1>1, <1>2, <1>3, <2>1
  <2> QED  BY <1>2, <1>3, <2>2
<1> QED  BY <1>4, <1>5

(* The services that follow the k-th one. *)
LEMMA SvcPlaces ==
  ASSUME NEW d, NEW o, Laid(d, o), NEW k \in 0..Len(o)
  PROVE  PlacesOf([t \in 1..(Len(o) - k) |-> SvcStart(o, k + t)], "svc", d, SvcStart(o, k + 1), HMax, Len(o) - k)
<1>1. PICK n, K, h, p : /\ n = Len(o) /\ K = Len(o) - k /\ h = SvcStart(o, k + 1)
                        /\ p = [t \in 1..(Len(o) - k) |-> SvcStart(o, k + t)]
  OBVIOUS
<1>2. o \in Seq(Service) /\ n \in Nat /\ K \in Nat /\ K = n - k /\ HMax \in Nat /\ Len(d) <= HMax
  BY <1>1, HMaxAssumption DEF Laid
<1>3. SvcsHold(d, o, [i \in 1..Len(o) |-> SvcEnd(o, i)])
  BY DEF Laid
<1>4. /\ \A a \in 1..(n + 1) : SvcStart(o, a) \in Nat
      /\ \A a, b \in 1..(n + 1) : a < b => SvcStart(o, a) < SvcStart(o, b)
  BY <1>1, <1>2, StartsAre, StartsGrow
<1>5. \A a \in 1..n : SvcStart(o, a) \in 1..Len(d)
  BY <1>1, <1>3 DEF SvcsHold
<1>6. Len(d) \in Nat
  BY <1>3 DEF SvcsHold
<1>7. \A x \in 1..Len(d) : d[x].typ = "svc" <=> \E i \in 1..n : x = SvcStart(o, i)
  BY <1>1, <1>2, <1>3, Declarations
<1>8. \A t \in 1..K : p[t] = SvcStart(o, k + t) /\ k + t \in 1..n /\ k + t \in 1..(n + 1)
  BY <1>1, <1>2
<1>9. p \in [1..K -> Nat]
  <2>1. \A t \in 1..K : SvcStart(o, k + t) \in Nat
    BY <1>4, <1>8
  <2> QED  BY <1>1, <2>1
<1>10. ASSUME NEW s \in 1..K, NEW t \in 1..K, s < t  PROVE p[s] < p[t]
  <2>1. k + s < k + t
    BY <1>2, <1>10
  <2> QED  BY <1>4, <1>8, <2>1
<1>11. ASSUME NEW t \in 1..K  PROVE p[t] \in 1..Len(d) /\ p[t] \in h..HMax /\ d[p[t]].typ = "svc"
  <2>1. p[t] \in 1..Len(d) /\ d[p[t]].typ = "svc"
    BY <1>5, <1>7, <1>8
  <2>2. k + 1 \in 1..(n + 1) /\ (k + 1 = k + t \/ k + 1 < k + t)
    BY <1>2
  <2>3. h \in Nat /\ h <= p[t]
    <3>1. h \in Nat /\ p[t] \in Nat
      BY <1>1, <1>4, <1>9, <2>2
    <3>2. k + 1 < k + t => h < p[t]
      BY <1>1, <1>4, <1>8, <2>2
    <3>3. k + 1 = k + t => h = p[t]
      BY <1>1, <1>8
    <3> QED  BY <2>2, <3>1, <3>2, <3>3
  <2> QED  BY <1>2, <1>6, <2>1, <2>3
<1>12. ASSUME NEW x \in 1..Len(d), x \in h..HMax, d[x].typ = "svc"  PROVE \E t \in 1..K : p[t] = x
  <2>1. PICK i \in 1..n : x = SvcStart(o, i)
    BY <1>7, <1>12
  <2>2. i \in 1..(n + 1) /\ k + 1 \in 1..(n + 1) /\ h \in Nat /\ h <= x
    BY <1>1, <1>2, <1>4, <1>12
  <2>3. i >= k + 1
    <3>1. i < k + 1 => SvcStart(o, i) < h
      BY <1>1, <1>4, <2>2
    <3> QED  BY <1>4, <2>1, <2>2, <3>1
  <2>4. i - k \in 1..K /\ k + (i - k) = i
    BY <1>2, <2>1, <2>3
  <2> QED  BY <1>8, <2>1, <2>4
<1>13. PlacesOf(p, "svc", d, h, HMax, K)
  BY <1>9, <1>10, <1>11, <1>12 DEF PlacesOf
<1> QED  BY <1>1, <1>13

(* The characteristics of the i-th service that follow its k-th one. *)
LEMMA CharPlaces ==
  ASSUME NEW d, NEW o, Laid(d, o), NEW i \in 1..Len(o), NEW k \in 0..Len(o[i].chars), NEW h \in Nat,
         SvcStart(o, i) <= h, k # 0 => CharStart(o, i, k) < h, h <= CharStart(o, i, k + 1)
  PROVE  PlacesOf([t \in 1..(Len(o[i].chars) - k) |-> CharStart(o, i, k + t)], "char", d, h, SvcEnd(o, i),
                  Len(o[i].chars) - k)
<1>1. PICK n, m, K, p : /\ n = Len(o) /\ m = Len(o[i].chars) /\ K = Len(o[i].chars) - k
                        /\ p = [t \in 1..(Len(o[i].chars) - k) |-> CharStart(o, i, k + t)]
  OBVIOUS
<1>2. o \in Seq(Service) /\ n \in Nat
  BY <1>1 DEF Laid
<1>3. SvcsHold(d, o, [a \in 1..Len(o) |-> SvcEnd(o, a)])
  BY DEF Laid
<1>4. /\ m \in Nat
      /\ \A j \in 1..m : CharSize(o[i].chars[j]) >= 2 /\ CharSize(o[i].chars[j]) \in Nat
      /\ CharStart(o, i, 1) = SvcStart(o, i) + 1 /\ CharStart(o, i, m + 1) = SvcStart(o, i + 1)
      /\ \A j \in 1..(m + 1) : CharStart(o, i, j) \in Nat
      /\ \A j, l \in 1..(m + 1) : j < l => CharStart(o, i, j) + 2 <= CharStart(o, i, l)
  BY <1>1, <1>2, CharStartsAre
<1>5. K \in Nat /\ K = m - k
  BY <1>1, <1>4
<1>6. Len(d) \in Nat
  BY <1>3 DEF SvcsHold
<1>7. \A x \in 1..Len(d) :
        d[x].typ = "char" <=> \E a \in 1..n : \E j \in 1..Len(o[a].chars) : x = CharStart(o, a, j)
  BY <1>1, <1>2, <1>3, Declarations
<1>8. \A t \in 1..K : p[t] = CharStart(o, i, k + t) /\ k + t \in 1..m /\ k + t \in 1..(m + 1)
  BY <1>1, <1>4, <1>5
<1>9. p \in [1..K -> Nat]
  <2>1. \A t \in 1..K : CharStart(o, i, k + t) \in Nat
    BY <1>4, <1>8
  <2> QED  BY <1>1, <2>1
<1>10. ASSUME NEW s \in 1..K, NEW t \in 1..K, s < t  PROVE p[s] < p[t]
  <2>1. k + s < k + t
    BY <1>5, <1>10
  <2>2. p[s] + 2 <= p[t] /\ p[s] \in Nat /\ p[t] \in Nat
    BY <1>4, <1>8, <1>9, <2>1
  <2> QED  BY <2>2
<1>e. /\ SvcEnd(o, i) \in Nat /\ SvcEnd(o, i) >= SvcStart(o, i + 1) - 1 /\ SvcStart(o, i + 1) \in Nat
      /\ i # n => SvcEnd(o, i) = SvcStart(o, i + 1) - 1
  BY <1>1, SvcEndIs
<1>11. ASSUME NEW t \in 1..K  PROVE p[t] \in 1..Len(d) /\ p[t] \in h..SvcEnd(o, i) /\ d[p[t]].typ = "char"
  <2>1. p[t] \in 1..Len(d)
    <3>0. k + t \in 1..m
      BY <1>8
    <3>4. CharSize(o[i].chars[k + t]) >= 2 /\ CharSize(o[i].chars[k + t]) \in Nat
      BY <1>4, <3>0
    <3>5. 1 \in 1..CharSize(o[i].chars[k + t])
      BY <3>4
    <3>1. k + t \in 1..Len(o[i].chars) /\ 1 \in 1..CharSize(o[i].chars[k + t])
      BY <1>1, <3>0, <3>5
    <3>2. CharStart(o, i, k + t) + 1 - 1 \in 1..Len(d)
      BY <1>3, <3>1 DEF SvcsHold
    <3>3. CharStart(o, i, k + t) \in Nat
      BY <1>4, <1>8
    <3> QED  BY <1>8, <3>2, <3>3
  <2>2. d[p[t]].typ = "char"
    BY <1>1, <1>7, <1>8, <2>1
  <2>3. k + 1 \in 1..(m + 1) /\ (k + 1 = k + t \/ k + 1 < k + t)
    BY <1>4, <1>5
  <2>4. CharStart(o, i, k + 1) <= p[t]
    <3>1. CharStart(o, i, k + 1) \in Nat /\ p[t] \in Nat
      BY <1>4, <1>9, <2>3
    <3>2. k + 1 < k + t => CharStart(o, i, k + 1) + 2 <= p[t]
      BY <1>4, <1>8, <2>3
    <3> QED  BY <1>8, <2>3, <3>1, <3>2
  <2>5. p[t] + 2 <= SvcStart(o, i + 1)
    <3>0. m \in Nat /\ k + t \in 1..m
      BY <1>4, <1>8
    <3>1. k + t < m + 1 /\ m + 1 \in 1..(m + 1)
      BY <3>0
    <3> QED  BY <1>4, <1>8, <3>1
  <2>6. p[t] \in Nat /\ CharStart(o, i, k + 1) \in Nat
    BY <1>4, <1>9, <2>3
  <2>7. p[t] <= SvcEnd(o, i) /\ h <= p[t]
    BY <1>e, <2>4, <2>5, <2>6
  <2>8. p[t] \in h..SvcEnd(o, i)
    BY <1>e, <2>6, <2>7
  <2> QED  BY <2>1, <2>2, <2>8
<1>12. ASSUME NEW x \in 1..Len(d), x \in h..SvcEnd(o, i), d[x].typ = "char"  PROVE \E t \in 1..K : p[t] = x
  <2>1. PICK a \in 1..n : \E j \in 1..Len(o[a].chars) : x = CharStart(o, a, j)
    BY <1>7, <1>12
  <2>2. PICK j \in 1..Len(o[a].chars) : x = CharStart(o, a, j)
    BY <2>1
  <2>x. x \in Nat /\ h <= x /\ x <= SvcEnd(o, i)
    BY <1>e, <1>12
  <2>3. a = i
    <3>0. PICK q : q = Len(o[a].chars)
      OBVIOUS
    <3>1. /\ q \in Nat
          /\ CharStart(o, a, 1) = SvcStart(o, a) + 1 /\ CharStart(o, a, q + 1) = SvcStart(o, a + 1)
          /\ \A l \in 1..(q + 1) : CharStart(o, a, l) \in Nat
          /\ \A l, r \in 1..(q + 1) : l < r => CharStart(o, a, l) + 2 <= CharStart(o, a, r)
      BY <1>1, <1>2, <3>0, CharStartsAre
    <3>2. j \in 1..q /\ 1 \in 1..(q + 1) /\ j \in 1..(q + 1) /\ q + 1 \in 1..(q + 1) /\ j < q + 1 /\ (j = 1 \/ 1 < j)
      BY <2>2, <3>0, <3>1, SMTT(30)
    <3>3. x + 2 <= SvcStart(o, a + 1) /\ SvcStart(o, a + 1) \in Nat
      BY <2>2, <3>1, <3>2
    <3>4. CharStart(o, a, 1) <= x
      <4>1. CharStart(o, a, 1) \in Nat /\ (1 < j => CharStart(o, a, 1) + 2 <= x)
        BY <2>2, <3>1, <3>2
      <4> QED  BY <2>2, <2>x, <3>2, <4>1
    <3>5. SvcStart(o, a) \in Nat /\ SvcStart(o, i) \in Nat
      <4>1. a \in 1..(n + 1) /\ i \in 1..(n + 1)
        BY <1>1, <1>2
      <4> QED  BY <1>1, <1>2, <4>1, StartsAre
    <3>6. SvcStart(o, a) <= x /\ x < SvcStart(o, a + 1) /\ SvcStart(o, i) <= x
      BY <2>x, <3>1, <3>3, <3>4, <3>5, SMTT(30)
    <3>7. i # n => x < SvcStart(o, i + 1)
      BY <1>e, <2>x
    <3> QED  BY <1>1, <1>2, <2>1, <2>x, <3>6, <3>7, SvcApart
  <2>4. j \in 1..m /\ j \in 1..(m + 1) /\ x = CharStart(o, i, j)
    BY <1>1, <1>4, <2>2, <2>3
  <2>5. j > k
    <3>1. CASE j <= k
      <4>0. m \in Nat /\ k \in 0..m /\ j \in 1..m /\ j <= k
        BY <1>1, <1>4, <2>4, <3>1
      <4>1. k # 0 /\ k \in 1..(m + 1) /\ (j = k \/ j < k)
        BY <4>0
      <4>2. CharStart(o, i, k) \in Nat /\ (j < k => x + 2 <= CharStart(o, i, k))
        BY <1>4, <2>4, <4>1
      <4>3. x <= CharStart(o, i, k) /\ CharStart(o, i, k) < h
        BY <2>x, <2>4, <4>1, <4>2
      <4> QED  BY <2>x, <4>2, <4>3
    <3> QED  BY <1>4, <2>4, <3>1
  <2>6. j - k \in 1..K /\ k + (j - k) = j
    BY <1>4, <1>5, <2>4, <2>5
  <2> QED  BY <1>8, <2>4, <2>6
<1>13. PlacesOf(p, "char", d, h, SvcEnd(o, i), K)
  BY <1>9, <1>10, <1>11, <1>12 DEF PlacesOf
<1> QED  BY <1>1, <1>13

-----------------------------------------------------------------------------
(* Attributes that are in the database, at their handles. *)
RealAttrs(d) == {e \in Attribute : e.h \in 1..Len(d) /\ e = d[e.h]}
RealOf(d, typ) == {e \in RealAttrs(d) : e.typ = typ}

(* OfType keeps what is in a set in that set. *)
LEMMA Sifted ==
  ASSUME NEW typ, NEW S \in SUBSET Attribute, NEW es \in Seq(S)
  PROVE  OfType(typ, es) \in Seq({e \in S : e.typ = typ})
<1> DEFINE R == {e \in S : e.typ = typ}
           T == {u \in Seq(S) : OfType(typ, u) \in Seq(R)}
<1>0. \A u \in Seq(S) : u \in Seq(Attribute)
  OBVIOUS
<1>1. <<>> \in T
  <2>1. <<>> \in Seq(Attribute) /\ <<>> \in Seq(S) /\ <<>> \in Seq(R)
    OBVIOUS
  <2>2. OfType(typ, <<>>) = <<>>
    BY <2>1, OfTypeFolds
  <2> QED  BY <2>1, <2>2
<1>2. ASSUME NEW u \in Seq(S), NEW a \in S, u \in T  PROVE Append(u, a) \in T
  <2>1. u \in Seq(Attribute) /\ a \in Attribute /\ OfType(typ, u) \in Seq(R)
    BY <1>0, <1>2
  <2>2. OfType(typ, Append(u, a)) = IF a.typ = typ THEN Append(OfType(typ, u), a) ELSE OfType(typ, u)
    BY <2>1, OfTypeFolds
  <2>3. Append(u, a) \in Seq(S)
    OBVIOUS
  <2>4. a.typ = typ => a \in R
    OBVIOUS
  <2>5. OfType(typ, Append(u, a)) \in Seq(R)
    <3> HIDE DEF R
    <3> QED  BY <2>1, <2>2, <2>4
  <2> QED  BY <2>3, <2>5
<1>3. \A u \in Seq(S) : u \in T
  <2> HIDE DEF T
  <2> QED  BY <1>1, <1>2, EverySeq
<1> QED  BY <1>3

(* What a request with a range looks at is in the database. *)
LEMMA RangeIsReal ==
  ASSUME NEW d, NEW o, Laid(d, o), NEW start1 \in Nat, start1 >= 1, NEW end \in Nat
  PROVE  subrange(d, start1, end) \in Seq(RealAttrs(d))
<1>1. /\ o \in Seq(Service) /\ d \in Seq(Attribute)
      /\ SvcsHold(d, o, [i \in 1..Len(o) |-> SvcEnd(o, i)])
  BY DEF Laid, SvcsHold
<1>2. PICK es : es = subrange(d, start1, end)
  OBVIOUS
<1>3. es \in Seq(Attribute) /\ \A x \in 1..Len(es) : /\ start1 + x - 1 \in 1..Len(d)
                                                     /\ es[x] = d[start1 + x - 1]
  BY <1>1, <1>2, SubrangeIs
<1>4. \A y \in 1..Len(d) : d[y].h = y
  BY <1>1, Declarations
<1>5. \A x \in 1..Len(es) : es[x] \in RealAttrs(d)
  BY <1>1, <1>3, <1>4 DEF RealAttrs
<1> QED  BY <1>2, <1>3, <1>5

(* How long the entries are, and what else is known of them. *)
LEMMA RealAttrsAre ==
  ASSUME NEW d, NEW o, Laid(d, o), NEW e \in RealAttrs(d)
  PROVE  /\ e.h \in 1..Len(d) /\ e.tlen \in UUIDLen
         /\ e.typ = "svc" => e.vlen \in UUIDLen /\ e.endh \in Nat /\ e.endh <= HMax
         /\ e.typ = "char" => e.vlen \in {5, 19} /\ e.h + 1 \in 1..Len(d)
<1>1. /\ o \in Seq(Service) /\ d \in Seq(Attribute)
      /\ SvcsHold(d, o, [i \in 1..Len(o) |-> SvcEnd(o, i)])
  BY DEF Laid, SvcsHold
<1>2. PICK y : y = e.h
  OBVIOUS
<1>3. y \in 1..Len(d) /\ e = d[y]
  BY <1>2 DEF RealAttrs
<1>4. /\ d[y].typ = "svc" <=> \E i \in 1..Len(o) : y = SvcStart(o, i)
      /\ d[y].typ = "char" <=> \E i \in 1..Len(o) : \E j \in 1..Len(o[i].chars) : y = CharStart(o, i, j)
      /\ d[y].tlen \in UUIDLen
  BY <1>1, <1>3, Declarations
<1>5. CASE e.typ = "svc"
  <2>1. PICK i \in 1..Len(o) : y = SvcStart(o, i)
    BY <1>3, <1>4, <1>5
  <2>2. e = Attr(y, "svc", 2, o[i].len, SvcEnd(o, i))
    BY <1>1, <1>3, <2>1, Zenon DEF SvcsHold
  <2>3. SvcEnd(o, i) \in Nat /\ SvcEnd(o, i) <= HMax
    BY SvcEndIs, HMaxAssumption, SMTT(30)
  <2>4. o[i].len \in UUIDLen /\ 2 \in Nat /\ y \in Nat /\ o[i].len \in Nat /\ "svc" \in AttrTypes
    BY <1>1, <1>3, StartsAre DEF UUIDLen, AttrTypes
  <2>5. e.vlen = o[i].len /\ e.endh = SvcEnd(o, i)
    BY <2>2 DEF Attr
  <2> QED  BY <1>2, <1>3, <1>4, <1>5, <2>3, <2>4, <2>5
<1>6. CASE e.typ = "char"
  <2>1. PICK i \in 1..Len(o) : \E j \in 1..Len(o[i].chars) : y = CharStart(o, i, j)
    BY <1>3, <1>4, <1>6
  <2>2. PICK j \in 1..Len(o[i].chars) : y = CharStart(o, i, j)
    BY <2>1
  <2>3. PICK c : c = o[i].chars[j]
    OBVIOUS
  <2>4. c \in Characteristic /\ CharSize(c) \in Nat /\ CharSize(c) >= 2
    BY <1>1, <2>3, CharStartsAre
  <2>5. 1 \in 1..CharSize(c) /\ 2 \in 1..CharSize(c) /\ y \in Nat
    BY <1>3, <2>4
  <2>6. d[y + 1 - 1] = CharAttr(c, y, 1) /\ y + 2 - 1 \in 1..Len(d)
    BY <1>1, <2>2, <2>3, <2>5, Zenon DEF SvcsHold
  <2>7. e = CharAttr(c, y, 1) /\ y + 1 \in 1..Len(d)
    <3>1. y + 1 - 1 = y /\ y + 2 - 1 = y + 1
      BY <2>5
    <3> QED  BY <1>3, <2>6, <3>1
  <2>8. e.vlen = 3 + c.len /\ c.len \in {2, 16}
    <3>1. CharAttr(c, y, 1).vlen = 3 + c.len
      BY <2>4, <2>5, CharAttrIs
    <3>2. c.len \in {2, 16}
      BY <2>4 DEF Characteristic, UUIDLen
    <3> QED  BY <2>7, <3>1, <3>2
  <2>9. e.vlen \in {5, 19}
    BY <2>8
  <2> QED  BY <1>2, <1>3, <1>4, <1>6, <2>7, <2>9
<1> QED  BY <1>2, <1>3, <1>4, <1>5, <1>6

-----------------------------------------------------------------------------
(* What a handler answers from a list of attributes, in S, that match.     *)
Reply(r, start1, end, es, S) ==
  /\ r.st \in {"invalid", "notFound", "ok"}
  /\ r.st = "invalid" <=> start1 = 0 \/ start1 > end
  /\ r.st = "notFound" => Len(es) = 0 /\ r.list = <<>>
  /\ r.st = "ok" => /\ r.list \in Seq(S) /\ Len(r.list) \in 1..Len(es)
                    /\ \A x \in 1..Len(r.list) : r.list[x] = es[x]

(* Answer replies so, when the first entry fits.                           *)
LEMMA ReplyIs ==
  ASSUME NEW S, NEW es \in Seq(S), NEW n, NEW mtu \in Int, NEW start1 \in Nat, NEW end \in Nat,
         Len(es) >= 1 => FirstFits(n, mtu)
  PROVE  Reply(Answer(start1, end, es, n, mtu), start1, end, es, S)
<1>1. PICK r : r = Answer(start1, end, es, n, mtu)
  OBVIOUS
<1>2. CASE start1 = 0 \/ start1 > end
  <2>1. r = [st |-> "invalid", list |-> <<>>]
    BY <1>1, <1>2 DEF Answer
  <2> QED  BY <1>1, <1>2, <2>1 DEF Reply
<1>3. CASE ~(start1 = 0 \/ start1 > end) /\ es = <<>>
  <2>1. r = [st |-> "notFound", list |-> <<>>] /\ Len(es) = 0
    BY <1>1, <1>3 DEF Answer
  <2> QED  BY <1>1, <1>3, <2>1 DEF Reply
<1>4. CASE ~(start1 = 0 \/ start1 > end) /\ es # <<>>
  <2>1. r = [st |-> "ok", list |-> Fit(es, n, mtu)]
    BY <1>1, <1>4 DEF Answer
  <2>2. Len(es) >= 1
    BY <1>4, EmptySeq, LenProperties
  <2>3. PICK k \in 1..Len(es) : /\ Fit(es, n, mtu) \in Seq(S) /\ Len(Fit(es, n, mtu)) = k
                                /\ \A x \in 1..k : Fit(es, n, mtu)[x] = es[x]
    BY <2>2, FitIs
  <2>4. r.st = "ok" /\ r.list = Fit(es, n, mtu)
    BY <2>1
  <2> QED  BY <1>1, <1>4, <2>3, <2>4 DEF Reply
<1> QED  BY <1>2, <1>3, <1>4

(* The responses of the handlers.  A response has room for one entry at    *)
(* least, whatever its UUIDs are: this is what an MTU of 23 is for.        *)
LEMMA GroupReply ==
  ASSUME NEW d, NEW o, Laid(d, o), NEW mtu \in Nat, mtu >= 23,
         NEW start1 \in Nat, start1 >= 1, NEW end \in Nat
  PROVE  Reply(handleReadByGroupRequest(d, mtu, start1, end), start1, end,
               OfType("svc", subrange(d, start1, end)), RealOf(d, "svc"))
<1>1. PICK es, n : /\ es = OfType("svc", subrange(d, start1, end))
                   /\ n = [i \in DOMAIN es |-> 4 + es[i].vlen]
  OBVIOUS
<1>2. es \in Seq(RealOf(d, "svc"))
  <2>1. RealAttrs(d) \in SUBSET Attribute
    BY DEF RealAttrs
  <2> QED  BY <1>1, <2>1, RangeIsReal, Sifted DEF RealOf
<1>3. Len(es) >= 1 => FirstFits(n, mtu - 2)
  <2>1. SUFFICES ASSUME Len(es) >= 1  PROVE FirstFits(n, mtu - 2)
    OBVIOUS
  <2>2. 1 \in 1..Len(es) /\ DOMAIN es = 1..Len(es)
    BY <1>2, <2>1
  <2>3. es[1] \in RealOf(d, "svc")
    BY <1>2, <2>2
  <2>4. es[1].vlen \in UUIDLen
    BY <2>3, RealAttrsAre DEF RealOf
  <2>5. n[1] = 4 + es[1].vlen
    BY <1>1, <2>2
  <2>6. n[1] \in Nat /\ n[1] <= 20
    BY <2>4, <2>5 DEF UUIDLen
  <2> QED  BY <2>6 DEF FirstFits
<1>4. handleReadByGroupRequest(d, mtu, start1, end) = Answer(start1, end, es, n, mtu - 2)
  BY <1>1, Zenon DEF handleReadByGroupRequest
<1>5. mtu - 2 \in Int
  OBVIOUS
<1>6. Reply(Answer(start1, end, es, n, mtu - 2), start1, end, es, RealOf(d, "svc"))
  BY <1>2, <1>3, <1>5, ReplyIs
<1> QED  BY <1>1, <1>4, <1>6

(* The same for Read By Type.                                              *)
LEMMA TypeReply ==
  ASSUME NEW d, NEW o, Laid(d, o), NEW mtu \in Nat, mtu >= 23,
         NEW start1 \in Nat, start1 >= 1, NEW end \in Nat
  PROVE  Reply(handleReadByTypeRequest(d, mtu, start1, end), start1, end,
               OfType("char", subrange(d, start1, end)), RealOf(d, "char"))
<1>1. PICK es, n : /\ es = OfType("char", subrange(d, start1, end))
                   /\ n = [i \in DOMAIN es |-> 2 + es[i].vlen]
  OBVIOUS
<1>2. es \in Seq(RealOf(d, "char"))
  <2>1. RealAttrs(d) \in SUBSET Attribute
    BY DEF RealAttrs
  <2> QED  BY <1>1, <2>1, RangeIsReal, Sifted DEF RealOf
<1>3. Len(es) >= 1 => FirstFits(n, mtu - 2)
  <2>1. SUFFICES ASSUME Len(es) >= 1  PROVE FirstFits(n, mtu - 2)
    OBVIOUS
  <2>2. 1 \in 1..Len(es) /\ DOMAIN es = 1..Len(es)
    BY <1>2, <2>1
  <2>3. es[1] \in RealOf(d, "char")
    BY <1>2, <2>2
  <2>4. es[1].vlen \in {5, 19}
    BY <2>3, RealAttrsAre DEF RealOf
  <2>5. n[1] = 2 + es[1].vlen
    BY <1>1, <2>2
  <2>6. n[1] \in Nat /\ n[1] <= 21
    BY <2>4, <2>5
  <2> QED  BY <2>6 DEF FirstFits
<1>4. handleReadByTypeRequest(d, mtu, start1, end) = Answer(start1, end, es, n, mtu - 2)
  BY <1>1, Zenon DEF handleReadByTypeRequest
<1>5. mtu - 2 \in Int
  OBVIOUS
<1>6. Reply(Answer(start1, end, es, n, mtu - 2), start1, end, es, RealOf(d, "char"))
  BY <1>2, <1>3, <1>5, ReplyIs
<1> QED  BY <1>1, <1>4, <1>6

(* And for Find Information.                                               *)
LEMMA InfoReply ==
  ASSUME NEW d, NEW o, Laid(d, o), NEW mtu \in Nat, mtu >= 23,
         NEW start1 \in Nat, start1 >= 1, NEW end \in Nat
  PROVE  Reply(handleFindInformationRequest(d, mtu, start1, end), start1, end,
               subrange(d, start1, end), RealAttrs(d))
<1>1. PICK es, n : es = subrange(d, start1, end) /\ n = [i \in DOMAIN es |-> 2 + es[i].tlen]
  OBVIOUS
<1>2. es \in Seq(RealAttrs(d))
  BY <1>1, RangeIsReal
<1>3. Len(es) >= 1 => FirstFits(n, mtu - 2)
  <2>1. SUFFICES ASSUME Len(es) >= 1  PROVE FirstFits(n, mtu - 2)
    OBVIOUS
  <2>2. 1 \in 1..Len(es) /\ DOMAIN es = 1..Len(es)
    BY <1>2, <2>1
  <2>3. es[1] \in RealAttrs(d)
    BY <1>2, <2>2
  <2>4. es[1].tlen \in UUIDLen
    BY <2>3, RealAttrsAre
  <2>5. n[1] = 2 + es[1].tlen
    BY <1>1, <2>2
  <2>6. n[1] \in Nat /\ n[1] <= 18
    BY <2>4, <2>5 DEF UUIDLen
  <2> QED  BY <2>6 DEF FirstFits
<1>4. handleFindInformationRequest(d, mtu, start1, end) = Answer(start1, end, es, n, mtu - 2)
  BY <1>1, Zenon DEF handleFindInformationRequest
<1>5. mtu - 2 \in Int
  OBVIOUS
<1>6. Reply(Answer(start1, end, es, n, mtu - 2), start1, end, es, RealAttrs(d))
  BY <1>2, <1>3, <1>5, ReplyIs
<1> QED  BY <1>1, <1>4, <1>6

(* Handle 0 is refused. *)
LEMMA ZeroRefused ==
  ASSUME NEW d, NEW mtu, NEW end
  PROVE  /\ handleReadByGroupRequest(d, mtu, 0, end).st = "invalid"
         /\ handleReadByTypeRequest(d, mtu, 0, end).st = "invalid"
         /\ handleFindInformationRequest(d, mtu, 0, end).st = "invalid"
<1>1. \A es, n, m : Answer(0, end, es, n, m).st = "invalid"
  BY DEF Answer
<1>2. handleReadByGroupRequest(d, mtu, 0, end).st = "invalid"
  BY <1>1, Zenon DEF handleReadByGroupRequest
<1>3. handleReadByTypeRequest(d, mtu, 0, end).st = "invalid"
  BY <1>1, Zenon DEF handleReadByTypeRequest
<1>4. handleFindInformationRequest(d, mtu, 0, end).st = "invalid"
  BY <1>1, Zenon DEF handleFindInformationRequest
<1> QED  BY <1>2, <1>3, <1>4

-----------------------------------------------------------------------------
(* The pages of discovery.  From behind the k-th service on, a Read By     *)
(* Group Type request finds the next ones.                                 *)
LEMMA GroupPage ==
  ASSUME NEW d, NEW o, Laid(d, o), NEW mtu \in Nat, mtu >= 23, NEW k \in 0..Len(o),
         k < Len(o) \/ Len(o) = 0, NEW r, r = handleReadByGroupRequest(d, mtu, SvcStart(o, k + 1), HMax)
  PROVE  /\ Len(o) = 0 => r.st = "notFound" /\ r.list = <<>>
         /\ Len(o) # 0 => /\ r.st = "ok" /\ r.list \in Seq(Attribute) /\ Len(r.list) \in 1..(Len(o) - k)
                          /\ \A x \in 1..Len(r.list) : /\ r.list[x].h = SvcStart(o, k + x)
                                                       /\ r.list[x].endh = SvcEnd(o, k + x)
<1>1. PICK n, h : n = Len(o) /\ h = SvcStart(o, k + 1)
  OBVIOUS
<1>2. /\ o \in Seq(Service) /\ d \in Seq(Attribute) /\ Len(d) \in Nat /\ Len(d) <= HMax /\ n \in Nat
      /\ SvcsHold(d, o, [i \in 1..Len(o) |-> SvcEnd(o, i)]) /\ HMax \in Nat /\ HMax >= 1
  BY <1>1, HMaxAssumption DEF Laid, SvcsHold
<1>3. k + 1 \in 1..(n + 1) /\ n - k \in Nat
  BY <1>1, <1>2
<1>4. h \in Nat /\ h >= 1
  BY <1>1, <1>2, <1>3, StartsAre
<1>5. PICK es : es = OfType("svc", subrange(d, h, HMax))
  OBVIOUS
<1>6. Reply(r, h, HMax, es, RealOf(d, "svc"))
  BY <1>1, <1>2, <1>4, <1>5, GroupReply
<1>7. PICK p : p = [t \in 1..(n - k) |-> SvcStart(o, k + t)]
  OBVIOUS
<1>8. PlacesOf(p, "svc", d, h, HMax, n - k)
  BY <1>1, <1>7, SvcPlaces
<1>9. Len(es) = n - k /\ \A t \in 1..(n - k) : es[t] = d[p[t]]
  <2>0. PICK typ : typ = "svc"
    OBVIOUS
  <2>1. PICK K : K = n - k /\ K \in Nat
    BY <1>3
  <2>2. PlacesOf(p, typ, d, h, HMax, K) /\ d \in Seq(Attribute) /\ HMax \in Nat
    BY <1>2, <1>8, <2>0, <2>1
  <2>3. Listed(OfType(typ, subrange(d, h, HMax)), d, p, K)
    BY <1>4, <2>1, <2>2, PageIs
  <2> QED  BY <1>5, <2>0, <2>1, <2>3 DEF Listed
<1>10. h <= HMax
  <2>1. CASE n = 0
    <3>1. k + 1 = 1
      BY <1>1, <2>1
    <3>2. h = 1
      BY <1>1, <1>2, <3>1, StartsAre
    <3> QED  BY <1>2, <3>2
  <2>2. CASE n # 0
    <3>1. k + 1 \in 1..n
      BY <1>1, <1>2, <2>2
    <3>2. h \in 1..Len(d)
      BY <1>1, <1>2, <3>1 DEF SvcsHold
    <3> QED  BY <1>2, <3>2
  <2> QED  BY <2>1, <2>2
<1>11. r.st # "invalid"
  BY <1>2, <1>4, <1>6, <1>10 DEF Reply
<1>12. CASE n = 0
  <2>0. k = 0
    BY <1>1, <1>12
  <2>1. Len(es) = 0
    BY <1>9, <1>12, <2>0
  <2> QED  BY <1>1, <1>6, <1>11, <1>12, <2>1 DEF Reply
<1>13. CASE n # 0
  <2>1. Len(es) # 0
    BY <1>1, <1>2, <1>9, <1>13
  <2>2. /\ r.st = "ok" /\ r.list \in Seq(RealOf(d, "svc")) /\ Len(r.list) \in 1..(n - k)
        /\ \A x \in 1..Len(r.list) : r.list[x] = es[x]
    BY <1>6, <1>9, <1>11, <2>1 DEF Reply
  <2>3. r.list \in Seq(Attribute)
    BY <2>2 DEF RealOf, RealAttrs
  <2>4. ASSUME NEW x \in 1..Len(r.list)
        PROVE  r.list[x].h = SvcStart(o, k + x) /\ r.list[x].endh = SvcEnd(o, k + x)
    <3>1. x \in 1..(n - k)
      BY <1>3, <2>2
    <3>2. k + x \in 1..n
      BY <1>1, <1>2, <3>1
    <3>3. r.list[x] = d[SvcStart(o, k + x)]
      BY <1>7, <1>9, <2>2, <3>1
    <3>4. d[SvcStart(o, k + x)] = Attr(SvcStart(o, k + x), "svc", 2, o[k + x].len, SvcEnd(o, k + x))
      BY <1>1, <1>2, <3>2, Zenon DEF SvcsHold
    <3> QED  BY <3>3, <3>4 DEF Attr
  <2> QED  BY <1>1, <1>13, <2>2, <2>3, <2>4
<1> QED  BY <1>1, <1>12, <1>13

(* From behind the k-th characteristic of a service on, Read By Type       *)
(* requests find the next ones, and when they end there are no more.       *)
LEMMA TypePage ==
  ASSUME NEW d, NEW o, Laid(d, o), NEW mtu \in Nat, mtu >= 23, NEW i \in 1..Len(o),
         NEW k \in 0..Len(o[i].chars), NEW h \in Nat, h >= 1,
         SvcStart(o, i) <= h, k # 0 => CharStart(o, i, k) < h, h <= CharStart(o, i, k + 1),
         NEW r, r = handleReadByTypeRequest(d, mtu, h, SvcEnd(o, i))
  PROVE  /\ h > SvcEnd(o, i) \/ r.st = "notFound" => k = Len(o[i].chars)
         /\ r.st = "ok" => /\ r.list \in Seq(Attribute) /\ Len(r.list) \in 1..(Len(o[i].chars) - k)
                           /\ \A x \in 1..Len(r.list) : r.list[x].h = CharStart(o, i, k + x)
<1>1. PICK m, e : m = Len(o[i].chars) /\ e = SvcEnd(o, i)
  OBVIOUS
<1>2. /\ o \in Seq(Service) /\ d \in Seq(Attribute)
      /\ SvcsHold(d, o, [a \in 1..Len(o) |-> SvcEnd(o, a)])
  BY DEF Laid, SvcsHold
<1>3. m \in Nat /\ m - k \in Nat /\ e \in Nat
  <2>1. m \in Nat
    BY <1>1, <1>2, CharStartsAre
  <2>2. k \in 0..m
    BY <1>1
  <2>3. e \in Nat
    BY <1>1, SvcEndIs
  <2> QED  BY <2>1, <2>2, <2>3
<1>4. PICK es : es = OfType("char", subrange(d, h, e))
  OBVIOUS
<1>5. Reply(r, h, e, es, RealOf(d, "char"))
  BY <1>1, <1>3, <1>4, TypeReply
<1>6. PICK p : p = [t \in 1..(m - k) |-> CharStart(o, i, k + t)]
  OBVIOUS
<1>7. PlacesOf(p, "char", d, h, e, m - k)
  BY <1>1, <1>6, CharPlaces
<1>8. Len(es) = m - k /\ \A t \in 1..(m - k) : es[t] = d[p[t]]
  <2>0. PICK typ : typ = "char"
    OBVIOUS
  <2>1. PICK K : K = m - k /\ K \in Nat
    BY <1>3
  <2>2. PlacesOf(p, typ, d, h, e, K) /\ d \in Seq(Attribute) /\ e \in Nat
    BY <1>2, <1>3, <1>7, <2>0, <2>1
  <2>3. Listed(OfType(typ, subrange(d, h, e)), d, p, K)
    BY <2>1, <2>2, PageIs
  <2> QED  BY <1>4, <2>0, <2>1, <2>3 DEF Listed
<1>9. ASSUME h > e  PROVE k = m
  <2>1. ASSUME k # m  PROVE FALSE
    <3>1. 1 \in 1..(m - k)
      BY <1>1, <1>3, <2>1
    <3>2. p[1] \in h..e
      BY <1>7, <3>1 DEF PlacesOf
    <3> QED  BY <1>3, <1>9, <3>2
  <2> QED  BY <2>1
<1>10. ASSUME r.st = "notFound"  PROVE k = m
  <2>1. m - k = 0
    BY <1>5, <1>8, <1>10 DEF Reply
  <2> QED  BY <1>1, <1>3, <2>1
<1>11. ASSUME r.st = "ok"
       PROVE  /\ r.list \in Seq(Attribute) /\ Len(r.list) \in 1..(m - k)
              /\ \A x \in 1..Len(r.list) : r.list[x].h = CharStart(o, i, k + x)
  <2>1. /\ r.list \in Seq(RealOf(d, "char")) /\ Len(r.list) \in 1..(m - k)
        /\ \A x \in 1..Len(r.list) : r.list[x] = es[x]
    BY <1>5, <1>8, <1>11 DEF Reply
  <2>2. r.list \in Seq(Attribute)
    BY <2>1 DEF RealOf, RealAttrs
  <2>3. ASSUME NEW x \in 1..Len(r.list)  PROVE r.list[x].h = CharStart(o, i, k + x)
    <3>1. x \in 1..(m - k)
      BY <1>3, <2>1
    <3>2. p[x] \in 1..Len(d)
      BY <1>7, <3>1 DEF PlacesOf
    <3>3. d[p[x]].h = p[x]
      BY <1>2, <3>2, Declarations
    <3>4. r.list[x] = d[p[x]] /\ p[x] = CharStart(o, i, k + x)
      BY <1>6, <1>8, <2>1, <3>1
    <3> QED  BY <3>3, <3>4
  <2> QED  BY <2>1, <2>2, <2>3
<1> QED  BY <1>1, <1>9, <1>10, <1>11

(* The last attribute of a characteristic is where its range ends, or      *)
(* where the database ends.                                                *)
LastOf(o, i, j) == CharStart(o, i, j) + CharSize(o[i].chars[j]) - 1

(* It is in the database, and so is all of the characteristic.             *)
LEMMA CharEndIs ==
  ASSUME NEW d, NEW o, Laid(d, o), NEW i \in 1..Len(o), NEW j \in 1..Len(o[i].chars), NEW q, q = LastOf(o, i, j)
  PROVE  /\ CharStart(o, i, j) \in Nat /\ CharStart(o, i, j) >= 1 /\ q \in Nat
         /\ CharEnd(o, i, j) \in Nat /\ q <= CharEnd(o, i, j) /\ Len(d) \in Nat /\ q <= Len(d)
         /\ CharEnd(o, i, j) = q \/ Len(d) = q
<1>1. PICK m, l, c : m = Len(o[i].chars) /\ l = Len(d) /\ c = CharSize(o[i].chars[j])
  OBVIOUS
<1>2. /\ o \in Seq(Service) /\ d \in Seq(Attribute) /\ l \in Nat /\ Len(o) \in Nat
      /\ l = SvcStart(o, Len(o) + 1) - 1
      /\ SvcsHold(d, o, [a \in 1..Len(o) |-> SvcEnd(o, a)])
  <2>1. /\ o \in Seq(Service) /\ d \in Seq(Attribute) /\ Len(d) = SvcStart(o, Len(o) + 1) - 1
        /\ SvcsHold(d, o, [a \in 1..Len(o) |-> SvcEnd(o, a)])
    BY DEF Laid, SvcsHold
  <2> QED  BY <1>1, <2>1
<1>3. /\ m \in Nat /\ c \in Nat /\ c >= 2
      /\ CharStart(o, i, m + 1) = SvcStart(o, i + 1)
      /\ \A k \in 1..(m + 1) : CharStart(o, i, k) \in Nat
      /\ CharStart(o, i, j + 1) = CharStart(o, i, j) + c
      /\ CharStart(o, i, 1) = SvcStart(o, i) + 1
      /\ \A a, b \in 1..(m + 1) : a < b => CharStart(o, i, a) + 2 <= CharStart(o, i, b)
  BY <1>1, <1>2, CharStartsAre
<1>4. PICK s, t : s = CharStart(o, i, j) /\ t = CharStart(o, i, j + 1)
  OBVIOUS
<1>5. /\ j \in 1..(m + 1) /\ j + 1 \in 1..(m + 1) /\ m + 1 \in 1..(m + 1) /\ 1 \in 1..(m + 1)
      /\ (j = m \/ j + 1 < m + 1) /\ (j = 1 \/ 1 < j)
  <2>1. m \in Nat /\ j \in 1..m
    BY <1>1, <1>3
  <2> QED  BY <2>1
<1>6. s \in Nat /\ t \in Nat /\ t = s + c /\ q = t - 1 /\ q \in Nat
  <2>1. s \in Nat /\ t \in Nat /\ t = s + c /\ q = s + c - 1
    BY <1>1, <1>3, <1>4, <1>5 DEF LastOf
  <2>2. c \in Nat /\ c >= 2
    BY <1>3
  <2> QED  BY <2>1, <2>2
<1>7. s >= 1
  <2>1. i \in 1..(Len(o) + 1)
    BY <1>2
  <2>2. SvcStart(o, i) \in Nat
    BY <1>2, <2>1, StartsAre
  <2>3. CharStart(o, i, 1) \in Nat /\ CharStart(o, i, 1) >= 1
    BY <1>3, <2>2
  <2>4. 1 < j => CharStart(o, i, 1) + 2 <= s
    BY <1>3, <1>4, <1>5
  <2> QED  BY <1>4, <1>5, <1>6, <2>3, <2>4
<1>8. /\ SvcStart(o, i + 1) \in Nat /\ SvcStart(o, i + 1) - 1 <= l
      /\ SvcEnd(o, i) \in Nat /\ SvcEnd(o, i) >= SvcStart(o, i + 1) - 1
      /\ i # Len(o) => SvcEnd(o, i) = SvcStart(o, i + 1) - 1
  BY <1>1, SvcEndIs
<1>9. CASE j = m
  <2>1. t = SvcStart(o, i + 1) /\ CharEnd(o, i, j) = SvcEnd(o, i)
    BY <1>1, <1>3, <1>4, <1>9 DEF CharEnd
  <2>2. i = Len(o) => l = q
    BY <1>2, <1>6, <2>1
  <2>3. q <= l /\ q <= CharEnd(o, i, j) /\ CharEnd(o, i, j) \in Nat
    BY <1>2, <1>6, <1>8, <2>1
  <2>4. i # Len(o) => CharEnd(o, i, j) = q
    BY <1>6, <1>8, <2>1
  <2> QED  BY <1>1, <1>2, <1>4, <1>6, <1>7, <2>2, <2>3, <2>4
<1>10. CASE j # m
  <2>1. CharEnd(o, i, j) = t - 1
    BY <1>1, <1>4, <1>10 DEF CharEnd
  <2>2. t + 2 <= SvcStart(o, i + 1)
    BY <1>3, <1>4, <1>5, <1>10
  <2>3. CharEnd(o, i, j) = q /\ q \in Nat
    BY <1>6, <2>1
  <2>4. q <= l
    BY <1>2, <1>6, <1>8, <2>2, SMTT(30)
  <2> QED  BY <1>1, <1>2, <1>4, <1>6, <1>7, <2>3, <2>4
<1> QED  BY <1>9, <1>10

(* From behind the t-th descriptor of a characteristic on, Find            *)
(* Information requests find the next ones, and when they end there are no *)
(* more.                                                                   *)
Behind(h, o, i, j, k) ==
  k \in 0..(CharSize(o[i].chars[j]) - 2) /\ h = CharStart(o, i, j) + 2 + k

(* Such a request, and what it is answered with.                           *)
LEMMA InfoPage ==
  ASSUME NEW d, NEW o, Laid(d, o), NEW mtu \in Nat, mtu >= 23, NEW i \in 1..Len(o),
         NEW j \in 1..Len(o[i].chars), NEW k, NEW h, Behind(h, o, i, j, k),
         NEW r, r = handleFindInformationRequest(d, mtu, h, CharEnd(o, i, j))
  PROVE  /\ h > CharEnd(o, i, j) \/ r.st = "notFound" => k = CharSize(o[i].chars[j]) - 2
         /\ r.st = "ok" => /\ r.list \in Seq(Attribute) /\ Len(r.list) \in 1..(CharSize(o[i].chars[j]) - 2 - k)
                           /\ \A x \in 1..Len(r.list) :
                                /\ r.list[x].h = CharStart(o, i, j) + 1 + k + x
                                /\ r.list[x].typ = "ccc" <=> k + x > Len(o[i].chars[j].descs)
<1>1. PICK c, s, e, n, q : /\ c = o[i].chars[j] /\ s = CharStart(o, i, j) /\ e = CharEnd(o, i, j)
                           /\ n = CharSize(o[i].chars[j]) /\ q = LastOf(o, i, j)
  OBVIOUS
<1>2. /\ o \in Seq(Service) /\ d \in Seq(Attribute)
      /\ SvcsHold(d, o, [a \in 1..Len(o) |-> SvcEnd(o, a)])
  BY DEF Laid, SvcsHold
<1>3. /\ s \in Nat /\ s >= 1 /\ q \in Nat /\ e \in Nat /\ q <= e
      /\ Len(d) \in Nat /\ q <= Len(d) /\ (e = q \/ Len(d) = q)
  BY <1>1, CharEndIs
<1>4. c \in Characteristic /\ n \in Nat /\ n >= 2 /\ n = CharSize(c)
  BY <1>1, <1>2, CharStartsAre
<1>5. /\ k \in Nat /\ k <= n - 2 /\ h = s + 2 + k /\ q = s + n - 1
      /\ h \in Nat /\ h >= 1 /\ n - 2 - k \in Nat /\ q - h + 1 = n - 2 - k
      /\ (h <= q <=> n - 2 - k # 0)
  <2>1. k \in 0..(n - 2) /\ h = s + 2 + k /\ q = s + n - 1
    BY <1>1 DEF Behind, LastOf
  <2>2. s \in Nat /\ s >= 1 /\ n \in Nat /\ n >= 2
    BY <1>3, <1>4
  <2> QED  BY <2>1, <2>2
<1>6. PICK es : es = subrange(d, h, e)
  OBVIOUS
<1>7. Reply(r, h, e, es, RealAttrs(d))
  BY <1>1, <1>3, <1>5, <1>6, InfoReply
<1>8. PICK g \in Nat :
        /\ g = (IF e < Len(d) THEN e ELSE Len(d))
        /\ Len(es) = (IF h <= g THEN g - h + 1 ELSE 0)
        /\ \A x \in 1..Len(es) : es[x] = d[h + x - 1]
  <2>1. d \in Seq(Attribute) /\ h \in Nat /\ h >= 1 /\ e \in Nat
    BY <1>2, <1>3, <1>5
  <2> QED  BY <1>6, <2>1, SubrangeIs
<1>9. g = q
  BY <1>3, <1>8
<1>10. Len(es) = n - 2 - k
  BY <1>5, <1>8, <1>9
<1>11. ASSUME h > e \/ r.st = "notFound"  PROVE k = n - 2
  <2>1. CASE h > e
    <3>1. ~(h <= q)
      BY <1>3, <1>5, <2>1
    <3>2. n \in Nat /\ n - 2 - k = 0 /\ k \in Nat
      BY <1>4, <1>5, <3>1
    <3> QED  BY <3>2
  <2>2. CASE r.st = "notFound"
    <3>1. n - 2 - k = 0
      BY <1>7, <1>10, <2>2 DEF Reply
    <3> QED  BY <1>4, <1>5, <3>1, SMTT(30)
  <2> QED  BY <1>11, <2>1, <2>2
<1>12. ASSUME r.st = "ok"
       PROVE  /\ r.list \in Seq(Attribute) /\ Len(r.list) \in 1..(n - 2 - k)
              /\ \A x \in 1..Len(r.list) :
                   /\ r.list[x].h = s + 1 + k + x
                   /\ r.list[x].typ = "ccc" <=> k + x > Len(c.descs)
  <2>1. /\ r.list \in Seq(RealAttrs(d)) /\ Len(r.list) \in 1..(n - 2 - k)
        /\ \A x \in 1..Len(r.list) : r.list[x] = es[x]
    BY <1>7, <1>10, <1>12 DEF Reply
  <2>2. r.list \in Seq(Attribute)
    BY <2>1 DEF RealAttrs
  <2>3. ASSUME NEW x \in 1..Len(r.list)
        PROVE  r.list[x].h = s + 1 + k + x /\ (r.list[x].typ = "ccc" <=> k + x > Len(c.descs))
    <3>1. x \in 1..(n - 2 - k) /\ x \in Nat
      BY <1>5, <2>1
    <3>2. PICK y : y = 2 + k + x
      OBVIOUS
    <3>3. y \in 1..n /\ h + x - 1 = s + y - 1
      <4>1. s \in Nat /\ n \in Nat /\ k \in Nat /\ h = s + 2 + k
        BY <1>3, <1>4, <1>5
      <4> QED  BY <3>1, <3>2, <4>1
    <3>4. r.list[x] = d[s + y - 1]
      BY <1>8, <1>10, <2>1, <3>1, <3>3
    <3>5. d[s + y - 1] = CharAttr(c, s, y)
      BY <1>1, <1>2, <3>3, Zenon DEF SvcsHold
    <3>6. /\ CharAttr(c, s, y).h = s + y - 1
          /\ CharAttr(c, s, y).typ = "ccc" <=> y > 2 + Len(c.descs)
      <4>1. c \in Characteristic /\ s \in Nat /\ y \in 1..CharSize(c)
        BY <1>3, <1>4, <3>3
      <4> QED  BY <4>1, CharAttrIs
    <3>7. Len(c.descs) \in Nat
      BY <1>4 DEF Characteristic
    <3>8. s + y - 1 = s + 1 + k + x /\ (y > 2 + Len(c.descs) <=> k + x > Len(c.descs))
      <4>1. PICK l : l = Len(c.descs) /\ l \in Nat
        BY <3>7
      <4>2. s \in Nat /\ k \in Nat /\ x \in Nat /\ y = 2 + k + x
        BY <1>3, <1>5, <3>1, <3>2
      <4>3. s + y - 1 = s + 1 + k + x /\ (y > 2 + l <=> k + x > l)
        BY <4>1, <4>2
      <4> QED  BY <4>1, <4>3
    <3> QED  BY <3>4, <3>5, <3>6, <3>8
  <2> QED  BY <2>1, <2>2, <2>3
<1> QED  BY <1>1, <1>11, <1>12

-----------------------------------------------------------------------------
(* The walk of discovery.  A service with the characteristics that were    *)
(* found, and those it has in the end.                                     *)
SvcWith(o, i, chars) == [h |-> SvcStart(o, i), endh |-> SvcEnd(o, i), chars |-> chars]
AllChars(o, i) == [j \in 1..Len(o[i].chars) |-> Described(o, i, j)]

(* The j-th characteristic when k were found, which only the next one      *)
(* ends.                                                                   *)
FoundChar(o, i, j, k) ==
  [h |-> CharStart(o, i, j), vh |-> CharStart(o, i, j) + 1,
   endh |-> IF j = k THEN SvcEnd(o, i) ELSE CharStart(o, i, j + 1) - 1, descs |-> <<>>, cccd |-> 0]
FoundChars(o, i, k) == [j \in 1..k |-> FoundChar(o, i, j, k)]

(* The j-th characteristic when the first t of its descriptors were found. *)
FoundDescs(o, i, j, t) ==
  [h |-> CharStart(o, i, j), vh |-> CharStart(o, i, j) + 1, endh |-> CharEnd(o, i, j),
   descs |-> [x \in 1..t |-> CharStart(o, i, j) + 1 + x],
   cccd |-> IF t > Len(o[i].chars[j].descs) THEN CharStart(o, i, j) + 1 + t ELSE 0]

(* The characteristics of a service when discovery has t descriptors of    *)
(* its j-th one.                                                           *)
Filled(o, i, j, t) ==
  [x \in 1..Len(o[i].chars) |->
     IF x < j THEN Described(o, i, x)
     ELSE IF x = j THEN FoundDescs(o, i, j, t) ELSE FoundChar(o, i, x, Len(o[i].chars))]

(* The profile when discovery is at the i-th service: those before it are  *)
(* complete, those behind it have no characteristics yet.                  *)
UpTo(o, i, chars) ==
  [k \in 1..Len(o) |->
     SvcWith(o, k, IF k < i THEN AllChars(o, k) ELSE IF k = i THEN chars ELSE <<>>)]

(* The handle behind h: 0 after the last one. *)
LEMMA AfterIs ==
  ASSUME NEW h \in 0..HMax
  PROVE  (h < HMax => After(h) = h + 1) /\ (h = HMax => After(h) = 0)
<1>1. HMax \in Nat
  BY HMaxAssumption
<1>2. PICK m : m = HMax + 1 /\ m \in Nat /\ m > 0
  BY <1>1
<1>3. After(h) = (h + 1) % m
  BY <1>2 DEF After
<1>4. CASE h < HMax
  <2>1. h + 1 \in 0..(m - 1)
    BY <1>1, <1>2, <1>4
  <2> QED  BY <1>2, <1>3, <1>4, <2>1
<1>5. CASE h = HMax
  <2>1. h + 1 = m /\ m % m = 0
    BY <1>2, <1>5
  <2> QED  BY <1>3, <1>5, <2>1
<1> QED  BY <1>1, <1>4, <1>5

(* A list of length n, and two of them with the same elements. *)
IsList(f, n) == f = [k \in 1..n |-> f[k]]

(* Lists with the same elements are the same.                              *)
LEMMA SameList ==
  ASSUME NEW n \in Nat, NEW f, NEW g, IsList(f, n), IsList(g, n), \A k \in 1..n : f[k] = g[k]
  PROVE  f = g
<1>1. f = [k \in 1..n |-> f[k]] /\ g = [k \in 1..n |-> g[k]]
  BY DEF IsList
<1>2. [k \in 1..n |-> f[k]] = [k \in 1..n |-> g[k]]
  OBVIOUS
<1> QED  BY <1>1, <1>2

(* The lists, as sequences. *)
LEMMA UpToIs ==
  ASSUME NEW o, Len(o) \in Nat, NEW i, NEW chars
  PROVE  /\ IsList(UpTo(o, i, chars), Len(o))
         /\ Len(UpTo(o, i, chars)) = Len(o)
         /\ i \in 1..Len(o) => UpTo(o, i, chars)[i] = SvcWith(o, i, chars)
<1>1. PICK n, f : n = Len(o) /\ f = UpTo(o, i, chars)
  OBVIOUS
<1>2. n \in Nat /\ f = [k \in 1..n |-> f[k]]
  BY <1>1 DEF UpTo
<1>3. f \in [1..n -> {f[k] : k \in 1..n}]
  BY <1>2
<1>4. f \in Seq({f[k] : k \in 1..n}) /\ Len(f) = n
  BY <1>2, <1>3, SeqIs
<1>5. i \in 1..n => f[i] = SvcWith(o, i, chars)
  <2>1. SUFFICES ASSUME i \in 1..n  PROVE f[i] = SvcWith(o, i, chars)
    OBVIOUS
  <2>2. f[i] = SvcWith(o, i, IF i < i THEN AllChars(o, i) ELSE IF i = i THEN chars ELSE <<>>)
    BY <1>1, <2>1, Zenon DEF UpTo
  <2>3. ~(i < i)
    BY <1>2, <2>1
  <2> QED  BY <2>2, <2>3
<1> QED  BY <1>1, <1>2, <1>4, <1>5 DEF IsList

(* Going on to the next service. *)
LEMMA NextSvc ==
  ASSUME NEW o, Len(o) \in Nat, NEW i \in 1..Len(o)
  PROVE  UpTo(o, i, AllChars(o, i)) = UpTo(o, i + 1, <<>>)
<1>1. PICK n : n = Len(o) /\ n \in Nat /\ i \in 1..n
  OBVIOUS
<1>2. ASSUME NEW k \in 1..n
      PROVE  UpTo(o, i, AllChars(o, i))[k] = UpTo(o, i + 1, <<>>)[k]
  <2>1. /\ UpTo(o, i, AllChars(o, i))[k]
             = SvcWith(o, k, IF k < i THEN AllChars(o, k) ELSE IF k = i THEN AllChars(o, i) ELSE <<>>)
        /\ UpTo(o, i + 1, <<>>)[k]
             = SvcWith(o, k, IF k < i + 1 THEN AllChars(o, k) ELSE IF k = i + 1 THEN <<>> ELSE <<>>)
    BY <1>1, Zenon DEF UpTo
  <2>2. k < i + 1 <=> (k < i \/ k = i)
    BY <1>1
  <2>3. (k < i) => k # i
    BY <1>1
  <2> QED  BY <2>1, <2>2, <2>3
<1>3. PICK f, g : f = UpTo(o, i, AllChars(o, i)) /\ g = UpTo(o, i + 1, <<>>)
  OBVIOUS
<1>4. IsList(f, n) /\ IsList(g, n)
  BY <1>1, <1>3, UpToIs
<1>5. \A k \in 1..n : f[k] = g[k]
  BY <1>2, <1>3
<1>6. f = g
  BY <1>1, <1>4, <1>5, SameList
<1> QED  BY <1>3, <1>6

(* When all services are done, the profile is the hierarchy. *)
LEMMA AllDone ==
  ASSUME NEW o, o \in Seq(Service)
  PROVE  UpTo(o, Len(o) + 1, <<>>) = Hierarchy(o)
<1>1. PICK n : n = Len(o) /\ n \in Nat /\ DOMAIN o = 1..n
  OBVIOUS
<1>2. ASSUME NEW k \in 1..n  PROVE DOMAIN o[k].chars = 1..Len(o[k].chars)
  <2>1. o[k].chars \in Seq(Characteristic)
    BY <1>1, StartsAre
  <2> QED  BY <2>1
<1>3. Hierarchy(o) = [k \in 1..n |-> SvcWith(o, k, AllChars(o, k))]
  BY <1>1, <1>2 DEF Hierarchy, SvcWith, AllChars
<1>4. \A k \in 1..n : k < n + 1
  BY <1>1
<1>5. UpTo(o, n + 1, <<>>) = [k \in 1..n |-> SvcWith(o, k, AllChars(o, k))]
  BY <1>1, <1>4 DEF UpTo
<1> QED  BY <1>1, <1>3, <1>5

(* The characteristics of a service change, and the rest stays. *)
LEMMA UpToChanges ==
  ASSUME NEW o, Len(o) \in Nat, NEW i \in 1..Len(o), NEW chars, NEW new
  PROVE  [UpTo(o, i, chars) EXCEPT ![i].chars = new] = UpTo(o, i, new)
<1>1. PICK n, f, g : n = Len(o) /\ f = UpTo(o, i, chars) /\ g = UpTo(o, i, new)
  OBVIOUS
<1>2. n \in Nat /\ IsList(f, n) /\ IsList(g, n)
  BY <1>1, UpToIs
<1>3. f[i] = SvcWith(o, i, chars) /\ g[i] = SvcWith(o, i, new)
  BY <1>1, UpToIs
<1>4. PICK e : e = [f EXCEPT ![i].chars = new]
  OBVIOUS
<1>5. e = [k \in 1..n |-> IF k = i THEN [f[i] EXCEPT !.chars = new] ELSE f[k]]
  BY <1>2, <1>4 DEF IsList
<1>6. [f[i] EXCEPT !.chars = new] = g[i]
  BY <1>3 DEF SvcWith
<1>7. ASSUME NEW k \in 1..n, k # i  PROVE f[k] = g[k]
  <2>1. /\ f[k] = SvcWith(o, k, IF k < i THEN AllChars(o, k) ELSE IF k = i THEN chars ELSE <<>>)
        /\ g[k] = SvcWith(o, k, IF k < i THEN AllChars(o, k) ELSE IF k = i THEN new ELSE <<>>)
    BY <1>1, Zenon DEF UpTo
  <2> QED  BY <1>7, <2>1
<1>8. IsList(e, n) /\ \A k \in 1..n : e[k] = g[k]
  BY <1>5, <1>6, <1>7 DEF IsList
<1>9. e = g
  BY <1>2, <1>8, SameList
<1> QED  BY <1>1, <1>4, <1>9

(* Lists of characteristics. *)
LEMMA FoundCharsAre ==
  ASSUME NEW o, NEW i, NEW k \in Nat
  PROVE  /\ IsList(FoundChars(o, i, k), k)
         /\ FoundChars(o, i, k) \in Seq({FoundChar(o, i, j, k) : j \in 1..k})
         /\ Len(FoundChars(o, i, k)) = k
         /\ \A j \in 1..k : FoundChars(o, i, k)[j] = FoundChar(o, i, j, k)
<1>1. PICK f : f = FoundChars(o, i, k)
  OBVIOUS
<1>2. f = [j \in 1..k |-> FoundChar(o, i, j, k)]
  BY <1>1 DEF FoundChars
<1>3. f \in [1..k -> {FoundChar(o, i, j, k) : j \in 1..k}]
  BY <1>2
<1>4. f \in Seq({FoundChar(o, i, j, k) : j \in 1..k}) /\ Len(f) = k
  BY <1>3, SeqIs
<1> QED  BY <1>1, <1>2, <1>4 DEF IsList

(* And of characteristics with their descriptors.                          *)
LEMMA FilledIs ==
  ASSUME NEW o, NEW i, Len(o[i].chars) \in Nat, NEW j, NEW t
  PROVE  /\ IsList(Filled(o, i, j, t), Len(o[i].chars))
         /\ Len(Filled(o, i, j, t)) = Len(o[i].chars)
         /\ \A x \in 1..Len(o[i].chars) :
              Filled(o, i, j, t)[x] = IF x < j THEN Described(o, i, x)
                                      ELSE IF x = j THEN FoundDescs(o, i, j, t)
                                      ELSE FoundChar(o, i, x, Len(o[i].chars))
<1>1. PICK m, f : m = Len(o[i].chars) /\ f = Filled(o, i, j, t)
  OBVIOUS
<1>2. m \in Nat /\ f = [x \in 1..m |-> IF x < j THEN Described(o, i, x)
                                      ELSE IF x = j THEN FoundDescs(o, i, j, t)
                                      ELSE FoundChar(o, i, x, Len(o[i].chars))]
  BY <1>1 DEF Filled
<1>3. f \in [1..m -> {f[x] : x \in 1..m}]
  BY <1>2
<1>4. Len(f) = m
  BY <1>2, <1>3, SeqIs
<1> QED  BY <1>1, <1>2, <1>4 DEF IsList

(* A characteristic without descriptors yet, and with all of them. *)
LEMMA FirstAndLastDescs ==
  ASSUME NEW o \in Seq(Service), NEW i \in 1..Len(o), NEW j \in 1..Len(o[i].chars)
  PROVE  /\ FoundDescs(o, i, j, 0) = FoundChar(o, i, j, Len(o[i].chars))
         /\ FoundDescs(o, i, j, CharSize(o[i].chars[j]) - 2) = Described(o, i, j)
<1>1. PICK c, h, e, m : /\ c = o[i].chars[j] /\ h = CharStart(o, i, j)
                        /\ e = CharEnd(o, i, j) /\ m = Len(o[i].chars)
  OBVIOUS
<1>2. c \in Characteristic
  BY <1>1, CharStartsAre
<1>3. PICK a, b : a = Len(c.descs) /\ b = c.cccs /\ a \in Nat /\ b \in Nat
  BY <1>2 DEF Characteristic
<1>4. FoundDescs(o, i, j, 0) = FoundChar(o, i, j, m)
  <2>1. /\ FoundDescs(o, i, j, 0) = [h |-> h, vh |-> h + 1, endh |-> e, descs |-> [x \in 1..0 |-> h + 1 + x],
                                     cccd |-> IF 0 > a THEN h + 1 + 0 ELSE 0]
        /\ FoundChar(o, i, j, m) = [h |-> h, vh |-> h + 1, endh |-> e, descs |-> <<>>, cccd |-> 0]
    BY <1>1, <1>3 DEF FoundDescs, FoundChar, CharEnd
  <2>2. ~(0 > a) /\ [x \in 1..0 |-> h + 1 + x] = <<>>
    <3>1. ~(0 > a)
      BY <1>3
    <3>2. [x \in 1..0 |-> h + 1 + x] = <<>>
      <4>1. [x \in 1..0 |-> h + 1 + x] \in [1..0 -> {h + 1 + x : x \in 1..0}]
        OBVIOUS
      <4>2. 0 \in Nat
        OBVIOUS
      <4>3. /\ [x \in 1..0 |-> h + 1 + x] \in Seq({h + 1 + x : x \in 1..0})
            /\ Len([x \in 1..0 |-> h + 1 + x]) = 0
        BY <4>1, <4>2, SeqIs
      <4> QED  BY <4>3, EmptySeq
    <3> QED  BY <3>1, <3>2
  <2> QED  BY <2>1, <2>2
<1>5. FoundDescs(o, i, j, CharSize(c) - 2) = Described(o, i, j)
  <2>1. PICK t : t = CharSize(c) - 2
    OBVIOUS
  <2>z. PICK z : z = CharSize(c) /\ z = 2 + a + b
    BY <1>3 DEF CharSize
  <2>n. a \in Nat /\ b \in Nat
    BY <1>3
  <2>2. t = a + b
    BY <2>1, <2>n, <2>z
  <2>3. /\ FoundDescs(o, i, j, t) = [h |-> h, vh |-> h + 1, endh |-> e, descs |-> [x \in 1..t |-> h + 1 + x],
                                     cccd |-> IF t > a THEN h + 1 + t ELSE 0]
        /\ Described(o, i, j) = [h |-> h, vh |-> h + 1, endh |-> e, descs |-> [x \in 1..(a + b) |-> h + 1 + x],
                                 cccd |-> IF b = 0 THEN 0 ELSE h + z - 1]
    BY <1>1, <1>3, <2>z DEF FoundDescs, Described
  <2>4. (t > a <=> b # 0) /\ h + z - 1 = h + 1 + t
    <3>1. h \in Nat
      <4>2. m \in Nat /\ \A x \in 1..(m + 1) : CharStart(o, i, x) \in Nat
        BY <1>1, CharStartsAre
      <4>3. j \in 1..(m + 1)
        BY <1>1, <4>2
      <4> QED  BY <1>1, <4>2, <4>3
    <3> QED  BY <2>2, <2>n, <2>z, <3>1
  <2>5. (IF t > a THEN h + 1 + t ELSE 0) = (IF b = 0 THEN 0 ELSE h + z - 1)
    BY <2>4
  <2> QED  BY <2>1, <2>2, <2>3, <2>5
<1> QED  BY <1>1, <1>4, <1>5

(* Nothing found yet. *)
LEMMA NoneFound ==
  ASSUME NEW o, NEW i
  PROVE  FoundChars(o, i, 0) = <<>> /\ (Len(o[i].chars) = 0 => AllChars(o, i) = <<>>)
<1>1. 0 \in Nat /\ 1..0 = {}
  OBVIOUS
<1>2. FoundChars(o, i, 0) = <<>>
  <2>1. PICK f, S : f = FoundChars(o, i, 0) /\ S = {FoundChar(o, i, j, 0) : j \in 1..0}
    OBVIOUS
  <2>2. f \in Seq(S) /\ Len(f) = 0
    BY <1>1, <2>1, FoundCharsAre
  <2>3. f = <<>>
    BY <2>2, EmptySeq
  <2> QED  BY <2>1, <2>3
<1>3. ASSUME Len(o[i].chars) = 0  PROVE AllChars(o, i) = <<>>
  <2>1. PICK f, S : f = AllChars(o, i) /\ S = {Described(o, i, j) : j \in 1..0}
    OBVIOUS
  <2>2. f \in [1..0 -> S]
    BY <1>3, <2>1 DEF AllChars
  <2>3. f \in Seq(S) /\ Len(f) = 0
    BY <1>1, <2>2, SeqIs
  <2>4. f = <<>>
    BY <2>3, EmptySeq
  <2> QED  BY <2>1, <2>4
<1> QED  BY <1>2, <1>3

(* All characteristics found: discovery goes on with the descriptors of    *)
(* the first one.                                                          *)
LEMMA ToDescs ==
  ASSUME NEW o \in Seq(Service), NEW i \in 1..Len(o), Len(o[i].chars) >= 1
  PROVE  FoundChars(o, i, Len(o[i].chars)) = Filled(o, i, 1, 0)
<1>1. PICK m, f, g : m = Len(o[i].chars) /\ f = FoundChars(o, i, m) /\ g = Filled(o, i, 1, 0)
  OBVIOUS
<1>2. m \in Nat /\ 1 \in 1..m
  <2>1. m \in Nat /\ m >= 1
    BY <1>1, CharStartsAre
  <2> QED  BY <2>1
<1>3. IsList(f, m) /\ \A x \in 1..m : f[x] = FoundChar(o, i, x, m)
  BY <1>1, <1>2, FoundCharsAre
<1>4. IsList(g, m) /\ \A x \in 1..m : g[x] = IF x < 1 THEN Described(o, i, x)
                                             ELSE IF x = 1 THEN FoundDescs(o, i, 1, 0)
                                             ELSE FoundChar(o, i, x, m)
  BY <1>1, <1>2, FilledIs
<1>5. FoundDescs(o, i, 1, 0) = FoundChar(o, i, 1, m)
  BY <1>1, <1>2, FirstAndLastDescs
<1>6. \A x \in 1..m : f[x] = g[x]
  <2>1. \A x \in 1..m : ~(x < 1)
    BY <1>2
  <2> QED  BY <1>3, <1>4, <1>5, <2>1
<1>7. f = g
  BY <1>2, <1>3, <1>4, <1>6, SameList
<1> QED  BY <1>1, <1>7

(* All descriptors of a characteristic found: on to the next one, or the   *)
(* service is done.                                                        *)
LEMMA NextChar ==
  ASSUME NEW o \in Seq(Service), NEW i \in 1..Len(o), NEW j \in 1..Len(o[i].chars), NEW t,
         t = CharSize(o[i].chars[j]) - 2
  PROVE  /\ j # Len(o[i].chars) => Filled(o, i, j, t) = Filled(o, i, j + 1, 0)
         /\ j = Len(o[i].chars) => Filled(o, i, j, t) = AllChars(o, i)
<1>1. PICK m, f : m = Len(o[i].chars) /\ f = Filled(o, i, j, t)
  OBVIOUS
<1>2. m \in Nat /\ j \in 1..m
  BY <1>1, CharStartsAre
<1>3. IsList(f, m) /\ \A x \in 1..m : f[x] = IF x < j THEN Described(o, i, x)
                                             ELSE IF x = j THEN FoundDescs(o, i, j, t)
                                             ELSE FoundChar(o, i, x, m)
  BY <1>1, <1>2, FilledIs
<1>4. FoundDescs(o, i, j, t) = Described(o, i, j)
  BY <1>1, <1>2, FirstAndLastDescs
<1>5. CASE j # m
  <2>1. PICK k, g : k = j + 1 /\ g = Filled(o, i, k, 0)
    OBVIOUS
  <2>2. k \in 1..m /\ \A x \in 1..m : x < k <=> x < j \/ x = j
    BY <1>2, <1>5, <2>1
  <2>3. IsList(g, m) /\ \A x \in 1..m : g[x] = IF x < k THEN Described(o, i, x)
                                               ELSE IF x = k THEN FoundDescs(o, i, k, 0)
                                               ELSE FoundChar(o, i, x, m)
    BY <1>1, <1>2, <2>1, FilledIs
  <2>4. FoundDescs(o, i, k, 0) = FoundChar(o, i, k, m)
    BY <1>1, <2>2, FirstAndLastDescs
  <2>5. \A x \in 1..m : f[x] = g[x]
    BY <1>3, <1>4, <2>2, <2>3, <2>4
  <2>6. f = g
    BY <1>2, <1>3, <2>3, <2>5, SameList
  <2> QED  BY <1>1, <1>5, <2>1, <2>6
<1>6. CASE j = m
  <2>1. PICK g : g = AllChars(o, i)
    OBVIOUS
  <2>2. IsList(g, m) /\ \A x \in 1..m : g[x] = Described(o, i, x)
    BY <1>1, <2>1 DEF AllChars, IsList
  <2>3. \A x \in 1..m : x < j \/ x = j
    BY <1>2, <1>6
  <2>4. \A x \in 1..m : f[x] = g[x]
    BY <1>3, <1>4, <2>2, <2>3
  <2>5. f = g
    BY <1>2, <1>3, <2>2, <2>4, SameList
  <2> QED  BY <1>1, <1>6, <2>1, <2>5
<1> QED  BY <1>1, <1>5, <1>6

(* A characteristic as a response shows it: it ends with the service.      *)
Shown(o, i, j) ==
  [h |-> CharStart(o, i, j), vh |-> CharStart(o, i, j) + 1, endh |-> SvcEnd(o, i),
   descs |-> <<>>, cccd |-> 0]

(* Characteristics join those that were found, and end those before them.  *)
LEMMA CharsJoin ==
  ASSUME NEW o, NEW i, NEW k \in Nat, NEW S, NEW list \in Seq(S), Len(list) >= 1,
         \A x \in 1..Len(list) : list[x] = Shown(o, i, k + x)
  PROVE  Closed(FoundChars(o, i, k) \o list, 0) = FoundChars(o, i, k + Len(list))
<1>1. PICK c, n, f, u : /\ c = Len(list) /\ n = k + c /\ f = FoundChars(o, i, k) /\ u = f \o list
  OBVIOUS
<1>2. c \in Nat /\ c >= 1 /\ n \in Nat /\ n = k + c
  <2>1. c \in Nat /\ c >= 1 /\ n = k + c
    BY <1>1
  <2> QED  BY <2>1
<1>3. PICK T : T = S \union {FoundChar(o, i, j, k) : j \in 1..k}
  OBVIOUS
<1>4. f \in Seq(T) /\ Len(f) = k /\ \A j \in 1..k : f[j] = FoundChar(o, i, j, k)
  <2>1. /\ f \in Seq({FoundChar(o, i, j, k) : j \in 1..k}) /\ Len(f) = k
        /\ \A j \in 1..k : f[j] = FoundChar(o, i, j, k)
    BY <1>1, FoundCharsAre
  <2>2. {FoundChar(o, i, j, k) : j \in 1..k} \subseteq T
    BY <1>3
  <2> QED  BY <2>1, <2>2
<1>5. list \in Seq(T)
  BY <1>3
<1>6. /\ u \in Seq(T) /\ Len(u) = n /\ DOMAIN u = 1..n
      /\ \A x \in 1..k : u[x] = f[x]
      /\ \A x \in 1..c : u[k + x] = list[x]
  <2>1. /\ u \in Seq(T) /\ Len(u) = Len(f) + Len(list)
        /\ \A x \in 1..Len(f) : u[x] = f[x]
        /\ \A x \in 1..Len(list) : u[Len(f) + x] = list[x]
    BY <1>1, <1>4, <1>5, JoinIs, SMTT(30)
  <2>2. Len(u) = n
    BY <1>1, <1>4, <2>1
  <2>3. DOMAIN u = 1..n
    BY <2>1, <2>2
  <2> QED  BY <1>1, <1>4, <2>1, <2>2, <2>3
<1>7. ASSUME NEW x \in 1..n
      PROVE  /\ u[x] = [h |-> CharStart(o, i, x), vh |-> CharStart(o, i, x) + 1, endh |-> u[x].endh,
                        descs |-> <<>>, cccd |-> 0]
             /\ x = n => u[x].endh = SvcEnd(o, i)
  <2>1. CASE x <= k
    <3>1. x \in 1..k /\ x # n
      BY <1>2, <2>1
    <3>2. u[x] = FoundChar(o, i, x, k)
      BY <1>4, <1>6, <3>1
    <3> QED  BY <3>1, <3>2 DEF FoundChar
  <2>2. CASE ~(x <= k)
    <3>1. PICK y : y = x - k
      OBVIOUS
    <3>2. y \in 1..c /\ k + y = x
      BY <1>2, <2>2, <3>1
    <3>3. u[x] = Shown(o, i, x)
      BY <1>1, <1>6, <3>2
    <3> QED  BY <3>3 DEF Shown
  <2> QED  BY <2>1, <2>2
<1>8. PICK g, v : g = FoundChars(o, i, n) /\ v = Closed(u, 0)
  OBVIOUS
<1>9. IsList(g, n) /\ \A x \in 1..n : g[x] = FoundChar(o, i, x, n)
  BY <1>2, <1>8, FoundCharsAre
<1>10. v = [x \in 1..n |-> IF x > 0 /\ x < n THEN [u[x] EXCEPT !.endh = u[x + 1].h - 1] ELSE u[x]]
  BY <1>6, <1>8 DEF Closed
<1>11. ASSUME NEW x \in 1..n  PROVE v[x] = g[x]
  <2>1. CASE x < n
    <3>1. x + 1 \in 1..n /\ x > 0 /\ x # n
      BY <1>2, <2>1
    <3>2. u[x + 1].h = CharStart(o, i, x + 1)
      <4>1. PICK y : y = x + 1 /\ y \in 1..n
        BY <3>1
      <4>2. u[y] = [h |-> CharStart(o, i, y), vh |-> CharStart(o, i, y) + 1, endh |-> u[y].endh,
                    descs |-> <<>>, cccd |-> 0]
        BY <1>7, <4>1
      <4>3. u[y].h = CharStart(o, i, y)
        BY <4>2
      <4> QED  BY <4>1, <4>3
    <3>3. v[x] = [u[x] EXCEPT !.endh = CharStart(o, i, x + 1) - 1]
      BY <1>10, <2>1, <3>1, <3>2
    <3>4. u[x] = [h |-> CharStart(o, i, x), vh |-> CharStart(o, i, x) + 1, endh |-> u[x].endh,
                  descs |-> <<>>, cccd |-> 0]
      BY <1>7
    <3>5. v[x] = [h |-> CharStart(o, i, x), vh |-> CharStart(o, i, x) + 1,
                  endh |-> CharStart(o, i, x + 1) - 1, descs |-> <<>>, cccd |-> 0]
      BY <3>3, <3>4
    <3>6. g[x] = v[x]
      BY <1>9, <3>1, <3>5 DEF FoundChar
    <3> QED  BY <3>6
  <2>2. CASE ~(x < n)
    <3>1. x = n
      BY <1>2, <2>2
    <3>2. v[x] = u[x] /\ u[x].endh = SvcEnd(o, i)
      BY <1>7, <1>10, <2>2, <3>1
    <3>3. u[x] = [h |-> CharStart(o, i, x), vh |-> CharStart(o, i, x) + 1, endh |-> u[x].endh,
                  descs |-> <<>>, cccd |-> 0]
      BY <1>7
    <3> QED  BY <1>9, <3>1, <3>2, <3>3 DEF FoundChar
  <2> QED  BY <2>1, <2>2
<1>12. IsList(v, n)
  BY <1>10 DEF IsList
<1>13. v = g
  BY <1>2, <1>9, <1>11, <1>12, SameList
<1> QED  BY <1>1, <1>8, <1>13

(* Descriptors as a response shows them, from behind the t-th one of a     *)
(* characteristic on.                                                      *)
ShownDescs(list, o, i, j, t) ==
  \A x \in 1..Len(list) :
    /\ list[x].h = CharStart(o, i, j) + 1 + t + x
    /\ list[x].typ = "ccc" <=> t + x > Len(o[i].chars[j].descs)

(* They join those that were found, and the last CCCD is kept.             *)
LEMMA DescsJoin ==
  ASSUME NEW o, NEW i, NEW j, CharStart(o, i, j) \in Nat, Len(o[i].chars[j].descs) \in Nat,
         NEW t \in Nat, NEW S, NEW list \in Seq(S), Len(list) >= 1, ShownDescs(list, o, i, j, t)
  PROVE  WithDescs(FoundDescs(o, i, j, t), list) = FoundDescs(o, i, j, t + Len(list))
<1>1. PICK c, n, s, l, e : /\ c = Len(list) /\ n = t + Len(list) /\ s = CharStart(o, i, j)
                           /\ l = Len(o[i].chars[j].descs) /\ e = CharEnd(o, i, j)
  OBVIOUS
<1>2. c \in Nat /\ c >= 1 /\ n = t + c /\ n \in Nat /\ s \in Nat /\ l \in Nat
  <2>1. c \in Nat /\ c >= 1 /\ n = t + c /\ s \in Nat /\ l \in Nat
    BY <1>1
  <2> QED  BY <2>1
<1>3. DOMAIN list = 1..c /\ \A x \in 1..c : /\ list[x].h = s + 1 + t + x
                                            /\ list[x].typ = "ccc" <=> t + x > l
  BY <1>1 DEF ShownDescs
<1>4. \A k \in Nat : FoundDescs(o, i, j, k) =
        [h |-> s, vh |-> s + 1, endh |-> e, descs |-> [x \in 1..k |-> s + 1 + x],
         cccd |-> IF k > l THEN s + 1 + k ELSE 0]
  BY <1>1 DEF FoundDescs
<1>5. PICK C, a : /\ C = {list[x].h : x \in {x \in DOMAIN list : list[x].typ = "ccc"}}
                  /\ a = [x \in DOMAIN list |-> list[x].h]
  OBVIOUS
<1>6. PICK d : d = [x \in 1..t |-> s + 1 + x]
  OBVIOUS
<1>7. WithDescs(FoundDescs(o, i, j, t), list) =
        [h |-> s, vh |-> s + 1, endh |-> e, descs |-> d \o a,
         cccd |-> IF C = {} THEN (IF t > l THEN s + 1 + t ELSE 0) ELSE Max(C)]
  <2>1. PICK F : F = FoundDescs(o, i, j, t)
    OBVIOUS
  <2>2. WithDescs(F, list) = [F EXCEPT !.descs = @ \o a, !.cccd = IF C = {} THEN @ ELSE Max(C)]
    BY <1>5, Zenon DEF WithDescs
  <2>3. F = [h |-> s, vh |-> s + 1, endh |-> e, descs |-> d, cccd |-> IF t > l THEN s + 1 + t ELSE 0]
    BY <1>4, <1>6, <2>1
  <2>4. WithDescs(F, list) =
          [h |-> s, vh |-> s + 1, endh |-> e, descs |-> d \o a,
           cccd |-> IF C = {} THEN (IF t > l THEN s + 1 + t ELSE 0) ELSE Max(C)]
    BY <2>2, <2>3
  <2> QED  BY <2>1, <2>4
<1>8. d \o a = [x \in 1..n |-> s + 1 + x]
  <2>1. d \in [1..t -> Nat] /\ \A x \in 1..t : d[x] = s + 1 + x
    BY <1>2, <1>6
  <2>2. \A x \in 1..c : s + 1 + t + x \in Nat
    BY <1>2
  <2>3. a \in [1..c -> Nat] /\ \A x \in 1..c : a[x] = s + 1 + t + x
    BY <1>3, <1>5, <2>2
  <2>4. d \in Seq(Nat) /\ Len(d) = t /\ a \in Seq(Nat) /\ Len(a) = c
    BY <1>2, <2>1, <2>3, SeqIs
  <2>5. PICK u : u = d \o a
    OBVIOUS
  <2>6. /\ u \in Seq(Nat) /\ Len(u) = t + c
        /\ \A x \in 1..t : u[x] = d[x]
        /\ \A x \in 1..c : u[t + x] = a[x]
    <3>1. /\ u \in Seq(Nat) /\ Len(u) = Len(d) + Len(a)
          /\ \A x \in 1..Len(d) : u[x] = d[x]
          /\ \A x \in 1..Len(a) : u[Len(d) + x] = a[x]
      <4>1. d \in Seq(Nat) /\ a \in Seq(Nat)
        BY <2>4
      <4> QED  BY <2>5, <4>1, JoinIs
    <3> QED  BY <2>4, <3>1
  <2>7. DOMAIN u = 1..n
    BY <1>2, <2>6
  <2>8. ASSUME NEW x \in 1..n  PROVE u[x] = s + 1 + x
    <3>1. CASE x <= t
      <4>1. x \in 1..t
        BY <3>1
      <4> QED  BY <2>1, <2>6, <4>1
    <3>2. CASE ~(x <= t)
      <4>1. PICK y : y = x - t
        OBVIOUS
      <4>2. y \in 1..c /\ t + y = x
        BY <1>2, <3>2, <4>1
      <4>3. u[x] = s + 1 + t + y
        BY <2>3, <2>6, <4>2
      <4> QED  BY <1>2, <4>2, <4>3
    <3> QED  BY <3>1, <3>2
  <2>9. u = [x \in 1..n |-> u[x]]
    <3>1. u \in Seq(Nat)
      BY <2>6
    <3>2. u = [x \in DOMAIN u |-> u[x]]
      BY <3>1, LenProperties
    <3> QED  BY <2>7, <3>2
  <2> QED  BY <2>5, <2>8, <2>9
<1>9. (IF C = {} THEN (IF t > l THEN s + 1 + t ELSE 0) ELSE Max(C)) = IF n > l THEN s + 1 + n ELSE 0
  <2>1. \A g : g \in C <=> \E x \in 1..c : t + x > l /\ g = s + 1 + t + x
    BY <1>3, <1>5
  <2>2. CASE n > l
    <3>1. c \in 1..c /\ t + c > l /\ s + 1 + n = s + 1 + t + c
      BY <1>2, <2>2
    <3>2. s + 1 + n \in C
      BY <2>1, <3>1
    <3>3. ASSUME NEW g \in C  PROVE g \in 1..(s + 1 + n)
      <4>1. PICK x \in 1..c : g = s + 1 + t + x
        BY <2>1
      <4> QED  BY <1>2, <4>1
    <3>4. Max(C) = s + 1 + n
      <4>1. PICK k : k = s + n
        OBVIOUS
      <4>2. k \in Nat /\ s + 1 + n = k + 1
        BY <1>2, <4>1
      <4>3. C \in SUBSET (1..(k + 1)) /\ k + 1 \in C
        BY <3>2, <3>3, <4>2
      <4> QED  BY <4>2, <4>3, MaxOf
    <3> QED  BY <2>2, <3>2, <3>4
  <2>3. CASE ~(n > l)
    <3>1. ~(t > l) /\ \A x \in 1..c : ~(t + x > l)
      BY <1>2, <2>3
    <3>2. C = {}
      BY <2>1, <3>1
    <3> QED  BY <2>3, <3>1, <3>2
  <2> QED  BY <2>2, <2>3
<1>10. FoundDescs(o, i, j, n) =
         [h |-> s, vh |-> s + 1, endh |-> e, descs |-> [x \in 1..n |-> s + 1 + x],
          cccd |-> IF n > l THEN s + 1 + n ELSE 0]
  BY <1>2, <1>4
<1> QED  BY <1>1, <1>7, <1>8, <1>9, <1>10

(* The characteristic discovery is at changes, and the rest stays.         *)
LEMMA FilledChanges ==
  ASSUME NEW o, Len(o) \in Nat, NEW i \in 1..Len(o), Len(o[i].chars) \in Nat,
         NEW j \in 1..Len(o[i].chars), NEW t, NEW k
  PROVE  /\ UpTo(o, i, Filled(o, i, j, t))[i].chars[j] = FoundDescs(o, i, j, t)
         /\ [UpTo(o, i, Filled(o, i, j, t)) EXCEPT ![i].chars[j] = FoundDescs(o, i, j, k)]
              = UpTo(o, i, Filled(o, i, j, k))
<1>1. PICK n, m, f, g, p, v : /\ n = Len(o) /\ m = Len(o[i].chars) /\ f = Filled(o, i, j, t)
                              /\ g = Filled(o, i, j, k) /\ p = UpTo(o, i, f) /\ v = FoundDescs(o, i, j, k)
  OBVIOUS
<1>2. n \in Nat /\ i \in 1..n /\ IsList(p, n) /\ p[i] = SvcWith(o, i, f)
  BY <1>1, UpToIs
<1>3. m \in Nat /\ j \in 1..m /\ ~(j < j)
  <2>1. m \in Nat /\ j \in 1..m
    BY <1>1
  <2> QED  BY <2>1
<1>4. /\ IsList(f, m) /\ \A x \in 1..m : f[x] = IF x < j THEN Described(o, i, x)
                                                ELSE IF x = j THEN FoundDescs(o, i, j, t)
                                                ELSE FoundChar(o, i, x, m)
      /\ IsList(g, m) /\ \A x \in 1..m : g[x] = IF x < j THEN Described(o, i, x)
                                                ELSE IF x = j THEN FoundDescs(o, i, j, k)
                                                ELSE FoundChar(o, i, x, m)
  BY <1>1, FilledIs
<1>5. p[i].chars = f
  BY <1>2 DEF SvcWith
<1>6. f[j] = FoundDescs(o, i, j, t)
  BY <1>3, <1>4
<1>7. PICK e : e = [f EXCEPT ![j] = v]
  OBVIOUS
<1>8. e = [x \in 1..m |-> IF x = j THEN v ELSE f[x]]
  BY <1>4, <1>7 DEF IsList
<1>9. IsList(e, m) /\ \A x \in 1..m : e[x] = g[x]
  <2>1. \A x \in 1..m : e[x] = g[x]
    BY <1>1, <1>3, <1>4, <1>8
  <2> QED  BY <1>8, <2>1 DEF IsList
<1>10. e = g
  BY <1>3, <1>4, <1>9, SameList
<1>11. [p EXCEPT ![i].chars[j] = v] = [p EXCEPT ![i].chars = g]
  <2>1. [p EXCEPT ![i].chars[j] = v] = [p EXCEPT ![i].chars = [p[i].chars EXCEPT ![j] = v]]
    <3>1. DOMAIN p = 1..n
      BY <1>2 DEF IsList
    <3>2. DOMAIN p[i] = {"h", "endh", "chars"}
      BY <1>2 DEF SvcWith
    <3> QED  BY <1>2, <3>1, <3>2
  <2> QED  BY <1>5, <1>7, <1>10, <2>1
<1>12. [p EXCEPT ![i].chars = g] = UpTo(o, i, g)
  BY <1>1, UpToChanges
<1> QED  BY <1>1, <1>5, <1>6, <1>11, <1>12

-----------------------------------------------------------------------------
(* The database of a connection is laid out as its services say, and a     *)
(* response has room for an entry.                                         *)
DbSound == svcs \in Seq(Service) /\ Laid(db, on) /\ room \in Nat /\ room >= 23

(* Building a database leaves services behind, with more CCCDs. *)
LEMMA RebuiltType ==
  ASSUME NEW u \in Seq(Service)
  PROVE  Rebuilt(u) \in Seq(Service)
<1>1. \A c \in Characteristic : WithCCCD(c) \in Characteristic
  BY DEF WithCCCD, Characteristic
<1>2. PICK n, v : n = Len(u) /\ v = Rebuilt(u)
  OBVIOUS
<1>3. n \in Nat /\ DOMAIN u = 1..n /\ \A i \in 1..n : u[i] \in Service
  BY <1>2
<1>4. ASSUME NEW i \in 1..n
      PROVE  v[i] \in Service
  <2>1. PICK s, cs : s = u[i] /\ cs = [j \in DOMAIN u[i].chars |-> WithCCCD(u[i].chars[j])]
    OBVIOUS
  <2>2. s \in Service /\ s.chars \in Seq(Characteristic) /\ s.len \in UUIDLen
    BY <1>3, <2>1 DEF Service
  <2>3. PICK m : m = Len(s.chars) /\ m \in Nat /\ DOMAIN s.chars = 1..m
    BY <2>2
  <2>4. cs \in [1..m -> Characteristic]
    BY <1>1, <2>1, <2>2, <2>3
  <2>5. cs \in Seq(Characteristic)
    BY <2>3, <2>4, SeqIs
  <2>6. v[i] = [s EXCEPT !.chars = cs]
    BY <1>2, <1>3, <2>1 DEF Rebuilt
  <2> QED  BY <2>2, <2>5, <2>6 DEF Service
<1>5. v = [i \in 1..n |-> v[i]]
  BY <1>2, <1>3 DEF Rebuilt
<1>6. v \in [1..n -> Service]
  BY <1>4, <1>5
<1> QED  BY <1>2, <1>3, <1>6, SeqIs

(* So a new database is laid out. *)
LEMMA NewLaid ==
  ASSUME NEW u \in Seq(Service), Len(NewDB(Rebuilt(u))) <= HMax
  PROVE  Laid(NewDB(Rebuilt(u)), Rebuilt(u))
  BY RebuiltType, DatabaseIs DEF Laid

(* The other steps leave the database alone, and MTUs are 23 at least. *)
LEMMA DbStep == DbSound /\ [SessionNext]_sessionVars => DbSound'
<1> SUFFICES ASSUME DbSound, [SessionNext]_sessionVars  PROVE DbSound'
  OBVIOUS
<1>1. ASSUME NEW new \in Seq(Service), Change(new)  PROVE DbSound'
  <2>1. /\ Len(NewDB(Rebuilt(new))) <= HMax /\ svcs' = Rebuilt(new) /\ room' = room
        /\ \/ on' = Rebuilt(new) /\ db' = NewDB(Rebuilt(new))
           \/ on' = on /\ db' = db
    BY <1>1 DEF Change, mtus
  <2>2. svcs' \in Seq(Service)
    BY <2>1, RebuiltType
  <2>3. Laid(db', on')
    BY <2>1, NewLaid DEF DbSound
  <2> QED  BY <2>1, <2>2, <2>3 DEF DbSound
<1>2. ASSUME NEW s \in Services, AddService(s) \/ SetServices(s)  PROVE DbSound'
  <2>1. s \in Service /\ Default \in Seq(Service) /\ svcs \in Seq(Service)
    BY ServicesAssumption DEF DbSound
  <2>2. Append(svcs, s) \in Seq(Service) /\ Default \o <<s>> \in Seq(Service)
    BY <2>1
  <2> QED  BY <1>1, <1>2, <2>2 DEF AddService, SetServices
<1>3. CASE RemoveAllServices
  BY <1>1, <1>3, ServicesAssumption DEF RemoveAllServices
<1>4. ASSUME NEW m \in MTUs, NEW ok \in BOOLEAN, ExchangeMTU(m, ok)  PROVE DbSound'
  <2>1. m \in Nat /\ m >= 23 /\ room' = m /\ UNCHANGED <<svcs, db, on>>
    BY <1>4, MtuAssumption DEF ExchangeMTU, srv
  <2> QED  BY <2>1 DEF DbSound
<1>5. CASE UNCHANGED <<svcs, db, on, room>>
  BY <1>5 DEF DbSound
<1>6. CASE \/ UNCHANGED sessionVars \/ Accepted \/ (\E m \in MTUs : handleExchangeMTURequest(m))
           \/ CachedProfile \/ (\E force \in BOOLEAN : DiscoverProfile(force))
           \/ RequestFails \/ HandleWrapped
  BY <1>5, <1>6, Zenon DEF Accepted, handleExchangeMTURequest, CachedProfile, DiscoverProfile,
                           RequestFails, HandleWrapped, sessionVars, srv, mtus
<1>7. CASE DiscoverServices \/ DiscoverCharacteristics \/ DiscoverDescriptors
  BY <1>5, <1>7, Zenon DEF DiscoverServices, DiscoverCharacteristics, DiscoverDescriptors, srv, mtus
<1>8. CASE \/ (\E n \in Lengths : ReadLong(n)) \/ ReadBlob \/ ReadLongDone \/ ReadLongFails
           \/ (\E p \in Parts : handlePrepareWriteRequest(p))
           \/ handleExecuteWriteRequest \/ CancelPrepared
  BY <1>5, <1>8, Zenon DEF ReadLong, ReadBlob, ReadLongDone, ReadLongFails, handlePrepareWriteRequest,
                           handleExecuteWriteRequest, CancelPrepared, srv, mtus
<1> QED  BY <1>2, <1>3, <1>4, <1>6, <1>7, <1>8 DEF SessionNext

-----------------------------------------------------------------------------
(* Whatever discovery met before, a profile holds handles that are in the  *)
(* database.                                                               *)
SomeChar(l) == [h : 1..l, vh : 1..l, endh : Nat, descs : Seq(Nat), cccd : Nat]
SomeSvc(l) == [h : 1..l, endh : Nat, chars : Seq(SomeChar(l))]

(* What the client makes of the entries of responses. *)
FoundSvcs(list) ==
  [x \in DOMAIN list |-> [h |-> list[x].h, endh |-> list[x].endh, chars |-> <<>>]]
FoundDecls(list, end) ==
  [x \in DOMAIN list |-> [h |-> list[x].h, vh |-> list[x].h + 1, endh |-> end,
                          descs |-> <<>>, cccd |-> 0]]

(* A response that is no error has entries, and is not empty unless        *)
(* nothing was found.                                                      *)
LEMMA Entries ==
  ASSUME NEW r, NEW s, NEW e, NEW es, NEW S, Reply(r, s, e, es, S), r.st # "invalid"
  PROVE  /\ r.list \in Seq(S) /\ Len(r.list) \in Nat /\ DOMAIN r.list = 1..Len(r.list)
         /\ r.st # "notFound" => r.st = "ok" /\ Len(r.list) >= 1
<1>1. r.st \in {"notFound", "ok"}
  BY DEF Reply
<1>2. r.list \in Seq(S)
  <2>1. CASE r.st = "notFound"
    <3>1. r.list = <<>>
      BY <2>1 DEF Reply
    <3> QED  BY <3>1
  <2>2. CASE r.st = "ok"
    BY <2>2 DEF Reply
  <2> QED  BY <1>1, <2>1, <2>2
<1>3. Len(r.list) \in Nat /\ DOMAIN r.list = 1..Len(r.list)
  BY <1>2
<1>4. r.st = "ok" => Len(r.list) >= 1
  <2>1. SUFFICES ASSUME r.st = "ok"  PROVE Len(r.list) >= 1
    OBVIOUS
  <2>2. Len(r.list) \in 1..Len(es)
    BY <2>1 DEF Reply
  <2> QED  BY <1>3, <2>2
<1> QED  BY <1>1, <1>2, <1>3, <1>4

(* Services that were found join the profile. *)
LEMMA SvcsFound ==
  ASSUME NEW d, NEW o, Laid(d, o), NEW mtu \in Nat, mtu >= 23, NEW s \in Nat,
         NEW p \in Seq(SomeSvc(Len(d))), NEW r, r = handleReadByGroupRequest(d, mtu, s, HMax), r.st # "invalid"
  PROVE  /\ p \o FoundSvcs(r.list) \in Seq(SomeSvc(Len(d)))
         /\ r.st # "notFound" => Last(FoundSvcs(r.list)).endh \in 0..HMax
<1>1. s >= 1
  <2>1. s # 0
    BY ZeroRefused
  <2> QED  BY <2>1
<1>2. PICK l, n, f : l = Len(d) /\ n = Len(r.list) /\ f = FoundSvcs(r.list)
  OBVIOUS
<1>h. HMax \in Nat
  BY HMaxAssumption
<1>3. /\ r.list \in Seq(RealOf(d, "svc")) /\ n \in Nat /\ DOMAIN r.list = 1..n
      /\ r.st # "notFound" => n >= 1
  <2>1. Reply(r, s, HMax, OfType("svc", subrange(d, s, HMax)), RealOf(d, "svc"))
    BY <1>1, <1>h, GroupReply
  <2> QED  BY <1>2, <2>1, Entries
<1>4. ASSUME NEW x \in 1..n
      PROVE  f[x] \in SomeSvc(l) /\ f[x].endh \in 0..HMax
  <2>1. r.list[x] \in RealAttrs(d) /\ r.list[x].typ = "svc"
    BY <1>3 DEF RealOf
  <2>2. r.list[x].h \in 1..l /\ r.list[x].endh \in Nat /\ r.list[x].endh <= HMax
    BY <1>2, <2>1, RealAttrsAre
  <2>3. f[x] = [h |-> r.list[x].h, endh |-> r.list[x].endh, chars |-> <<>>]
    BY <1>2, <1>3 DEF FoundSvcs
  <2>4. <<>> \in Seq(SomeChar(l))
    OBVIOUS
  <2>5. f[x] \in SomeSvc(l)
    BY <2>2, <2>3, <2>4 DEF SomeSvc
  <2>6. f[x].endh \in 0..HMax
    BY <1>h, <2>2, <2>3
  <2> QED  BY <2>5, <2>6
<1>5. f \in Seq(SomeSvc(l)) /\ Len(f) = n
  <2>1. f \in [1..n -> SomeSvc(l)]
    BY <1>2, <1>3, <1>4 DEF FoundSvcs
  <2> QED  BY <1>3, <2>1, SeqIs
<1>6. r.st # "notFound" => Last(f).endh \in 0..HMax
  <2>1. SUFFICES ASSUME r.st # "notFound"  PROVE Last(f).endh \in 0..HMax
    OBVIOUS
  <2>2. n \in 1..n
    BY <1>3, <2>1
  <2>3. Last(f) = f[n]
    BY <1>5 DEF Last
  <2> QED  BY <1>4, <2>2, <2>3
<1>7. p \o f \in Seq(SomeSvc(l))
  BY <1>2, <1>5
<1> QED  BY <1>2, <1>6, <1>7

(* Closed ends characteristics with handles. *)
LEMMA ClosedType ==
  ASSUME NEW l, NEW u \in Seq(SomeChar(l)), NEW b
  PROVE  Closed(u, b) \in Seq(SomeChar(l))
<1>1. PICK n, v : n = Len(u) /\ v = Closed(u, b)
  OBVIOUS
<1>2. n \in Nat /\ DOMAIN u = 1..n /\ \A x \in 1..n : u[x] \in SomeChar(l)
  BY <1>1
<1>3. v = [x \in 1..n |-> IF x > b /\ x < n THEN [u[x] EXCEPT !.endh = u[x + 1].h - 1] ELSE u[x]]
  BY <1>1, <1>2 DEF Closed
<1>4. ASSUME NEW x \in 1..n  PROVE v[x] \in SomeChar(l)
  <2>1. CASE x > b /\ x < n
    <3>1. x + 1 \in 1..n
      BY <1>2, <2>1
    <3>2. u[x + 1] \in SomeChar(l)
      BY <1>2, <3>1
    <3>3. u[x + 1].h \in 1..l
      BY <3>2 DEF SomeChar
    <3>4. u[x + 1].h - 1 \in Nat
      BY <3>3
    <3>5. v[x] = [u[x] EXCEPT !.endh = u[x + 1].h - 1]
      BY <1>3, <2>1
    <3>6. u[x] \in SomeChar(l)
      BY <1>2
    <3> QED  BY <3>4, <3>5, <3>6 DEF SomeChar
  <2>2. CASE ~(x > b /\ x < n)
    BY <1>2, <1>3, <2>2
  <2> QED  BY <2>1, <2>2
<1>5. v \in [1..n -> SomeChar(l)]
  BY <1>3, <1>4
<1> QED  BY <1>1, <1>2, <1>5, SeqIs

(* A profile with other characteristics in a service. *)
WithChars(p, i, cs) == [p EXCEPT ![i].chars = cs]

(* Characteristics that were found join their service. *)
LEMMA CharsFound ==
  ASSUME NEW d, NEW o, Laid(d, o), NEW mtu \in Nat, mtu >= 23, NEW s \in Nat,
         NEW p \in Seq(SomeSvc(Len(d))), NEW i \in 1..Len(p), NEW b, NEW e, e = p[i].endh,
         NEW r, r = handleReadByTypeRequest(d, mtu, s, e), r.st = "ok",
         NEW q, q = WithChars(p, i, Closed(p[i].chars \o FoundDecls(r.list, e), b))
  PROVE  /\ q \in Seq(SomeSvc(Len(d))) /\ Len(q) = Len(p)
         /\ Last(FoundDecls(r.list, e)).vh \in 1..Len(d)
<1>1. s >= 1
  <2>1. s # 0
    BY ZeroRefused
  <2> QED  BY <2>1
<1>2. PICK l, n, f : l = Len(d) /\ n = Len(r.list) /\ f = FoundDecls(r.list, e)
  OBVIOUS
<1>3. p[i] \in SomeSvc(l) /\ e \in Nat /\ p[i].chars \in Seq(SomeChar(l))
  <2>1. p[i] \in SomeSvc(l)
    BY <1>2
  <2> QED  BY <1>2, <2>1 DEF SomeSvc
<1>4. r.list \in Seq(RealOf(d, "char")) /\ n \in Nat /\ DOMAIN r.list = 1..n /\ n >= 1
  <2>1. Reply(r, s, e, OfType("char", subrange(d, s, e)), RealOf(d, "char"))
    BY <1>1, <1>2, <1>3, TypeReply
  <2> QED  BY <1>2, <2>1, Entries
<1>5. ASSUME NEW x \in 1..n
      PROVE  f[x] \in SomeChar(l) /\ f[x].vh \in 1..l
  <2>1. r.list[x] \in RealAttrs(d) /\ r.list[x].typ = "char"
    BY <1>4 DEF RealOf
  <2>2. r.list[x].h \in 1..l /\ r.list[x].h + 1 \in 1..l
    BY <1>2, <2>1, RealAttrsAre
  <2>3. f[x] = [h |-> r.list[x].h, vh |-> r.list[x].h + 1, endh |-> e, descs |-> <<>>, cccd |-> 0]
    BY <1>2, <1>4 DEF FoundDecls
  <2>4. <<>> \in Seq(Nat) /\ 0 \in Nat
    OBVIOUS
  <2>5. f[x] \in SomeChar(l)
    BY <1>3, <2>2, <2>3, <2>4 DEF SomeChar
  <2> QED  BY <2>2, <2>3, <2>5
<1>6. f \in Seq(SomeChar(l)) /\ Len(f) = n
  <2>1. f \in [1..n -> SomeChar(l)]
    BY <1>2, <1>4, <1>5 DEF FoundDecls
  <2>2. n \in Nat
    BY <1>4
  <2> QED  BY <2>1, <2>2, SeqIs, ZenonT(60)
<1>7. Last(f).vh \in 1..l
  <2>1. n \in 1..n
    BY <1>4
  <2> QED  BY <1>5, <1>6, <2>1 DEF Last
<1>8. PICK cs : cs = Closed(p[i].chars \o f, b)
  OBVIOUS
<1>9. cs \in Seq(SomeChar(l))
  <2>1. p[i].chars \o f \in Seq(SomeChar(l))
    BY <1>3, <1>6
  <2> QED  BY <1>8, <2>1, ClosedType
<1>10. PICK v : v = [p[i] EXCEPT !.chars = cs]
  OBVIOUS
<1>11. v \in SomeSvc(l)
  BY <1>3, <1>9, <1>10 DEF SomeSvc
<1>12. [p EXCEPT ![i] = v] \in Seq(SomeSvc(l)) /\ Len([p EXCEPT ![i] = v]) = Len(p)
  BY <1>2, <1>11
<1>13. [p EXCEPT ![i].chars = cs] = [p EXCEPT ![i] = v]
  BY <1>10, SMTT(30)
<1> QED  BY <1>2, <1>7, <1>8, <1>12, <1>13 DEF WithChars

(* Descriptors that were found join their characteristic. *)
LEMMA DescsFound ==
  ASSUME NEW d, NEW o, Laid(d, o), NEW mtu \in Nat, mtu >= 23, NEW s \in Nat,
         NEW p \in Seq(SomeSvc(Len(d))), NEW i \in 1..Len(p), NEW j \in 1..Len(p[i].chars),
         NEW r, r = handleFindInformationRequest(d, mtu, s, p[i].chars[j].endh), r.st = "ok"
  PROVE  /\ [p EXCEPT ![i].chars[j] = WithDescs(p[i].chars[j], r.list)] \in Seq(SomeSvc(Len(d)))
         /\ Len([p EXCEPT ![i].chars[j] = WithDescs(p[i].chars[j], r.list)]) = Len(p)
         /\ Len([p EXCEPT ![i].chars[j] = WithDescs(p[i].chars[j], r.list)][i].chars) = Len(p[i].chars)
         /\ Last(r.list).h \in 1..Len(d)
<1>1. s >= 1
  <2>1. s # 0
    BY ZeroRefused
  <2> QED  BY <2>1
<1>2. PICK l, n, c, g : l = Len(d) /\ n = Len(r.list) /\ c = p[i].chars[j] /\ g = r.list
  OBVIOUS
<1>3. p[i] \in SomeSvc(l) /\ p[i].chars \in Seq(SomeChar(l))
  <2>1. p[i] \in SomeSvc(l)
    BY <1>2
  <2> QED  BY <2>1 DEF SomeSvc
<1>4. c \in SomeChar(l) /\ c.endh \in Nat
  <2>1. c \in SomeChar(l)
    BY <1>2, <1>3
  <2> QED  BY <2>1 DEF SomeChar
<1>5. g \in Seq(RealAttrs(d)) /\ n \in Nat /\ DOMAIN g = 1..n /\ n >= 1 /\ Len(g) = n
  <2>1. Reply(r, s, c.endh, subrange(d, s, c.endh), RealAttrs(d))
    BY <1>1, <1>2, <1>4, InfoReply
  <2> QED  BY <1>2, <2>1, Entries
<1>6. \A x \in 1..n : g[x].h \in 1..l
  <2>1. ASSUME NEW x \in 1..n  PROVE g[x].h \in 1..l
    <3>1. g[x] \in RealAttrs(d)
      BY <1>5
    <3> QED  BY <1>2, <3>1, RealAttrsAre
  <2> QED  BY <2>1
<1>7. Last(g).h \in 1..l
  <2>1. n \in 1..n
    BY <1>5
  <2> QED  BY <1>5, <1>6, <2>1 DEF Last
<1>8. PICK C, a : /\ C = {g[x].h : x \in {x \in DOMAIN g : g[x].typ = "ccc"}}
                  /\ a = [x \in DOMAIN g |-> g[x].h]
  OBVIOUS
<1>9. a \in Seq(Nat)
  <2>1. \A x \in 1..n : g[x].h \in Nat
    BY <1>6
  <2>2. a \in [1..n -> Nat]
    BY <1>5, <1>8, <2>1
  <2> QED  BY <1>5, <2>2, SeqIs
<1>10. C # {} => Max(C) \in Nat
  <2>1. SUFFICES ASSUME C # {}  PROVE Max(C) \in Nat
    OBVIOUS
  <2>2. C \in SUBSET (1..l)
    BY <1>5, <1>6, <1>8
  <2>3. l \in Nat
    BY <1>2 DEF Laid, SvcsHold
  <2>4. Max(C) \in C
    BY <2>1, <2>2, <2>3, MaxIs
  <2>5. Max(C) \in 1..l
    BY <2>2, <2>4
  <2> QED  BY <2>5
<1>11. PICK w : w = WithDescs(c, g)
  OBVIOUS
<1>12. w = [c EXCEPT !.descs = @ \o a, !.cccd = IF C = {} THEN @ ELSE Max(C)]
  BY <1>8, <1>11, Zenon DEF WithDescs
<1>13. w \in SomeChar(l)
  <2>1. c.descs \in Seq(Nat) /\ c.cccd \in Nat
    BY <1>4 DEF SomeChar
  <2>2. PICK y, z : y = c.descs \o a /\ z = IF C = {} THEN c.cccd ELSE Max(C)
    OBVIOUS
  <2>3. y \in Seq(Nat) /\ z \in Nat
    BY <1>9, <1>10, <2>1, <2>2
  <2>4. w = [c EXCEPT !.descs = y, !.cccd = z]
    BY <1>12, <2>2
  <2> QED  BY <1>4, <2>3, <2>4 DEF SomeChar
<1>14. PICK cs, v : cs = [p[i].chars EXCEPT ![j] = w] /\ v = [p[i] EXCEPT !.chars = cs]
  <2>1. PICK cs : cs = [p[i].chars EXCEPT ![j] = w]
    OBVIOUS
  <2> QED  BY <2>1
<1>15. cs \in Seq(SomeChar(l)) /\ Len(cs) = Len(p[i].chars)
  BY <1>3, <1>13, <1>14
<1>16. v \in SomeSvc(l) /\ v.chars = cs
  BY <1>3, <1>14, <1>15 DEF SomeSvc
<1>17. PICK q : q = [p EXCEPT ![i] = v]
  OBVIOUS
<1>18. q \in Seq(SomeSvc(l)) /\ Len(q) = Len(p) /\ q[i] = v
  BY <1>2, <1>16, <1>17
<1>19. [p EXCEPT ![i].chars[j] = w] = q
  BY <1>14, <1>17
<1> QED  BY <1>2, <1>7, <1>11, <1>15, <1>16, <1>18, <1>19

-----------------------------------------------------------------------------
(* Where a fresh discovery is: between two services, in front of the       *)
(* characteristics or of the descriptors it has not found.                 *)
AtSvcs(o, p, s) ==
  \E k \in 0..Len(o) : /\ k < Len(o) \/ Len(o) = 0
                       /\ p = [i \in 1..k |-> SvcWith(o, i, <<>>)] /\ s = SvcStart(o, k + 1)
AtChars(o, p, s, i) ==
  /\ i \in 1..Len(o)
  /\ \E k \in 0..Len(o[i].chars) :
       /\ p = UpTo(o, i, FoundChars(o, i, k))
       /\ s = IF k = 0 THEN SvcStart(o, i) ELSE After(CharStart(o, i, k) + 1)
AtDescs(o, p, s, i, j) ==
  /\ i \in 1..Len(o) /\ j \in 1..Len(o[i].chars)
  /\ \E t \in 0..(CharSize(o[i].chars[j]) - 2) :
       p = UpTo(o, i, Filled(o, i, j, t)) /\ s = After(CharStart(o, i, j) + 1 + t)

(* A page of services: the next ones, or all that are left.                *)
LEMMA SvcsStep ==
  ASSUME NEW d, NEW o, Laid(d, o), NEW mtu \in Nat, mtu >= 23, NEW p, NEW s, AtSvcs(o, p, s),
         NEW r, r = handleReadByGroupRequest(d, mtu, s, HMax)
  PROVE  IF r.st = "notFound" \/ Last(FoundSvcs(r.list)).endh = HMax
         THEN p \o FoundSvcs(r.list) = UpTo(o, 1, <<>>)
         ELSE AtSvcs(o, p \o FoundSvcs(r.list), After(Last(FoundSvcs(r.list)).endh))
<1>1. PICK n : n = Len(o)
  OBVIOUS
<1>2. PICK k \in 0..n : /\ k < n \/ n = 0
                        /\ p = [i \in 1..k |-> SvcWith(o, i, <<>>)] /\ s = SvcStart(o, k + 1)
  BY <1>1 DEF AtSvcs
<1>3. o \in Seq(Service) /\ n \in Nat /\ HMax \in Nat
  BY <1>1, HMaxAssumption DEF Laid
<1>4. /\ n = 0 => r.st = "notFound" /\ r.list = <<>>
      /\ n # 0 => /\ r.st = "ok" /\ r.list \in Seq(Attribute) /\ Len(r.list) \in 1..(n - k)
                  /\ \A x \in 1..Len(r.list) : /\ r.list[x].h = SvcStart(o, k + x)
                                               /\ r.list[x].endh = SvcEnd(o, k + x)
  BY <1>1, <1>2, GroupPage
<1>5. PICK f, u : f = FoundSvcs(r.list) /\ u = p \o f
  <2>1. PICK f : f = FoundSvcs(r.list)
    OBVIOUS
  <2> QED  BY <2>1
<1>6. PICK S : S = {SvcWith(o, i, <<>>) : i \in 1..n}
  OBVIOUS
<1>7. p \in Seq(S) /\ Len(p) = k /\ k \in Nat
  <2>1. k \in Nat /\ \A i \in 1..k : i \in 1..n
    BY <1>3
  <2>2. p \in [1..k -> S]
    BY <1>2, <1>6, <2>1
  <2> QED  BY <2>1, <2>2, SeqIs
<1>8. CASE n = 0
  <2>1. r.st = "notFound" /\ r.list = <<>> /\ k = 0
    BY <1>4, <1>8
  <2>2. DOMAIN r.list = 1..0
    BY <2>1
  <2>3. f \in [1..0 -> S]
    BY <1>5, <2>2 DEF FoundSvcs
  <2>4. f \in Seq(S) /\ Len(f) = 0
    BY <2>3, SeqIs
  <2>5. f = <<>> /\ p = <<>>
    BY <1>7, <2>1, <2>4, EmptySeq
  <2>6. u = <<>>
    BY <1>5, <2>5
  <2>7. UpTo(o, 1, <<>>) = <<>>
    <3>1. PICK w : w = UpTo(o, 1, <<>>)
      OBVIOUS
    <3>2. w \in [1..0 -> {w[x] : x \in 1..0}]
      BY <1>1, <1>8, <3>1 DEF UpTo
    <3>3. w \in Seq({w[x] : x \in 1..0}) /\ Len(w) = 0
      BY <3>2, SeqIs
    <3>4. w = <<>>
      BY <3>3, EmptySeq
    <3> QED  BY <3>1, <3>4
  <2> QED  BY <1>5, <2>1, <2>6, <2>7
<1>9. CASE n # 0
  <2>1. PICK c, m : c = Len(r.list) /\ m = k + c
    <3>1. PICK c : c = Len(r.list)
      OBVIOUS
    <3> QED  BY <3>1
  <2>2. /\ r.st = "ok" /\ c \in 1..(n - k) /\ DOMAIN r.list = 1..c
        /\ \A x \in 1..c : r.list[x].h = SvcStart(o, k + x) /\ r.list[x].endh = SvcEnd(o, k + x)
    BY <1>4, <1>9, <2>1
  <2>3. c \in Nat /\ c >= 1 /\ m \in 1..n /\ m \in Nat
    <3>1. k \in 0..n /\ n \in Nat /\ c \in 1..(n - k) /\ m = k + c
      BY <1>3, <2>1, <2>2
    <3> QED  BY <3>1
  <2>4. ASSUME NEW x \in 1..c  PROVE f[x] = SvcWith(o, k + x, <<>>) /\ k + x \in 1..n
    <3>1. f[x] = [h |-> r.list[x].h, endh |-> r.list[x].endh, chars |-> <<>>]
      BY <1>5, <2>2 DEF FoundSvcs
    <3>2. k + x \in 1..n
      BY <1>3, <1>7, <2>2, <2>3
    <3> QED  BY <2>2, <3>1, <3>2 DEF SvcWith
  <2>5. f \in Seq(S) /\ Len(f) = c
    <3>1. \A x \in 1..c : f[x] \in S
      BY <1>6, <2>4
    <3>2. f \in [1..c -> S]
      BY <1>5, <2>2, <3>1 DEF FoundSvcs
    <3> QED  BY <2>3, <3>2, SeqIs
  <2>6. u \in Seq(S) /\ Len(u) = m /\ \A x \in 1..m : u[x] = SvcWith(o, x, <<>>)
    <3>1. /\ u \in Seq(S) /\ Len(u) = Len(p) + Len(f)
          /\ \A x \in 1..Len(p) : u[x] = p[x]
          /\ \A x \in 1..Len(f) : u[Len(p) + x] = f[x]
      <4>1. p \in Seq(S) /\ f \in Seq(S)
        BY <1>7, <2>5
      <4> QED  BY <1>5, <4>1, JoinIs
    <3>2. /\ u \in Seq(S) /\ Len(u) = m /\ \A x \in 1..k : u[x] = p[x]
          /\ \A x \in 1..c : u[k + x] = f[x]
      BY <1>7, <2>1, <2>5, <3>1
    <3>3. ASSUME NEW x \in 1..m  PROVE u[x] = SvcWith(o, x, <<>>)
      <4>1. CASE x <= k
        <5>1. x \in 1..k
          BY <1>7, <4>1
        <5> QED  BY <1>2, <3>2, <5>1
      <4>2. CASE ~(x <= k)
        <5>1. PICK y : y = x - k
          OBVIOUS
        <5>2. y \in 1..c /\ k + y = x
          BY <1>7, <2>1, <2>3, <4>2, <5>1
        <5> QED  BY <2>4, <3>2, <5>2
      <4> QED  BY <4>1, <4>2
    <3> QED  BY <3>2, <3>3
  <2>7. u = [x \in 1..m |-> SvcWith(o, x, <<>>)]
    <3>1. u = [x \in DOMAIN u |-> u[x]] /\ DOMAIN u = 1..m
      BY <2>6, LenProperties
    <3> QED  BY <2>6, <3>1
  <2>8. Last(f).endh = SvcEnd(o, m)
    <3>1. c \in 1..c
      BY <2>3
    <3>2. Last(f) = SvcWith(o, m, <<>>)
      BY <2>1, <2>4, <2>5, <3>1 DEF Last
    <3> QED  BY <3>2 DEF SvcWith
  <2>9. /\ m = n => SvcEnd(o, m) = HMax
        /\ m # n => /\ SvcEnd(o, m) = SvcStart(o, m + 1) - 1 /\ SvcEnd(o, m) < HMax
                    /\ SvcEnd(o, m) \in Nat /\ SvcStart(o, m + 1) \in Nat
    BY <1>1, <2>3, SvcEndIs
  <2>10. CASE m = n
    <3>1. ASSUME NEW x \in 1..n  PROVE UpTo(o, 1, <<>>)[x] = SvcWith(o, x, <<>>)
      <4>1. UpTo(o, 1, <<>>)[x] = SvcWith(o, x, IF x < 1 THEN AllChars(o, x) ELSE IF x = 1 THEN <<>> ELSE <<>>)
        BY <1>1, Zenon DEF UpTo
      <4>2. ~(x < 1)
        BY <1>3
      <4> QED  BY <4>1, <4>2
    <3>2. PICK w : w = UpTo(o, 1, <<>>)
      OBVIOUS
    <3>3. IsList(w, n) /\ \A x \in 1..n : w[x] = SvcWith(o, x, <<>>)
      BY <1>1, <1>3, <3>1, <3>2, UpToIs
    <3>4. IsList(u, n)
      BY <2>7, <2>10 DEF IsList
    <3>5. u = w
      BY <1>3, <2>6, <2>10, <3>3, <3>4, SameList
    <3> QED  BY <1>5, <2>8, <2>9, <2>10, <3>2, <3>5
  <2>11. CASE m # n
    <3>1. SvcEnd(o, m) \in 0..HMax /\ SvcEnd(o, m) < HMax
      BY <1>3, <2>9, <2>11
    <3>2. After(SvcEnd(o, m)) = SvcEnd(o, m) + 1
      BY <3>1, AfterIs
    <3>3. After(SvcEnd(o, m)) = SvcStart(o, m + 1)
      BY <2>9, <2>11, <3>2
    <3>4. m \in 0..n /\ m < n
      BY <1>3, <2>3, <2>11
    <3>5. AtSvcs(o, u, After(SvcEnd(o, m)))
      BY <1>1, <2>7, <3>3, <3>4 DEF AtSvcs
    <3>6. r.st # "notFound" /\ Last(f).endh # HMax
      BY <1>3, <2>2, <2>8, <3>1
    <3> QED  BY <1>5, <2>8, <3>5, <3>6
  <2> QED  BY <2>10, <2>11
<1> QED  BY <1>8, <1>9

(* The handles of a characteristic are handles. *)
LEMMA CharHandles ==
  ASSUME NEW d, NEW o, Laid(d, o), NEW i \in 1..Len(o), NEW j \in 1..Len(o[i].chars),
         NEW t \in 0..(CharSize(o[i].chars[j]) - 2)
  PROVE  /\ t \in Nat /\ CharStart(o, i, j) \in Nat /\ CharStart(o, i, j) + 1 + t \in 0..HMax
         /\ 0 \in 0..(CharSize(o[i].chars[j]) - 2) /\ CharSize(o[i].chars[j]) - 2 \in Nat
<1>1. PICK s, c, q : s = CharStart(o, i, j) /\ c = CharSize(o[i].chars[j]) /\ q = LastOf(o, i, j)
  OBVIOUS
<1>2. s \in Nat /\ q \in Nat /\ Len(d) \in Nat /\ q <= Len(d)
  BY <1>1, CharEndIs
<1>3. o \in Seq(Service) /\ Len(d) <= HMax /\ HMax \in Nat
  BY HMaxAssumption DEF Laid
<1>4. c \in Nat /\ c >= 2
  BY <1>1, <1>3, CharStartsAre
<1>5. q = s + c - 1 /\ t \in 0..(c - 2)
  BY <1>1 DEF LastOf
<1>6. s \in Nat /\ c \in Nat /\ c >= 2 /\ q <= HMax /\ HMax \in Nat
  BY <1>2, <1>3, <1>4
<1>7. s + 1 + t \in 0..HMax /\ t \in Nat /\ 0 \in 0..(c - 2) /\ c - 2 \in Nat
  BY <1>5, <1>6
<1> QED  BY <1>1, <1>2, <1>7

(* A page of characteristics: the next ones, or there were no more.        *)
LEMMA CharsStep ==
  ASSUME NEW d, NEW o, Laid(d, o), NEW mtu \in Nat, mtu >= 23, NEW p, NEW s, NEW i, AtChars(o, p, s, i),
         NEW e, e = p[i].endh, NEW r, r = handleReadByTypeRequest(d, mtu, s, e)
  PROVE  IF s > e \/ r.st = "notFound"
         THEN p = UpTo(o, i, FoundChars(o, i, Len(o[i].chars)))
         ELSE r.st = "ok" =>
                AtChars(o, [p EXCEPT ![i].chars = Closed(p[i].chars \o FoundDecls(r.list, e), 0)],
                        After(Last(FoundDecls(r.list, e)).vh), i)
<1>1. i \in 1..Len(o)
  BY DEF AtChars
<1>2. PICK m : m = Len(o[i].chars)
  OBVIOUS
<1>3. PICK k \in 0..m : /\ p = UpTo(o, i, FoundChars(o, i, k))
                        /\ s = IF k = 0 THEN SvcStart(o, i) ELSE After(CharStart(o, i, k) + 1)
  BY <1>2 DEF AtChars
<1>4. o \in Seq(Service) /\ Len(o) \in Nat /\ HMax \in Nat
  BY HMaxAssumption DEF Laid
<1>5. /\ m \in Nat /\ CharStart(o, i, 1) = SvcStart(o, i) + 1
      /\ \A j \in 1..(m + 1) : CharStart(o, i, j) \in Nat
      /\ \A j, l \in 1..(m + 1) : j < l => CharStart(o, i, j) + 2 <= CharStart(o, i, l)
  BY <1>1, <1>2, <1>4, CharStartsAre
<1>6. k \in Nat
  BY <1>5
<1>7. p[i] = SvcWith(o, i, FoundChars(o, i, k))
  BY <1>1, <1>3, <1>4, UpToIs
<1>8. e = SvcEnd(o, i) /\ p[i].chars = FoundChars(o, i, k) /\ e \in Nat
  <2>1. e = SvcEnd(o, i) /\ p[i].chars = FoundChars(o, i, k)
    BY <1>7 DEF SvcWith
  <2> QED  BY <1>1, <2>1, SvcEndIs
<1>9. SvcStart(o, i) \in Nat /\ SvcStart(o, i) >= 1
  <2>1. i \in 1..(Len(o) + 1)
    BY <1>1, <1>4
  <2> QED  BY <1>4, <2>1, StartsAre
<1>10. CASE s = 0
  <2>1. r.st = "invalid" /\ ~(s > e)
    BY <1>8, <1>10, ZeroRefused
  <2> QED  BY <2>1
<1>11. ASSUME s # 0
       PROVE  /\ s \in Nat /\ s >= 1 /\ SvcStart(o, i) <= s
              /\ k # 0 => CharStart(o, i, k) < s
              /\ s <= CharStart(o, i, k + 1)
  <2>1. CASE k = 0
    <3>1. k + 1 = 1 /\ s = SvcStart(o, i)
      BY <1>3, <2>1
    <3> QED  BY <1>5, <1>9, <2>1, <3>1
  <2>2. CASE k # 0
    <3>1. k \in 1..m /\ k \in 1..(m + 1) /\ k + 1 \in 1..(m + 1) /\ k < k + 1 /\ 1 \in 1..(m + 1)
      <4>1. k \in 0..m /\ m \in Nat /\ k # 0
        BY <1>5, <2>2
      <4> QED  BY <4>1
    <3>2. PICK z : z = CharStart(o, i, k) /\ z \in Nat
      BY <1>5, <3>1
    <3>3. z + 1 \in 0..HMax
      <4>1. 0 \in 0..(CharSize(o[i].chars[k]) - 2)
        <5>1. CharSize(o[i].chars[k]) \in Nat /\ CharSize(o[i].chars[k]) >= 2
          BY <1>1, <1>2, <1>4, <3>1, CharStartsAre
        <5> QED  BY <5>1
      <4>2. k \in 1..Len(o[i].chars)
        BY <1>2, <3>1
      <4>3. CharStart(o, i, k) + 1 + 0 \in 0..HMax
        BY <1>1, <4>1, <4>2, CharHandles
      <4> QED  BY <3>2, <4>3
    <3>4. s = After(z + 1)
      BY <1>3, <2>2, <3>2
    <3>5. z + 1 < HMax /\ s = z + 2
      <4>1. z + 1 # HMax
        BY <1>11, <3>3, <3>4, AfterIs
      <4>2. z + 1 < HMax
        BY <1>4, <3>3, <4>1
      <4>3. After(z + 1) = z + 1 + 1
        BY <3>3, <4>2, AfterIs
      <4> QED  BY <3>2, <3>4, <4>2, <4>3
    <3>6. z + 2 <= CharStart(o, i, k + 1) /\ CharStart(o, i, k + 1) \in Nat
      BY <1>5, <3>1, <3>2
    <3>7. SvcStart(o, i) <= z
      <4>1. PICK b : b = CharStart(o, i, 1) /\ b \in Nat /\ b = SvcStart(o, i) + 1
        BY <1>5, <3>1
      <4>2. b <= z
        <5>1. k = 1 \/ 1 < k
          BY <3>1
        <5>2. 1 < k => b + 2 <= z
          BY <1>5, <3>1, <3>2, <4>1
        <5> QED  BY <3>2, <4>1, <5>1, <5>2
      <4> QED  BY <1>9, <3>2, <4>1, <4>2
    <3> QED  BY <1>9, <3>2, <3>5, <3>6, <3>7
  <2> QED  BY <2>1, <2>2
<1>12. CASE s # 0
  <2>1. /\ s > e \/ r.st = "notFound" => k = m
        /\ r.st = "ok" => /\ r.list \in Seq(Attribute) /\ Len(r.list) \in 1..(m - k)
                          /\ \A x \in 1..Len(r.list) : r.list[x].h = CharStart(o, i, k + x)
    <3>1. PICK h : h = s /\ h \in Nat /\ h >= 1
      BY <1>11, <1>12
    <3>2. /\ SvcStart(o, i) <= h /\ (k # 0 => CharStart(o, i, k) < h) /\ h <= CharStart(o, i, k + 1)
          /\ r = handleReadByTypeRequest(d, mtu, h, SvcEnd(o, i)) /\ k \in 0..Len(o[i].chars)
      BY <1>2, <1>8, <1>11, <1>12, <3>1
    <3>3. /\ h > SvcEnd(o, i) \/ r.st = "notFound" => k = Len(o[i].chars)
          /\ r.st = "ok" => /\ r.list \in Seq(Attribute) /\ Len(r.list) \in 1..(Len(o[i].chars) - k)
                            /\ \A x \in 1..Len(r.list) : r.list[x].h = CharStart(o, i, k + x)
      BY <1>1, <3>1, <3>2, TypePage, SMTT(40)
    <3> QED  BY <1>2, <1>8, <3>1, <3>3
  <2>2. CASE s > e \/ r.st = "notFound"
    BY <1>2, <1>3, <2>1, <2>2
  <2>3. ASSUME ~(s > e \/ r.st = "notFound"), r.st = "ok"
        PROVE  AtChars(o, [p EXCEPT ![i].chars = Closed(p[i].chars \o FoundDecls(r.list, e), 0)],
                       After(Last(FoundDecls(r.list, e)).vh), i)
    <3>1. PICK c, f : c = Len(r.list) /\ f = FoundDecls(r.list, e)
      OBVIOUS
    <3>2. /\ c \in 1..(m - k) /\ DOMAIN r.list = 1..c
          /\ \A x \in 1..c : r.list[x].h = CharStart(o, i, k + x)
      BY <2>1, <2>3, <3>1
    <3>3. c \in Nat /\ c >= 1 /\ k + c \in 0..m /\ k + c # 0
      <4>1. c \in 1..(m - k) /\ m \in Nat /\ k \in Nat
        BY <1>5, <1>6, <3>2
      <4> QED  BY <4>1
    <3>4. \A x \in 1..c : f[x] = Shown(o, i, k + x)
      BY <1>8, <3>1, <3>2 DEF FoundDecls, Shown
    <3>5. PICK S : S = {Shown(o, i, k + x) : x \in 1..c}
      OBVIOUS
    <3>6. f \in Seq(S) /\ Len(f) = c
      <4>1. f \in [1..c -> S]
        BY <3>1, <3>2, <3>4, <3>5 DEF FoundDecls
      <4> QED  BY <3>3, <4>1, SeqIs
    <3>7. Closed(FoundChars(o, i, k) \o f, 0) = FoundChars(o, i, k + c)
      <4>1. f \in Seq(S) /\ Len(f) >= 1 /\ \A x \in 1..Len(f) : f[x] = Shown(o, i, k + x)
        BY <3>3, <3>4, <3>6
      <4>2. Closed(FoundChars(o, i, k) \o f, 0) = FoundChars(o, i, k + Len(f))
        <5> HIDE DEF Shown
        <5> QED  BY <1>6, <4>1, CharsJoin
      <4> QED  BY <3>6, <4>2
    <3>8. [p EXCEPT ![i].chars = FoundChars(o, i, k + c)] = UpTo(o, i, FoundChars(o, i, k + c))
      BY <1>1, <1>3, <1>4, UpToChanges, SMTT(30)
    <3>9. Last(f).vh = CharStart(o, i, k + c) + 1
      <4>1. c \in 1..c
        BY <3>3
      <4>2. Last(f) = Shown(o, i, k + c)
        BY <3>4, <3>6, <4>1 DEF Last
      <4> QED  BY <4>2 DEF Shown
    <3>10. AtChars(o, UpTo(o, i, FoundChars(o, i, k + c)), After(CharStart(o, i, k + c) + 1), i)
      BY <1>1, <1>2, <3>3 DEF AtChars
    <3> QED  BY <1>8, <3>1, <3>7, <3>8, <3>9, <3>10
  <2> QED  BY <2>2, <2>3
<1> QED  BY <1>10, <1>12

(* A page of descriptors: the next ones, or there were no more.            *)
LEMMA DescsStep ==
  ASSUME NEW d, NEW o, Laid(d, o), NEW mtu \in Nat, mtu >= 23, NEW p, NEW s, NEW i, NEW j,
         AtDescs(o, p, s, i, j), NEW c, c = p[i].chars[j],
         NEW r, r = handleFindInformationRequest(d, mtu, s, c.endh)
  PROVE  IF s > c.endh \/ r.st = "notFound"
         THEN p = UpTo(o, i, Filled(o, i, j, CharSize(o[i].chars[j]) - 2))
         ELSE r.st = "ok" =>
                AtDescs(o, [p EXCEPT ![i].chars[j] = WithDescs(c, r.list)], After(Last(r.list).h), i, j)
<1>1. i \in 1..Len(o) /\ j \in 1..Len(o[i].chars)
  BY DEF AtDescs
<1>2. PICK m : m = CharSize(o[i].chars[j]) - 2
  OBVIOUS
<1>3. PICK t \in 0..m : p = UpTo(o, i, Filled(o, i, j, t)) /\ s = After(CharStart(o, i, j) + 1 + t)
  BY <1>2 DEF AtDescs
<1>4. o \in Seq(Service) /\ Len(o) \in Nat /\ HMax \in Nat
  BY HMaxAssumption DEF Laid
<1>5. o[i].chars \in Seq(Characteristic)
  <2>1. o[i] \in Service
    BY <1>1, <1>4
  <2> QED  BY <2>1 DEF Service
<1>6. Len(o[i].chars) \in Nat /\ Len(o[i].chars[j].descs) \in Nat
  <2>1. o[i].chars[j] \in Characteristic
    BY <1>1, <1>5
  <2>2. o[i].chars[j].descs \in Seq(UUIDLen)
    BY <2>1 DEF Characteristic
  <2> QED  BY <1>5, <2>2, LenProperties, Zenon
<1>7. c = FoundDescs(o, i, j, t)
  BY <1>1, <1>3, <1>4, <1>6, FilledChanges
<1>8. c.endh = CharEnd(o, i, j)
  BY <1>7 DEF FoundDescs
<1>9. PICK z : z = CharStart(o, i, j)
  OBVIOUS
<1>10. z \in Nat /\ t \in Nat /\ m \in Nat /\ z + 1 + t \in 0..HMax
  BY <1>1, <1>2, <1>3, <1>9, CharHandles
<1>11. s = After(z + 1 + t)
  BY <1>3, <1>9
<1>12. CharEnd(o, i, j) \in Nat
  BY <1>1, CharEndIs
<1>13. CASE s = 0
  <2>1. r.st = "invalid" /\ ~(s > c.endh)
    BY <1>8, <1>12, <1>13, ZeroRefused
  <2> QED  BY <2>1
<1>14. CASE s # 0
  <2>1. s = z + 2 + t
    <3>1. z + 1 + t # HMax
      BY <1>10, <1>11, <1>14, AfterIs
    <3>2. z + 1 + t < HMax
      BY <1>4, <1>10, <3>1
    <3>3. After(z + 1 + t) = z + 1 + t + 1
      BY <1>10, <3>2, AfterIs
    <3> QED  BY <1>10, <1>11, <3>3
  <2>2. Behind(s, o, i, j, t)
    BY <1>2, <1>9, <2>1 DEF Behind
  <2>3. /\ s > c.endh \/ r.st = "notFound" => t = m
        /\ r.st = "ok" => /\ r.list \in Seq(Attribute) /\ Len(r.list) \in 1..(m - t)
                          /\ ShownDescs(r.list, o, i, j, t)
    <3>1. r = handleFindInformationRequest(d, mtu, s, CharEnd(o, i, j))
      BY <1>8
    <3>2. /\ s > CharEnd(o, i, j) \/ r.st = "notFound" => t = CharSize(o[i].chars[j]) - 2
          /\ r.st = "ok" => /\ r.list \in Seq(Attribute) /\ Len(r.list) \in 1..(CharSize(o[i].chars[j]) - 2 - t)
                            /\ \A x \in 1..Len(r.list) :
                                 /\ r.list[x].h = CharStart(o, i, j) + 1 + t + x
                                 /\ r.list[x].typ = "ccc" <=> t + x > Len(o[i].chars[j].descs)
      BY <1>1, <2>2, <3>1, InfoPage, SMTT(40)
    <3> QED  BY <1>2, <1>8, <3>2 DEF ShownDescs
  <2>4. CASE s > c.endh \/ r.st = "notFound"
    BY <1>2, <1>3, <2>3, <2>4
  <2>5. ASSUME ~(s > c.endh \/ r.st = "notFound"), r.st = "ok"
        PROVE  AtDescs(o, [p EXCEPT ![i].chars[j] = WithDescs(c, r.list)], After(Last(r.list).h), i, j)
    <3>1. PICK g, n : g = r.list /\ n = Len(r.list)
      OBVIOUS
    <3>2. g \in Seq(Attribute) /\ n = Len(g) /\ n \in 1..(m - t) /\ ShownDescs(g, o, i, j, t)
      BY <2>3, <2>5, <3>1
    <3>3. n \in Nat /\ n >= 1 /\ t + n \in 0..m
      <4>1. n \in 1..(m - t) /\ m \in Nat /\ t \in Nat
        BY <1>10, <3>2
      <4> QED  BY <4>1
    <3>4. WithDescs(c, g) = FoundDescs(o, i, j, t + n)
      <4>1. CharStart(o, i, j) \in Nat /\ Len(g) >= 1
        BY <1>9, <1>10, <3>2, <3>3
      <4>2. WithDescs(FoundDescs(o, i, j, t), g) = FoundDescs(o, i, j, t + Len(g))
        BY <1>6, <1>10, <3>2, <4>1, DescsJoin
      <4> QED  BY <1>7, <3>2, <4>2
    <3>5. [p EXCEPT ![i].chars[j] = FoundDescs(o, i, j, t + n)] = UpTo(o, i, Filled(o, i, j, t + n))
      <4>1. PICK b : b = t + n
        OBVIOUS
      <4>2. [UpTo(o, i, Filled(o, i, j, t)) EXCEPT ![i].chars[j] = FoundDescs(o, i, j, b)]
              = UpTo(o, i, Filled(o, i, j, b))
        BY <1>1, <1>4, <1>6, FilledChanges
      <4> QED  BY <1>3, <4>1, <4>2
    <3>6. Last(g).h = z + 1 + (t + n)
      <4>1. n \in 1..n
        BY <3>3
      <4>2. g[n].h = CharStart(o, i, j) + 1 + t + n
        BY <3>2, <4>1 DEF ShownDescs
      <4>3. Last(g) = g[n]
        BY <3>2 DEF Last
      <4> QED  BY <1>9, <1>10, <3>3, <4>2, <4>3
    <3>7. AtDescs(o, UpTo(o, i, Filled(o, i, j, t + n)), After(CharStart(o, i, j) + 1 + (t + n)), i, j)
      BY <1>1, <1>2, <3>3 DEF AtDescs
    <3> QED  BY <1>9, <3>1, <3>4, <3>5, <3>6, <3>7
  <2> QED  BY <2>4, <2>5
<1> QED  BY <1>13, <1>14

-----------------------------------------------------------------------------
(* What is known of a walk in any case: the profile holds handles of the   *)
(* database, the indices are in it, and a walk only comes to handle 0 when *)
(* the database uses the last one.                                         *)
Loose(d, ph, p, s, i, j) ==
  /\ p = Nil \/ p \in Seq(SomeSvc(Len(d)))
  /\ ph \in {"svcs", "chars", "descs"} => p \in Seq(SomeSvc(Len(d))) /\ s \in Nat
  /\ ph \in {"chars", "descs"} => i \in 1..Len(p) /\ (s = 0 => Len(d) = HMax)
  /\ ph = "descs" => j \in 1..Len(p[i].chars)

(* And of a fresh one: where it is, and that what it returned is exact.    *)
ExactRet(o, rt) == rt.name = "discover" /\ rt.ok => rt.val = Hierarchy(o)
Exact(o, ph, p, s, i, j, b) ==
  /\ ph \in {"off", "idle", "long"} => p \in {Nil, Hierarchy(o)}
  /\ ph = "svcs" => AtSvcs(o, p, s)
  /\ ph = "chars" => AtChars(o, p, s, i) /\ b = 0
  /\ ph = "descs" => AtDescs(o, p, s, i, j)

(* A walk over a service begins, in any profile. *)
LEMMA ToServiceLoose ==
  ASSUME NEW d, NEW i \in Nat \ {0}, ToService(i), profile' \in Seq(SomeSvc(Len(d)))
  PROVE  /\ Loose(d, phase', profile', start', si', ci')
         /\ phase' # "off" /\ (ret' = ret \/ ret'.name # "wrapped")
<1>1. PICK l, n, p : l = Len(d) /\ n = Len(profile') /\ p = profile'
  OBVIOUS
<1>2. n \in Nat /\ p \in Seq(SomeSvc(l)) /\ DOMAIN p = 1..n
  BY <1>1
<1>3. CASE i > n
  <2>1. phase' = "idle" /\ ret'.name = "discover"
    BY <1>1, <1>3 DEF ToService, Returns
  <2> QED  BY <2>1 DEF Loose
<1>4. CASE ~(i > n)
  <2>1. phase' = "chars" /\ si' = i /\ start' = p[i].h /\ ret' = ret
    BY <1>1, <1>4 DEF ToService
  <2>2. i \in 1..n
    BY <1>2, <1>4
  <2>3. p[i] \in SomeSvc(l)
    BY <1>2, <2>2
  <2>4. p[i].h \in 1..l
    BY <2>3 DEF SomeSvc
  <2>5. start' \in Nat /\ start' # 0
    BY <2>1, <2>4
  <2> QED  BY <1>1, <2>1, <2>2, <2>5 DEF Loose
<1> QED  BY <1>3, <1>4

(* The handle behind one of the database's is 0 only when that was the     *)
(* last handle there is.                                                   *)
LEMMA AfterHandle ==
  ASSUME NEW l \in Nat, l <= HMax, NEW v \in 1..l
  PROVE  After(v) \in Nat /\ (After(v) = 0 => l = HMax)
<1>1. HMax \in Nat /\ v \in Nat /\ v <= l
  BY HMaxAssumption
<1>2. v \in 0..HMax /\ (v < HMax \/ v = HMax)
  BY <1>1
<1>3. CASE v < HMax
  <2>1. After(v) = v + 1
    BY <1>2, <1>3, AfterIs
  <2> QED  BY <1>1, <2>1
<1>4. CASE v = HMax
  <2>1. After(v) = 0 /\ l = HMax
    BY <1>1, <1>2, <1>4, AfterIs
  <2> QED  BY <2>1
<1> QED  BY <1>2, <1>3, <1>4

(* And one over the descriptors of a characteristic. *)
LEMMA ToCharLoose ==
  ASSUME NEW d, Len(d) \in Nat, Len(d) <= HMax, NEW j \in Nat \ {0}, ToChar(j),
         profile' \in Seq(SomeSvc(Len(d))), si \in 1..Len(profile')
  PROVE  /\ Loose(d, phase', profile', start', si', ci')
         /\ phase' # "off" /\ (ret' = ret \/ ret'.name # "wrapped")
<1>1. PICK l, p, i, n : l = Len(d) /\ p = profile' /\ i = si /\ n = Len(profile'[si].chars)
  OBVIOUS
<1>2. i \in Nat /\ i \in 1..Len(p) /\ i + 1 \in Nat \ {0} /\ HMax \in Nat
  BY <1>1, HMaxAssumption
<1>3. p[i].chars \in Seq(SomeChar(l))
  <2>1. p[i] \in SomeSvc(l)
    BY <1>1, <1>2
  <2> QED  BY <2>1 DEF SomeSvc
<1>4. n \in Nat /\ n = Len(p[i].chars)
  BY <1>1, <1>3
<1>5. CASE j > n
  <2>1. ToService(si + 1)
    BY <1>1, <1>5, Zenon DEF ToChar
  <2>2. si + 1 \in Nat \ {0}
    BY <1>1, <1>2
  <2> QED  BY <2>1, <2>2, ToServiceLoose
<1>6. CASE ~(j > n)
  <2>1. phase' = "descs" /\ ci' = j /\ start' = After(p[i].chars[j].vh) /\ si' = i /\ ret' = ret
    BY <1>1, <1>6, Zenon DEF ToChar
  <2>2. j \in 1..n
    BY <1>4, <1>6
  <2>3. p[i].chars[j] \in SomeChar(l)
    BY <1>3, <1>4, <2>2
  <2>4. PICK v : v = p[i].chars[j].vh /\ v \in 1..l
    BY <2>3 DEF SomeChar
  <2>5. start' \in Nat /\ (start' = 0 => l = HMax)
    BY <1>1, <2>1, <2>4, AfterHandle
  <2> QED  BY <1>1, <1>2, <1>4, <2>1, <2>2, <2>5 DEF Loose
<1> QED  BY <1>5, <1>6

(* A fresh walk over a service begins, or the profile is the hierarchy. *)
LEMMA ToServiceExact ==
  ASSUME NEW d, NEW o, Laid(d, o), NEW i \in 1..(Len(o) + 1), ToService(i),
         profile' = UpTo(o, i, <<>>), ExactRet(o, ret)
  PROVE  Exact(o, phase', profile', start', si', ci', base') /\ ExactRet(o, ret')
<1>1. PICK n, p : n = Len(o) /\ p = profile'
  OBVIOUS
<1>2. o \in Seq(Service) /\ n \in Nat /\ i \in 1..(n + 1)
  BY <1>1 DEF Laid
<1>3. /\ Len(p) = n
      /\ i \in 1..n => p[i] = SvcWith(o, i, <<>>)
  BY <1>1, <1>2, UpToIs
<1>4. CASE i > n
  <2>1. i = n + 1
    BY <1>2, <1>4
  <2>2. p = Hierarchy(o)
    BY <1>1, <1>2, <2>1, AllDone
  <2>3. phase' = "idle" /\ ret' = [name |-> "discover", ok |-> TRUE, val |-> p]
    BY <1>1, <1>3, <1>4, Zenon DEF ToService, Returns
  <2> QED  BY <1>1, <2>2, <2>3 DEF Exact, ExactRet
<1>5. CASE ~(i > n)
  <2>1. i \in 1..n
    BY <1>2, <1>5
  <2>2. phase' = "chars" /\ si' = i /\ start' = p[i].h /\ base' = Len(p[i].chars) /\ ret' = ret
    BY <1>1, <1>3, <1>5, Zenon DEF ToService
  <2>3. p[i].h = SvcStart(o, i) /\ p[i].chars = <<>>
    BY <1>3, <2>1 DEF SvcWith
  <2>4. base' = 0 /\ start' = SvcStart(o, i)
    BY <2>2, <2>3
  <2>5. FoundChars(o, i, 0) = <<>>
    BY NoneFound
  <2>6. p = UpTo(o, i, FoundChars(o, i, 0))
    BY <1>1, <2>5
  <2>7. 0 \in 0..Len(o[i].chars)
    <3>1. o[i] \in Service
      BY <1>1, <1>2, <2>1
    <3>2. o[i].chars \in Seq(Characteristic)
      BY <3>1 DEF Service
    <3> QED  BY <3>2
  <2>8. AtChars(o, p, start', i)
    BY <1>1, <2>1, <2>4, <2>6, <2>7 DEF AtChars
  <2> QED  BY <1>1, <2>2, <2>4, <2>8 DEF Exact, ExactRet
<1> QED  BY <1>4, <1>5

(* The characteristics of a service when discovery comes to its j-th one. *)
Reached(o, i, j, cs) ==
  /\ j \in 1..(Len(o[i].chars) + 1)
  /\ IF j > Len(o[i].chars) THEN cs = AllChars(o, i) ELSE cs = Filled(o, i, j, 0)

(* A fresh walk over descriptors begins, or the next service does. *)
LEMMA ToCharExact ==
  ASSUME NEW d, NEW o, Laid(d, o), NEW i \in 1..Len(o), NEW j, ToChar(j), NEW cs, Reached(o, i, j, cs),
         profile' = UpTo(o, i, cs), si = i, ExactRet(o, ret)
  PROVE  Exact(o, phase', profile', start', si', ci', base') /\ ExactRet(o, ret')
<1>1. PICK n, p, m : n = Len(o) /\ p = profile' /\ m = Len(o[i].chars)
  OBVIOUS
<1>2. o \in Seq(Service) /\ n \in Nat /\ i \in 1..n
  BY <1>1 DEF Laid
<1>3. m \in Nat
  <2>1. o[i] \in Service
    BY <1>1, <1>2
  <2>2. o[i].chars \in Seq(Characteristic)
    BY <2>1 DEF Service
  <2> QED  BY <1>1, <2>2
<1>4. /\ j \in 1..(m + 1)
      /\ IF j > m THEN cs = AllChars(o, i) ELSE cs = Filled(o, i, j, 0)
  BY <1>1 DEF Reached
<1>5. p[i].chars = cs
  <2>1. p[i] = SvcWith(o, i, cs)
    BY <1>1, <1>2, UpToIs
  <2> QED  BY <2>1 DEF SvcWith
<1>6. CASE j > m
  <2>1. cs = AllChars(o, i)
    BY <1>4, <1>6
  <2>2. Len(cs) = m
    <3>1. cs \in [1..m -> {Described(o, i, x) : x \in 1..m}]
      BY <1>1, <2>1 DEF AllChars
    <3> QED  BY <1>3, <3>1, SeqIs
  <2>3. j > Len(profile'[si].chars)
    BY <1>1, <1>5, <1>6, <2>2
  <2>4. ToService(si + 1)
    BY <2>3, Zenon DEF ToChar
  <2>5. ToService(i + 1)
    BY <2>4
  <2>6. profile' = UpTo(o, i + 1, <<>>)
    BY <1>1, <1>2, <2>1, NextSvc
  <2>7. i + 1 \in 1..(Len(o) + 1)
    BY <1>1, <1>2
  <2> QED  BY <2>5, <2>6, <2>7, ToServiceExact
<1>7. CASE ~(j > m)
  <2>1. cs = Filled(o, i, j, 0) /\ j \in 1..m
    BY <1>3, <1>4, <1>7
  <2>2. Len(cs) = m /\ cs[j] = FoundDescs(o, i, j, 0)
    <3>1. Len(Filled(o, i, j, 0)) = Len(o[i].chars)
      BY <1>1, <1>3, FilledIs
    <3>2. Filled(o, i, j, 0)[j] = FoundDescs(o, i, j, 0)
      BY <1>1, <1>3, <2>1, FilledIs
    <3> QED  BY <1>1, <2>1, <3>1, <3>2
  <2>3. ~(j > Len(profile'[si].chars))
    BY <1>1, <1>5, <1>7, <2>2
  <2>4. phase' = "descs" /\ ci' = j /\ start' = After(profile'[si].chars[j].vh) /\ si' = si /\ ret' = ret
    BY <2>3, Zenon DEF ToChar
  <2>5. start' = After(CharStart(o, i, j) + 1)
    BY <1>1, <1>5, <2>2, <2>4 DEF FoundDescs
  <2>6. PICK z : z = CharStart(o, i, j)
    OBVIOUS
  <2>7. z \in Nat /\ 0 \in 0..(CharSize(o[i].chars[j]) - 2)
    <3>1. CharSize(o[i].chars[j]) \in Nat /\ CharSize(o[i].chars[j]) >= 2
      BY <1>1, <1>2, <2>1, CharStartsAre
    <3>2. 0 \in 0..(CharSize(o[i].chars[j]) - 2)
      BY <3>1
    <3>3. CharStart(o, i, j) \in Nat
      BY <1>1, <2>1, <3>2, CharHandles
    <3> QED  BY <2>6, <3>2, <3>3
  <2>8. z + 1 = z + 1 + 0
    BY <2>7
  <2>9. start' = After(CharStart(o, i, j) + 1 + 0)
    BY <2>5, <2>6, <2>8
  <2>10. AtDescs(o, p, start', i, j)
    BY <1>1, <2>1, <2>7, <2>9 DEF AtDescs
  <2> QED  BY <1>1, <2>4, <2>10 DEF Exact, ExactRet
<1> QED  BY <1>6, <1>7

(* Behind the characteristics of a service, discovery comes to the first   *)
(* one, and behind the descriptors of one to the next.                     *)
LEMMA FirstReached ==
  ASSUME NEW d, NEW o, Laid(d, o), NEW i \in 1..Len(o)
  PROVE  Reached(o, i, 1, FoundChars(o, i, Len(o[i].chars)))
<1>1. PICK m : m = Len(o[i].chars)
  OBVIOUS
<1>2. o \in Seq(Service) /\ m \in Nat
  <2>1. o \in Seq(Service)
    BY DEF Laid
  <2>2. o[i] \in Service
    BY <2>1
  <2>3. o[i].chars \in Seq(Characteristic)
    BY <2>2 DEF Service
  <2> QED  BY <1>1, <2>1, <2>3
<1>3. CASE m = 0
  <2>1. FoundChars(o, i, m) = AllChars(o, i)
    BY <1>1, <1>3, NoneFound
  <2> QED  BY <1>1, <1>3, <2>1 DEF Reached
<1>4. CASE m # 0
  <2>1. m >= 1
    BY <1>2, <1>4
  <2>2. FoundChars(o, i, m) = Filled(o, i, 1, 0)
    BY <1>1, <1>2, <2>1, ToDescs
  <2>3. 1 \in 1..(m + 1) /\ ~(1 > m)
    BY <1>2, <2>1
  <2> QED  BY <1>1, <2>2, <2>3 DEF Reached
<1> QED  BY <1>3, <1>4

(* From one characteristic to the next.                                    *)
LEMMA NextReached ==
  ASSUME NEW d, NEW o, Laid(d, o), NEW i \in 1..Len(o), NEW j \in 1..Len(o[i].chars)
  PROVE  Reached(o, i, j + 1, Filled(o, i, j, CharSize(o[i].chars[j]) - 2))
<1>1. PICK m, cs : m = Len(o[i].chars) /\ cs = Filled(o, i, j, CharSize(o[i].chars[j]) - 2)
  OBVIOUS
<1>2. o \in Seq(Service) /\ m \in Nat
  <2>1. o \in Seq(Service)
    BY DEF Laid
  <2>2. o[i] \in Service
    BY <2>1
  <2>3. o[i].chars \in Seq(Characteristic)
    BY <2>2 DEF Service
  <2> QED  BY <1>1, <2>1, <2>3
<1>3. /\ j # m => cs = Filled(o, i, j + 1, 0)
      /\ j = m => cs = AllChars(o, i)
  BY <1>1, <1>2, NextChar
<1>4. j \in 1..m
  BY <1>1
<1>5. j + 1 \in 1..(m + 1) /\ (j + 1 > m <=> j = m)
  BY <1>2, <1>4
<1>6. IF j + 1 > m THEN cs = AllChars(o, i) ELSE cs = Filled(o, i, j + 1, 0)
  BY <1>3, <1>5
<1> QED  BY <1>1, <1>5, <1>6 DEF Reached

-----------------------------------------------------------------------------
(* The inductive invariant of discovery.  In any case the walk is within   *)
(* the database, and before a connection there is no profile.              *)
Sound ==
  /\ Loose(db, phase, profile, start, si, ci)
  /\ phase = "off" => profile = Nil /\ ret = NoRet
  /\ ret.name = "wrapped" => Len(db) = HMax

(* A fresh discovery is where it should be, and returned the hierarchy.    *)
Walks ==
  ~used => Exact(on, phase, profile, start, si, ci, base) /\ ExactRet(on, ret)

(* Together, with the database laid out as its services say.               *)
DiscIInv == DbSound /\ Sound /\ Walks

(* It holds in the beginning. *)
LEMMA DiscInit == SessionInit => DiscIInv
<1> SUFFICES ASSUME SessionInit  PROVE DiscIInv
  OBVIOUS
<1>1. /\ svcs = Default /\ on = Rebuilt(Default) /\ db = NewDB(on) /\ room = DefaultMTU
      /\ profile = Nil /\ phase = "off" /\ ret = NoRet /\ used = FALSE
  BY DEF SessionInit
<1>2. DbSound
  <2>1. Default \in Seq(Service) /\ Len(NewDB(Rebuilt(Default))) <= HMax
    BY ServicesAssumption
  <2>2. Laid(NewDB(Rebuilt(Default)), Rebuilt(Default))
    BY <2>1, NewLaid
  <2>3. Laid(db, on)
    BY <1>1, <2>2
  <2> QED  BY <1>1, <2>1, <2>3, MtuAssumption DEF DbSound
<1>3. Sound
  BY <1>1 DEF Sound, Loose, NoRet
<1>4. Walks
  BY <1>1 DEF Walks, Exact, ExactRet, NoRet
<1> QED  BY <1>2, <1>3, <1>4 DEF DiscIInv

(* Steps that leave discovery and the connection's database alone keep it. *)
LEMMA ElsewhereDisc ==
  ASSUME DiscIInv, UNCHANGED <<db, on, disc>>,
         \/ phase' = phase
         \/ phase' \in {"idle", "long"} /\ phase \in {"off", "idle", "long"},
         \/ ret' = ret
         \/ ret'.name \notin {"discover", "wrapped"} /\ phase' # "off"
  PROVE  Sound' /\ Walks'
<1>1. UNCHANGED <<db, on, profile, start, si, ci, base, used>>
  BY DEF disc
<1>2. Sound'
  BY <1>1 DEF DiscIInv, Sound, Loose
<1>3. Walks'
  BY <1>1 DEF DiscIInv, Walks, Exact, ExactRet
<1> QED  BY <1>2, <1>3

(* The services change: a connection keeps its database, and before there  *)
(* is one there is no profile.                                             *)
LEMMA ChangeDisc ==
  ASSUME DiscIInv, NEW new, Change(new)
  PROVE  Sound' /\ Walks'
<1>1. UNCHANGED <<phase, disc, ret>>
  BY DEF Change
<1>2. CASE phase = "off"
  <2>1. profile = Nil /\ ret = NoRet
    BY <1>2 DEF DiscIInv, Sound
  <2>2. phase' = "off" /\ profile' = Nil /\ ret' = NoRet
    BY <1>1, <1>2, <2>1 DEF disc
  <2>3. Sound'
    BY <2>2 DEF Sound, Loose, NoRet
  <2>4. Walks'
    BY <2>2 DEF Walks, Exact, ExactRet, NoRet
  <2> QED  BY <2>3, <2>4
<1>3. CASE phase # "off"
  <2>1. UNCHANGED <<db, on>>
    BY <1>3 DEF Change
  <2> QED  BY <1>1, <2>1, ElsewhereDisc
<1> QED  BY <1>2, <1>3

(* A cached profile is returned. *)
LEMMA CachedDisc ==
  ASSUME DiscIInv, CachedProfile
  PROVE  Sound' /\ Walks'
<1>1. /\ phase = "idle" /\ phase' = "idle" /\ profile # Nil
      /\ ret' = [name |-> "discover", ok |-> TRUE, val |-> profile]
      /\ UNCHANGED <<db, on, profile, start, si, ci, base, used>>
  BY DEF CachedProfile, Begin, Returns, srv, disc
<1>2. Sound'
  BY <1>1 DEF DiscIInv, Sound, Loose
<1>3. Walks'
  BY <1>1 DEF DiscIInv, Walks, Exact, ExactRet
<1> QED  BY <1>2, <1>3

(* Discovery begins. *)
LEMMA BeginDisc ==
  ASSUME DiscIInv, NEW force, DiscoverProfile(force)
  PROVE  Sound' /\ Walks'
<1>1. /\ phase = "idle" /\ phase' = "svcs" /\ start' = 1 /\ ret' = NoRet
      /\ profile' = (IF profile = Nil THEN <<>> ELSE profile)
      /\ used' = (used \/ profile # Nil)
      /\ UNCHANGED <<db, on, si, ci, base>>
  BY DEF DiscoverProfile, Begin, srv
<1>2. Sound'
  <2>1. profile' \in Seq(SomeSvc(Len(db)))
    BY <1>1 DEF DiscIInv, Sound, Loose
  <2> QED  BY <1>1, <2>1 DEF Sound, Loose, NoRet
<1>3. Walks'
  <2>1. SUFFICES ASSUME ~used'  PROVE Exact(on, "svcs", <<>>, 1, si, ci, base)
    <3>1. ~used' => profile' = <<>>
      BY <1>1
    <3> QED  BY <1>1, <2>1, <3>1 DEF Walks, ExactRet, NoRet
  <2>2. on \in Seq(Service)
    BY DEF DiscIInv, DbSound, Laid
  <2>3. PICK n : n = Len(on) /\ n \in Nat
    BY <2>2
  <2>4. <<>> = [i \in 1..0 |-> SvcWith(on, i, <<>>)]
    <3>1. PICK w : w = [i \in 1..0 |-> SvcWith(on, i, <<>>)]
      OBVIOUS
    <3>2. w \in [1..0 -> {w[x] : x \in 1..0}]
      BY <3>1
    <3>3. w \in Seq({w[x] : x \in 1..0}) /\ Len(w) = 0
      BY <3>2, SeqIs
    <3>4. w = <<>>
      BY <3>3, EmptySeq
    <3> QED  BY <3>1, <3>4
  <2>5. SvcStart(on, 0 + 1) = 1
    BY <2>2, StartsAre
  <2>6. 0 \in 0..n /\ (0 < n \/ n = 0)
    BY <2>3
  <2>7. AtSvcs(on, <<>>, 1)
    BY <2>3, <2>4, <2>5, <2>6 DEF AtSvcs
  <2> QED  BY <2>7 DEF Exact
<1> QED  BY <1>2, <1>3

(* Discovery ends early. *)
LEMMA EarlyDisc ==
  ASSUME DiscIInv, RequestFails \/ HandleWrapped
  PROVE  Sound' /\ Walks'
<1>1. /\ phase \in {"svcs", "chars", "descs"} /\ phase' = "idle" /\ used' = TRUE
      /\ ret'.name = "wrapped" => phase \in {"chars", "descs"} /\ start = 0
      /\ UNCHANGED <<db, on, profile, start, si, ci>>
  BY DEF RequestFails, HandleWrapped, Returns, srv
<1>2. Sound'
  BY <1>1 DEF DiscIInv, Sound, Loose
<1>3. Walks'
  BY <1>1 DEF Walks
<1> QED  BY <1>2, <1>3

(* A page of services. *)
LEMMA ServicesDisc ==
  ASSUME DiscIInv, DiscoverServices
  PROVE  Sound' /\ Walks'
<1>1. PICK r : r = handleReadByGroupRequest(db, room, start, HMax)
  OBVIOUS
<1>2. PICK f : f = FoundSvcs(r.list)
  OBVIOUS
<1>3. /\ phase = "svcs" /\ r.st # "invalid" /\ profile' = profile \o f
      /\ IF r.st = "notFound" \/ Last(f).endh = HMax
         THEN ToService(1)
         ELSE start' = After(Last(f).endh) /\ UNCHANGED <<phase, si, base, ret>>
      /\ UNCHANGED <<srv, mtus, ci, used, long, queue, nProc, plan>>
  BY <1>1, <1>2, Zenon DEF DiscoverServices, FoundSvcs
<1>4. UNCHANGED <<db, on, ci, used>>
  BY <1>3 DEF srv
<1>5. Laid(db, on) /\ room \in Nat /\ room >= 23
  BY DEF DiscIInv, DbSound
<1>6. profile \in Seq(SomeSvc(Len(db))) /\ start \in Nat
  BY <1>3 DEF DiscIInv, Sound, Loose
<1>7. /\ profile' \in Seq(SomeSvc(Len(db)))
      /\ r.st # "notFound" => Last(f).endh \in 0..HMax
  BY <1>1, <1>2, <1>3, <1>5, <1>6, SvcsFound
<1>8. ret.name = "wrapped" => Len(db) = HMax
  BY DEF DiscIInv, Sound
<1>9. ~used => AtSvcs(on, profile, start) /\ ExactRet(on, ret)
  BY <1>3 DEF DiscIInv, Walks, Exact
<1>10. ~used => IF r.st = "notFound" \/ Last(f).endh = HMax
                THEN profile' = UpTo(on, 1, <<>>)
                ELSE AtSvcs(on, profile', After(Last(f).endh))
  BY <1>1, <1>2, <1>3, <1>5, <1>9, SvcsStep
<1>11. CASE r.st = "notFound" \/ Last(f).endh = HMax
  <2>1. ToService(1)
    BY <1>3, <1>11
  <2>2. /\ Loose(db, phase', profile', start', si', ci')
        /\ phase' # "off" /\ (ret' = ret \/ ret'.name # "wrapped")
    BY <1>7, <2>1, ToServiceLoose
  <2>3. Sound'
    BY <1>4, <1>8, <2>2 DEF Sound
  <2>4. ASSUME ~used
        PROVE  Exact(on, phase', profile', start', si', ci', base') /\ ExactRet(on, ret')
    <3>1. profile' = UpTo(on, 1, <<>>) /\ ExactRet(on, ret)
      BY <1>9, <1>10, <1>11, <2>4
    <3>2. Len(on) \in Nat
      BY <1>5 DEF Laid
    <3>3. 1 \in 1..(Len(on) + 1)
      BY <3>2
    <3> QED  BY <1>5, <2>1, <3>1, <3>3, ToServiceExact
  <2>5. Walks'
    BY <1>4, <2>4 DEF Walks
  <2> QED  BY <2>3, <2>5
<1>12. CASE ~(r.st = "notFound" \/ Last(f).endh = HMax)
  <2>1. phase' = "svcs" /\ start' = After(Last(f).endh) /\ UNCHANGED <<si, base, ret>>
    BY <1>3, <1>12
  <2>2. start' \in Nat
    <3>1. PICK e : e = Last(f).endh /\ e \in 0..HMax /\ e # HMax
      BY <1>7, <1>12
    <3>2. HMax \in Nat
      BY HMaxAssumption
    <3>3. e < HMax /\ e \in Nat
      BY <3>1, <3>2
    <3>4. After(e) = e + 1
      BY <3>1, <3>3, AfterIs
    <3> QED  BY <2>1, <3>1, <3>3, <3>4
  <2>3. Sound'
    BY <1>4, <1>7, <1>8, <2>1, <2>2 DEF Sound, Loose
  <2>4. Walks'
    BY <1>4, <1>9, <1>10, <1>12, <2>1 DEF Walks, Exact
  <2> QED  BY <2>3, <2>4
<1> QED  BY <1>11, <1>12

(* A page of characteristics. *)
LEMMA CharsDisc ==
  ASSUME DiscIInv, DiscoverCharacteristics
  PROVE  Sound' /\ Walks'
<1>1. PICK i, e : i = si /\ e = profile[si].endh
  OBVIOUS
<1>2. PICK r, f : r = handleReadByTypeRequest(db, room, start, e) /\ f = FoundDecls(r.list, e)
  <2>1. PICK r : r = handleReadByTypeRequest(db, room, start, e)
    OBVIOUS
  <2> QED  BY <2>1
<1>3. /\ phase = "chars"
      /\ IF start > e \/ r.st = "notFound"
         THEN profile' = profile /\ ToChar(1)
         ELSE /\ r.st = "ok"
              /\ profile' = [profile EXCEPT ![i].chars = Closed(profile[i].chars \o f, base)]
              /\ start' = After(Last(f).vh)
              /\ UNCHANGED <<phase, si, ci, base, ret>>
      /\ UNCHANGED <<srv, mtus, used, long, queue, nProc, plan>>
  BY <1>1, <1>2 DEF DiscoverCharacteristics, FoundDecls
<1>4. UNCHANGED <<db, on, used>>
  BY <1>3 DEF srv
<1>5. Laid(db, on) /\ room \in Nat /\ room >= 23
  BY DEF DiscIInv, DbSound
<1>6. profile \in Seq(SomeSvc(Len(db))) /\ start \in Nat /\ i \in 1..Len(profile)
  BY <1>1, <1>3 DEF DiscIInv, Sound, Loose
<1>7. Len(db) \in Nat /\ Len(db) <= HMax /\ HMax \in Nat
  BY <1>5, HMaxAssumption DEF Laid, SvcsHold
<1>8. ret.name = "wrapped" => Len(db) = HMax
  BY DEF DiscIInv, Sound
<1>9. ~used => AtChars(on, profile, start, i) /\ base = 0 /\ ExactRet(on, ret)
  BY <1>1, <1>3 DEF DiscIInv, Walks, Exact
<1>10. ~used => IF start > e \/ r.st = "notFound"
                THEN profile = UpTo(on, i, FoundChars(on, i, Len(on[i].chars)))
                ELSE r.st = "ok" =>
                       AtChars(on, [profile EXCEPT ![i].chars = Closed(profile[i].chars \o f, 0)],
                               After(Last(f).vh), i)
  BY <1>1, <1>2, <1>5, <1>9, CharsStep
<1>11. CASE start > e \/ r.st = "notFound"
  <2>1. profile' = profile /\ ToChar(1)
    BY <1>3, <1>11
  <2>2. /\ Loose(db, phase', profile', start', si', ci')
        /\ phase' # "off" /\ (ret' = ret \/ ret'.name # "wrapped")
    <3>1. profile' \in Seq(SomeSvc(Len(db))) /\ si \in 1..Len(profile') /\ 1 \in Nat \ {0}
      BY <1>1, <1>6, <2>1
    <3> QED  BY <1>7, <2>1, <3>1, ToCharLoose
  <2>3. Sound'
    BY <1>4, <1>8, <2>2 DEF Sound
  <2>4. ASSUME ~used
        PROVE  Exact(on, phase', profile', start', si', ci', base') /\ ExactRet(on, ret')
    <3>1. /\ profile' = UpTo(on, i, FoundChars(on, i, Len(on[i].chars))) /\ ExactRet(on, ret)
          /\ i \in 1..Len(on)
      BY <1>9, <1>10, <1>11, <2>1, <2>4 DEF AtChars
    <3>2. Reached(on, i, 1, FoundChars(on, i, Len(on[i].chars)))
      BY <1>5, <3>1, FirstReached
    <3> QED  BY <1>1, <1>5, <2>1, <3>1, <3>2, ToCharExact
  <2>5. Walks'
    BY <1>4, <2>4 DEF Walks
  <2> QED  BY <2>3, <2>5
<1>12. CASE ~(start > e \/ r.st = "notFound")
  <2>1. /\ r.st = "ok" /\ phase' = "chars" /\ start' = After(Last(f).vh)
        /\ profile' = [profile EXCEPT ![i].chars = Closed(profile[i].chars \o f, base)]
        /\ UNCHANGED <<si, ci, base, ret>>
    BY <1>3, <1>12
  <2>2. profile' \in Seq(SomeSvc(Len(db))) /\ Len(profile') = Len(profile) /\ Last(f).vh \in 1..Len(db)
    <3>1. PICK q : q = WithChars(profile, i, Closed(profile[i].chars \o FoundDecls(r.list, e), base))
      OBVIOUS
    <3>2. e = profile[i].endh /\ r.st = "ok"
      BY <1>1, <2>1
    <3>3. q \in Seq(SomeSvc(Len(db))) /\ Len(q) = Len(profile) /\ Last(FoundDecls(r.list, e)).vh \in 1..Len(db)
      BY <1>2, <1>5, <1>6, <3>1, <3>2, CharsFound
    <3> QED  BY <1>2, <2>1, <3>1, <3>3 DEF WithChars
  <2>3. start' \in Nat /\ (start' = 0 => Len(db) = HMax)
    <3>1. PICK v : v = Last(f).vh /\ v \in 1..Len(db)
      BY <2>2
    <3> QED  BY <1>7, <2>1, <3>1, AfterHandle
  <2>4. Sound'
    BY <1>1, <1>4, <1>6, <1>8, <2>1, <2>2, <2>3 DEF Sound, Loose
  <2>5. Walks'
    BY <1>1, <1>4, <1>9, <1>10, <1>12, <2>1 DEF Walks, Exact
  <2> QED  BY <2>4, <2>5
<1> QED  BY <1>11, <1>12

(* A page of descriptors. *)
LEMMA DescsDisc ==
  ASSUME DiscIInv, DiscoverDescriptors
  PROVE  Sound' /\ Walks'
<1>1. PICK i, j, c : i = si /\ j = ci /\ c = profile[si].chars[ci]
  OBVIOUS
<1>2. PICK r : r = handleFindInformationRequest(db, room, start, c.endh)
  OBVIOUS
<1>3. /\ phase = "descs"
      /\ IF start > c.endh \/ r.st = "notFound"
         THEN profile' = profile /\ ToChar(j + 1)
         ELSE /\ r.st = "ok"
              /\ profile' = [profile EXCEPT ![i].chars[j] = WithDescs(c, r.list)]
              /\ start' = After(Last(r.list).h)
              /\ UNCHANGED <<phase, si, ci, base, ret>>
      /\ UNCHANGED <<srv, mtus, used, long, queue, nProc, plan>>
  BY <1>1, <1>2, Zenon DEF DiscoverDescriptors
<1>4. UNCHANGED <<db, on, used>>
  BY <1>3 DEF srv
<1>5. Laid(db, on) /\ room \in Nat /\ room >= 23
  BY DEF DiscIInv, DbSound
<1>6. /\ profile \in Seq(SomeSvc(Len(db))) /\ start \in Nat
      /\ i \in 1..Len(profile) /\ j \in 1..Len(profile[i].chars)
  BY <1>1, <1>3 DEF DiscIInv, Sound, Loose
<1>7. Len(db) \in Nat /\ Len(db) <= HMax /\ HMax \in Nat
  BY <1>5, HMaxAssumption DEF Laid, SvcsHold
<1>8. ret.name = "wrapped" => Len(db) = HMax
  BY DEF DiscIInv, Sound
<1>9. ~used => AtDescs(on, profile, start, i, j) /\ ExactRet(on, ret)
  BY <1>1, <1>3 DEF DiscIInv, Walks, Exact
<1>10. ~used => IF start > c.endh \/ r.st = "notFound"
                THEN profile = UpTo(on, i, Filled(on, i, j, CharSize(on[i].chars[j]) - 2))
                ELSE r.st = "ok" =>
                       AtDescs(on, [profile EXCEPT ![i].chars[j] = WithDescs(c, r.list)],
                               After(Last(r.list).h), i, j)
  BY <1>1, <1>2, <1>5, <1>9, DescsStep
<1>11. CASE start > c.endh \/ r.st = "notFound"
  <2>1. profile' = profile /\ ToChar(j + 1)
    BY <1>3, <1>11
  <2>2. /\ Loose(db, phase', profile', start', si', ci')
        /\ phase' # "off" /\ (ret' = ret \/ ret'.name # "wrapped")
    <3>1. profile' \in Seq(SomeSvc(Len(db))) /\ si \in 1..Len(profile') /\ j + 1 \in Nat \ {0}
      BY <1>1, <1>6, <2>1
    <3> QED  BY <1>7, <2>1, <3>1, ToCharLoose
  <2>3. Sound'
    BY <1>4, <1>8, <2>2 DEF Sound
  <2>4. ASSUME ~used
        PROVE  Exact(on, phase', profile', start', si', ci', base') /\ ExactRet(on, ret')
    <3>1. /\ profile' = UpTo(on, i, Filled(on, i, j, CharSize(on[i].chars[j]) - 2)) /\ ExactRet(on, ret)
          /\ i \in 1..Len(on) /\ j \in 1..Len(on[i].chars)
      BY <1>9, <1>10, <1>11, <2>1, <2>4 DEF AtDescs
    <3>2. Reached(on, i, j + 1, Filled(on, i, j, CharSize(on[i].chars[j]) - 2))
      BY <1>5, <3>1, NextReached
    <3> QED  BY <1>1, <1>5, <2>1, <3>1, <3>2, ToCharExact
  <2>5. Walks'
    BY <1>4, <2>4 DEF Walks
  <2> QED  BY <2>3, <2>5
<1>12. CASE ~(start > c.endh \/ r.st = "notFound")
  <2>1. /\ r.st = "ok" /\ phase' = "descs" /\ start' = After(Last(r.list).h)
        /\ profile' = [profile EXCEPT ![i].chars[j] = WithDescs(c, r.list)]
        /\ UNCHANGED <<si, ci, base, ret>>
    BY <1>3, <1>12, SMTT(30)
  <2>2. /\ profile' \in Seq(SomeSvc(Len(db))) /\ Len(profile') = Len(profile)
        /\ Len(profile'[i].chars) = Len(profile[i].chars) /\ Last(r.list).h \in 1..Len(db)
    BY <1>1, <1>2, <1>5, <1>6, <2>1, DescsFound, SMTT(40)
  <2>3. start' \in Nat /\ (start' = 0 => Len(db) = HMax)
    <3>1. PICK v : v = Last(r.list).h /\ v \in 1..Len(db)
      BY <2>2
    <3> QED  BY <1>7, <2>1, <3>1, AfterHandle
  <2>4. Sound'
    BY <1>1, <1>4, <1>6, <1>8, <2>1, <2>2, <2>3 DEF Sound, Loose
  <2>5. Walks'
    BY <1>1, <1>4, <1>9, <1>10, <1>12, <2>1 DEF Walks, Exact
  <2> QED  BY <2>4, <2>5
<1> QED  BY <1>11, <1>12

(* Every step keeps it. *)
LEMMA DiscStep == DiscIInv /\ [SessionNext]_sessionVars => DiscIInv'
<1> SUFFICES ASSUME DiscIInv, [SessionNext]_sessionVars  PROVE Sound' /\ Walks'
  BY DbStep DEF DiscIInv
<1>1. CASE UNCHANGED sessionVars
  BY <1>1, ElsewhereDisc DEF sessionVars, srv
<1>2. ASSUME NEW new, Change(new)  PROVE Sound' /\ Walks'
  BY <1>2, ChangeDisc
<1>3. CASE Accepted
  BY <1>3, ElsewhereDisc DEF Accepted, srv
<1>4. CASE \E m \in MTUs : handleExchangeMTURequest(m) \/ \E ok \in BOOLEAN : ExchangeMTU(m, ok)
  BY <1>4, ElsewhereDisc DEF handleExchangeMTURequest, ExchangeMTU, srv
<1>5. CASE CachedProfile \/ \E force \in BOOLEAN : DiscoverProfile(force)
  BY <1>5, CachedDisc, BeginDisc
<1>6. CASE RequestFails \/ HandleWrapped
  BY <1>6, EarlyDisc
<1>7. CASE DiscoverServices \/ DiscoverCharacteristics \/ DiscoverDescriptors
  BY <1>7, ServicesDisc, CharsDisc, DescsDisc
<1>8. CASE (\E n \in Lengths : ReadLong(n)) \/ ReadBlob \/ ReadLongDone \/ ReadLongFails
  BY <1>8, ElsewhereDisc DEF ReadLong, ReadBlob, ReadLongDone, ReadLongFails, Begin, Returns, NoRet, srv
<1>9. CASE \/ \E p \in Parts : handlePrepareWriteRequest(p)
           \/ handleExecuteWriteRequest \/ CancelPrepared
  <2>1. /\ UNCHANGED <<srv, disc>> /\ phase = "idle" /\ phase' = "idle"
        /\ ret'.name \notin {"discover", "wrapped"}
    BY <1>9 DEF handlePrepareWriteRequest, handleExecuteWriteRequest, CancelPrepared, Begin, Returns, NoRet
  <2> QED  BY <2>1, ElsewhereDisc DEF srv
<1> QED  BY <1>1, <1>2, <1>3, <1>4, <1>5, <1>6, <1>7, <1>8, <1>9
         DEF SessionNext, AddService, SetServices, RemoveAllServices

(* DiscoverProfile on a fresh client returns the peer's services,          *)
(* characteristics and descriptors exactly, for every hierarchy and every  *)
(* MTU of 23 or more: no page is lost, read twice or ends in the wrong     *)
(* place, and discovery only runs out of handles on a database that has    *)
(* the last one.                                                           *)
THEOREM DiscoveriesExact == SessionSpec => []DiscoveryExact
<1>1. DiscIInv => DiscoveryExact
  BY DEF DiscIInv, Sound, Walks, ExactRet, DiscoveryExact
<1> QED  BY <1>1, DiscInit, DiscStep, PTL DEF SessionSpec
=============================================================================
