----------------------------- MODULE AttSession -----------------------------
(***************************************************************************)
(* A session between the GATT client (linux/gatt/client.go, over the       *)
(* request methods of linux/att/client.go) and the server (the GATT server *)
(* of linux/gatt/server.go and the handlers of linux/att/server.go): the   *)
(* procedures that take several requests.  Discovery pages through the     *)
(* database, a long read goes blob by blob, and a long write is queued     *)
(* part by part before it is executed.  Requests fail at any point, and    *)
(* the peer may ask for another MTU between any two steps.                 *)
(***************************************************************************)
EXTENDS AttDatabase

CONSTANTS
  DefaultMTU, \* 23
  Default,   \* the default services: a sequence of services
  Services,  \* services the application may add
  Lengths,   \* lengths of the value a long read reads
  MTUs,      \* the receive MTUs a side may announce
  ServerRx,  \* what the server announces
  Parts,     \* prepared writes: [a, off, len]; a is "ro" without a write handler
  MaxAdds,   \* bound: changes of the services
  MaxProcs,  \* bound: procedures the client runs
  Plans,     \* bound: the sets of procedures one behaviour may mix
  maxPreparedWrites, maxPreparedWriteBytes,
  Nil

ASSUME MtuAssumption ==
  /\ DefaultMTU \in Nat /\ DefaultMTU >= 23
  /\ \A m \in MTUs \union {ServerRx} : m \in Nat /\ m >= DefaultMTU
ASSUME ServicesAssumption ==
  /\ Default \in Seq(Service) /\ Services \subseteq Service
  /\ Len(NewDB(Rebuilt(Default))) <= HMax
ASSUME LengthsAssumption == Lengths \subseteq Nat
ASSUME PartsAssumption ==
  /\ Parts \subseteq [a : {p.a : p \in Parts}, off : Nat, len : Nat]
  /\ maxPreparedWrites \in Nat /\ maxPreparedWriteBytes \in Nat

VARIABLES
  svcs,    \* gatt.Server.svcs
  db,      \* the database of this connection, taken when it was accepted
  on,      \* what db was built from
  tx,      \* TxMTU of the client's connection
  room,    \* length of the server's txBuf
  profile, \* Client.profile: Nil or the services, as found so far
  phase,   \* the client: "idle", "svcs", "chars", "descs" or "long"
  start,   \* the handle the next request starts from
  si, ci,  \* the service and the characteristic discovery is at
  base,    \* characteristics the service had before this walk
  read, buf, \* ReadLongCharacteristic: the last part and the whole
  size,    \* length of the value it reads
  over,    \* history: tx was more than room at some point of the read
  used,    \* history: the profile was not fresh when discovery began
  ret,     \* what the last procedure returned: [name, ok, val]
  prepared, preparedBytes, \* Server.prepared
  nAdd, nProc, plan

disc == <<profile, start, si, ci, base, used>>
long == <<read, buf, size, over>>
mtus == <<tx, room>>
srv == <<svcs, db, on, nAdd>>
queue == <<prepared, preparedBytes>>
sessionVars == <<srv, mtus, phase, disc, long, ret, queue, nProc, plan>>

\* start is a uint16.
After(h) == (h + 1) % (HMax + 1)

MinOf(m, n) == IF m < n THEN m ELSE n

NoRet == [name |-> "none", ok |-> FALSE, val |-> <<>>]

SessionInit ==
  /\ svcs = Default /\ nAdd = 0
  /\ on = Rebuilt(Default) /\ db = NewDB(on)
  /\ tx = DefaultMTU /\ room = DefaultMTU
  /\ profile = Nil /\ phase = "off" /\ start = 1 /\ si = 1 /\ ci = 1 /\ base = 0
  /\ used = FALSE
  /\ read = 0 /\ buf = 0 /\ size = 0 /\ over = FALSE
  /\ ret = NoRet
  /\ prepared = <<>> /\ preparedBytes = 0
  /\ nProc = 0 /\ plan \in Plans

-----------------------------------------------------------------------------
(* The GATT server: every change builds the database anew, and a connection*)
(* keeps the one it was accepted with.                                     *)

Change(new) ==
  /\ nAdd < MaxAdds /\ nAdd' = nAdd + 1
  /\ Len(NewDB(Rebuilt(new))) <= HMax
  /\ svcs' = Rebuilt(new)
  /\ IF phase = "off" THEN on' = Rebuilt(new) /\ db' = NewDB(Rebuilt(new))
                      ELSE UNCHANGED <<on, db>>
  /\ UNCHANGED <<mtus, phase, disc, long, ret, queue, nProc, plan>>

AddService(s) == Change(Append(svcs, s))

SetServices(s) == Change(Default \o <<s>>)

RemoveAllServices == Change(Default)

Accepted ==
  /\ phase = "off" /\ phase' = "idle"
  /\ UNCHANGED <<srv, mtus, disc, long, ret, queue, nProc, plan>>

\* The gatt.Client's lock is free: DiscoverProfile lets go of it between the
\* walks it makes, ReadLongCharacteristic does not.
Unlocked ==
  \/ phase = "idle"
  \/ phase = "chars" /\ start = profile[si].h
  \/ phase = "descs" /\ start = After(profile[si].chars[ci].vh)

\* The client's exchange: the server takes the client's MTU for its buffer, the
\* client the smaller one; the response may be lost to the client.
ExchangeMTU(clientRx, answered) ==
  /\ Unlocked
  /\ room' = clientRx
  /\ tx' = IF answered THEN MinOf(clientRx, ServerRx) ELSE tx
  /\ UNCHANGED <<srv, phase, disc, long, ret, queue, nProc, plan>>

\* The peer asks, as a client of this host: only its request counts.
handleExchangeMTURequest(m) ==
  /\ phase # "off"
  /\ tx' = m
  /\ over' = (over \/ m > room)
  /\ UNCHANGED <<srv, room, phase, disc, read, buf, size, ret, queue, nProc, plan>>

-----------------------------------------------------------------------------
(* DiscoverProfile.                                                        *)

Begin(proc) ==
  /\ phase = "idle" /\ proc \in plan /\ UNCHANGED plan
  /\ nProc < MaxProcs /\ nProc' = nProc + 1

Returns(name, ok, val) ==
  /\ phase' = "idle"
  /\ ret' = [name |-> name, ok |-> ok, val |-> val]

\* The cached profile is returned as it is, whole or not.
CachedProfile ==
  /\ Begin("discover") /\ profile # Nil
  /\ Returns("discover", TRUE, profile)
  /\ UNCHANGED <<srv, mtus, disc, long, queue>>

DiscoverProfile(force) ==
  /\ Begin("discover") /\ (profile = Nil \/ force)
  /\ phase' = "svcs" /\ start' = 1
  /\ profile' = IF profile = Nil THEN <<>> ELSE profile
  /\ used' = (used \/ profile # Nil)
  /\ ret' = NoRet
  /\ UNCHANGED <<srv, mtus, si, ci, base, long, queue>>

\* Any request fails: its context ended, the link went down, an error response.
RequestFails ==
  /\ phase \in {"svcs", "chars", "descs"} /\ start # 0
  /\ Returns("discover", FALSE, <<>>)
  /\ used' = TRUE
  /\ UNCHANGED <<srv, mtus, profile, start, si, ci, base, long, queue, nProc, plan>>

\* A walk that reached the last handle goes on from 0, which the client's
\* FindInformation or the server's Read By Type handler refuses.
HandleWrapped ==
  /\ phase \in {"chars", "descs"} /\ start = 0
  /\ Returns("wrapped", FALSE, <<>>)
  /\ used' = TRUE
  /\ UNCHANGED <<srv, mtus, profile, start, si, ci, base, long, queue, nProc, plan>>

\* The walk over service i begins, or discovery has ended.
ToService(i) ==
  IF i > Len(profile')
  THEN Returns("discover", TRUE, profile') /\ UNCHANGED <<start, si, base>>
  ELSE /\ phase' = "chars" /\ si' = i
       /\ start' = profile'[i].h /\ base' = Len(profile'[i].chars)
       /\ UNCHANGED ret

DiscoverServices ==
  LET r == handleReadByGroupRequest(db, room, start, HMax)
      found == [i \in DOMAIN r.list |->
                  [h |-> r.list[i].h, endh |-> r.list[i].endh, chars |-> <<>>]]
  IN /\ phase = "svcs" /\ r.st # "invalid"
     /\ profile' = profile \o found
     /\ IF r.st = "notFound" \/ Last(found).endh = HMax
        THEN ToService(1)
        ELSE start' = After(Last(found).endh) /\ UNCHANGED <<phase, si, base, ret>>
     /\ UNCHANGED <<srv, mtus, ci, used, long, queue, nProc, plan>>

\* The walk over descriptors of characteristic j of this service, or the next
\* service.
ToChar(j) ==
  IF j > Len(profile'[si].chars)
  THEN ToService(si + 1) /\ UNCHANGED ci
  ELSE /\ phase' = "descs" /\ ci' = j
       /\ start' = After(profile'[si].chars[j].vh)
       /\ UNCHANGED <<si, base, ret>>

\* A defect: a characteristic keeps the end of the service.
Closed_Not(chars, from) == chars

\* Each declaration ends the characteristic before it in this walk.
Closed(chars, from) ==
  [j \in DOMAIN chars |->
     IF j > from /\ j < Len(chars) THEN [chars[j] EXCEPT !.endh = chars[j + 1].h - 1]
                                   ELSE chars[j]]

DiscoverCharacteristics ==
  LET s == profile[si]
      r == handleReadByTypeRequest(db, room, start, s.endh)
      found == [i \in DOMAIN r.list |->
                  [h |-> r.list[i].h, vh |-> r.list[i].h + 1, endh |-> s.endh,
                   descs |-> <<>>, cccd |-> 0]]
  IN /\ phase = "chars"
     /\ IF start > s.endh \/ r.st = "notFound"
        THEN profile' = profile /\ ToChar(1)
        ELSE /\ r.st = "ok"
             /\ profile' = [profile EXCEPT ![si].chars = Closed(@ \o found, base)]
             /\ start' = After(Last(found).vh)
             /\ UNCHANGED <<phase, si, ci, base, ret>>
     /\ UNCHANGED <<srv, mtus, used, long, queue, nProc, plan>>

\* The entries of a response join the characteristic; the last CCCD is its own.
WithDescs(c, list) ==
  LET cccs == {list[i].h : i \in {i \in DOMAIN list : list[i].typ = "ccc"}}
  IN [c EXCEPT !.descs = @ \o [i \in DOMAIN list |-> list[i].h],
               !.cccd = IF cccs = {} THEN @ ELSE Max(cccs)]

DiscoverDescriptors ==
  LET c == profile[si].chars[ci]
      r == handleFindInformationRequest(db, room, start, c.endh)
  IN /\ phase = "descs"
     /\ IF start > c.endh \/ r.st = "notFound"
        THEN profile' = profile /\ ToChar(ci + 1)
        ELSE /\ r.st = "ok"
             /\ profile' = [profile EXCEPT ![si].chars[ci] = WithDescs(c, r.list)]
             /\ start' = After(Last(r.list).h)
             /\ UNCHANGED <<phase, si, ci, base, ret>>
     /\ UNCHANGED <<srv, mtus, used, long, queue, nProc, plan>>

-----------------------------------------------------------------------------
(* ReadLongCharacteristic.                                                 *)

ReadLong(n) ==
  /\ Begin("long")
  /\ phase' = "long" /\ size' = n /\ over' = (tx > room)
  /\ read' = handleReadRequest(n, room) /\ buf' = handleReadRequest(n, room)
  /\ ret' = NoRet
  /\ UNCHANGED <<srv, mtus, disc, queue>>

\* A defect: the loop ends one octet early.
Full_Strict == read > tx - 1

\* The last part was as long as a part can be: there may be more.
Full == read >= tx - 1

ReadBlob ==
  /\ phase = "long" /\ Full
  /\ LET r == handleReadBlobRequest(size, buf, room) IN
     /\ r.st = "ok"
     /\ read' = r.n /\ buf' = buf + r.n
  /\ UNCHANGED <<srv, mtus, phase, disc, size, over, ret, queue, nProc, plan>>

ReadLongDone ==
  /\ phase = "long" /\ ~Full
  /\ Returns("long", TRUE, <<size, buf>>)
  /\ UNCHANGED <<srv, mtus, disc, long, queue, nProc, plan>>

ReadLongFails ==
  /\ phase = "long"
  /\ Returns("long", FALSE, <<>>)
  /\ UNCHANGED <<srv, mtus, disc, long, queue, nProc, plan>>

-----------------------------------------------------------------------------
(* Prepared writes, on the server.                                         *)

handlePrepareWriteRequest(p) ==
  /\ phase = "idle" /\ "write" \in plan
  /\ IF \/ p.a = "ro" \/ Len(prepared) >= maxPreparedWrites
        \/ preparedBytes + p.len > maxPreparedWriteBytes
     THEN UNCHANGED queue
     ELSE prepared' = Append(prepared, p) /\ preparedBytes' = preparedBytes + p.len
  /\ ret' = NoRet
  /\ UNCHANGED <<srv, mtus, phase, disc, long, nProc, plan>>

\* A defect: the offset is not looked at.
Joins_AnyOffset(p, q) == q.a = p.a

\* q continues p, a part or a run of parts: same attribute, and it starts where
\* p ends.
Joins(p, q) == q.a = p.a /\ q.off = p.off + p.len

\* The next part goes into the last run, or begins one.
WithPart(runs, q) ==
  IF runs # <<>> /\ Joins(Last(runs), q)
  THEN [runs EXCEPT ![Len(runs)].len = @ + q.len]
  ELSE Append(runs, q)

\* The runs that are delivered as one write each.
Runs(q) == FoldLeft(WithPart, <<>>, q)

clearPrepared == prepared' = <<>> /\ preparedBytes' = 0

\* Write all: run by run, until one is refused; the queue is emptied anyway.
handleExecuteWriteRequest ==
  /\ Begin("write")
  /\ clearPrepared
  /\ \E k \in 0..Len(Runs(prepared)) :
       Returns("execute", k = Len(Runs(prepared)), SubSeq(Runs(prepared), 1, k))
  /\ UNCHANGED <<srv, mtus, disc, long>>

CancelPrepared ==
  /\ Begin("write") /\ clearPrepared
  /\ Returns("cancel", TRUE, <<>>)
  /\ UNCHANGED <<srv, mtus, disc, long>>

-----------------------------------------------------------------------------
SessionNext ==
  \/ \E s \in Services : AddService(s) \/ SetServices(s)
  \/ RemoveAllServices \/ Accepted
  \/ \E m \in MTUs : handleExchangeMTURequest(m) \/ \E ok \in BOOLEAN : ExchangeMTU(m, ok)
  \/ CachedProfile \/ \E force \in BOOLEAN : DiscoverProfile(force)
  \/ RequestFails \/ HandleWrapped \/ DiscoverServices \/ DiscoverCharacteristics \/ DiscoverDescriptors
  \/ \E n \in Lengths : ReadLong(n)
  \/ ReadBlob \/ ReadLongDone \/ ReadLongFails
  \/ \E p \in Parts : handlePrepareWriteRequest(p)
  \/ handleExecuteWriteRequest \/ CancelPrepared

SessionSpec == SessionInit /\ [][SessionNext]_sessionVars

-----------------------------------------------------------------------------
(* Properties.                                                             *)

\* DiscoverProfile on a fresh client returns the peer's hierarchy exactly: all
\* services, characteristics and descriptors, once, with their ranges and the
\* CCCD, however the entries were split into responses and whatever the MTU
\* did meanwhile.  A profile that is not exact was returned because an earlier
\* discovery had failed half-way, or was repeated by force; and handles only
\* run out on a database that uses the last one.
DiscoveryExact ==
  /\ ret.name = "discover" /\ ret.ok /\ ~used => ret.val = Hierarchy(on)
  /\ ret.name = "wrapped" => Len(db) = HMax

\* A long read returns the whole value, also one whose length is a multiple of
\* a part's and while the peer changes the MTU, unless the client's TxMTU was
\* larger than what the server sends: then a full part looks like the last.
LongReadWhole ==
  ret.name = "long" /\ ret.ok =>
    ret.val[2] <= ret.val[1] /\ (ret.val[2] = ret.val[1] \/ over)

\* The octets a sequence of writes puts where, in order.
Octets(ws) ==
  FoldLeft(LAMBDA acc, w : acc \o [i \in 1..w.len |-> <<w.a, w.off + i>>], <<>>, ws)

\* Execute Write delivers the queued parts, in order and none twice, whether
\* or not they were joined, and a prefix of them when a handler refuses; runs
\* that could have been joined are; the queue stays within its bounds and ends
\* empty.
ExecuteMatchesParts ==
  [][/\ Len(prepared') <= maxPreparedWrites
     /\ FoldLeft(LAMBDA n, p : n + p.len, 0, prepared') = preparedBytes'
     /\ preparedBytes' <= maxPreparedWriteBytes
     /\ ret'.name = "execute" /\ ret' # ret =>
          /\ prepared' = <<>>
          /\ IsPrefix(Octets(ret'.val), Octets(prepared))
          /\ ret'.ok => Octets(ret'.val) = Octets(prepared)
          /\ \A i \in 2..Len(ret'.val) :
               LET p == ret'.val[i - 1]
                   q == ret'.val[i]
               IN ~(q.a = p.a /\ q.off = p.off + p.len)]_sessionVars

=============================================================================
