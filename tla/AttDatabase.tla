---------------------------- MODULE AttDatabase -----------------------------
(***************************************************************************)
(* The attribute database (linux/att/db.go) and the read handlers of the   *)
(* ATT server over it (linux/att/server.go), as pure operators.            *)
(*                                                                         *)
(* A service is [len, chars] and a characteristic [len, notify, descs,     *)
(* cccs]: the octets of its UUID, whether it has a notify or indicate      *)
(* handler, the UUID lengths of its other descriptors, and how many CCCDs  *)
(* building databases has appended to it.                                  *)
(***************************************************************************)
EXTENDS Integers, Sequences, FiniteSets, SequencesExt

CONSTANT HMax  \* the largest handle, 0xFFFF in the code

ASSUME HMaxAssumption == HMax \in Nat \ {0}

\* The octets of a UUID.
UUIDLen == {2, 16}

Characteristic == [len : UUIDLen, notify : BOOLEAN, descs : Seq(UUIDLen), cccs : Nat]

Service == [len : UUIDLen, chars : Seq(Characteristic)]

\* genCharAttr appends a new CCCD to a characteristic with handlers, every
\* time a database is built from it.
WithCCCD(c) == IF c.notify THEN [c EXCEPT !.cccs = @ + 1] ELSE c

Rebuilt(svcs) ==
  [i \in DOMAIN svcs |->
     [svcs[i] EXCEPT !.chars = [j \in DOMAIN @ |-> WithCCCD(@[j])]]]

\* An attribute: handle, type, UUID length of its type, length of its value,
\* and the end of its group.
Attr(h, typ, tlen, vlen, endh) ==
  [h |-> h, typ |-> typ, tlen |-> tlen, vlen |-> vlen, endh |-> endh]

genDescAttr(typ, tlen, h) == Attr(h, typ, tlen, 0, h)

\* Declaration, value, the descriptors, the CCCDs.
genCharAttr(c, h) ==
  LET n == Len(c.descs) IN
  <<Attr(h, "char", 2, 3 + c.len, h + 1 + n + c.cccs), Attr(h + 1, "val", c.len, 0, h + 1)>>
    \o [i \in 1..n |-> genDescAttr("desc", c.descs[i], h + 1 + i)]
    \o [i \in 1..c.cccs |-> genDescAttr("ccc", 2, h + 1 + n + i)]

\* The characteristics, one behind the other from handle h on.
Body(chars, h) ==
  FoldLeft(LAMBDA acc, c : acc \o genCharAttr(c, h + Len(acc)), <<>>, chars)

genSvcAttr(s, h) ==
  LET body == Body(s.chars, h + 1)
  IN <<Attr(h, "svc", 2, s.len, h + Len(body))>> \o body

\* The services, from handle 1 on.
svcAttrs(svcs) == FoldLeft(LAMBDA acc, s : acc \o genSvcAttr(s, 1 + Len(acc)), <<>>, svcs)

\* The last service is given the end of the handle space.
NewDB(svcs) ==
  LET db == svcAttrs(svcs)
      last == {i \in DOMAIN db : db[i].typ = "svc" /\ \A j \in i+1..Len(db) : db[j].typ # "svc"}
  IN [i \in DOMAIN db |-> IF i \in last THEN [db[i] EXCEPT !.endh = HMax] ELSE db[i]]

\* Handle 1 is the first attribute's: handles are indices.
subrange(db, start, end) ==
  SubSeq(db, IF start = 0 THEN 1 ELSE start, IF end < Len(db) THEN end ELSE Len(db))

-----------------------------------------------------------------------------
(* Responses: "invalid" and "notFound" errors, or the entries that fit.    *)

\* The longest run of entries of the first one's length that fits the room (n[i]
\* is the length of entry i): the handlers stop at the first that differs or
\* does not fit.
Fit(as, n, room) ==
  LET same == {k \in 0..Len(as) : \A i \in 1..k : n[i] = n[1] /\ k * n[1] <= room}
  IN SubSeq(as, 1, CHOOSE k \in same : \A j \in same : j <= k)

Answer(start, end, as, n, room) ==
  IF start = 0 \/ start > end THEN [st |-> "invalid", list |-> <<>>]
  ELSE IF as = <<>> THEN [st |-> "notFound", list |-> <<>>]
  ELSE [st |-> "ok", list |-> Fit(as, n, room)]

\* The handlers pass over attributes of other types.
OfType(typ, as) ==
  FoldLeft(LAMBDA acc, a : IF a.typ = typ THEN Append(acc, a) ELSE acc, <<>>, as)

handleReadByGroupRequest(db, mtu, start, end) ==
  LET as == OfType("svc", subrange(db, start, end))
  IN Answer(start, end, as, [i \in DOMAIN as |-> 4 + as[i].vlen], mtu - 2)

handleReadByTypeRequest(db, mtu, start, end) ==
  LET as == OfType("char", subrange(db, start, end))
  IN Answer(start, end, as, [i \in DOMAIN as |-> 2 + as[i].vlen], mtu - 2)

handleFindInformationRequest(db, mtu, start, end) ==
  LET as == subrange(db, start, end)
  IN Answer(start, end, as, [i \in DOMAIN as |-> 2 + as[i].tlen], mtu - 2)

\* Static values: Read sends what fits, Read Blob the same from its offset.
handleReadRequest(len, mtu) == IF len < mtu - 1 THEN len ELSE mtu - 1

handleReadBlobRequest(len, off, mtu) ==
  IF off > len THEN [st |-> "invalidOffset", n |-> 0]
               ELSE [st |-> "ok", n |-> handleReadRequest(len - off, mtu)]

-----------------------------------------------------------------------------
(* What a client should find, from the services alone.                     *)

CharSize(c) == 2 + Len(c.descs) + c.cccs

Total(ns) == FoldLeft(LAMBDA m, n : m + n, 0, ns)

SizeOf(chars) == Total([j \in DOMAIN chars |-> CharSize(chars[j])])

SvcStart(svcs, i) == 1 + Total([k \in 1..(i - 1) |-> 1 + SizeOf(svcs[k].chars)])

SvcEnd(svcs, i) == IF i = Len(svcs) THEN HMax ELSE SvcStart(svcs, i + 1) - 1

CharStart(svcs, i, j) ==
  SvcStart(svcs, i) + 1 + Total([k \in 1..(j - 1) |-> CharSize(svcs[i].chars[k])])

CharEnd(svcs, i, j) ==
  IF j = Len(svcs[i].chars) THEN SvcEnd(svcs, i) ELSE CharStart(svcs, i, j + 1) - 1

Described(svcs, i, j) ==
  LET c == svcs[i].chars[j]
      h == CharStart(svcs, i, j)
  IN [h |-> h, vh |-> h + 1, endh |-> CharEnd(svcs, i, j),
      descs |-> [k \in 1..(Len(c.descs) + c.cccs) |-> h + 1 + k],
      cccd |-> IF c.cccs = 0 THEN 0 ELSE h + CharSize(c) - 1]

Hierarchy(svcs) ==
  [i \in DOMAIN svcs |->
     [h |-> SvcStart(svcs, i), endh |-> SvcEnd(svcs, i),
      chars |-> [j \in DOMAIN svcs[i].chars |-> Described(svcs, i, j)]]]

=============================================================================
