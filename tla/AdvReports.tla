----------------------------- MODULE AdvReports -----------------------------
(***************************************************************************)
(* Advertising reports in linux/hci: the history ring that pairs a scan    *)
(* response with the advertisement it belongs to                           *)
(* (handleLEAdvertisingReport, on sktLoop), its reset by Scan, the bounded *)
(* delivery queue, and the dispatcher that calls the registered handler.   *)
(*                                                                         *)
(* An advertisement is its address.  An event carries one report: the      *)
(* reports of one event are handled one after the other.  The search       *)
(* through the ring is taken step by step, because it is a loop of its own *)
(* that must end.                                                          *)
(***************************************************************************)
EXTENDS Integers, Sequences, FiniteSets

CONSTANTS Addrs,   \* addresses of advertisers
          HistLen, \* length of the history ring (128 in the code)
          QueueCap,\* capacity of chAdv (64 in the code)
          MaxGens, \* bound: handlers registered
          Nil

ASSUME SizesAssumption ==
  HistLen \in Nat \ {0} /\ QueueCap \in Nat \ {0} /\ MaxGens \in Nat
ASSUME NilAssumption == Nil \notin Addrs \cup Int

Slots == 0..(HistLen - 1)
Orphan == -1
-----------------------------------------------------------------------------
VARIABLES adHist,  \* the ring: adHist[i] is an address or Nil
          adLast,  \* the slot the next advertisement goes to
          recent,  \* history: the advertisements since the last reset, at
                   \* most HistLen of them, oldest first
          advTgt,  \* the registered target: 0 (nil), or its generation
          gens,    \* targets registered so far
          sr,      \* the scan response being paired, or Nil
          idx,     \* the index of the search
          evTgt,   \* the target loaded for the event being handled
          outcome, \* of the last search: a slot, Orphan, or Nil
          chAdv,   \* the queue: targets, one per report
          call     \* the dispatcher: 0, or the target whose handler it calls

histVars == <<adHist, adLast, recent>>
searchVars == <<sr, idx, evTgt, outcome>>
tgtVars == <<advTgt, gens>>
reportsVars == <<histVars, searchVars, tgtVars, chAdv, call>>

(* The first Scan has allocated the ring. *)
ReportsInit ==
  /\ adHist = [i \in Slots |-> Nil] /\ adLast = 0 /\ recent = <<>>
  /\ advTgt = 0 /\ gens = 0
  /\ sr = Nil /\ idx = 0 /\ evTgt = 0 /\ outcome = Nil
  /\ chAdv = <<>> /\ call = 0
-----------------------------------------------------------------------------
(* Callers of the scanning API.                                            *)

SetAdvHandler ==
  /\ gens < MaxGens
  /\ gens' = gens + 1
  /\ advTgt' = gens + 1
  /\ UNCHANGED <<histVars, searchVars, chAdv, call>>

SetAdvHandlerNil ==
  /\ advTgt' = 0
  /\ UNCHANGED <<histVars, searchVars, gens, chAdv, call>>

(* Scan's reset of the history, under muAdHist. *)
resetAdHistory ==
  /\ sr = Nil
  /\ adHist' = [i \in Slots |-> Nil]
  /\ adLast' = 0
  /\ recent' = <<>>
  /\ UNCHANGED <<searchVars, tgtVars, chAdv, call>>
-----------------------------------------------------------------------------
(* handleLEAdvertisingReport.                                              *)

(* The hand-off to the dispatcher, dropped when the queue is full. *)
Enqueue(t) == chAdv' = IF Len(chAdv) < QueueCap THEN Append(chAdv, t) ELSE chAdv

(* adLast after an entry is stored. *)
NextSlot_Short == IF adLast + 2 >= HistLen THEN 0 ELSE adLast + 1  \* mutant
NextSlot == IF adLast + 1 = HistLen THEN 0 ELSE adLast + 1

(* ADV_IND and ADV_SCAN_IND: remembered and delivered. *)
Advertise(a) ==
  /\ sr = Nil
  /\ advTgt # 0
  /\ adHist' = [adHist EXCEPT ![adLast] = a]
  /\ adLast' = NextSlot
  /\ recent' = Append(IF Len(recent) < HistLen THEN recent ELSE Tail(recent), a)
  /\ Enqueue(advTgt)
  /\ UNCHANGED <<searchVars, tgtVars, call>>

(* The other kinds are only delivered. *)
AdvertiseOther ==
  /\ sr = Nil
  /\ advTgt # 0
  /\ Enqueue(advTgt)
  /\ UNCHANGED <<histVars, searchVars, tgtVars, call>>

(* SCAN_RSP: the search begins below adLast. *)
ScanRsp(a) ==
  /\ sr = Nil
  /\ advTgt # 0
  /\ sr' = a
  /\ evTgt' = advTgt
  /\ idx' = adLast - 1
  /\ outcome' = Nil
  /\ UNCHANGED <<histVars, tgtVars, chAdv, call>>

(* The slot an index stands for: -1 wraps around. *)
At == IF idx = -1 THEN HistLen - 1 ELSE idx

SearchMore == sr # Nil /\ idx # adLast

EndSearch(o) == sr' = Nil /\ outcome' = o /\ idx' = 0 /\ evTgt' = 0

(* A newer entry of the same address is taken before an older one. *)
StepBack_Two == IF At >= 1 THEN At - 2 ELSE At - 1  \* mutant
StepBack == At - 1

SearchNext ==
  /\ SearchMore
  /\ adHist[At] \notin {Nil, sr}
  /\ idx' = StepBack
  /\ UNCHANGED <<histVars, sr, evTgt, outcome, tgtVars, chAdv, call>>

SearchHit ==
  /\ SearchMore
  /\ adHist[At] = sr
  /\ EndSearch(At)
  /\ Enqueue(evTgt)
  /\ UNCHANGED <<histVars, tgtVars, call>>

SearchEmpty ==
  /\ SearchMore
  /\ adHist[At] = Nil
  /\ EndSearch(Orphan)
  /\ UNCHANGED <<histVars, tgtVars, chAdv, call>>

(* The loop's condition fails. *)

SearchOut ==
  /\ sr # Nil /\ idx = adLast
  /\ EndSearch(Orphan)
  /\ UNCHANGED <<histVars, tgtVars, chAdv, call>>

SearchStep == SearchNext \/ SearchHit \/ SearchEmpty \/ SearchOut
-----------------------------------------------------------------------------
(* advDispatcher: the check of the target, then the call of its handler.   *)

Dispatch ==
  /\ call = 0
  /\ chAdv # <<>>
  /\ call' = IF Head(chAdv) = advTgt THEN advTgt ELSE 0
  /\ chAdv' = Tail(chAdv)
  /\ UNCHANGED <<histVars, searchVars, tgtVars>>

HandlerReturns ==
  /\ call # 0
  /\ call' = 0
  /\ UNCHANGED <<histVars, searchVars, tgtVars, chAdv>>
-----------------------------------------------------------------------------
ReportsNext ==
  \/ SetAdvHandler \/ SetAdvHandlerNil \/ resetAdHistory
  \/ \E a \in Addrs : Advertise(a)
  \/ AdvertiseOther
  \/ \E a \in Addrs : ScanRsp(a)
  \/ SearchStep
  \/ Dispatch \/ HandlerReturns

ReportsSpec == ReportsInit /\ [][ReportsNext]_reportsVars

(* sktLoop runs. *)
FairReportsSpec == ReportsSpec /\ WF_reportsVars(SearchStep)
-----------------------------------------------------------------------------
(* How long ago slot i was written: 0 is the newest. *)
Age(i) == (adLast - 1 - i) % HistLen

(* The ring holds the last HistLen advertisements since the reset. *)
HistoryIsRecent ==
  \A i \in Slots :
    adHist[i] = IF Age(i) < Len(recent) THEN recent[Len(recent) - Age(i)] ELSE Nil

Ends == sr # Nil /\ sr' = Nil

(* A scan response is paired with the latest advertisement of its address, *)
(* whatever the ring's wrap and a Scan's reset did before.  It is an       *)
(* orphan only if no advertisement of its address is in the history, or    *)
(* the only one sits in slot adLast: the oldest of a full ring, which the  *)
(* search need not reach.  (The comment on srOrphaned promises more:       *)
(* "matched no AD in the scan history".)                                   *)
PairedWithLatest ==
  [][Ends =>
       LET own == {j \in Slots : adHist[j] = sr} IN
       IF outcome' = Orphan THEN own \subseteq {adLast}
       ELSE outcome' \in own /\ \A j \in own : Age(outcome') <= Age(j)]_reportsVars

(* README: the stack must never wedge.  Every search ends, and sktLoop     *)
(* goes on.                                                                *)
SearchEnds == sr # Nil ~> sr = Nil

=============================================================================
