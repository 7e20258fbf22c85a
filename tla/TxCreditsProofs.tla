--------------------------- MODULE TxCreditsProofs ---------------------------
(***************************************************************************)
(* Proofs about TxCredits, for every pool size, every number of            *)
(* connections and writers and every PDU length.                           *)
(***************************************************************************)
EXTENDS TxCredits, SequenceTheorems, TLAPS

(* A writer inside writePDU has a connection, one that exists. *)
WriterHasConn ==
  \A w \in Writers : pc[w] # "idle" => on[w] \in Conns /\ life[on[w]] # "absent"

(* The train mutex: held by exactly the writers between lock and unlock. *)
MutexHolder ==
  /\ \A w \in Writers : pc[w] \in InTrain => mu[on[w]] = w
  /\ \A c \in Conns : mu[c] # None => pc[mu[c]] \in InTrain /\ on[mu[c]] = c

(* A writer that waits for the mutex has flushed nothing yet. *)
FreshTrain == \A w \in Writers : pc[w] \notin InTrain => frag[w] = 0

(* Before its LE Connection Complete a Conn does not exist: nothing refers *)
(* to it.  After ReclaimAll no train runs on it.                           *)
AbsentUnused ==
  \A c \in Conns : life[c] = "absent" =>
    /\ mu[c] = None
    /\ held[c] = 0
    /\ comp[c] = 0
    /\ link[c] = "none"
ReclaimedQuiet == \A c \in Conns : life[c] = "reclaimed" => mu[c] = None

IInv == /\ TypeOK /\ WriterHasConn /\ MutexHolder /\ AbsentUnused
        /\ FreshTrain /\ ReclaimedQuiet /\ Partition /\ TrainOwnsItsBuffer
        /\ CreditsCoverPackets /\ NoCreditLeak /\ TrainsDoNotInterleave
-----------------------------------------------------------------------------
(* What dropping the n oldest elements of a queue leaves. *)
LEMMA DropOldest ==
  ASSUME NEW S, NEW s \in Seq(S), NEW n \in 0..Len(s)
  PROVE  LET t == SubSeq(s, n + 1, Len(s)) IN
         /\ t \in Seq(S)
         /\ Len(t) = Len(s) - n
         /\ \A i \in 1..Len(t) : t[i] = s[n + i]
<1>1. Len(s) \in Nat /\ \A i \in 1..Len(s) : s[i] \in S
  BY LenProperties, ElementOfSeq
<1>2. \A i \in (n + 1)..Len(s) : s[i] \in S
  BY <1>1
<1>3. /\ SubSeq(s, n + 1, Len(s)) \in Seq(S)
      /\ Len(SubSeq(s, n + 1, Len(s))) =
           IF n + 1 <= Len(s) THEN Len(s) - (n + 1) + 1 ELSE 0
      /\ \A i \in 1..(Len(s) - (n + 1) + 1) :
           SubSeq(s, n + 1, Len(s))[i] = s[(n + 1) + i - 1]
  BY <1>1, <1>2, SubSeqProperties
<1> QED  BY <1>1, <1>3

(* Return keeps the types of what it assigns. *)
LEMMA ReturnType ==
  ASSUME TypeOK, NEW w \in Writers, Return(w)
  PROVE  /\ pc' \in [Writers -> {"idle", "lock"} \cup InTrain]
         /\ buf' \in [Writers -> Buffers \cup {None}]
         /\ size' \in [Writers -> 1..MaxFrags]
         /\ frag' \in [Writers -> 0..(MaxFrags - 1)]
         /\ on' \in [Writers -> Conns \cup {None}]
         /\ mu' \in [Conns -> Writers \cup {None}]
         /\ wire' \in [Conns -> Writers \cup {None}]
<1>1. 1 \in 1..MaxFrags /\ 0 \in 0..(MaxFrags - 1)
  BY MaxFragsAssumption
<1>2. size' \in [Writers -> 1..MaxFrags]  BY <1>1 DEF Return, TypeOK
<1>3. frag' \in [Writers -> 0..(MaxFrags - 1)]  BY <1>1 DEF Return, TypeOK
<1>4. pc' \in [Writers -> {"idle", "lock"} \cup InTrain]  BY DEF Return, TypeOK
<1>5. buf' \in [Writers -> Buffers \cup {None}]  BY DEF Return, TypeOK
<1>6. on' \in [Writers -> Conns \cup {None}]  BY DEF Return, TypeOK
<1>7. mu' \in [Conns -> Writers \cup {None}]  BY DEF Return, TypeOK
<1>8. wire' \in [Conns -> Writers \cup {None}]  BY DEF Return, TypeOK
<1> QED  BY <1>2, <1>3, <1>4, <1>5, <1>6, <1>7, <1>8

(* The type invariant is inductive by itself. *)
LEMMA TypeStep == TypeOK /\ [Next]_vars => TypeOK'
<1> SUFFICES ASSUME TypeOK, [Next]_vars PROVE TypeOK'
  OBVIOUS
<1> USE DEF TypeOK, Lives, Links, InTrain, poolVars, connVars, trainVars, ctrlVars
<1>1. ASSUME NEW w \in Writers, NEW c \in Conns, NEW n \in 1..MaxFrags,
             StartWrite(w, c, n)
      PROVE  TypeOK'
  BY <1>1, MaxFragsAssumption DEF StartWrite
<1>2. ASSUME NEW w \in Writers, WriterStep(w)
      PROVE  TypeOK'
  <2>1. CASE Acquire(w)  BY <2>1 DEF Acquire
  <2>2. CASE AcquireClosed(w)  BY <2>2, ReturnType DEF AcquireClosed
  <2>3. CASE GetBuffer(w)
    <3>1. PICK b \in pool : /\ pool' = pool \ {b}
                            /\ sent' = [sent EXCEPT ![on[w]] = Append(@, b)]
                            /\ buf' = [buf EXCEPT ![w] = b]
      BY <2>3 DEF GetBuffer
    <3>2. sent' \in [Conns -> Seq(Buffers)]
      <4>1. b \in Buffers  OBVIOUS
      <4>2. ASSUME on[w] \in Conns PROVE Append(sent[on[w]], b) \in Seq(Buffers)
        BY <4>1, <4>2
      <4> QED  BY <3>1, <4>2
    <3>3. buf' \in [Writers -> Buffers \cup {None}] /\ pool' \subseteq Buffers
      BY <3>1
    <3> QED  BY <2>3, <3>2, <3>3 DEF GetBuffer
  <2>4. CASE GetDone(w)  BY <2>4, ReturnType DEF GetDone
  <2>5. CASE Fill(w)  BY <2>5 DEF Fill
  <2>6. CASE FillClosed(w)  BY <2>6, ReturnType DEF FillClosed
  <2>7. CASE Flush(w)
    <3>1. held' \in [Conns -> Nat]
      <4>1. ASSUME on[w] \in Conns PROVE held[on[w]] + 1 \in Nat
        BY <4>1
      <4> QED  BY <2>7, <4>1 DEF Flush, MoreFragments
    <3>2. CASE frag[w] + 1 < size[w]
      <4>0. /\ wire' = [wire EXCEPT ![on[w]] = w] /\ frag' = [frag EXCEPT ![w] = @ + 1]
            /\ pc' = [pc EXCEPT ![w] = "get"] /\ buf' = [buf EXCEPT ![w] = None]
        BY <2>7, <3>2 DEF Flush, MoreFragments
      <4>1. frag' \in [Writers -> 0..(MaxFrags - 1)]
        <5>1. frag[w] + 1 \in 0..(MaxFrags - 1)
          BY <3>2, MaxFragsAssumption
        <5> QED  BY <4>0, <5>1
      <4>2. pc' \in [Writers -> {"idle", "lock"} \cup InTrain]
        BY <4>0
      <4>3. buf' \in [Writers -> Buffers \cup {None}]
        BY <4>0
      <4>4. wire' \in [Conns -> Writers \cup {None}]
        BY <4>0
      <4> QED  BY <2>7, <3>1, <3>2, <4>1, <4>2, <4>3, <4>4 DEF Flush, MoreFragments
    <3>3. CASE ~(frag[w] + 1 < size[w])
      BY <2>7, <3>1, <3>3, ReturnType DEF Flush, MoreFragments
    <3> QED  BY <3>2, <3>3
  <2>8. CASE FlushError(w)  BY <2>8, ReturnType DEF FlushError
  <2> QED  BY <1>2, <2>1, <2>2, <2>3, <2>4, <2>5, <2>6, <2>7, <2>8 DEF WriterStep
<1>3. ASSUME NEW w \in Writers, GetTimer(w)
      PROVE  TypeOK'
  BY <1>3, ReturnType DEF GetTimer
<1>4. ASSUME NEW c \in Conns, TeardownStep(c)
      PROVE  TypeOK'
  <2>1. CASE closeChans(c)  BY <2>1 DEF closeChans
  <2>2. CASE ReclaimAll(c)
    <3>1. \A i \in 1..Len(sent[c]) : sent[c][i] \in Buffers
      BY ElementOfSeq
    <3>2. pool' \subseteq Buffers
      BY <2>2, <3>1 DEF ReclaimAll
    <3> QED  BY <2>2, <3>2, EmptySeq DEF ReclaimAll
  <2> QED  BY <1>4, <2>1, <2>2 DEF TeardownStep
<1>5. ASSUME NEW c \in Conns, handleLEConnectionComplete(c)
      PROVE  TypeOK'
  BY <1>5 DEF handleLEConnectionComplete
<1>6. ASSUME NEW c \in Conns, handleNumberOfCompletedPackets(c)
      PROVE  TypeOK'
  <2>1. PICK k \in 1..comp[c] :
          /\ comp' = [comp EXCEPT ![c] = @ - k]
          /\ IF life[c] = "up" THEN Put(c, k) ELSE UNCHANGED poolVars
    BY <1>6 DEF handleNumberOfCompletedPackets
  <2>2. comp' \in [Conns -> Nat]
    BY <2>1
  <2>3. pool' \subseteq Buffers /\ sent' \in [Conns -> Seq(Buffers)]
    <3>1. CASE life[c] # "up"  BY <2>1, <3>1
    <3>2. CASE life[c] = "up"
      <4> DEFINE n == IF k < Len(sent[c]) THEN k ELSE Len(sent[c])
      <4>1. Len(sent[c]) \in Nat  BY LenProperties
      <4>2. n \in 0..Len(sent[c])  BY <4>1
      <4>3. \A i \in 1..Len(sent[c]) : sent[c][i] \in Buffers
        BY ElementOfSeq
      <4>4. pool' = pool \cup {sent[c][i] : i \in 1..n}
        BY <2>1, <3>2 DEF Put
      <4>5. sent' = [sent EXCEPT ![c] = SubSeq(@, n + 1, Len(@))]
        BY <2>1, <3>2 DEF Put
      <4> HIDE DEF n
      <4>6. SubSeq(sent[c], n + 1, Len(sent[c])) \in Seq(Buffers)
        BY <4>2, DropOldest
      <4> QED  BY <4>1, <4>2, <4>3, <4>4, <4>5, <4>6
    <3> QED  BY <3>1, <3>2
  <2> QED  BY <1>6, <2>2, <2>3 DEF handleNumberOfCompletedPackets
<1>7. ASSUME NEW c \in Conns, handleDisconnectionComplete(c)
      PROVE  TypeOK'
  BY <1>7 DEF handleDisconnectionComplete
<1>8. ASSUME NEW c \in Conns, cleanupConn(c)
      PROVE  TypeOK'
  BY <1>8 DEF cleanupConn
<1>9. CASE cleanupConns
  BY <1>9 DEF cleanupConns
<1>10. ASSUME NEW c \in Conns, Transmit(c)
       PROVE  TypeOK'
  BY <1>10 DEF Transmit
<1>11. ASSUME NEW c \in Conns, LinkLoss(c)
       PROVE  TypeOK'
  BY <1>11 DEF LinkLoss
<1>12. CASE UNCHANGED vars
  BY <1>12 DEF vars
<1> QED  BY <1>1, <1>2, <1>3, <1>4, <1>5, <1>6, <1>7, <1>8, <1>9, <1>10,
            <1>11, <1>12 DEF Next

(* TypeOK holds initially. *)
LEMMA TypeInit == Init => TypeOK
  BY MaxFragsAssumption, EmptySeq DEF Init, TypeOK, Lives, Links, InTrain

(* Every behaviour of the pool, the trains and the teardowns is well typed. *)
THEOREM TypeCorrect == Spec => []TypeOK
  BY TypeInit, TypeStep, PTL DEF Spec
-----------------------------------------------------------------------------
(* The train mutex is held exactly by the writers inside a train. *)
LEMMA MutexStep ==
  ASSUME TypeOK, WriterHasConn, MutexHolder, [Next]_vars
  PROVE  WriterHasConn' /\ MutexHolder'
<1> USE NoneAssumption DEF TypeOK, Lives, InTrain, WriterHasConn, MutexHolder,
        poolVars, connVars, trainVars, ctrlVars
<1>1. ASSUME NEW w \in Writers, NEW c \in Conns, NEW n \in 1..MaxFrags,
             StartWrite(w, c, n)
      PROVE  WriterHasConn' /\ MutexHolder'
  BY <1>1 DEF StartWrite
<1>2. ASSUME NEW w \in Writers, Return(w), pc[w] # "idle", life' = life,
             pc[w] \in InTrain \/ mu[on[w]] = None
      PROVE  WriterHasConn' /\ MutexHolder'
  BY <1>2 DEF Return
<1>3. ASSUME NEW w \in Writers, WriterStep(w)
      PROVE  WriterHasConn' /\ MutexHolder'
  <2>1. CASE Acquire(w)  BY <2>1 DEF Acquire
  <2>2. CASE AcquireClosed(w)  BY <1>2, <2>2 DEF AcquireClosed
  <2>3. CASE GetBuffer(w)  BY <2>3 DEF GetBuffer
  <2>4. CASE GetDone(w)  BY <1>2, <2>4 DEF GetDone
  <2>5. CASE Fill(w)  BY <2>5 DEF Fill
  <2>6. CASE FillClosed(w)  BY <1>2, <2>6 DEF FillClosed
  <2>7. CASE Flush(w)
    <3>1. CASE frag[w] + 1 < size[w]
      <4>1. pc' = [pc EXCEPT ![w] = "get"] /\ UNCHANGED <<on, mu, life>>
        BY <2>7, <3>1 DEF Flush, MoreFragments
      <4>2. pc[w] = "write"  BY <2>7 DEF Flush, MoreFragments
      <4> QED  BY <4>1, <4>2
    <3>2. CASE ~(frag[w] + 1 < size[w])  BY <1>2, <2>7, <3>2 DEF Flush, MoreFragments
    <3> QED  BY <3>1, <3>2
  <2>8. CASE FlushError(w)  BY <1>2, <2>8 DEF FlushError
  <2> QED  BY <1>3, <2>1, <2>2, <2>3, <2>4, <2>5, <2>6, <2>7, <2>8 DEF WriterStep
<1>4. ASSUME NEW w \in Writers, GetTimer(w)
      PROVE  WriterHasConn' /\ MutexHolder'
  BY <1>2, <1>4 DEF GetTimer
<1>5. ASSUME UNCHANGED trainVars,
             \A c \in Conns : life[c] # "absent" => life'[c] # "absent"
      PROVE  WriterHasConn' /\ MutexHolder'
  BY <1>5
<1>6. ASSUME NEW c \in Conns, TeardownStep(c)
      PROVE  WriterHasConn' /\ MutexHolder'
  BY <1>5, <1>6 DEF TeardownStep, closeChans, ReclaimAll
<1>7. ASSUME NEW c \in Conns, handleLEConnectionComplete(c)
      PROVE  WriterHasConn' /\ MutexHolder'
  BY <1>5, <1>7 DEF handleLEConnectionComplete
<1>8. ASSUME NEW c \in Conns, handleNumberOfCompletedPackets(c)
      PROVE  WriterHasConn' /\ MutexHolder'
  BY <1>5, <1>8 DEF handleNumberOfCompletedPackets
<1>9. ASSUME NEW c \in Conns, handleDisconnectionComplete(c)
      PROVE  WriterHasConn' /\ MutexHolder'
  BY <1>5, <1>9 DEF handleDisconnectionComplete
<1>10. ASSUME NEW c \in Conns, cleanupConn(c)
       PROVE  WriterHasConn' /\ MutexHolder'
  BY <1>5, <1>10 DEF cleanupConn
<1>11. CASE cleanupConns
  BY <1>5, <1>11 DEF cleanupConns
<1>12. ASSUME NEW c \in Conns, Transmit(c) \/ LinkLoss(c)
       PROVE  WriterHasConn' /\ MutexHolder'
  BY <1>5, <1>12 DEF Transmit, LinkLoss
<1>13. CASE UNCHANGED vars
  BY <1>5, <1>13 DEF vars
<1> QED  BY <1>1, <1>3, <1>4, <1>6, <1>7, <1>8, <1>9, <1>10, <1>11, <1>12,
            <1>13 DEF Next

(* Nothing refers to a Conn before it exists. *)
LEMMA AbsentStep ==
  ASSUME TypeOK, WriterHasConn, AbsentUnused, [Next]_vars
  PROVE  AbsentUnused'
<1> USE DEF TypeOK, Lives, Links, InTrain, WriterHasConn, AbsentUnused,
        poolVars, connVars, trainVars, ctrlVars
<1>1. ASSUME NEW w \in Writers, Return(w), pc[w] # "idle", life' = life,
             UNCHANGED <<link, comp>>,
             held' = held \/ held' = [held EXCEPT ![on[w]] = @ + 1]
      PROVE  AbsentUnused'
  BY <1>1 DEF Return
<1>2. ASSUME NEW w \in Writers, WriterStep(w)
      PROVE  AbsentUnused'
  <2>1. CASE Acquire(w)  BY <2>1 DEF Acquire
  <2>2. CASE AcquireClosed(w)  BY <1>1, <2>2 DEF AcquireClosed
  <2>3. CASE GetBuffer(w)  BY <2>3 DEF GetBuffer
  <2>4. CASE GetDone(w)  BY <1>1, <2>4 DEF GetDone
  <2>5. CASE Fill(w)  BY <2>5 DEF Fill
  <2>6. CASE FillClosed(w)  BY <1>1, <2>6 DEF FillClosed
  <2>7. CASE Flush(w)
    <3>1. CASE frag[w] + 1 < size[w]  BY <2>7, <3>1 DEF Flush, MoreFragments
    <3>2. CASE ~(frag[w] + 1 < size[w])  BY <1>1, <2>7, <3>2 DEF Flush, MoreFragments
    <3> QED  BY <3>1, <3>2
  <2>8. CASE FlushError(w)  BY <1>1, <2>8 DEF FlushError
  <2> QED  BY <1>2, <2>1, <2>2, <2>3, <2>4, <2>5, <2>6, <2>7, <2>8 DEF WriterStep
<1>3. ASSUME NEW w \in Writers, GetTimer(w)
      PROVE  AbsentUnused'
  BY <1>1, <1>3 DEF GetTimer
<1>4. ASSUME NEW w \in Writers, NEW c \in Conns, NEW n \in 1..MaxFrags,
             StartWrite(w, c, n)
      PROVE  AbsentUnused'
  BY <1>4 DEF StartWrite
<1>5. ASSUME NEW c \in Conns, TeardownStep(c)
      PROVE  AbsentUnused'
  BY <1>5 DEF TeardownStep, closeChans, ReclaimAll
<1>6. ASSUME NEW c \in Conns, handleLEConnectionComplete(c)
      PROVE  AbsentUnused'
  BY <1>6 DEF handleLEConnectionComplete
<1>7. ASSUME NEW c \in Conns, handleNumberOfCompletedPackets(c)
      PROVE  AbsentUnused'
  BY <1>7 DEF handleNumberOfCompletedPackets
<1>8. ASSUME NEW c \in Conns, handleDisconnectionComplete(c)
      PROVE  AbsentUnused'
  BY <1>8 DEF handleDisconnectionComplete
<1>9. ASSUME NEW c \in Conns, cleanupConn(c)
      PROVE  AbsentUnused'
  BY <1>9 DEF cleanupConn
<1>10. CASE cleanupConns
  BY <1>10 DEF cleanupConns
<1>11. ASSUME NEW c \in Conns, Transmit(c)
       PROVE  AbsentUnused'
  BY <1>11 DEF Transmit
<1>12. ASSUME NEW c \in Conns, LinkLoss(c)
       PROVE  AbsentUnused'
  BY <1>12 DEF LinkLoss
<1>13. CASE UNCHANGED vars
  BY <1>13 DEF vars
<1> QED  BY <1>2, <1>3, <1>4, <1>5, <1>6, <1>7, <1>8, <1>9, <1>10, <1>11,
            <1>12, <1>13 DEF Next
-----------------------------------------------------------------------------
(* The elements of a queue, and what Append adds to them. *)
LEMMA AppendElements ==
  ASSUME NEW S, NEW s \in Seq(S), NEW b \in S
  PROVE  /\ Len(Append(s, b)) = Len(s) + 1
         /\ \A i \in 1..Len(s) : Append(s, b)[i] = s[i]
         /\ Append(s, b)[Len(s) + 1] = b
  OBVIOUS

(* GetTimeout's buffer arm keeps every buffer in one place. *)
LEMMA PartitionGet ==
  ASSUME TypeOK, Partition, NEW w \in Writers, on[w] \in Conns, GetBuffer(w)
  PROVE  Partition'
<1> DEFINE c == on[w]
<1>1. PICK b \in pool : /\ pool' = pool \ {b}
                        /\ sent' = [sent EXCEPT ![c] = Append(@, b)]
  BY DEF GetBuffer
<1>2. b \in Buffers  BY DEF TypeOK
<1>3. sent[c] \in Seq(Buffers) /\ Len(sent[c]) \in Nat
  BY LenProperties DEF TypeOK
<1>4. /\ Len(sent'[c]) = Len(sent[c]) + 1
      /\ \A i \in 1..Len(sent[c]) : sent'[c][i] = sent[c][i]
      /\ sent'[c][Len(sent[c]) + 1] = b
  <2>1. sent'[c] = Append(sent[c], b)  BY <1>1 DEF TypeOK
  <2> QED  BY <1>2, <1>3, <2>1, AppendElements
<1>5. \A d \in Conns : d # c => sent'[d] = sent[d]
  BY <1>1 DEF TypeOK
<1>6. \A d \in Conns : Len(sent[d]) \in Nat
  BY LenProperties DEF TypeOK
<1> HIDE DEF c
<1>7. ASSUME NEW x \in Buffers
      PROVE  x \in pool' \/ \E d \in Conns : \E i \in 1..Len(sent'[d]) : sent'[d][i] = x
  <2>1. CASE x = b
    <3>1. Len(sent[c]) + 1 \in 1..Len(sent'[c])  BY <1>3, <1>4
    <3> QED  BY <1>4, <2>1, <3>1 DEF c
  <2>2. CASE x # b /\ x \in pool  BY <1>1, <2>2
  <2>3. CASE x \notin pool
    <3>1. PICK d \in Conns : \E i \in 1..Len(sent[d]) : sent[d][i] = x
      BY <2>3 DEF Partition
    <3>2. PICK i \in 1..Len(sent[d]) : sent[d][i] = x  BY <3>1
    <3>3. i \in 1..Len(sent'[d]) /\ sent'[d][i] = x
      BY <1>3, <1>4, <1>5, <3>2
    <3> QED  BY <3>3
  <2> QED  BY <2>1, <2>2, <2>3
<1>8. ASSUME NEW d \in Conns, NEW i \in 1..Len(sent'[d])
      PROVE  \/ i \in 1..Len(sent[d]) /\ sent'[d][i] = sent[d][i]
             \/ d = c /\ i = Len(sent[c]) + 1 /\ sent'[d][i] = b
  BY <1>3, <1>4, <1>5
<1>9. ASSUME NEW d \in Conns, NEW i \in 1..Len(sent'[d])
      PROVE  sent'[d][i] \notin pool'
  BY <1>1, <1>8 DEF Partition
<1>10. ASSUME NEW d \in Conns, NEW e \in Conns,
              NEW i \in 1..Len(sent'[d]), NEW j \in 1..Len(sent'[e]),
              sent'[d][i] = sent'[e][j]
       PROVE  d = e /\ i = j
  <2>1. \A f \in Conns : \A k \in 1..Len(sent[f]) : sent[f][k] # b
    BY DEF Partition
  <2> QED  BY <1>8, <1>10, <2>1 DEF Partition
<1> QED  BY <1>7, <1>9, <1>10 DEF Partition

(* Putting back the n oldest buffers of a queue (all of them included)     *)
(* keeps every buffer in one place.                                        *)
LEMMA PartitionDrop ==
  ASSUME TypeOK, Partition, NEW c \in Conns, NEW n \in 0..Len(sent[c]),
         pool' = pool \cup {sent[c][i] : i \in 1..n},
         sent' = [sent EXCEPT ![c] = SubSeq(@, n + 1, Len(@))]
  PROVE  Partition'
<1>1. \A d \in Conns : Len(sent[d]) \in Nat
  BY LenProperties DEF TypeOK
<1>2. /\ Len(sent'[c]) = Len(sent[c]) - n
      /\ \A i \in 1..Len(sent'[c]) : sent'[c][i] = sent[c][n + i]
  <2>1. sent[c] \in Seq(Buffers)  BY DEF TypeOK
  <2>2. sent'[c] = SubSeq(sent[c], n + 1, Len(sent[c]))  BY DEF TypeOK
  <2> QED  BY <2>1, <2>2, DropOldest
<1>3. \A d \in Conns : d # c => sent'[d] = sent[d]
  BY DEF TypeOK
<1>4. ASSUME NEW x \in Buffers
      PROVE  x \in pool' \/ \E d \in Conns : \E i \in 1..Len(sent'[d]) : sent'[d][i] = x
  <2>1. CASE x \in pool  BY <2>1
  <2>2. CASE x \notin pool
    <3>1. PICK d \in Conns : \E i \in 1..Len(sent[d]) : sent[d][i] = x
      BY <2>2 DEF Partition
    <3>2. PICK i \in 1..Len(sent[d]) : sent[d][i] = x  BY <3>1
    <3>3. CASE d # c  BY <1>3, <3>2, <3>3
    <3>4. CASE d = c /\ i <= n
      <4>1. i \in 1..n  BY <1>1, <3>4
      <4> QED  BY <3>2, <3>4, <4>1
    <3>5. CASE d = c /\ i > n
      <4>1. i - n \in 1..Len(sent'[c]) /\ n + (i - n) = i  BY <1>1, <1>2, <3>5
      <4>2. sent'[c][i - n] = x  BY <1>2, <3>2, <3>5, <4>1
      <4> QED  BY <4>1, <4>2
    <3> QED  BY <1>1, <3>3, <3>4, <3>5
  <2> QED  BY <2>1, <2>2
<1>5. ASSUME NEW d \in Conns, NEW i \in 1..Len(sent'[d])
      PROVE  LET j == IF d = c THEN n + i ELSE i IN
             /\ j \in 1..Len(sent[d])
             /\ sent'[d][i] = sent[d][j]
             /\ d = c => j > n
  BY <1>1, <1>2, <1>3
<1>6. ASSUME NEW d \in Conns, NEW i \in 1..Len(sent'[d])
      PROVE  sent'[d][i] \notin pool'
  <2> DEFINE j == IF d = c THEN n + i ELSE i
  <2>1. j \in 1..Len(sent[d]) /\ sent'[d][i] = sent[d][j] /\ (d = c => j > n)
    BY <1>5
  <2> HIDE DEF j
  <2>2. sent[d][j] \notin pool  BY <2>1 DEF Partition
  <2>3. ASSUME NEW k \in 1..n PROVE sent[d][j] # sent[c][k]
    <3>1. k \in 1..Len(sent[c])  BY <1>1
    <3>2. ~(d = c /\ j = k)  BY <1>1, <2>1
    <3> QED  BY <2>1, <3>1, <3>2 DEF Partition
  <2> QED  BY <2>1, <2>2, <2>3
<1>7. ASSUME NEW d \in Conns, NEW e \in Conns,
             NEW i \in 1..Len(sent'[d]), NEW j \in 1..Len(sent'[e]),
             sent'[d][i] = sent'[e][j]
      PROVE  d = e /\ i = j
  <2> DEFINE p == IF d = c THEN n + i ELSE i
             q == IF e = c THEN n + j ELSE j
  <2>1. p \in 1..Len(sent[d]) /\ sent'[d][i] = sent[d][p]  BY <1>5
  <2>2. q \in 1..Len(sent[e]) /\ sent'[e][j] = sent[e][q]  BY <1>5
  <2>3. d = e /\ p = q
    <3> HIDE DEF p, q
    <3> QED  BY <1>7, <2>1, <2>2 DEF Partition
  <2>4. i \in Int /\ j \in Int  BY <1>1
  <2> QED  BY <2>3, <2>4
<1> QED  BY <1>4, <1>6, <1>7 DEF Partition

(* The sktLoop handler of completed packets as a drop of n <= k buffers. *)
LEMMA PutDrops ==
  ASSUME TypeOK, NEW c \in Conns, NEW k \in Nat, Put(c, k)
  PROVE  \E n \in 0..Len(sent[c]) :
           /\ n = (IF k < Len(sent[c]) THEN k ELSE Len(sent[c]))
           /\ pool' = pool \cup {sent[c][i] : i \in 1..n}
           /\ sent' = [sent EXCEPT ![c] = SubSeq(@, n + 1, Len(@))]
<1> DEFINE n == IF k < Len(sent[c]) THEN k ELSE Len(sent[c])
<1>1. Len(sent[c]) \in Nat  BY LenProperties DEF TypeOK
<1>2. n \in 0..Len(sent[c])  BY <1>1
<1>3. /\ pool' = pool \cup {sent[c][i] : i \in 1..n}
      /\ sent' = [sent EXCEPT ![c] = SubSeq(@, n + 1, Len(@))]
  BY DEF Put
<1> HIDE DEF n
<1>4. n = (IF k < Len(sent[c]) THEN k ELSE Len(sent[c]))  BY DEF n
<1> QED  BY <1>2, <1>3, <1>4

(* How a step may change the pool and the sent queues. *)
LEMMA PoolSteps ==
  ASSUME TypeOK, [Next]_vars
  PROVE  \/ UNCHANGED poolVars
         \/ \E w \in Writers : GetBuffer(w)
         \/ \E c \in Conns : handleNumberOfCompletedPackets(c) /\ life[c] = "up"
         \/ \E c \in Conns : ReclaimAll(c)
<1> USE DEF poolVars
<1>1. ASSUME NEW w \in Writers, WriterStep(w)
      PROVE  UNCHANGED poolVars \/ GetBuffer(w)
  BY <1>1 DEF WriterStep, Acquire, AcquireClosed, GetDone, Fill, FillClosed,
              Flush, FlushError
<1>2. ASSUME NEW c \in Conns, TeardownStep(c)
      PROVE  UNCHANGED poolVars \/ ReclaimAll(c)
  BY <1>2 DEF TeardownStep, closeChans
<1>3. ASSUME NEW c \in Conns, handleNumberOfCompletedPackets(c), life[c] # "up"
      PROVE  UNCHANGED poolVars
  BY <1>3 DEF handleNumberOfCompletedPackets
<1> QED
  BY <1>1, <1>2, <1>3
     DEF Next, vars, StartWrite, GetTimer, handleLEConnectionComplete,
         handleDisconnectionComplete, cleanupConn, cleanupConns, Transmit, LinkLoss

(* Every step keeps every buffer in exactly one place. *)
LEMMA PartitionStep ==
  ASSUME TypeOK, WriterHasConn, Partition, [Next]_vars
  PROVE  Partition'
<1>1. CASE UNCHANGED poolVars
  BY <1>1 DEF Partition, poolVars
<1>2. ASSUME NEW w \in Writers, GetBuffer(w)
      PROVE  Partition'
  <2>1. on[w] \in Conns  BY <1>2 DEF GetBuffer, WriterHasConn
  <2> QED  BY <1>2, <2>1, PartitionGet
<1>3. ASSUME NEW c \in Conns, handleNumberOfCompletedPackets(c), life[c] = "up"
      PROVE  Partition'
  <2>1. PICK k \in 1..comp[c] : Put(c, k)
    BY <1>3 DEF handleNumberOfCompletedPackets
  <2>2. k \in Nat  BY DEF TypeOK
  <2>3. PICK n \in 0..Len(sent[c]) :
           /\ pool' = pool \cup {sent[c][i] : i \in 1..n}
           /\ sent' = [sent EXCEPT ![c] = SubSeq(@, n + 1, Len(@))]
    BY <2>1, <2>2, PutDrops
  <2> QED  BY <2>3, PartitionDrop
<1>4. ASSUME NEW c \in Conns, ReclaimAll(c)
      PROVE  Partition'
  <2>1. Len(sent[c]) \in Nat  BY LenProperties DEF TypeOK
  <2>2. SubSeq(sent[c], Len(sent[c]) + 1, Len(sent[c])) = <<>>
    BY <2>1, SubSeqEmpty
  <2>3. sent' = [sent EXCEPT ![c] = SubSeq(@, Len(sent[c]) + 1, Len(@))]
    BY <1>4, <2>2 DEF ReclaimAll
  <2>4. Len(sent[c]) \in 0..Len(sent[c])  BY <2>1
  <2> QED  BY <1>4, <2>3, <2>4, PartitionDrop DEF ReclaimAll
<1> QED  BY <1>1, <1>2, <1>3, <1>4, PoolSteps

(* After ReclaimAll the connection's queue is empty and no train runs. *)
LEMMA LeakStep ==
  ASSUME TypeOK, WriterHasConn, MutexHolder, ReclaimedQuiet, NoCreditLeak,
         [Next]_vars
  PROVE  ReclaimedQuiet' /\ NoCreditLeak'
<1> USE DEF TypeOK, poolVars, connVars, trainVars, ctrlVars
<1>1. ReclaimedQuiet'
  <2> USE DEF ReclaimedQuiet
  <2>1. ASSUME NEW w \in Writers, Return(w), life' = life
        PROVE  ReclaimedQuiet'
    BY <2>1 DEF Return
  <2>2. ASSUME NEW w \in Writers, WriterStep(w)
        PROVE  ReclaimedQuiet'
    <3>1. CASE Acquire(w)  BY <3>1 DEF Acquire, Done
    <3>2. CASE Flush(w)
      <4>1. life' = life  BY <3>2 DEF Flush, MoreFragments
      <4>2. Return(w) \/ mu' = mu  BY <3>2 DEF Flush, MoreFragments
      <4> QED  BY <2>1, <4>1, <4>2
    <3>3. CASE GetBuffer(w) \/ Fill(w)  BY <3>3 DEF GetBuffer, Fill
    <3> QED  BY <2>1, <2>2, <3>1, <3>2, <3>3
             DEF WriterStep, AcquireClosed, GetDone, FillClosed, FlushError
  <2>3. ASSUME NEW w \in Writers, GetTimer(w)
        PROVE  ReclaimedQuiet'
    BY <2>1, <2>3 DEF GetTimer
  <2>4. ASSUME mu' = mu,
               \A c \in Conns : life'[c] = "reclaimed" =>
                                   life[c] = "reclaimed" \/ mu[c] = None
        PROVE  ReclaimedQuiet'
    BY <2>4
  <2>5. ASSUME NEW c \in Conns, TeardownStep(c)
        PROVE  ReclaimedQuiet'
    BY <2>4, <2>5 DEF TeardownStep, closeChans, ReclaimAll
  <2>6. ASSUME NEW w \in Writers, NEW c \in Conns, NEW n \in 1..MaxFrags,
               StartWrite(w, c, n)
        PROVE  ReclaimedQuiet'
    BY <2>4, <2>6 DEF StartWrite
  <2>7. ASSUME NEW c \in Conns,
               \/ handleLEConnectionComplete(c)
               \/ handleNumberOfCompletedPackets(c)
               \/ handleDisconnectionComplete(c)
               \/ cleanupConn(c) \/ Transmit(c) \/ LinkLoss(c)
        PROVE  ReclaimedQuiet'
    BY <2>4, <2>7 DEF handleLEConnectionComplete, handleNumberOfCompletedPackets,
         handleDisconnectionComplete, cleanupConn, Transmit, LinkLoss
  <2>8. CASE cleanupConns  BY <2>4, <2>8 DEF cleanupConns
  <2>9. CASE UNCHANGED vars  BY <2>4, <2>9 DEF vars
  <2> QED  BY <2>2, <2>3, <2>5, <2>6, <2>7, <2>8, <2>9 DEF Next
<1>2. ASSUME NEW c \in Conns, life'[c] = "reclaimed"
      PROVE  sent'[c] = <<>>
  <2>1. life[c] = "reclaimed" \/ ReclaimAll(c)
    <3>1. ASSUME NEW d \in Conns, TeardownStep(d)
          PROVE  life[c] = "reclaimed" \/ ReclaimAll(c)
      <4>1. CASE closeChans(d)  BY <1>2, <4>1 DEF closeChans
      <4>2. CASE ReclaimAll(d) /\ d = c  BY <4>2
      <4>3. CASE ReclaimAll(d) /\ d # c
        <5>1. life' = [life EXCEPT ![d] = "reclaimed"]  BY <4>3 DEF ReclaimAll
        <5> QED  BY <1>2, <4>3, <5>1
      <4> QED  BY <3>1, <4>1, <4>2, <4>3 DEF TeardownStep
    <3>2. ASSUME NEW w \in Writers, WriterStep(w)
          PROVE  life[c] = "reclaimed"
      BY <1>2, <3>2 DEF WriterStep, Acquire, AcquireClosed, GetBuffer, GetDone,
                        Fill, FillClosed, Flush, FlushError
    <3>3. ASSUME NEW d \in Conns,
                 \/ handleLEConnectionComplete(d)
                 \/ handleNumberOfCompletedPackets(d)
                 \/ handleDisconnectionComplete(d)
                 \/ cleanupConn(d) \/ Transmit(d) \/ LinkLoss(d)
          PROVE  life[c] = "reclaimed"
      BY <1>2, <3>3 DEF handleLEConnectionComplete, handleNumberOfCompletedPackets,
           handleDisconnectionComplete, cleanupConn, Transmit, LinkLoss
    <3> QED  BY <1>2, <3>1, <3>2, <3>3
             DEF Next, vars, StartWrite, GetTimer, cleanupConns
  <2>2. CASE ReclaimAll(c)  BY <2>2 DEF ReclaimAll
  <2>3. CASE life[c] = "reclaimed"
    <3>1. sent[c] = <<>> /\ mu[c] = None  BY <2>3 DEF NoCreditLeak, ReclaimedQuiet
    <3>2. CASE UNCHANGED poolVars  BY <3>1, <3>2
    <3>3. ASSUME NEW w \in Writers, GetBuffer(w)
          PROVE  sent'[c] = <<>>
      <4>1. on[w] # c
        BY <3>1, <3>3, NoneAssumption DEF GetBuffer, MutexHolder, InTrain
      <4> QED  BY <3>1, <3>3, <4>1 DEF GetBuffer
    <3>4. ASSUME NEW d \in Conns, handleNumberOfCompletedPackets(d), life[d] = "up"
          PROVE  sent'[c] = <<>>
      <4>1. PICK k \in 1..comp[d] : Put(d, k)
        BY <3>4 DEF handleNumberOfCompletedPackets
      <4>2. \E t : sent' = [sent EXCEPT ![d] = t]
        BY <4>1 DEF Put
      <4>3. d # c  BY <2>3, <3>4
      <4> QED  BY <3>1, <4>2, <4>3
    <3>5. ASSUME NEW d \in Conns, ReclaimAll(d)
          PROVE  sent'[c] = <<>>
      BY <3>1, <3>5 DEF ReclaimAll
    <3> QED  BY <3>2, <3>3, <3>4, <3>5, PoolSteps
  <2> QED  BY <2>1, <2>2, <2>3
<1> QED  BY <1>1, <1>2 DEF NoCreditLeak
-----------------------------------------------------------------------------
(* CreditsCoverPackets without the conditional: what the two cases say. *)
LEMMA CreditsCases ==
  ASSUME TypeOK
  PROVE  CreditsCoverPackets <=>
           \A c \in Conns : life[c] = "up" =>
             /\ held[c] + comp[c] <= Len(sent[c])
             /\ \A w \in Writers : on[w] = c /\ pc[w] \in {"fill", "write"} =>
                  held[c] + comp[c] + 1 <= Len(sent[c])
<1>1. ASSUME NEW c \in Conns
      PROVE  (held[c] + comp[c] + Assembling(c) <= Len(sent[c])) <=>
             /\ held[c] + comp[c] <= Len(sent[c])
             /\ \A w \in Writers : on[w] = c /\ pc[w] \in {"fill", "write"} =>
                  held[c] + comp[c] + 1 <= Len(sent[c])
  <2>1. held[c] \in Nat /\ comp[c] \in Nat /\ Len(sent[c]) \in Nat
    BY LenProperties DEF TypeOK
  <2>2. CASE \E w \in Writers : on[w] = c /\ pc[w] \in {"fill", "write"}
    BY <2>1, <2>2 DEF Assembling
  <2>3. CASE ~ \E w \in Writers : on[w] = c /\ pc[w] \in {"fill", "write"}
    BY <2>1, <2>3 DEF Assembling
  <2> QED  BY <2>2, <2>3
<1> QED  BY <1>1 DEF CreditsCoverPackets

(* A completion event for a registered connection takes back no more       *)
(* buffers than the connection has, and never the one being assembled.     *)
LEMMA PutWithinCredits ==
  ASSUME TypeOK, CreditsCoverPackets, NEW c \in Conns, life[c] = "up",
         handleNumberOfCompletedPackets(c)
  PROVE  \E k \in 1..comp[c] :
           /\ k <= Len(sent[c])
           /\ comp' = [comp EXCEPT ![c] = @ - k]
           /\ Len(sent'[c]) = Len(sent[c]) - k
           /\ \A i \in 1..Len(sent'[c]) : sent'[c][i] = sent[c][k + i]
           /\ \A d \in Conns : d # c => sent'[d] = sent[d]
<1>1. PICK k \in 1..comp[c] : comp' = [comp EXCEPT ![c] = @ - k] /\ Put(c, k)
  BY DEF handleNumberOfCompletedPackets
<1>2. /\ held[c] \in Nat /\ comp[c] \in Nat /\ Len(sent[c]) \in Nat
      /\ sent[c] \in Seq(Buffers)
  BY LenProperties DEF TypeOK
<1>3. k \in Nat /\ k <= Len(sent[c])
  <2>1. held[c] + comp[c] <= Len(sent[c])  BY CreditsCases
  <2> QED  BY <1>2, <2>1
<1>4. PICK n \in 0..Len(sent[c]) :
           /\ n = (IF k < Len(sent[c]) THEN k ELSE Len(sent[c]))
           /\ sent' = [sent EXCEPT ![c] = SubSeq(@, n + 1, Len(@))]
  BY <1>1, <1>3, PutDrops
<1>5. n = k  BY <1>2, <1>3, <1>4
<1>6. sent'[c] = SubSeq(sent[c], n + 1, Len(sent[c]))
  BY <1>4 DEF TypeOK
<1>7. /\ Len(sent'[c]) = Len(sent[c]) - n
      /\ \A i \in 1..Len(sent'[c]) : sent'[c][i] = sent[c][n + i]
  BY <1>2, <1>6, DropOldest
<1>8. \A d \in Conns : d # c => sent'[d] = sent[d]
  BY <1>4 DEF TypeOK
<1> QED  BY <1>1, <1>3, <1>5, <1>7, <1>8

(* A train's buffer stays the newest of its connection's queue. *)
LEMMA BufferStep ==
  ASSUME TypeOK, WriterHasConn, MutexHolder, CreditsCoverPackets,
         TrainOwnsItsBuffer, [Next]_vars
  PROVE  TrainOwnsItsBuffer'
<1> SUFFICES ASSUME NEW w \in Writers, pc'[w] \in {"fill", "write"}
             PROVE  /\ Len(sent'[on'[w]]) > 0
                    /\ sent'[on'[w]][Len(sent'[on'[w]])] = buf'[w]
  BY DEF TrainOwnsItsBuffer
<1> DEFINE c == on[w]
<1>1. CASE GetBuffer(w)
  <2>1. pc[w] = "get" /\ on' = on /\ c \in Conns
    BY <1>1 DEF GetBuffer, WriterHasConn
  <2>2. PICK b \in pool : sent' = [sent EXCEPT ![c] = Append(@, b)]
                          /\ buf' = [buf EXCEPT ![w] = b]
    BY <1>1 DEF GetBuffer
  <2>3. b \in Buffers /\ sent[c] \in Seq(Buffers) /\ Len(sent[c]) \in Nat
    BY <2>1, LenProperties DEF TypeOK
  <2>4. sent'[c] = Append(sent[c], b) /\ buf'[w] = b
    BY <2>1, <2>2 DEF TypeOK
  <2>5. Len(sent'[c]) = Len(sent[c]) + 1 /\ sent'[c][Len(sent[c]) + 1] = b
    BY <2>3, <2>4, AppendElements
  <2> QED  BY <2>1, <2>3, <2>4, <2>5
<1>2. CASE ~GetBuffer(w)
  <2>1. pc[w] \in {"fill", "write"} /\ on'[w] = on[w] /\ buf'[w] = buf[w]
    <3> USE DEF TypeOK, InTrain, poolVars, connVars, trainVars, ctrlVars
    <3>1. ASSUME NEW v \in Writers, WriterStep(v)
          PROVE  pc[w] \in {"fill", "write"} /\ on'[w] = on[w] /\ buf'[w] = buf[w]
      <4>1. CASE Acquire(v)  BY <4>1 DEF Acquire
      <4>2. CASE GetBuffer(v)  BY <1>2, <4>2 DEF GetBuffer
      <4>3. CASE Fill(v)  BY <4>3 DEF Fill
      <4>4. ASSUME Return(v)
            PROVE  pc[w] \in {"fill", "write"} /\ on'[w] = on[w] /\ buf'[w] = buf[w]
        BY <4>4 DEF Return
      <4>5. CASE Flush(v)
        <5>1. Return(v) \/ /\ pc' = [pc EXCEPT ![v] = "get"]
                           /\ buf' = [buf EXCEPT ![v] = None]
                           /\ on' = on
          BY <4>5 DEF Flush, MoreFragments
        <5> QED  BY <4>4, <5>1
      <4> QED  BY <3>1, <4>1, <4>2, <4>3, <4>4, <4>5
               DEF WriterStep, AcquireClosed, GetDone, FillClosed, FlushError
    <3>2. ASSUME NEW v \in Writers, GetTimer(v)
          PROVE  pc[w] \in {"fill", "write"} /\ on'[w] = on[w] /\ buf'[w] = buf[w]
      BY <3>2 DEF GetTimer, Return
    <3>3. ASSUME NEW v \in Writers, NEW d \in Conns, NEW n \in 1..MaxFrags,
                 StartWrite(v, d, n)
          PROVE  pc[w] \in {"fill", "write"} /\ on'[w] = on[w] /\ buf'[w] = buf[w]
      BY <3>3 DEF StartWrite
    <3>4. ASSUME UNCHANGED trainVars
          PROVE  pc[w] \in {"fill", "write"} /\ on'[w] = on[w] /\ buf'[w] = buf[w]
      BY <3>4
    <3> QED
      BY <3>1, <3>2, <3>3, <3>4
         DEF Next, vars, TeardownStep, closeChans, ReclaimAll,
             handleLEConnectionComplete, handleNumberOfCompletedPackets,
             handleDisconnectionComplete, cleanupConn, cleanupConns, Transmit, LinkLoss
  <2>2. c \in Conns /\ mu[c] = w /\ w # None
    BY <2>1, NoneAssumption DEF WriterHasConn, MutexHolder, InTrain
  <2>3. Len(sent[c]) > 0 /\ sent[c][Len(sent[c])] = buf[w]
    BY <2>1 DEF TrainOwnsItsBuffer
  <2>4. CASE sent'[c] = sent[c]  BY <2>1, <2>3, <2>4
  <2>5. ASSUME NEW v \in Writers, GetBuffer(v)
        PROVE  sent'[c] = sent[c]
    <3>1. v # w /\ pc[v] = "get"  BY <1>2, <2>5 DEF GetBuffer
    <3>2. on[v] # c  BY <2>2, <3>1 DEF MutexHolder, InTrain
    <3> QED  BY <2>2, <2>5, <3>2 DEF GetBuffer, TypeOK
  <2>6. ASSUME NEW d \in Conns, ReclaimAll(d)
        PROVE  sent'[c] = sent[c]
    BY <2>2, <2>6 DEF ReclaimAll, TypeOK
  <2>7. ASSUME NEW d \in Conns, handleNumberOfCompletedPackets(d), life[d] = "up",
               d # c
        PROVE  sent'[c] = sent[c]
    BY <2>2, <2>7, PutWithinCredits
  <2>8. CASE handleNumberOfCompletedPackets(c) /\ life[c] = "up"
    <3>1. PICK k \in 1..comp[c] :
            /\ k <= Len(sent[c])
            /\ Len(sent'[c]) = Len(sent[c]) - k
            /\ \A i \in 1..Len(sent'[c]) : sent'[c][i] = sent[c][k + i]
      BY <2>2, <2>8, PutWithinCredits
    <3>2. held[c] \in Nat /\ comp[c] \in Nat /\ Len(sent[c]) \in Nat
      BY <2>2, LenProperties DEF TypeOK
    <3>3. held[c] + comp[c] + 1 <= Len(sent[c])
      BY <2>1, <2>2, <2>8, CreditsCases
    <3>4. Len(sent'[c]) > 0 /\ k + Len(sent'[c]) = Len(sent[c])
          /\ Len(sent'[c]) \in 1..Len(sent'[c])
      BY <3>1, <3>2, <3>3
    <3>5. sent'[c][Len(sent'[c])] = sent[c][Len(sent[c])]
      BY <3>1, <3>4
    <3> QED  BY <2>1, <2>3, <3>4, <3>5
  <2> QED  BY <2>4, <2>5, <2>6, <2>7, <2>8, PoolSteps DEF poolVars
<1> QED  BY <1>1, <1>2

(* The credits of a registered connection keep covering its packets. *)
LEMMA CreditsStep ==
  ASSUME TypeOK, TypeOK', WriterHasConn, MutexHolder, AbsentUnused,
         CreditsCoverPackets, [Next]_vars
  PROVE  CreditsCoverPackets'
<1> DEFINE Cov(c) == /\ held[c] + comp[c] <= Len(sent[c])
                     /\ \A w \in Writers :
                          on[w] = c /\ pc[w] \in {"fill", "write"} =>
                            held[c] + comp[c] + 1 <= Len(sent[c])
<1>a. \A c \in Conns : life[c] = "up" => Cov(c)
  BY CreditsCases
<1>b. \A c \in Conns : /\ held[c] \in Nat /\ comp[c] \in Nat /\ Len(sent[c]) \in Nat
                       /\ held'[c] \in Nat /\ comp'[c] \in Nat /\ Len(sent'[c]) \in Nat
  BY LenProperties DEF TypeOK
<1> SUFFICES ASSUME NEW c \in Conns, life'[c] = "up"
             PROVE  /\ held'[c] + comp'[c] <= Len(sent'[c])
                    /\ \A w \in Writers :
                         on'[w] = c /\ pc'[w] \in {"fill", "write"} =>
                           held'[c] + comp'[c] + 1 <= Len(sent'[c])
  <2>1. ASSUME NEW c \in Conns, life'[c] = "up"
        PROVE  held'[c] + comp'[c] + Assembling(c)' <= Len(sent'[c])
    <3>1. CASE \E w \in Writers : on'[w] = c /\ pc'[w] \in {"fill", "write"}
      BY <1>b, <2>1, <3>1 DEF Assembling
    <3>2. CASE ~ \E w \in Writers : on'[w] = c /\ pc'[w] \in {"fill", "write"}
      BY <1>b, <2>1, <3>2 DEF Assembling
    <3> QED  BY <3>1, <3>2
  <2> QED  BY <2>1 DEF CreditsCoverPackets
<1> USE DEF TypeOK, InTrain, poolVars, connVars, trainVars, ctrlVars
<1>1. CASE handleLEConnectionComplete(c)
  <2>1. life[c] = "absent" /\ UNCHANGED <<held, comp, sent, pc, on>>
    BY <1>1 DEF handleLEConnectionComplete
  <2>2. held[c] = 0 /\ comp[c] = 0 /\ mu[c] = None  BY <2>1 DEF AbsentUnused
  <2>3. \A w \in Writers : on[w] = c => pc[w] \notin {"fill", "write"}
    BY <2>2, NoneAssumption DEF MutexHolder
  <2> QED  BY <1>b, <2>1, <2>2, <2>3
<1>2. CASE ~handleLEConnectionComplete(c)
  <2>1. life[c] = "up"
    <3>1. ASSUME NEW d \in Conns, TeardownStep(d)  PROVE life[c] = "up"
      BY <3>1 DEF TeardownStep, closeChans, ReclaimAll
    <3>2. ASSUME NEW w \in Writers, WriterStep(w)  PROVE life[c] = "up"
      BY <3>2 DEF WriterStep, Acquire, AcquireClosed, GetBuffer, GetDone,
                  Fill, FillClosed, Flush, FlushError
    <3>3. ASSUME NEW d \in Conns, handleLEConnectionComplete(d)  PROVE life[c] = "up"
      <4>1. d # c /\ life' = [life EXCEPT ![d] = "up"]
        BY <1>2, <3>3 DEF handleLEConnectionComplete
      <4> QED  BY <4>1
    <3>4. ASSUME NEW d \in Conns,
                 \/ handleNumberOfCompletedPackets(d)
                 \/ handleDisconnectionComplete(d)
                 \/ cleanupConn(d) \/ Transmit(d) \/ LinkLoss(d)
          PROVE  life[c] = "up"
      BY <3>4 DEF handleNumberOfCompletedPackets,
           handleDisconnectionComplete, cleanupConn, Transmit, LinkLoss
    <3>5. ASSUME NEW w \in Writers, NEW d \in Conns, NEW n \in 1..MaxFrags,
                 StartWrite(w, d, n) \/ GetTimer(w)
          PROVE  life[c] = "up"
      BY <3>5 DEF StartWrite, GetTimer
    <3>6. CASE cleanupConns
      BY <3>6 DEF cleanupConns
    <3>7. CASE UNCHANGED vars
      BY <3>7 DEF vars
    <3>8. 1 \in 1..MaxFrags
      BY MaxFragsAssumption
    <3> HIDE DEF TypeOK, InTrain, poolVars, connVars, trainVars, ctrlVars
    <3> QED  BY <3>1, <3>2, <3>3, <3>4, <3>5, <3>6, <3>7, <3>8 DEF Next
  <2>2. Cov(c)  BY <1>a, <2>1
  <2>3. ASSUME held' = held, comp' = comp, sent' = sent,
               \A w \in Writers : on'[w] = c /\ pc'[w] \in {"fill", "write"} =>
                                   on[w] = c /\ pc[w] \in {"fill", "write"}
        PROVE  /\ held'[c] + comp'[c] <= Len(sent'[c])
               /\ \A w \in Writers :
                    on'[w] = c /\ pc'[w] \in {"fill", "write"} =>
                      held'[c] + comp'[c] + 1 <= Len(sent'[c])
    BY <2>2, <2>3
  <2> DEFINE Goal == /\ held'[c] + comp'[c] <= Len(sent'[c])
                     /\ \A w \in Writers :
                          on'[w] = c /\ pc'[w] \in {"fill", "write"} =>
                            held'[c] + comp'[c] + 1 <= Len(sent'[c])
  <2>4. ASSUME NEW v \in Writers, WriterStep(v)  PROVE Goal
    <3>0. ASSUME Return(v), held' = held, comp' = comp, sent' = sent  PROVE Goal
      BY <2>3, <3>0, NoneAssumption DEF Return
    <3>1. CASE Acquire(v)  BY <2>3, <3>1 DEF Acquire
    <3>2. CASE GetBuffer(v)
      <4>1. on' = on /\ held' = held /\ comp' = comp /\ pc' = [pc EXCEPT ![v] = "fill"]
            /\ pc[v] = "get"
        BY <3>2 DEF GetBuffer
      <4>2. PICK b \in pool : sent' = [sent EXCEPT ![on[v]] = Append(@, b)]
        BY <3>2 DEF GetBuffer
      <4>3. CASE on[v] # c
        <5>1. sent'[c] = sent[c]  BY <4>2, <4>3
        <5> QED  BY <2>2, <4>1, <4>3, <5>1
      <4>4. CASE on[v] = c
        <5>1. sent'[c] = Append(sent[c], b) /\ b \in Buffers /\ sent[c] \in Seq(Buffers)
          BY <4>2, <4>4
        <5>2. Len(sent'[c]) = Len(sent[c]) + 1
          BY <5>1, AppendElements
        <5> QED  BY <1>b, <2>2, <4>1, <5>2
      <4> QED  BY <4>3, <4>4
    <3>3. CASE Fill(v)  BY <2>3, <3>3 DEF Fill
    <3>4. CASE Flush(v)
      <4>1. /\ pc[v] = "write" /\ comp' = comp /\ sent' = sent
            /\ held' = held \/ held' = [held EXCEPT ![on[v]] = @ + 1]
        BY <3>4 DEF Flush, MoreFragments
      <4>2. \A w \in Writers : on'[w] = c /\ pc'[w] \in {"fill", "write"} =>
                 w # v /\ on[w] = c /\ pc[w] \in {"fill", "write"}
        <5>1. Return(v) \/ (pc' = [pc EXCEPT ![v] = "get"] /\ on' = on)
          BY <3>4 DEF Flush, MoreFragments
        <5>2. CASE Return(v)  BY <5>2, NoneAssumption DEF Return
        <5>3. CASE pc' = [pc EXCEPT ![v] = "get"] /\ on' = on  BY <5>3
        <5> QED  BY <5>1, <5>2, <5>3
      <4>3. CASE held'[c] = held[c]  BY <2>2, <4>1, <4>2, <4>3
      <4>4. CASE held'[c] # held[c]
        <5>1. on[v] = c /\ held'[c] = held[c] + 1  BY <4>1, <4>4
        <5>2. ~ \E w \in Writers : w # v /\ on[w] = c /\ pc[w] \in {"fill", "write"}
          BY <4>1, <5>1 DEF MutexHolder
        <5>3. held[c] + comp[c] + 1 <= Len(sent[c])  BY <2>2, <4>1, <5>1
        <5> QED  BY <1>b, <4>1, <4>2, <5>1, <5>2, <5>3
      <4> QED  BY <4>3, <4>4
    <3> QED  BY <2>4, <3>0, <3>1, <3>2, <3>3, <3>4
             DEF WriterStep, AcquireClosed, GetDone, FillClosed, FlushError
  <2>5. ASSUME NEW v \in Writers, GetTimer(v)  PROVE Goal
    BY <2>3, <2>5, NoneAssumption DEF GetTimer, Return
  <2>6. ASSUME NEW v \in Writers, NEW d \in Conns, NEW n \in 1..MaxFrags,
               StartWrite(v, d, n)
        PROVE  Goal
    BY <2>3, <2>6 DEF StartWrite
  <2>7. ASSUME NEW d \in Conns, TeardownStep(d)  PROVE Goal
    <3>1. CASE closeChans(d)  BY <2>3, <3>1 DEF closeChans
    <3>2. CASE ReclaimAll(d)
      <4>1. d # c  BY <2>1, <3>2 DEF ReclaimAll
      <4>2. sent'[c] = sent[c] /\ UNCHANGED <<held, comp, pc, on>>
        BY <3>2, <4>1 DEF ReclaimAll
      <4> QED  BY <2>2, <4>2
    <3> QED  BY <2>7, <3>1, <3>2 DEF TeardownStep
  <2>8. ASSUME NEW d \in Conns, handleNumberOfCompletedPackets(d)  PROVE Goal
    <3>0. UNCHANGED <<held, pc, on>>  BY <2>8 DEF handleNumberOfCompletedPackets
    <3>1. CASE d = c
      <4>1. PICK k \in 1..comp[c] : /\ comp' = [comp EXCEPT ![c] = @ - k]
                                    /\ Len(sent'[c]) = Len(sent[c]) - k
        BY <2>1, <2>8, <3>1, PutWithinCredits
      <4>2. comp'[c] = comp[c] - k /\ Len(sent'[c]) = Len(sent[c]) - k  BY <4>1
      <4>3. /\ held[c] \in Nat /\ comp[c] \in Nat /\ Len(sent[c]) \in Nat
            /\ k \in Nat /\ held'[c] = held[c]
        BY <1>b, <3>0
      <4>4. held'[c] + comp'[c] <= Len(sent'[c])
        <5>1. held[c] + comp[c] <= Len(sent[c])  BY <2>2
        <5> HIDE DEF TypeOK
        <5> QED  BY <4>2, <4>3, <5>1
      <4>5. ASSUME NEW w \in Writers, on[w] = c, pc[w] \in {"fill", "write"}
            PROVE  held'[c] + comp'[c] + 1 <= Len(sent'[c])
        <5>1. held[c] + comp[c] + 1 <= Len(sent[c])  BY <2>2, <4>5
        <5> HIDE DEF TypeOK
        <5> QED  BY <4>2, <4>3, <5>1
      <4> QED  BY <3>0, <4>4, <4>5
    <3>2. CASE d # c
      <4>1. comp'[c] = comp[c] /\ sent'[c] = sent[c]
        BY <2>8, <3>2 DEF handleNumberOfCompletedPackets, Put
      <4> QED  BY <2>2, <3>0, <4>1
    <3> QED  BY <3>1, <3>2
  <2>9. ASSUME NEW d \in Conns,
               \/ handleLEConnectionComplete(d)
               \/ handleDisconnectionComplete(d) \/ cleanupConn(d)
        PROVE  Goal
    BY <2>3, <2>9 DEF handleLEConnectionComplete, handleDisconnectionComplete, cleanupConn
  <2>10. CASE cleanupConns  BY <2>3, <2>10 DEF cleanupConns
  <2>11. ASSUME NEW d \in Conns, Transmit(d)  PROVE Goal
    <3>1. UNCHANGED <<sent, pc, on>> /\ held'[c] + comp'[c] = held[c] + comp[c]
      BY <1>b, <2>11 DEF Transmit
    <3> QED  BY <1>b, <2>2, <3>1
  <2>12. ASSUME NEW d \in Conns, LinkLoss(d)  PROVE Goal
    <3>1. UNCHANGED <<sent, pc, on, comp>> /\ held'[c] <= held[c]
      BY <1>b, <2>12 DEF LinkLoss
    <3> QED  BY <1>b, <2>2, <3>1
  <2>13. CASE UNCHANGED vars  BY <2>3, <2>13 DEF vars
  <2> QED  BY <2>4, <2>5, <2>6, <2>7, <2>8, <2>9, <2>10, <2>11, <2>12, <2>13 DEF Next
<1> QED  BY <1>1, <1>2

(* A train starts with no fragment flushed. *)
LEMMA FreshStep ==
  ASSUME TypeOK, FreshTrain, [Next]_vars
  PROVE  FreshTrain'
<1> USE DEF TypeOK, InTrain, FreshTrain, poolVars, connVars, trainVars, ctrlVars
<1>1. ASSUME NEW v \in Writers, Return(v)
      PROVE  FreshTrain'
  BY <1>1 DEF Return
<1>2. ASSUME NEW v \in Writers, WriterStep(v)
      PROVE  FreshTrain'
  <2>1. CASE Acquire(v) \/ GetBuffer(v) \/ Fill(v)
    BY <2>1 DEF Acquire, GetBuffer, Fill
  <2>2. CASE Flush(v)
    <3>1. Return(v) \/ /\ pc' = [pc EXCEPT ![v] = "get"]
                       /\ frag' = [frag EXCEPT ![v] = @ + 1]
      BY <2>2 DEF Flush, MoreFragments
    <3> QED  BY <1>1, <3>1
  <2> QED  BY <1>1, <1>2, <2>1, <2>2
           DEF WriterStep, AcquireClosed, GetDone, FillClosed, FlushError
<1>3. ASSUME NEW v \in Writers, GetTimer(v)
      PROVE  FreshTrain'
  BY <1>1, <1>3 DEF GetTimer
<1>4. ASSUME NEW v \in Writers, NEW c \in Conns, NEW n \in 1..MaxFrags,
             StartWrite(v, c, n)
      PROVE  FreshTrain'
  BY <1>4 DEF StartWrite
<1>5. ASSUME UNCHANGED trainVars
      PROVE  FreshTrain'
  BY <1>5
<1> QED  BY <1>2, <1>3, <1>4, <1>5
         DEF Next, vars, TeardownStep, closeChans, ReclaimAll,
             handleLEConnectionComplete, handleNumberOfCompletedPackets,
             handleDisconnectionComplete, cleanupConn, cleanupConns, Transmit, LinkLoss

(* Only the holder of the train mutex writes to the connection. *)
LEMMA InterleaveStep ==
  ASSUME TypeOK, WriterHasConn, MutexHolder, FreshTrain, TrainsDoNotInterleave,
         [Next]_vars
  PROVE  TrainsDoNotInterleave'
<1> USE DEF TypeOK, InTrain, TrainsDoNotInterleave, poolVars, connVars, trainVars, ctrlVars
<1>1. ASSUME NEW v \in Writers, Return(v), pc[v] # "idle",
             pc[v] \in InTrain \/ mu[on[v]] = None
      PROVE  TrainsDoNotInterleave'
  <2> SUFFICES ASSUME NEW w \in Writers, pc'[w] \in InTrain, frag'[w] > 0
               PROVE  wire'[on'[w]] = w
    OBVIOUS
  <2>1. w # v /\ pc[w] \in InTrain /\ frag[w] > 0 /\ on'[w] = on[w]
    BY <1>1 DEF Return
  <2>2. on[w] # on[v]
    BY <1>1, <2>1, NoneAssumption DEF MutexHolder
  <2>3. wire' = [wire EXCEPT ![on[v]] = None]  BY <1>1 DEF Return
  <2>4. wire[on[w]] = w /\ on[w] \in Conns  BY <2>1 DEF WriterHasConn
  <2> QED  BY <2>1, <2>2, <2>3, <2>4
<1>2. ASSUME NEW v \in Writers, WriterStep(v)
      PROVE  TrainsDoNotInterleave'
  <2>1. CASE Acquire(v)
    <3>1. pc[v] = "lock" /\ pc' = [pc EXCEPT ![v] = "get"] /\ UNCHANGED <<on, frag, wire>>
      BY <2>1 DEF Acquire
    <3>2. frag[v] = 0
      BY <3>1 DEF FreshTrain
    <3> QED  BY <3>1, <3>2
  <2>2. CASE GetBuffer(v)
    BY <2>2 DEF GetBuffer
  <2>3. CASE Fill(v)  BY <2>3 DEF Fill
  <2>4. CASE Flush(v)
    <3>1. CASE frag[v] + 1 < size[v]
      <4>1. /\ pc[v] = "write" /\ pc' = [pc EXCEPT ![v] = "get"]
            /\ wire' = [wire EXCEPT ![on[v]] = v]
            /\ frag' = [frag EXCEPT ![v] = @ + 1] /\ on' = on
        BY <2>4, <3>1 DEF Flush, MoreFragments
      <4> SUFFICES ASSUME NEW w \in Writers, pc'[w] \in InTrain, frag'[w] > 0
                   PROVE  wire'[on[w]] = w
        BY <4>1
      <4>2. on[v] \in Conns /\ mu[on[v]] = v  BY <4>1 DEF WriterHasConn, MutexHolder
      <4>3. CASE w = v  BY <4>1, <4>2, <4>3
      <4>4. CASE w # v
        <5>1. pc[w] \in InTrain /\ frag[w] > 0  BY <4>1, <4>4
        <5>2. mu[on[w]] = w  BY <5>1 DEF MutexHolder
        <5> QED  BY <4>1, <4>2, <4>4, <5>1, <5>2
      <4> QED  BY <4>3, <4>4
    <3>2. CASE ~(frag[v] + 1 < size[v])  BY <1>1, <2>4, <3>2 DEF Flush, MoreFragments
    <3> QED  BY <3>1, <3>2
  <2> QED  BY <1>1, <1>2, <2>1, <2>2, <2>3, <2>4
           DEF WriterStep, AcquireClosed, GetDone, FillClosed, FlushError
<1>3. ASSUME NEW v \in Writers, GetTimer(v)
      PROVE  TrainsDoNotInterleave'
  BY <1>1, <1>3 DEF GetTimer
<1>4. ASSUME NEW v \in Writers, NEW c \in Conns, NEW n \in 1..MaxFrags,
             StartWrite(v, c, n)
      PROVE  TrainsDoNotInterleave'
  BY <1>4 DEF StartWrite
<1>5. ASSUME UNCHANGED trainVars
      PROVE  TrainsDoNotInterleave'
  BY <1>5
<1> QED  BY <1>2, <1>3, <1>4, <1>5
         DEF Next, vars, TeardownStep, closeChans, ReclaimAll,
             handleLEConnectionComplete, handleNumberOfCompletedPackets,
             handleDisconnectionComplete, cleanupConn, cleanupConns, Transmit, LinkLoss
-----------------------------------------------------------------------------
(* The inductive invariant holds initially. *)
LEMMA InvInit == Init => IInv
<1> SUFFICES ASSUME Init PROVE IInv
  OBVIOUS
<1>1. TypeOK  BY TypeInit
<1>2. WriterHasConn /\ MutexHolder /\ FreshTrain /\ AbsentUnused /\ ReclaimedQuiet
  BY DEF Init, WriterHasConn, FreshTrain, MutexHolder, AbsentUnused, ReclaimedQuiet, InTrain
<1>3. \A c \in Conns : sent[c] = <<>> /\ Len(sent[c]) = 0
  BY DEF Init
<1>4. Partition  BY <1>3 DEF Init, Partition
<1>5. TrainOwnsItsBuffer /\ NoCreditLeak /\ TrainsDoNotInterleave
  BY <1>3 DEF Init, TrainOwnsItsBuffer, NoCreditLeak, TrainsDoNotInterleave, InTrain
<1>6. CreditsCoverPackets  BY DEF Init, CreditsCoverPackets
<1> QED  BY <1>1, <1>2, <1>4, <1>5, <1>6 DEF IInv

(* The inductive invariant is preserved by every step. *)
LEMMA InvStep == IInv /\ [Next]_vars => IInv'
<1> SUFFICES ASSUME IInv, [Next]_vars PROVE IInv'
  OBVIOUS
<1> USE DEF IInv
<1>1. TypeOK'  BY TypeStep
<1>2. WriterHasConn' /\ MutexHolder'  BY MutexStep
<1>3. AbsentUnused'  BY AbsentStep
<1>4. ReclaimedQuiet' /\ NoCreditLeak'  BY LeakStep
<1>5. Partition'  BY PartitionStep
<1>6. TrainOwnsItsBuffer'  BY BufferStep
<1>7. CreditsCoverPackets'  BY <1>1, CreditsStep
<1>8. FreshTrain' /\ TrainsDoNotInterleave'  BY FreshStep, InterleaveStep
<1> QED  BY <1>1, <1>2, <1>3, <1>4, <1>5, <1>6, <1>7, <1>8

(* The inductive invariant holds throughout. *)
LEMMA Invariance == Spec => []IInv
  BY InvInit, InvStep, PTL DEF Spec

(* No buffer of the pool is ever lost or handed out twice, whatever the    *)
(* order of writes, completions, link losses and teardowns (buffer.go).    *)
THEOREM PartitionHolds == Spec => []Partition
<1>1. IInv => Partition  BY DEF IInv
<1> QED  BY Invariance, <1>1, PTL

(* After a connection's credits were reclaimed none is taken again on its  *)
(* behalf (conn.go writePDU against the teardown paths of hci.go).         *)
THEOREM NoCreditLeakHolds == Spec => []NoCreditLeak
<1>1. IInv => NoCreditLeak  BY DEF IInv
<1> QED  BY Invariance, <1>1, PTL

(* A packet under assembly is never given to another train, although its   *)
(* buffer is queued for reclaim before it is filled, and the credits a     *)
(* registered connection holds cover what the controller has of it.        *)
THEOREM BuffersAreExclusive == Spec => [](TrainOwnsItsBuffer /\ CreditsCoverPackets)
<1>1. IInv => TrainOwnsItsBuffer /\ CreditsCoverPackets  BY DEF IInv
<1> QED  BY Invariance, <1>1, PTL

(* The fragments of one PDU are never interleaved with another PDU of the  *)
(* same connection (conn.go writePDU's train mutex).                       *)
THEOREM TrainsAreWhole == Spec => []TrainsDoNotInterleave
<1>1. IInv => TrainsDoNotInterleave  BY DEF IInv
<1> QED  BY Invariance, <1>1, PTL
-----------------------------------------------------------------------------
(* The accounts of CreditPool.                                             *)

(* The holder of a credit, read off the place the credit is in. *)
HolderIsPlace ==
  /\ \A b \in pool : Holder(b) = None
  /\ \A c \in Conns : \A i \in 1..Len(sent[c]) :
       sent[c][i] \in Buffers /\ Holder(sent[c][i]) = c
  /\ \A b \in Buffers \ pool :
       /\ Holder(b) \in Conns
       /\ \E i \in 1..Len(sent[Holder(b)]) : sent[Holder(b)][i] = b

(* A credit is in one place, so Holder names it. *)
LEMMA HolderOf == TypeOK /\ Partition => HolderIsPlace
<1> SUFFICES ASSUME TypeOK, Partition PROVE HolderIsPlace
  OBVIOUS
<1>1. \A b \in pool : Holder(b) = None  BY DEF Holder
<1>2. ASSUME NEW b \in Buffers \ pool
      PROVE  /\ Holder(b) \in Conns
             /\ \E i \in 1..Len(sent[Holder(b)]) : sent[Holder(b)][i] = b
  <2>1. \E c \in Conns : \E i \in 1..Len(sent[c]) : sent[c][i] = b
    BY <1>2 DEF Partition
  <2> DEFINE P(c) == \E i \in 1..Len(sent[c]) : sent[c][i] = b
  <2>2. Holder(b) = CHOOSE c \in Conns : P(c)  BY <1>2 DEF Holder
  <2>3. \E c \in Conns : P(c)  BY <2>1
  <2> HIDE DEF P
  <2>4. Holder(b) \in Conns /\ P(Holder(b))  BY <2>2, <2>3
  <2> QED  BY <2>4 DEF P
<1>3. ASSUME NEW c \in Conns, NEW i \in 1..Len(sent[c])
      PROVE  sent[c][i] \in Buffers /\ Holder(sent[c][i]) = c
  <2>1. sent[c][i] \in Buffers  BY ElementOfSeq DEF TypeOK
  <2>2. sent[c][i] \notin pool  BY DEF Partition
  <2>3. PICK j \in 1..Len(sent[Holder(sent[c][i])]) :
          sent[Holder(sent[c][i])][j] = sent[c][i]
    BY <1>2, <2>1, <2>2
  <2> QED  BY <1>2, <2>1, <2>2, <2>3 DEF Partition
<1> QED  BY <1>1, <1>2, <1>3 DEF HolderIsPlace

(* Credits that stay in the pool or on a queue keep their holder. *)
LEMMA SameHolder ==
  ASSUME HolderIsPlace, HolderIsPlace', NEW b \in Buffers,
         b \in pool => b \in pool',
         \A c \in Conns : (\E i \in 1..Len(sent[c]) : sent[c][i] = b) =>
                            \E i \in 1..Len(sent'[c]) : sent'[c][i] = b
  PROVE  Holder(b)' = Holder(b)
<1>1. CASE b \in pool  BY <1>1 DEF HolderIsPlace
<1>2. CASE b \notin pool
  <2>1. Holder(b) \in Conns /\ \E i \in 1..Len(sent[Holder(b)]) : sent[Holder(b)][i] = b
    BY <1>2 DEF HolderIsPlace
  <2>2. PICK i \in 1..Len(sent'[Holder(b)]) : sent'[Holder(b)][i] = b
    BY <2>1
  <2> QED  BY <2>1, <2>2 DEF HolderIsPlace
<1> QED  BY <1>1, <1>2

(* The state of CreditPool that a state of TxCredits stands for. *)
holderBar == [b \in Buffers |-> Holder(b)]
settledBar == {c \in Conns : life[c] = "reclaimed"}

(* GetTimeout's buffer arm takes a free credit for a connection that is    *)
(* not settled: the train holds the mutex ReclaimAll waits for.            *)
LEMMA GetTakes ==
  ASSUME IInv, HolderIsPlace, HolderIsPlace', NEW w \in Writers, GetBuffer(w)
  PROVE  \E c \in Conns, k \in Buffers : Accounts!Take(k, c)
<1> USE DEF IInv
<1> DEFINE c == on[w]
<1>1. PICK b \in pool : /\ pool' = pool \ {b}
                        /\ sent' = [sent EXCEPT ![c] = Append(@, b)]
  BY DEF GetBuffer
<1>2. b \in Buffers  BY DEF TypeOK
<1>3. c \in Conns /\ mu[c] = w /\ life' = life
  BY DEF GetBuffer, WriterHasConn, MutexHolder, InTrain, connVars
<1>4. life[c] # "reclaimed"
  BY <1>3, NoneAssumption DEF ReclaimedQuiet
<1>5. sent[c] \in Seq(Buffers) /\ Len(sent[c]) \in Nat /\ sent \in [Conns -> Seq(Buffers)]
  BY <1>3, LenProperties DEF TypeOK
<1>6. /\ Len(sent'[c]) = Len(sent[c]) + 1
      /\ \A i \in 1..Len(sent[c]) : sent'[c][i] = sent[c][i]
      /\ sent'[c][Len(sent[c]) + 1] = b
      /\ \A d \in Conns : d # c => sent'[d] = sent[d]
  BY <1>1, <1>2, <1>3, <1>5, AppendElements
<1>7. Holder(b) = None  BY DEF HolderIsPlace
<1>8. Holder(b)' = c
  <2>1. Len(sent[c]) + 1 \in 1..Len(sent'[c])  BY <1>5, <1>6
  <2> QED  BY <1>3, <1>6, <2>1 DEF HolderIsPlace
<1>9. ASSUME NEW k \in Buffers, k # b  PROVE Holder(k)' = Holder(k)
  <2>1. k \in pool => k \in pool'  BY <1>1, <1>9
  <2>2. ASSUME NEW d \in Conns, NEW i \in 1..Len(sent[d]), sent[d][i] = k
        PROVE  \E j \in 1..Len(sent'[d]) : sent'[d][j] = k
    <3>1. CASE d # c  BY <1>6, <2>2, <3>1
    <3>2. CASE d = c
      <4>1. i \in 1..Len(sent'[c]) /\ sent'[c][i] = k  BY <1>5, <1>6, <2>2, <3>2
      <4> QED  BY <3>2, <4>1
    <3> QED  BY <3>1, <3>2
  <2> QED  BY <2>1, <2>2, SameHolder
<1>10. holderBar' = [holderBar EXCEPT ![b] = c]
  <2>1. holderBar' = [k \in Buffers |-> Holder(k)']  BY DEF holderBar
  <2>2. [holderBar EXCEPT ![b] = c] = [k \in Buffers |-> IF k = b THEN c ELSE Holder(k)]
    BY <1>2 DEF holderBar
  <2> QED  BY <1>8, <1>9, <2>1, <2>2
<1>11. holderBar[b] = None /\ c \notin settledBar /\ settledBar' = settledBar
  BY <1>2, <1>3, <1>4, <1>7 DEF holderBar, settledBar
<1>12. Accounts!Take(b, c)
  BY <1>10, <1>11 DEF Accounts!Take, holderBar, settledBar
<1> QED  BY <1>2, <1>3, <1>12

(* Put gives the oldest credits of a connection back. *)
LEMMA PutGivesBack ==
  ASSUME TypeOK, HolderIsPlace, HolderIsPlace', NEW c \in Conns, NEW k \in Nat,
         Put(c, k), settledBar' = settledBar
  PROVE  Accounts!GiveBack(c)
<1> DEFINE n == IF k < Len(sent[c]) THEN k ELSE Len(sent[c])
           K == {sent[c][i] : i \in 1..n}
<1>1. sent[c] \in Seq(Buffers) /\ Len(sent[c]) \in Nat /\ sent \in [Conns -> Seq(Buffers)]
  BY LenProperties DEF TypeOK
<1>2. n \in 0..Len(sent[c])  BY <1>1
<1>3. pool' = pool \cup K /\ sent' = [sent EXCEPT ![c] = SubSeq(@, n + 1, Len(@))]
  BY DEF Put
<1> HIDE DEF n
<1>4. /\ Len(sent'[c]) = Len(sent[c]) - n
      /\ \A i \in 1..Len(sent'[c]) : sent'[c][i] = sent[c][n + i]
      /\ \A d \in Conns : d # c => sent'[d] = sent[d]
  BY <1>1, <1>2, <1>3, DropOldest
<1>5. K \subseteq Buffers /\ \A x \in K : Holder(x) = c
  BY <1>1, <1>2 DEF HolderIsPlace
<1>6. \A x \in K : Holder(x)' = None  BY <1>3 DEF HolderIsPlace
<1>7. ASSUME NEW x \in Buffers, x \notin K  PROVE Holder(x)' = Holder(x)
  <2>1. x \in pool => x \in pool'  BY <1>3
  <2>2. ASSUME NEW d \in Conns, NEW i \in 1..Len(sent[d]), sent[d][i] = x
        PROVE  \E j \in 1..Len(sent'[d]) : sent'[d][j] = x
    <3>1. CASE d # c  BY <1>4, <2>2, <3>1
    <3>2. CASE d = c
      <4>1. i \notin 1..n  BY <1>7, <2>2, <3>2
      <4>2. i - n \in 1..Len(sent'[c]) /\ n + (i - n) = i
        BY <1>1, <1>2, <1>4, <3>2, <4>1
      <4> QED  BY <1>4, <2>2, <3>2, <4>2
    <3> QED  BY <3>1, <3>2
  <2> QED  BY <2>1, <2>2, SameHolder
<1> HIDE DEF K
<1>8. holderBar' = [x \in Buffers |-> IF x \in K THEN None ELSE holderBar[x]]
  BY <1>6, <1>7 DEF holderBar
<1>9. K \in SUBSET {x \in Buffers : holderBar[x] = c}
  BY <1>5 DEF holderBar
<1> QED  BY <1>8, <1>9 DEF Accounts!GiveBack, Accounts!Back, Accounts!Owed,
                            holderBar, settledBar

(* ReclaimAll settles the account of its connection. *)
LEMMA ReclaimSettles ==
  ASSUME TypeOK, HolderIsPlace, HolderIsPlace', NEW c \in Conns, ReclaimAll(c)
  PROVE  Accounts!Settle(c)
<1> DEFINE K == {sent[c][i] : i \in 1..Len(sent[c])}
<1>1. pool' = pool \cup K /\ \A d \in Conns : d # c => sent'[d] = sent[d]
  BY DEF ReclaimAll, TypeOK
<1>2. K \subseteq Buffers /\ \A x \in K : Holder(x) = c /\ Holder(x)' = None
  BY <1>1 DEF HolderIsPlace
<1>3. ASSUME NEW x \in Buffers, x \notin K
      PROVE  Holder(x)' = Holder(x) /\ Holder(x) # c
  <2>1. Holder(x)' = Holder(x)  BY <1>1, <1>3, SameHolder
  <2>2. Holder(x) # c
    <3>1. CASE x \in pool  BY <3>1, NoneAssumption DEF HolderIsPlace
    <3>2. CASE x \notin pool  BY <1>3, <3>2 DEF HolderIsPlace
    <3> QED  BY <3>1, <3>2
  <2> QED  BY <2>1, <2>2
<1> HIDE DEF K
<1>4. holderBar' =
        [x \in Buffers |-> IF x \in {y \in Buffers : holderBar[y] = c}
                           THEN None ELSE holderBar[x]]
  BY <1>2, <1>3 DEF holderBar
<1>5. c \notin settledBar /\ settledBar' = settledBar \cup {c}
  BY DEF ReclaimAll, TypeOK, settledBar
<1> QED  BY <1>4, <1>5 DEF Accounts!Settle, Accounts!Back, Accounts!Owed,
                            holderBar, settledBar

(* Every step is a step of CreditPool or leaves its state alone. *)
LEMMA AccountStep ==
  ASSUME IInv, IInv', [Next]_vars
  PROVE  [Accounts!Next]_<<holderBar, settledBar>>
<1> USE DEF poolVars, connVars, trainVars, ctrlVars
<1>1. TypeOK /\ HolderIsPlace  BY HolderOf DEF IInv
<1>2. HolderIsPlace'
  <2>1. (TypeOK /\ Partition => HolderIsPlace)'  BY HolderOf, PTL
  <2> QED  BY <2>1 DEF IInv
<1>3. ASSUME UNCHANGED <<pool, sent>>,
             \A c \in Conns : life'[c] = "reclaimed" <=> life[c] = "reclaimed"
      PROVE  UNCHANGED <<holderBar, settledBar>>
  <2>1. settledBar' = settledBar  BY <1>3 DEF settledBar
  <2>2. holderBar' = holderBar  BY <1>3 DEF holderBar, Holder
  <2> QED  BY <2>1, <2>2
<1>4. ASSUME NEW w \in Writers, WriterStep(w)
      PROVE  [Accounts!Next]_<<holderBar, settledBar>>
  <2>1. CASE GetBuffer(w)
    BY <1>1, <1>2, <2>1, GetTakes DEF Accounts!Next
  <2>2. CASE ~GetBuffer(w)
    <3>1. UNCHANGED <<pool, sent, life>>
      BY <1>4, <2>2 DEF WriterStep, Acquire, AcquireClosed, GetDone, Fill,
                        FillClosed, Flush, FlushError
    <3> QED  BY <1>3, <3>1
  <2> QED  BY <2>1, <2>2
<1>5. ASSUME NEW w \in Writers,
             GetTimer(w) \/ \E c \in Conns, n \in 1..MaxFrags : StartWrite(w, c, n)
      PROVE  UNCHANGED <<holderBar, settledBar>>
  BY <1>3, <1>5 DEF GetTimer, StartWrite
<1>6. ASSUME NEW c \in Conns, TeardownStep(c)
      PROVE  [Accounts!Next]_<<holderBar, settledBar>>
  <2>1. CASE closeChans(c)
    BY <1>1, <1>3, <2>1 DEF closeChans, TypeOK
  <2>2. CASE ReclaimAll(c)
    BY <1>1, <1>2, <2>2, ReclaimSettles DEF Accounts!Next
  <2> QED  BY <1>6, <2>1, <2>2 DEF TeardownStep
<1>7. ASSUME NEW c \in Conns, handleNumberOfCompletedPackets(c)
      PROVE  [Accounts!Next]_<<holderBar, settledBar>>
  <2>1. PICK k \in 1..comp[c] :
          IF life[c] = "up" THEN Put(c, k) ELSE UNCHANGED poolVars
    BY <1>7 DEF handleNumberOfCompletedPackets
  <2>2. life' = life  BY <1>7 DEF handleNumberOfCompletedPackets
  <2>3. CASE life[c] = "up"
    <3>1. settledBar' = settledBar /\ k \in Nat
      BY <1>1, <2>2 DEF settledBar, TypeOK
    <3>2. Accounts!GiveBack(c)
      BY <1>1, <1>2, <2>1, <2>3, <3>1, PutGivesBack
    <3> QED  BY <3>2 DEF Accounts!Next
  <2>4. CASE life[c] # "up"  BY <1>3, <2>1, <2>2, <2>4
  <2> QED  BY <2>3, <2>4
<1>8. ASSUME NEW c \in Conns,
             \/ handleLEConnectionComplete(c) \/ handleDisconnectionComplete(c)
             \/ cleanupConn(c) \/ Transmit(c) \/ LinkLoss(c)
      PROVE  UNCHANGED <<holderBar, settledBar>>
  BY <1>1, <1>3, <1>8 DEF handleLEConnectionComplete, handleDisconnectionComplete,
                          cleanupConn, Transmit, LinkLoss, TypeOK
<1>9. CASE cleanupConns
  BY <1>1, <1>3, <1>9 DEF cleanupConns, TypeOK
<1>10. CASE UNCHANGED vars
  BY <1>3, <1>10 DEF vars
<1> QED  BY <1>4, <1>5, <1>6, <1>7, <1>8, <1>9, <1>10 DEF Next

(* The pool, the sent queues, the trains and the teardowns together keep   *)
(* the accounts of CreditPool (buffer.go and its callers in conn.go and    *)
(* hci.go): a credit is taken only when free and only for a connection     *)
(* whose account is open, and comes back from the one that took it.        *)
THEOREM CreditsAreAccounted == Spec => ImplementsCreditPool
<1>1. Init => Accounts!Init
  <2> SUFFICES ASSUME Init PROVE Accounts!Init
    OBVIOUS
  <2>1. holderBar = [b \in Buffers |-> None]  BY DEF Init, holderBar, Holder
  <2>2. settledBar = {}  BY DEF Init, settledBar
  <2> QED  BY <2>1, <2>2 DEF Accounts!Init, holderBar, settledBar
<1>2. IInv /\ IInv' /\ [Next]_vars => [Accounts!Next]_<<holderBar, settledBar>>
  BY AccountStep
<1> QED  BY <1>1, <1>2, Invariance, PTL
         DEF Spec, ImplementsCreditPool, Accounts!Spec, holderBar, settledBar
=============================================================================
