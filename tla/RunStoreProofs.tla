--------------------------- MODULE RunStoreProofs ---------------------------
(***************************************************************************)
(* The run store over its owner, proved for every set of callers, runs and *)
(* steps and for every ring, batch and file: what was told recorded is on  *)
(* the device, once and under one definition, whatever fails or restarts.  *)
(***************************************************************************)
EXTENDS RunStore, SequenceTheorems, Extremes

Queued(c) ==
    \/ \E i \in 1..Len(pending) : pending[i] = c
    \/ \E i \in 1..Len(waiting) : waiting[i] = c
    \/ \E i \in 1..Len(batch) : batch[i].request = c

(* A request is in one place of one ring, or of the batch. *)
EachOnce ==
    /\ \A i, j \in 1..Len(pending) : pending[i] = pending[j] => i = j
    /\ \A i, j \in 1..Len(waiting) : waiting[i] = waiting[j] => i = j
    /\ \A i, j \in 1..Len(batch) : batch[i].request = batch[j].request => i = j
    /\ \A i \in 1..Len(pending), j \in 1..Len(waiting) :
           pending[i] # waiting[j]
    /\ \A i \in 1..Len(pending), j \in 1..Len(batch) :
           pending[i] # batch[j].request
    /\ \A i \in 1..Len(waiting), j \in 1..Len(batch) :
           waiting[i] # batch[j].request

(* Whoever is queued has handed over a value and not been answered. *)
Expected ==
    \A c \in Request : Queued(c) =>
        caller[c].at \in {"submitted", "left"} /\ caller[c].value \in Value

Stages ==
    /\ latched => flush # "none"
    /\ flush # "none" => batch # <<>>
    /\ latched /\ AnswerOf(Head(batch)) = "Error" => poisoned

(* A member that owes a flush is in the file, and a good flush covered it. *)
OwedIsWritten ==
    \A i \in 1..Len(batch) :
        /\ batch[i].answer = "Recorded" => batch[i].owes
        /\ batch[i].owes =>
             /\ \E j \in 1..Len(file) : file[j] = RecordOf(batch[i].request)
             /\ flush = "ok" => synced = Len(file)

DownIsEmpty ==
    ~up => /\ pending = <<>> /\ waiting = <<>> /\ batch = <<>>
           /\ \A c \in Request : caller[c] = Idle

(* Of every record in the file the index knows, if only as staged. *)
RecordsAreHeld ==
    up => \A i \in 1..Len(file) :
        \/ index.steps[file[i].run][file[i].key] # None
        \/ index.staged[file[i].run][file[i].key] # None

(* A run whose definition the index takes for this build's was written     *)
(* under no other.                                                         *)
DefinitionIsKnown ==
    up => \A i \in 1..Len(file) :
        index.runs[file[i].run].definition \in {None, build}
            => file[i].definition = build

AgreedIsBuild ==
    up => \A c \in Request :
        caller[c].at \in {"agreed", "body", "submitted", "left"} =>
            \A i \in 1..Len(file) :
                file[i].run = Step[c].run => file[i].definition = build

Queues == EachOnce /\ Expected /\ Stages /\ DownIsEmpty

Writes == OwedIsWritten /\ RecordsAreHeld /\ DefinitionIsKnown /\ AgreedIsBuild

Promises ==
    /\ RecordedIsDurable
    /\ OneRecordPerStep
    /\ OneDefinitionPerRun
    /\ IndexIsWritten
    /\ FailureFindsPoison

IInv == TypeOK /\ Queues /\ Writes /\ Promises

-----------------------------------------------------------------------------
(* The rings and the batch. *)

LEMMA PendingNowIs ==
    ASSUME OwnerTypeOK
    PROVE  /\ Promoted \in 0..Len(waiting)
           /\ PendingNow \in Seq(Request)
           /\ Len(PendingNow) = Len(pending) + Promoted
           /\ Len(PendingNow) <= QueueDepth
           /\ \A i \in 1..Len(PendingNow) :
                \/ i \in 1..Len(pending) /\ PendingNow[i] = pending[i]
                \/ \E k \in 1..Promoted : /\ i = Len(pending) + k
                                          /\ PendingNow[i] = waiting[k]
<1> USE OwnerAssumption
<1>1. /\ pending \in Seq(Request) /\ Len(pending) \in Nat /\ Len(pending) <= QueueDepth
      /\ waiting \in Seq(Request) /\ Len(waiting) \in Nat
  BY LenProperties DEF OwnerTypeOK
<1>2. Promoted \in 0..Len(waiting) /\ Len(pending) + Promoted <= QueueDepth
  BY <1>1 DEF Promoted
<1>. DEFINE p == Promoted
            front == SubSeq(waiting, 1, p)
<1>3. p \in 0..Len(waiting) /\ Len(pending) + p <= QueueDepth /\ PendingNow = pending \o front
  BY <1>2 DEF PendingNow
<1>. HIDE DEF p
<1>4. \A i \in 1..p : waiting[i] \in Request
  BY <1>1, <1>3, ElementOfSeq
<1>5. front \in Seq(Request) /\ Len(front) = p /\ \A i \in 1..p : front[i] = waiting[i]
  BY <1>1, <1>3, <1>4, SubSeqProperties
<1>. HIDE DEF front
<1>6. /\ pending \o front \in Seq(Request)
      /\ Len(pending \o front) = Len(pending) + Len(front)
      /\ \A i \in 1..Len(pending) + Len(front) :
           (pending \o front)[i] = IF i <= Len(pending) THEN pending[i] ELSE front[i - Len(pending)]
  BY <1>1, <1>5, ConcatProperties
<1>7. ASSUME NEW i \in 1..Len(pending \o front)
      PROVE  \/ i \in 1..Len(pending) /\ (pending \o front)[i] = pending[i]
             \/ \E k \in 1..p : i = Len(pending) + k /\ (pending \o front)[i] = waiting[k]
  <2>1. CASE i <= Len(pending)
    BY <2>1, <1>1, <1>5, <1>6
  <2>2. CASE i > Len(pending)
    <3>. DEFINE k == i - Len(pending)
    <3>1. k \in 1..p /\ i = Len(pending) + k /\ (pending \o front)[i] = front[k]
      BY <2>2, <1>1, <1>3, <1>5, <1>6
    <3>. HIDE DEF k
    <3>2. (pending \o front)[i] = waiting[k]
      BY <3>1, <1>5
    <3>3. QED
      BY <3>1, <3>2
  <2>3. QED
    BY <2>1, <2>2, <1>1, <1>5, <1>6
<1>8. QED
  BY <1>1, <1>3, <1>5, <1>6, <1>7 DEF p

LEMMA StageQueues ==
    ASSUME OwnerTypeOK, EachOnce, NEW m \in Member, StageNext(m)
    PROVE  /\ OwnerTypeOK' /\ EachOnce'
           /\ batch' = Append(batch, m) /\ Queued(m.request)
           /\ \A c \in Request : Queued(c)' => Queued(c)
<1> USE OwnerAssumption
<1>1. /\ pending \in Seq(Request) /\ Len(pending) \in Nat /\ Len(pending) <= QueueDepth
      /\ waiting \in Seq(Request) /\ Len(waiting) \in Nat /\ Len(waiting) <= MaxWaiting
      /\ batch \in Seq(Member) /\ Len(batch) \in Nat /\ Len(batch) < MaxBatch
  BY LenProperties DEF OwnerTypeOK, StageNext
<1>. DEFINE p == Promoted
            now == PendingNow
<1>2. /\ p \in 0..Len(waiting)
      /\ now \in Seq(Request) /\ Len(now) = Len(pending) + p /\ Len(now) <= QueueDepth
      /\ \A i \in 1..Len(now) :
           \/ i \in 1..Len(pending) /\ now[i] = pending[i]
           \/ \E k \in 1..p : i = Len(pending) + k /\ now[i] = waiting[k]
  BY PendingNowIs
<1>3. /\ now # <<>> /\ m.request = Head(now) /\ batch' = Append(batch, m)
      /\ pending' = Tail(now) /\ waiting' = SubSeq(waiting, p + 1, Len(waiting))
      /\ flush' = flush /\ latched' = latched /\ failing' = failing /\ poisoned' = poisoned
  BY DEF StageNext
<1>. HIDE DEF p, now
<1>4. Len(now) \in Nat \ {0} /\ Head(now) = now[1]
  BY <1>2, <1>3, EmptySeq
<1>5. /\ pending' \in Seq(Request) /\ Len(pending') = Len(now) - 1
      /\ \A i \in 1..Len(pending') : pending'[i] = now[i + 1]
  BY <1>2, <1>3, HeadTailProperties
<1>6. \A i \in p + 1 .. Len(waiting) : waiting[i] \in Request
  BY <1>1, <1>2, ElementOfSeq
<1>7. /\ waiting' \in Seq(Request) /\ Len(waiting') = Len(waiting) - p
      /\ \A i \in 1..Len(waiting') : waiting'[i] = waiting[i + p]
  <2>1. p + 1 \in Int /\ Len(waiting) \in Int
    BY <1>1, <1>2
  <2>2. /\ SubSeq(waiting, p + 1, Len(waiting)) \in Seq(Request)
        /\ Len(SubSeq(waiting, p + 1, Len(waiting)))
             = IF p + 1 <= Len(waiting) THEN Len(waiting) - (p + 1) + 1 ELSE 0
        /\ \A i \in 1..Len(waiting) - (p + 1) + 1 :
             SubSeq(waiting, p + 1, Len(waiting))[i] = waiting[p + 1 + i - 1]
    BY <2>1, <1>6, SubSeqProperties
  <2>3. /\ waiting' \in Seq(Request) /\ Len(waiting') = Len(waiting) - p
        /\ Len(waiting) - (p + 1) + 1 = Len(waiting')
    BY <2>2, <1>1, <1>2, <1>3
  <2>4. ASSUME NEW i \in 1..Len(waiting') PROVE waiting'[i] = waiting[i + p]
    <3>1. waiting'[i] = waiting[p + 1 + i - 1]
      BY <2>2, <2>3, <1>3
    <3>2. p + 1 + i - 1 = i + p
      BY <2>3, <1>1, <1>2
    <3>3. QED
      BY <3>1, <3>2
  <2>5. QED
    BY <2>3, <2>4
<1>8. /\ batch' \in Seq(Member) /\ Len(batch') = Len(batch) + 1
      /\ \A i \in 1..Len(batch) : batch'[i] = batch[i]
      /\ batch'[Len(batch) + 1] = m
  BY <1>1, <1>3, AppendProperties
<1>0. /\ \A i, j \in 1..Len(pending) : pending[i] = pending[j] => i = j
      /\ \A i, j \in 1..Len(waiting) : waiting[i] = waiting[j] => i = j
      /\ \A i \in 1..Len(pending), j \in 1..Len(waiting) :
             pending[i] # waiting[j]
      /\ \A i \in 1..Len(pending), j \in 1..Len(batch) :
             pending[i] # batch[j].request
      /\ \A i \in 1..Len(waiting), j \in 1..Len(batch) :
             waiting[i] # batch[j].request
  BY DEF EachOnce
<1>9. /\ \A i, j \in 1..Len(now) : now[i] = now[j] => i = j
      /\ \A i \in 1..Len(now), j \in p + 1 .. Len(waiting) : now[i] # waiting[j]
      /\ \A i \in 1..Len(now), j \in 1..Len(batch) : now[i] # batch[j].request
  <2>1. ASSUME NEW i \in 1..Len(now), NEW j \in 1..Len(now), now[i] = now[j] PROVE i = j
    <3>1. CASE i \in 1..Len(pending) /\ now[i] = pending[i]
      <4>1. CASE j \in 1..Len(pending) /\ now[j] = pending[j]
        BY <3>1, <4>1, <2>1 DEF EachOnce
      <4>2. CASE \E k \in 1..p : j = Len(pending) + k /\ now[j] = waiting[k]
        <5>1. PICK l \in 1..p : j = Len(pending) + l /\ now[j] = waiting[l]
          BY <4>2
        <5>2. l \in 1..Len(waiting) /\ pending[i] = waiting[l]
          BY <3>1, <5>1, <2>1, <1>1, <1>2
        <5>3. QED
          BY <3>1, <5>2, <1>0
      <4>3. QED
        BY <4>1, <4>2, <1>2
    <3>2. CASE \E k \in 1..p : i = Len(pending) + k /\ now[i] = waiting[k]
      <4>1. CASE j \in 1..Len(pending) /\ now[j] = pending[j]
        <5>1. PICK k \in 1..p : i = Len(pending) + k /\ now[i] = waiting[k]
          BY <3>2
        <5>2. k \in 1..Len(waiting) /\ pending[j] = waiting[k]
          BY <4>1, <5>1, <2>1, <1>1, <1>2
        <5>3. QED
          BY <4>1, <5>2, <1>0
      <4>2. CASE \E k \in 1..p : j = Len(pending) + k /\ now[j] = waiting[k]
        <5>1. PICK k \in 1..p : i = Len(pending) + k /\ now[i] = waiting[k]
          BY <3>2
        <5>2. PICK l \in 1..p : j = Len(pending) + l /\ now[j] = waiting[l]
          BY <4>2
        <5>3. k \in 1..Len(waiting) /\ l \in 1..Len(waiting) /\ waiting[k] = waiting[l]
          BY <5>1, <5>2, <2>1, <1>1, <1>2
        <5>4. k = l
          BY <5>3 DEF EachOnce
        <5>5. QED
          BY <5>1, <5>2, <5>4
      <4>3. QED
        BY <4>1, <4>2, <1>2
    <3>3. QED
      BY <3>1, <3>2, <1>2
  <2>2. ASSUME NEW i \in 1..Len(now), NEW j \in p + 1 .. Len(waiting) PROVE now[i] # waiting[j]
    <3>1. j \in 1..Len(waiting) /\ \A k \in 1..p : k \in 1..Len(waiting) /\ k # j
      BY <1>1, <1>2
    <3>2. CASE i \in 1..Len(pending) /\ now[i] = pending[i]
      BY <3>1, <3>2, <1>0
    <3>3. CASE \E k \in 1..p : i = Len(pending) + k /\ now[i] = waiting[k]
      <4>1. PICK k \in 1..p : now[i] = waiting[k]
        BY <3>3
      <4>2. QED
        BY <4>1, <3>1, <1>0
    <3>4. QED
      BY <3>2, <3>3, <1>2
  <2>3. ASSUME NEW i \in 1..Len(now), NEW j \in 1..Len(batch) PROVE now[i] # batch[j].request
    <3>1. \A k \in 1..p : k \in 1..Len(waiting)
      BY <1>1, <1>2
    <3>2. CASE i \in 1..Len(pending) /\ now[i] = pending[i]
      BY <3>2, <1>0
    <3>3. CASE \E k \in 1..p : i = Len(pending) + k /\ now[i] = waiting[k]
      <4>1. PICK k \in 1..p : now[i] = waiting[k]
        BY <3>3
      <4>2. QED
        BY <4>1, <3>1, <1>0
    <3>4. QED
      BY <3>2, <3>3, <1>2
  <2>4. QED
    BY <2>1, <2>2, <2>3
<1>10. EachOnce'
  <2>1. \A i, j \in 1..Len(pending') : pending'[i] = pending'[j] => i = j
    <3> SUFFICES ASSUME NEW i \in 1..Len(pending'), NEW j \in 1..Len(pending'), pending'[i] = pending'[j]
                 PROVE  i = j
      OBVIOUS
    <3>1. i + 1 \in 1..Len(now) /\ j + 1 \in 1..Len(now) /\ now[i + 1] = now[j + 1]
      BY <1>4, <1>5
    <3>2. i + 1 = j + 1
      BY <3>1, <1>9
    <3>3. QED
      BY <3>2, <1>4, <1>5
  <2>2. \A i, j \in 1..Len(waiting') : waiting'[i] = waiting'[j] => i = j
    <3> SUFFICES ASSUME NEW i \in 1..Len(waiting'), NEW j \in 1..Len(waiting'), waiting'[i] = waiting'[j]
                 PROVE  i = j
      OBVIOUS
    <3>6. waiting'[i] = waiting[i + p] /\ waiting'[j] = waiting[j + p]
      BY <1>7
    <3>7. Len(waiting) \in Nat /\ p \in 0..Len(waiting) /\ Len(waiting') = Len(waiting) - p
      BY <1>1, <1>2, <1>7
    <3>8. i + p \in 1..Len(waiting) /\ j + p \in 1..Len(waiting)
      BY <3>7
    <3>1. i + p \in 1..Len(waiting) /\ j + p \in 1..Len(waiting) /\ waiting[i + p] = waiting[j + p]
      BY <3>6, <3>8
    <3>2. \A x, y \in 1..Len(waiting) : waiting[x] = waiting[y] => x = y
      BY DEF EachOnce
    <3> DEFINE x == i + p
               y == j + p
    <3>4. x \in 1..Len(waiting) /\ y \in 1..Len(waiting) /\ waiting[x] = waiting[y]
      BY <3>1
    <3> HIDE DEF x, y
    <3>5. x = y
      BY <3>2, <3>4
    <3> USE DEF x, y
    <3>3. QED
      BY <3>5, <1>1, <1>2, <1>7
  <2>3. \A i, j \in 1..Len(batch') : batch'[i].request = batch'[j].request => i = j
    <3> SUFFICES ASSUME NEW i \in 1..Len(batch'), NEW j \in 1..Len(batch'),
                        batch'[i].request = batch'[j].request
                 PROVE  i = j
      OBVIOUS
    <3>1. \A k \in 1..Len(batch) : batch[k].request # m.request
      <4>1. 1 \in 1..Len(now) /\ m.request = now[1]
        BY <1>3, <1>4
      <4>2. QED
        BY <4>1, <1>9
    <3>2. \A k, l \in 1..Len(batch) : batch[k].request = batch[l].request => k = l
      BY DEF EachOnce
    <3>3. /\ i \in 1..Len(batch) \/ i = Len(batch) + 1
          /\ j \in 1..Len(batch) \/ j = Len(batch) + 1
      BY <1>1, <1>8
    <3>4. QED
      BY <3>1, <3>2, <3>3, <1>8
  <2>4. \A i \in 1..Len(pending'), j \in 1..Len(waiting') : pending'[i] # waiting'[j]
    <3> SUFFICES ASSUME NEW i \in 1..Len(pending'), NEW j \in 1..Len(waiting')
                 PROVE  pending'[i] # waiting'[j]
      OBVIOUS
    <3>1. i + 1 \in 1..Len(now) /\ j + p \in p + 1 .. Len(waiting)
      BY <1>1, <1>2, <1>4, <1>5, <1>7
    <3>2. QED
      BY <3>1, <1>5, <1>7, <1>9, SMTT(30)
  <2>5. \A i \in 1..Len(pending'), j \in 1..Len(batch') : pending'[i] # batch'[j].request
    <3> SUFFICES ASSUME NEW i \in 1..Len(pending'), NEW j \in 1..Len(batch')
                 PROVE  pending'[i] # batch'[j].request
      OBVIOUS
    <3>1. i + 1 \in 1..Len(now) /\ i + 1 # 1 /\ 1 \in 1..Len(now) /\ pending'[i] = now[i + 1]
      BY <1>4, <1>5
    <3>2. now[i + 1] # m.request /\ \A k \in 1..Len(batch) : now[i + 1] # batch[k].request
      BY <3>1, <1>3, <1>4, <1>9
    <3>3. j \in 1..Len(batch) \/ j = Len(batch) + 1
      BY <1>1, <1>8
    <3>4. QED
      BY <3>1, <3>2, <3>3, <1>8
  <2>6. \A i \in 1..Len(waiting'), j \in 1..Len(batch') : waiting'[i] # batch'[j].request
    <3> SUFFICES ASSUME NEW i \in 1..Len(waiting'), NEW j \in 1..Len(batch')
                 PROVE  waiting'[i] # batch'[j].request
      OBVIOUS
    <3>1. i + p \in p + 1 .. Len(waiting) /\ i + p \in 1..Len(waiting) /\ waiting'[i] = waiting[i + p]
      BY <1>1, <1>2, <1>7
    <3>2. waiting[i + p] # m.request /\ \A k \in 1..Len(batch) : waiting[i + p] # batch[k].request
      BY <3>1, <1>3, <1>4, <1>9, SMTT(30) DEF EachOnce
    <3>3. j \in 1..Len(batch) \/ j = Len(batch) + 1
      BY <1>1, <1>8
    <3>4. QED
      BY <3>1, <3>2, <3>3, <1>8
  <2>7. QED
    BY <2>1, <2>2, <2>3, <2>4, <2>5, <2>6 DEF EachOnce
<1>11. \A i \in 1..Len(now) : Queued(now[i])
  <2> SUFFICES ASSUME NEW i \in 1..Len(now) PROVE Queued(now[i])
    OBVIOUS
  <2>1. \A k \in 1..p : k \in 1..Len(waiting)
    BY <1>1, <1>2
  <2>2. CASE i \in 1..Len(pending) /\ now[i] = pending[i]
    BY <2>2 DEF Queued
  <2>3. CASE \E k \in 1..p : i = Len(pending) + k /\ now[i] = waiting[k]
    <3>1. PICK k \in 1..p : now[i] = waiting[k]
      BY <2>3
    <3>2. QED
      BY <3>1, <2>1 DEF Queued
  <2>4. QED
    BY <2>2, <2>3, <1>2
<1>12. Queued(m.request)
  BY <1>3, <1>4, <1>11
<1>13. \A c \in Request : Queued(c)' => Queued(c)
  <2> SUFFICES ASSUME NEW c \in Request, Queued(c)' PROVE Queued(c)
    OBVIOUS
  <2>1. CASE \E i \in 1..Len(pending') : pending'[i] = c
    <3>1. PICK i \in 1..Len(pending') : pending'[i] = c
      BY <2>1
    <3>2. i + 1 \in 1..Len(now) /\ now[i + 1] = c
      BY <3>1, <1>4, <1>5
    <3>3. QED
      BY <3>2, <1>11
  <2>2. CASE \E i \in 1..Len(waiting') : waiting'[i] = c
    <3>1. PICK i \in 1..Len(waiting') : waiting'[i] = c
      BY <2>2
    <3>2. i + p \in 1..Len(waiting) /\ waiting[i + p] = c
      BY <3>1, <1>1, <1>2, <1>7
    <3>3. QED
      BY <3>2 DEF Queued
  <2>3. CASE \E i \in 1..Len(batch') : batch'[i].request = c
    <3>1. PICK i \in 1..Len(batch') : batch'[i].request = c
      BY <2>3
    <3>2. CASE i = Len(batch) + 1
      BY <3>1, <3>2, <1>8, <1>12
    <3>3. CASE i \in 1..Len(batch)
      BY <3>1, <3>3, <1>8 DEF Queued
    <3>4. QED
      BY <3>2, <3>3, <1>1, <1>8
  <2>4. QED
    BY <2>1, <2>2, <2>3 DEF Queued
<1>14. OwnerTypeOK'
  <2>1. Len(pending') <= QueueDepth /\ Len(waiting') <= MaxWaiting /\ Len(batch') <= MaxBatch
    BY <1>1, <1>2, <1>4, <1>5, <1>7, <1>8
  <2>2. QED
    BY <2>1, <1>3, <1>5, <1>7, <1>8 DEF OwnerTypeOK
<1>15. QED
  BY <1>3, <1>10, <1>12, <1>13, <1>14

LEMMA EnqueueQueues ==
    ASSUME OwnerTypeOK, EachOnce, NEW c \in Request, ~Queued(c), Enqueue(c)
    PROVE  /\ OwnerTypeOK' /\ EachOnce'
           /\ batch' = batch /\ flush' = flush /\ latched' = latched
           /\ poisoned' = poisoned
           /\ \A d \in Request : Queued(d)' => Queued(d) \/ d = c
<1> USE OwnerAssumption
<1>1. /\ pending \in Seq(Request) /\ Len(pending) \in Nat /\ Len(pending) <= QueueDepth
      /\ waiting \in Seq(Request) /\ Len(waiting) \in Nat /\ Len(waiting) <= MaxWaiting
  BY LenProperties DEF OwnerTypeOK
<1>2. /\ \A i \in 1..Len(pending) : pending[i] # c
      /\ \A i \in 1..Len(waiting) : waiting[i] # c
      /\ \A i \in 1..Len(batch) : batch[i].request # c
  BY DEF Queued
<1>3. CASE Admits /\ pending' = Append(pending, c) /\ UNCHANGED waiting
  <2>1. /\ pending' \in Seq(Request) /\ Len(pending') = Len(pending) + 1
        /\ \A i \in 1..Len(pending) : pending'[i] = pending[i]
        /\ pending'[Len(pending) + 1] = c
    BY <1>1, <1>3, AppendProperties
  <2>2. \A i \in 1..Len(pending') : i \in 1..Len(pending) \/ i = Len(pending) + 1
    BY <2>1, <1>1
  <2>3. OwnerTypeOK'
    BY <1>1, <1>3, <2>1 DEF OwnerTypeOK, Enqueue, Admits
  <2>4. \A i, j \in 1..Len(pending') : pending'[i] = pending'[j] => i = j
    BY <1>2, <2>1, <2>2 DEF EachOnce
  <2>8. waiting' = waiting /\ batch' = batch
    BY <1>3 DEF Enqueue
  <2>9. /\ \A i \in 1..Len(pending'), j \in 1..Len(waiting) : pending'[i] # waiting[j]
        /\ \A i \in 1..Len(pending'), j \in 1..Len(batch) :
               pending'[i] # batch[j].request
    BY <1>2, <2>1, <2>2 DEF EachOnce
  <2>5. EachOnce'
    BY <2>4, <2>8, <2>9 DEF EachOnce
  <2>6. \A d \in Request : Queued(d)' => Queued(d) \/ d = c
    BY <1>3, <2>1, <2>2 DEF Queued, Enqueue
  <2>7. QED
    BY <2>3, <2>5, <2>6 DEF Enqueue
<1>4. CASE Parks /\ waiting' = Append(waiting, c) /\ UNCHANGED pending
  <2>1. /\ waiting' \in Seq(Request) /\ Len(waiting') = Len(waiting) + 1
        /\ \A i \in 1..Len(waiting) : waiting'[i] = waiting[i]
        /\ waiting'[Len(waiting) + 1] = c
    BY <1>1, <1>4, AppendProperties
  <2>2. \A i \in 1..Len(waiting') : i \in 1..Len(waiting) \/ i = Len(waiting) + 1
    BY <2>1, <1>1
  <2>3. OwnerTypeOK'
    BY <1>1, <1>4, <2>1 DEF OwnerTypeOK, Enqueue, Parks
  <2>4. \A i, j \in 1..Len(waiting') : waiting'[i] = waiting'[j] => i = j
    BY <1>2, <2>1, <2>2 DEF EachOnce
  <2>8. pending' = pending /\ batch' = batch
    BY <1>4 DEF Enqueue
  <2>9. /\ \A i \in 1..Len(pending), j \in 1..Len(waiting') : pending[i] # waiting'[j]
        /\ \A i \in 1..Len(waiting'), j \in 1..Len(batch) :
               waiting'[i] # batch[j].request
    BY <1>2, <2>1, <2>2 DEF EachOnce
  <2>5. EachOnce'
    BY <2>4, <2>8, <2>9 DEF EachOnce
  <2>6. \A d \in Request : Queued(d)' => Queued(d) \/ d = c
    BY <1>4, <2>1, <2>2 DEF Queued, Enqueue
  <2>7. QED
    BY <2>3, <2>5, <2>6 DEF Enqueue
<1>5. QED
  BY <1>3, <1>4 DEF Enqueue

LEMMA HeadOfBatch ==
    ASSUME OwnerTypeOK, batch # <<>>
    PROVE  /\ Len(batch) \in Nat \ {0}
           /\ Head(batch) = batch[1] /\ Head(batch) \in Member
           /\ Queued(Head(batch).request)
<1>1. batch \in Seq(Member) /\ Len(batch) \in Nat \ {0}
  BY LenProperties, EmptySeq DEF OwnerTypeOK
<1>2. Head(batch) = batch[1] /\ batch[1] \in Member /\ 1 \in 1..Len(batch)
  BY <1>1, ElementOfSeq, HeadTailProperties
<1>3. Queued(Head(batch).request)
  BY <1>2 DEF Queued
<1>4. QED
  BY <1>1, <1>2, <1>3

LEMMA PublishQueues ==
    ASSUME OwnerTypeOK, EachOnce, batch # <<>>, Publish
    PROVE  /\ OwnerTypeOK' /\ EachOnce'
           /\ Len(batch') = Len(batch) - 1
           /\ \A i \in 1..Len(batch') :
                /\ i + 1 \in 1..Len(batch) /\ batch'[i] = batch[i + 1]
                /\ batch'[i].request # Head(batch).request
           /\ \A d \in Request : Queued(d)' => Queued(d) /\ d # Head(batch).request
<1> USE OwnerAssumption
<1>1. /\ batch \in Seq(Member) /\ Len(batch) \in Nat \ {0} /\ Len(batch) <= MaxBatch
      /\ Head(batch) = batch[1] /\ 1 \in 1..Len(batch)
  BY HeadOfBatch DEF OwnerTypeOK
<1>2. /\ batch' \in Seq(Member) /\ Len(batch') = Len(batch) - 1
      /\ \A i \in 1..Len(batch') : batch'[i] = batch[i + 1]
  BY <1>1, HeadTailProperties DEF Publish
<1>3. pending' = pending /\ waiting' = waiting
  BY DEF Publish
<1>4. \A i, j \in 1..Len(batch) : batch[i].request = batch[j].request => i = j
  BY DEF EachOnce
<1>5. ASSUME NEW i \in 1..Len(batch')
      PROVE  /\ i + 1 \in 1..Len(batch) /\ i + 1 # 1
             /\ batch'[i] = batch[i + 1]
             /\ batch'[i].request # Head(batch).request
  <2>1. i + 1 \in 1..Len(batch) /\ i + 1 # 1 /\ batch'[i] = batch[i + 1]
    BY <1>1, <1>2
  <2>2. QED
    BY <2>1, <1>1, <1>4
<1>6. OwnerTypeOK'
  <2>1. Len(batch') <= MaxBatch
    BY <1>1, <1>2
  <2>2. QED
    BY <1>1, <1>2, <2>1 DEF OwnerTypeOK, Publish
<1>7. EachOnce'
  <2>1. \A i, j \in 1..Len(batch') : batch'[i].request = batch'[j].request => i = j
    <3> SUFFICES ASSUME NEW i \in 1..Len(batch'), NEW j \in 1..Len(batch'),
                        batch'[i].request = batch'[j].request
                 PROVE  i = j
      OBVIOUS
    <3>1. i + 1 = j + 1
      BY <1>4, <1>5
    <3>2. QED
      BY <3>1, <1>1, <1>2
  <2>2. \A i \in 1..Len(pending), j \in 1..Len(batch') : pending[i] # batch'[j].request
    BY <1>5 DEF EachOnce
  <2>3. \A i \in 1..Len(waiting), j \in 1..Len(batch') : waiting[i] # batch'[j].request
    BY <1>5 DEF EachOnce
  <2>4. QED
    BY <1>3, <2>1, <2>2, <2>3 DEF EachOnce
<1>8. ASSUME NEW d \in Request, Queued(d)' PROVE Queued(d) /\ d # Head(batch).request
  <2>1. CASE \E i \in 1..Len(pending) : pending[i] = d
    BY <2>1, <1>1 DEF Queued, EachOnce
  <2>2. CASE \E i \in 1..Len(waiting) : waiting[i] = d
    BY <2>2, <1>1 DEF Queued, EachOnce
  <2>3. CASE \E i \in 1..Len(batch') : batch'[i].request = d
    BY <2>3, <1>5 DEF Queued
  <2>4. QED
    BY <1>3, <1>8, <2>1, <2>2, <2>3 DEF Queued
<1>9. QED
  BY <1>2, <1>5, <1>6, <1>7, <1>8

-----------------------------------------------------------------------------
(* What a replay reads. *)

LEMMA ReplayedIs ==
    ASSUME NEW f \in Seq(Record)
    PROVE  /\ Replayed(f) \in Index
           /\ \A r \in Run, k \in Key :
                Replayed(f).steps[r][k] # None =>
                  \E i \in 1..Len(f) : /\ f[i].run = r /\ f[i].key = k
                                        /\ f[i].value = Replayed(f).steps[r][k]
           /\ \A i \in 1..Len(f) : Replayed(f).steps[f[i].run][f[i].key] # None
           /\ \A i \in 1..Len(f) : \E j \in 1..Len(f) :
                /\ f[j].run = f[i].run
                /\ Replayed(f).runs[f[i].run].definition = f[j].definition
<1> USE StoreAssumption
<1>1. Len(f) \in Nat /\ \A i \in 1..Len(f) : f[i] \in Record
  BY LenProperties, ElementOfSeq
<1>2. ASSUME NEW r \in Run, OfRun(f, r) # {}
      PROVE  First(OfRun(f, r)) \in OfRun(f, r)
  <2>1. OfRun(f, r) \subseteq Nat
    BY <1>1 DEF OfRun
  <2>2. \E i \in OfRun(f, r) : \A j \in OfRun(f, r) : i <= j
    BY <1>2, <2>1, Least
  <2>3. QED
    BY <2>2 DEF First
<1>3. ASSUME NEW r \in Run, NEW k \in Key, Recorded(f, r, k) # {}
      PROVE  Last(Recorded(f, r, k)) \in Recorded(f, r, k)
  <2>1. Recorded(f, r, k) \subseteq 0..Len(f)
    BY <1>1 DEF Recorded
  <2>2. \E i \in Recorded(f, r, k) : \A j \in Recorded(f, r, k) : j <= i
    BY <1>1, <1>3, <2>1, Greatest
  <2>3. \E i \in Recorded(f, r, k) : \A j \in Recorded(f, r, k) : i >= j
    BY <2>1, <2>2, <1>1
  <2>4. QED
    BY <2>3 DEF Last
<1> DEFINE R == Replayed(f)
           runs == [r \in Run |->
                      IF OfRun(f, r) = {} THEN NoRun
                      ELSE [tenant |-> f[First(OfRun(f, r))].tenant,
                            definition |-> f[First(OfRun(f, r))].definition]]
           steps == [r \in Run |-> [k \in Key |->
                      IF Recorded(f, r, k) = {} THEN None
                      ELSE f[Last(Recorded(f, r, k))].value]]
<1>4. R = [runs |-> runs, steps |-> steps, staged |-> NoSteps, committed |-> Len(f)]
  BY DEF Replayed
<1>5. runs \in [Run -> [tenant : Tenant, definition : Definition] \cup {NoRun}]
  <2> SUFFICES ASSUME NEW r \in Run, OfRun(f, r) # {}
               PROVE  [tenant |-> f[First(OfRun(f, r))].tenant,
                       definition |-> f[First(OfRun(f, r))].definition]
                        \in [tenant : Tenant, definition : Definition]
    OBVIOUS
  <2>1. First(OfRun(f, r)) \in 1..Len(f)
    BY <1>2 DEF OfRun
  <2>2. QED
    BY <2>1, <1>1 DEF Record
<1>6. steps \in [Run -> [Key -> Value \cup {None}]]
  <2> SUFFICES ASSUME NEW r \in Run, NEW k \in Key, Recorded(f, r, k) # {}
               PROVE  f[Last(Recorded(f, r, k))].value \in Value
    OBVIOUS
  <2>1. Last(Recorded(f, r, k)) \in 1..Len(f)
    BY <1>3 DEF Recorded
  <2>2. QED
    BY <2>1, <1>1 DEF Record
<1>7. NoSteps \in [Run -> [Key -> Value \cup {None}]]
  BY DEF NoSteps
<1>8. ASSUME NEW r \in Run, NEW k \in Key, steps[r][k] # None
      PROVE  \E i \in 1..Len(f) : f[i].run = r /\ f[i].key = k /\ f[i].value = steps[r][k]
  <2>1. Recorded(f, r, k) # {} /\ steps[r][k] = f[Last(Recorded(f, r, k))].value
    BY <1>8
  <2>2. Last(Recorded(f, r, k)) \in Recorded(f, r, k)
    BY <2>1, <1>3
  <2>3. QED
    BY <2>1, <2>2 DEF Recorded
<1>9. ASSUME NEW i \in 1..Len(f) PROVE steps[f[i].run][f[i].key] # None
  <2>1. f[i].run \in Run /\ f[i].key \in Key
    BY <1>1 DEF Record
  <2> DEFINE r == f[i].run
             k == f[i].key
  <2>2. i \in Recorded(f, r, k)
    BY DEF Recorded
  <2>3. steps[r][k] = f[Last(Recorded(f, r, k))].value
    BY <2>1, <2>2
  <2>4. Last(Recorded(f, r, k)) \in 1..Len(f)
    BY <2>1, <2>2, <1>3 DEF Recorded
  <2>5. QED
    BY <2>3, <2>4, <1>1 DEF Record
<1>10. ASSUME NEW i \in 1..Len(f)
       PROVE  \E j \in 1..Len(f) : /\ f[j].run = f[i].run
                                    /\ runs[f[i].run].definition = f[j].definition
  <2>1. f[i].run \in Run
    BY <1>1 DEF Record
  <2> DEFINE r == f[i].run
             j == First(OfRun(f, r))
  <2>2. i \in OfRun(f, r)
    BY DEF OfRun
  <2>3. runs[r].definition = f[j].definition
    BY <2>1, <2>2
  <2>4. j \in 1..Len(f) /\ f[j].run = r
    BY <2>1, <2>2, <1>2 DEF OfRun
  <2>5. QED
    BY <2>3, <2>4
<1> HIDE DEF runs, steps
<1>11. R \in Index
  BY <1>1, <1>4, <1>5, <1>6, <1>7 DEF Index
<1>12. R.runs = runs /\ R.steps = steps
  BY <1>4
<1> HIDE DEF R
<1>13. \A r \in Run, k \in Key :
         R.steps[r][k] # None =>
           \E i \in 1..Len(f) : f[i].run = r /\ f[i].key = k /\ f[i].value = R.steps[r][k]
  BY <1>8, <1>12
<1>14. /\ \A i \in 1..Len(f) : R.steps[f[i].run][f[i].key] # None
       /\ \A i \in 1..Len(f) : \E j \in 1..Len(f) :
            f[j].run = f[i].run /\ R.runs[f[i].run].definition = f[j].definition
  BY <1>9, <1>10, <1>12
<1>15. QED
  BY <1>11, <1>13, <1>14 DEF R

LEMMA NothingReplayed ==
    /\ <<>> \in Seq(Record) /\ Len(<<>>) = 0
    /\ Replayed(<<>>) \in Index
    /\ \A r \in Run, k \in Key : Replayed(<<>>).steps[r][k] = None
<1>1. <<>> \in Seq(Record) /\ Len(<<>>) = 0
  BY EmptySeq
<1> DEFINE f == <<>>
           R == Replayed(f)
<1>2. f \in Seq(Record) /\ Len(f) = 0
  BY <1>1
<1> HIDE DEF f
<1>3. /\ R \in Index
      /\ \A r \in Run, k \in Key :
           R.steps[r][k] # None =>
             \E i \in 1..Len(f) : f[i].run = r /\ f[i].key = k /\ f[i].value = R.steps[r][k]
  BY <1>2, ReplayedIs
<1> HIDE DEF R
<1>4. R \in Index /\ \A r \in Run, k \in Key : R.steps[r][k] = None
  BY <1>2, <1>3
<1>5. QED
  BY <1>1, <1>4 DEF R, f

-----------------------------------------------------------------------------
(* The index. *)

LEMMA WithStepIs ==
    ASSUME NEW map \in [Run -> [Key -> Value \cup {None}]], NEW c \in Request,
           NEW v \in Value \cup {None}
    PROVE  /\ WithStep(map, c, v) \in [Run -> [Key -> Value \cup {None}]]
           /\ \A r \in Run, k \in Key :
                WithStep(map, c, v)[r][k] =
                  IF r = Step[c].run /\ k = Step[c].key THEN v ELSE map[r][k]
<1>1. Step[c].run \in Run /\ Step[c].key \in Key
  BY StoreAssumption
<1> DEFINE R == Step[c].run
           row == [map[R] EXCEPT ![Step[c].key] = v]
<1>2. WithStep(map, c, v) = [map EXCEPT ![R] = row]
  BY DEF WithStep
<1>3. row \in [Key -> Value \cup {None}]
  BY <1>1
<1>4. QED
  BY <1>1, <1>2, <1>3

LEMMA StagedIs ==
    ASSUME NEW ix \in Index, NEW c \in Request, NEW v \in Value \cup {None}
    PROVE  /\ WithStaged(ix, c, v) \in Index
           /\ WithStaged(ix, c, v).runs = ix.runs
           /\ WithStaged(ix, c, v).steps = ix.steps
           /\ \A r \in Run, k \in Key :
                WithStaged(ix, c, v).staged[r][k] =
                  IF r = Step[c].run /\ k = Step[c].key THEN v ELSE ix.staged[r][k]
<1> DEFINE grid == WithStep(ix.staged, c, v)
<1>1. WithStaged(ix, c, v) = [ix EXCEPT !.staged = grid]
  BY DEF WithStaged
<1>2. ix.staged \in [Run -> [Key -> Value \cup {None}]]
  BY DEF Index
<1>3. /\ grid \in [Run -> [Key -> Value \cup {None}]]
      /\ \A r \in Run, k \in Key :
           grid[r][k] = IF r = Step[c].run /\ k = Step[c].key THEN v ELSE ix.staged[r][k]
  BY <1>2, WithStepIs
<1> HIDE DEF grid
<1>4. QED
  BY <1>1, <1>3 DEF Index

LEMMA ReservedIs ==
    ASSUME index \in Index, NEW c \in Request, caller[c].value \in Value
    PROVE  /\ Reserved(c) \in Index
           /\ Reserved(c).runs = index.runs /\ Reserved(c).steps = index.steps
           /\ \A r \in Run, k \in Key :
                Reserved(c).staged[r][k] =
                  IF r = Step[c].run /\ k = Step[c].key THEN caller[c].value
                  ELSE index.staged[r][k]
<1> DEFINE ix == WithStaged(index, c, caller[c].value)
<1>1. /\ ix \in Index /\ ix.runs = index.runs /\ ix.steps = index.steps
      /\ \A r \in Run, k \in Key :
           ix.staged[r][k] = IF r = Step[c].run /\ k = Step[c].key THEN caller[c].value
                             ELSE index.staged[r][k]
  BY StagedIs
<1>2. Reserved(c) = [ix EXCEPT !.committed = @ + 1]
  BY DEF Reserved
<1> HIDE DEF ix
<1>3. QED
  BY <1>1, <1>2 DEF Index

LEMMA SettledIs ==
    ASSUME index \in Index, build \in Definition,
           NEW c \in Request, caller[c].value \in Value
    PROVE  /\ Settled(c) \in Index
           /\ \A r \in Run, k \in Key :
                /\ Settled(c).steps[r][k] =
                     IF r = Step[c].run /\ k = Step[c].key THEN caller[c].value
                     ELSE index.steps[r][k]
                /\ Settled(c).staged[r][k] =
                     IF r = Step[c].run /\ k = Step[c].key THEN None
                     ELSE index.staged[r][k]
           /\ \A r \in Run :
                Settled(c).runs[r] =
                  IF r = Step[c].run /\ index.runs[r] = NoRun
                  THEN [tenant |-> Step[c].tenant, definition |-> build]
                  ELSE index.runs[r]
<1>1. Step[c].run \in Run /\ Step[c].key \in Key /\ Step[c].tenant \in Tenant
  BY StoreAssumption
<1> DEFINE R == Step[c].run
           ix == WithStaged(index, c, None)
           first == [tenant |-> Step[c].tenant, definition |-> build]
           runs == IF index.runs[R] = NoRun THEN [index.runs EXCEPT ![R] = first]
                   ELSE index.runs
           steps == WithStep(index.steps, c, caller[c].value)
<1>2. /\ ix \in Index
      /\ \A r \in Run, k \in Key :
           ix.staged[r][k] = IF r = Step[c].run /\ k = Step[c].key THEN None
                             ELSE index.staged[r][k]
  BY StagedIs
<1>3. Settled(c) = [ix EXCEPT !.runs = runs, !.steps = steps]
  BY DEF Settled
<1>4. /\ index.runs \in [Run -> [tenant : Tenant, definition : Definition] \cup {NoRun}]
      /\ index.steps \in [Run -> [Key -> Value \cup {None}]]
  BY DEF Index
<1>5. /\ steps \in [Run -> [Key -> Value \cup {None}]]
      /\ \A r \in Run, k \in Key :
           steps[r][k] = IF r = Step[c].run /\ k = Step[c].key THEN caller[c].value
                         ELSE index.steps[r][k]
  BY <1>4, WithStepIs
<1>6. first \in [tenant : Tenant, definition : Definition]
  BY <1>1
<1>7. /\ runs \in [Run -> [tenant : Tenant, definition : Definition] \cup {NoRun}]
      /\ \A r \in Run : runs[r] = IF r = R /\ index.runs[r] = NoRun
                                  THEN first ELSE index.runs[r]
  BY <1>1, <1>4, <1>6
<1> HIDE DEF ix, runs, steps
<1>8. Settled(c) \in Index
  BY <1>2, <1>3, <1>5, <1>7 DEF Index
<1>9. Settled(c).runs = runs /\ Settled(c).steps = steps /\ Settled(c).staged = ix.staged
  BY <1>2, <1>3 DEF Index
<1>10. QED
  BY <1>2, <1>5, <1>7, <1>8, <1>9

-----------------------------------------------------------------------------
(* The callers' moves. *)

LEMMA RecordOfType ==
    ASSUME NEW c \in Request, build \in Definition, caller[c].value \in Value
    PROVE  RecordOf(c) \in Record
  BY StoreAssumption DEF RecordOf, Record

(* The store is open while anything is queued. *)
LEMMA QueuedIsUp ==
    ASSUME DownIsEmpty, NEW c \in Request, Queued(c)
    PROVE  up
<1> SUFFICES ASSUME ~up PROVE FALSE
  OBVIOUS
<1>1. pending = <<>> /\ waiting = <<>> /\ batch = <<>>
  BY DEF DownIsEmpty
<1>2. Len(pending) = 0 /\ Len(waiting) = 0 /\ Len(batch) = 0
  BY <1>1
<1>3. QED
  BY <1>2 DEF Queued

LEMMA CallerMoves ==
    ASSUME IInv, up, NEW c \in Request, NEW s \in CallerState,
           OwnerTypeOK', EachOnce', batch' = batch, flush' = flush,
           latched' = latched, poisoned' = poisoned,
           \A d \in Request : Queued(d)' => Queued(d) \/ d = c,
           Queued(c)' => s.at \in {"submitted", "left"} /\ s.value \in Value,
           Queued(c) => s.value = caller[c].value,
           s.at \in {"agreed", "body", "submitted", "left"} =>
               \A i \in 1..Len(file) : file[i].run = Step[c].run => file[i].definition = build,
           s.at = "done" => s.answer # "Error",
           caller' = [caller EXCEPT ![c] = s],
           UNCHANGED <<file, torn, synced, index, build, up, restarts, recorded>>
    PROVE  IInv'
<1>1. /\ TypeOK /\ Expected /\ Stages /\ OwedIsWritten /\ RecordsAreHeld
      /\ DefinitionIsKnown /\ AgreedIsBuild /\ RecordedIsDurable /\ OneRecordPerStep
      /\ OneDefinitionPerRun /\ IndexIsWritten /\ FailureFindsPoison
  BY DEF IInv, Queues, Writes, Promises
<1>2. caller \in [Request -> CallerState]
  BY <1>1 DEF TypeOK
<1>3. /\ caller' \in [Request -> CallerState] /\ caller'[c] = s
      /\ \A d \in Request : d # c => caller'[d] = caller[d]
  BY <1>2
<1>4. TypeOK'
  BY <1>1, <1>3 DEF TypeOK
<1>5. Expected'
  <2> SUFFICES ASSUME NEW d \in Request, Queued(d)'
               PROVE  caller'[d].at \in {"submitted", "left"} /\ caller'[d].value \in Value
    BY DEF Expected
  <2>1. CASE d = c
    BY <2>1, <1>3
  <2>2. CASE d # c
    BY <2>2, <1>1, <1>3 DEF Expected
  <2>3. QED
    BY <2>1, <2>2
<1>6. Stages'
  BY <1>1 DEF Stages, AnswerOf
<1>7. \A d \in Request : Queued(d) => RecordOf(d)' = RecordOf(d)
  BY <1>3 DEF RecordOf
<1>8. OwedIsWritten'
  <2> SUFFICES ASSUME NEW i \in 1..Len(batch)
               PROVE  /\ batch[i].answer = "Recorded" => batch[i].owes
                      /\ batch[i].owes =>
                           /\ \E j \in 1..Len(file) : file[j] = RecordOf(batch[i].request)'
                           /\ flush = "ok" => synced = Len(file)
    BY DEF OwedIsWritten, RecordOf
  <2>1. batch[i].request \in Request
    <3>1. batch \in Seq(Member)
      BY <1>1 DEF TypeOK, OwnerTypeOK
    <3>2. batch[i] \in Member
      BY <3>1, ElementOfSeq
    <3>3. QED
      BY <3>2 DEF Member
  <2>2. Queued(batch[i].request)
    BY DEF Queued
  <2>3. RecordOf(batch[i].request)' = RecordOf(batch[i].request)
    BY <2>1, <2>2, <1>7
  <2>4. QED
    BY <2>3, <1>1 DEF OwedIsWritten
<1>9. DownIsEmpty' /\ RecordsAreHeld' /\ DefinitionIsKnown'
  BY <1>1 DEF DownIsEmpty, RecordsAreHeld, DefinitionIsKnown
<1>10. AgreedIsBuild'
  BY <1>1, <1>3 DEF AgreedIsBuild
<1>11. RecordedIsDurable' /\ OneRecordPerStep' /\ OneDefinitionPerRun' /\ IndexIsWritten'
  BY <1>1 DEF RecordedIsDurable, InPrefix, OneRecordPerStep, OneDefinitionPerRun, IndexIsWritten
<1>12. FailureFindsPoison'
  BY <1>1, <1>3 DEF FailureFindsPoison
<1>13. QED
  BY <1>4, <1>5, <1>6, <1>8, <1>9, <1>10, <1>11, <1>12
     DEF IInv, Queues, Writes, Promises

(* A caller that has not handed its value over is in no ring and no batch. *)
LEMMA CheckDefinitionKeeps ==
    ASSUME IInv, NEW c \in Request, CheckDefinition(c)
    PROVE  IInv'
<1>1. TypeOK /\ EachOnce /\ Expected /\ DefinitionIsKnown
  BY DEF IInv, Queues, Writes
<1>2. ~Queued(c)
  BY <1>1 DEF CheckDefinition, Expected
<1>3. up /\ OwnerTypeOK' /\ EachOnce' /\ (Queued(c) <=> Queued(c)')
      /\ batch' = batch /\ flush' = flush /\ latched' = latched /\ poisoned' = poisoned
      /\ UNCHANGED <<file, torn, synced, index, build, up, restarts, recorded>>
      /\ \A d \in Request : Queued(d)' => Queued(d)
  BY <1>1 DEF CheckDefinition, ownerVars, TypeOK, OwnerTypeOK, EachOnce, Queued
<1>4. CASE AgreesWith(c) /\ Goes(c, "agreed", None)
  <2> DEFINE s == [at |-> "agreed", value |-> None, answer |-> None]
  <2>1. caller' = [caller EXCEPT ![c] = s] /\ s \in CallerState
    BY <1>4 DEF Goes, CallerState
  <2>2. \A i \in 1..Len(file) : file[i].run = Step[c].run => file[i].definition = build
    BY <1>1, <1>3, <1>4 DEF AgreesWith, DefinitionIsKnown
  <2>3. s.at = "agreed" /\ s.at # "done"
    OBVIOUS
  <2> HIDE DEF s
  <2>4. QED
    BY <1>2, <1>3, <2>1, <2>2, <2>3, CallerMoves
<1>5. CASE Finish(c, "Incompatible", None)
  <2> DEFINE s == [at |-> "done", value |-> None, answer |-> "Incompatible"]
  <2>1. caller' = [caller EXCEPT ![c] = s] /\ s \in CallerState
    BY <1>5 DEF Finish, CallerState
  <2>2. s.at = "done" /\ s.answer # "Error"
    OBVIOUS
  <2> HIDE DEF s
  <2>3. QED
    BY <1>2, <1>3, <2>1, <2>2, CallerMoves
<1>6. QED
  BY <1>4, <1>5 DEF CheckDefinition

LEMMA LookupKeeps ==
    ASSUME IInv, NEW c \in Request, Lookup(c)
    PROVE  IInv'
<1>1. TypeOK /\ EachOnce /\ Expected /\ AgreedIsBuild
  BY DEF IInv, Queues, Writes
<1>2. ~Queued(c)
  BY <1>1 DEF Lookup, Expected
<1>3. up /\ OwnerTypeOK' /\ EachOnce' /\ (Queued(c) <=> Queued(c)')
      /\ batch' = batch /\ flush' = flush /\ latched' = latched /\ poisoned' = poisoned
      /\ UNCHANGED <<file, torn, synced, index, build, up, restarts, recorded>>
      /\ \A d \in Request : Queued(d)' => Queued(d)
  BY <1>1 DEF Lookup, ownerVars, TypeOK, OwnerTypeOK, EachOnce, Queued
<1>4. \A i \in 1..Len(file) : file[i].run = Step[c].run => file[i].definition = build
  BY <1>1, <1>3 DEF AgreedIsBuild, Lookup
<1>5. CASE Goes(c, "body", None)
  <2> DEFINE s == [at |-> "body", value |-> None, answer |-> None]
  <2>1. caller' = [caller EXCEPT ![c] = s] /\ s \in CallerState
    BY <1>5 DEF Goes, CallerState
  <2>2. s.at # "done"
    OBVIOUS
  <2> HIDE DEF s
  <2>3. QED
    BY <1>2, <1>3, <1>4, <2>1, <2>2, CallerMoves
<1>6. StepOf(c) \in Value \cup {None}
  BY <1>1, StoreAssumption DEF StepOf, TypeOK, Index
<1>7. ASSUME NEW v \in Value \cup {None}, NEW a \in {"Found", "Refused"}, Finish(c, a, v)
      PROVE  IInv'
  <2> DEFINE s == [at |-> "done", value |-> v, answer |-> a]
  <2>1. caller' = [caller EXCEPT ![c] = s] /\ s \in CallerState
    BY <1>7 DEF Finish, CallerState
  <2>2. s.at = "done" /\ s.answer # "Error"
    OBVIOUS
  <2> HIDE DEF s
  <2>3. QED
    BY <1>2, <1>3, <2>1, <2>2, CallerMoves
<1>8. QED
  BY <1>5, <1>6, <1>7 DEF Lookup

LEMMA SubmitKeeps ==
    ASSUME IInv, NEW c \in Request, Submit(c)
    PROVE  IInv'
<1>1. TypeOK /\ EachOnce /\ Expected /\ AgreedIsBuild
  BY DEF IInv, Queues, Writes
<1>2. ~Queued(c)
  BY <1>1 DEF Submit, Expected
<1>3. up /\ UNCHANGED <<file, torn, synced, index, build, up, restarts, recorded>>
  BY DEF Submit
<1>4. \A i \in 1..Len(file) : file[i].run = Step[c].run => file[i].definition = build
  BY <1>1, <1>3 DEF AgreedIsBuild, Submit
<1>5. ASSUME NEW v \in Value, Enqueue(c), Goes(c, "submitted", v)
      PROVE  IInv'
  <2>1. /\ OwnerTypeOK' /\ EachOnce'
        /\ batch' = batch /\ flush' = flush /\ latched' = latched
        /\ poisoned' = poisoned
        /\ \A d \in Request : Queued(d)' => Queued(d) \/ d = c
    BY <1>1, <1>2, <1>5, EnqueueQueues DEF TypeOK
  <2> DEFINE s == [at |-> "submitted", value |-> v, answer |-> None]
  <2>2. caller' = [caller EXCEPT ![c] = s] /\ s \in CallerState
    BY <1>5 DEF Goes, CallerState
  <2>3. s.at = "submitted" /\ s.at # "done" /\ s.value \in Value
    OBVIOUS
  <2> HIDE DEF s
  <2>4. QED
    BY <1>2, <1>3, <1>4, <2>1, <2>2, <2>3, CallerMoves
<1>6. ASSUME Finish(c, "Refused", None), UNCHANGED ownerVars
      PROVE  IInv'
  <2>1. OwnerTypeOK' /\ EachOnce' /\ (Queued(c) <=> Queued(c)')
        /\ batch' = batch /\ flush' = flush /\ latched' = latched /\ poisoned' = poisoned
        /\ \A d \in Request : Queued(d)' => Queued(d)
    BY <1>1, <1>6 DEF ownerVars, TypeOK, OwnerTypeOK, EachOnce, Queued
  <2> DEFINE s == [at |-> "done", value |-> None, answer |-> "Refused"]
  <2>2. caller' = [caller EXCEPT ![c] = s] /\ s \in CallerState
    BY <1>6 DEF Finish, CallerState
  <2>3. s.at = "done" /\ s.answer # "Error"
    OBVIOUS
  <2> HIDE DEF s
  <2>4. QED
    BY <1>2, <1>3, <2>1, <2>2, <2>3, CallerMoves
<1>7. QED
  BY <1>5, <1>6, StoreAssumption DEF Submit

LEMMA AbandonKeeps ==
    ASSUME IInv, NEW c \in Request, Abandon(c)
    PROVE  IInv'
<1>1. TypeOK /\ EachOnce /\ Expected /\ AgreedIsBuild /\ DownIsEmpty
  BY DEF IInv, Queues, Writes
<1>2. up
  BY <1>1 DEF DownIsEmpty, Abandon, Idle
<1>3. OwnerTypeOK' /\ EachOnce' /\ (Queued(c) <=> Queued(c)')
      /\ batch' = batch /\ flush' = flush /\ latched' = latched /\ poisoned' = poisoned
      /\ UNCHANGED <<file, torn, synced, index, build, up, restarts, recorded>>
      /\ \A d \in Request : Queued(d)' => Queued(d)
  BY <1>1 DEF Abandon, ownerVars, TypeOK, OwnerTypeOK, EachOnce, Queued
<1>4. \A i \in 1..Len(file) : file[i].run = Step[c].run => file[i].definition = build
  BY <1>1, <1>2 DEF AgreedIsBuild, Abandon
<1>5. caller[c] \in CallerState
  BY <1>1 DEF TypeOK
<1> DEFINE s == [at |-> "left", value |-> caller[c].value, answer |-> None]
<1>6. caller' = [caller EXCEPT ![c] = s] /\ s \in CallerState
  BY <1>5 DEF Goes, CallerState, Abandon
<1>7. s.at = "left" /\ s.at # "done" /\ s.value = caller[c].value
  OBVIOUS
<1>8. Queued(c)' => s.value \in Value
  BY <1>1, <1>3 DEF Expected
<1> HIDE DEF s
<1>9. QED
  BY <1>2, <1>3, <1>4, <1>6, <1>7, <1>8, CallerMoves

-----------------------------------------------------------------------------
(* The owner's thread. *)

(* What a staged member finds, and leaves of the rings and the batch. *)
LEMMA Staging ==
    ASSUME IInv, NEW m \in Member, StageNext(m), UNCHANGED <<caller, up>>
    PROVE  /\ Queues' /\ OwnerTypeOK' /\ up
           /\ m.request \in Request
           /\ caller[m.request].at \in {"submitted", "left"}
           /\ caller[m.request].value \in Value
           /\ \A i \in 1..Len(batch') :
                batch'[i] = m \/ \E j \in 1..Len(batch) : batch'[i] = batch[j]
           /\ flush' = "none" /\ flush = "none" /\ latched' = FALSE
           /\ poisoned' = poisoned
<1>1. /\ TypeOK /\ OwnerTypeOK /\ EachOnce /\ Expected /\ Stages /\ DownIsEmpty
  BY DEF IInv, Queues, TypeOK
<1>2. /\ OwnerTypeOK' /\ EachOnce'
      /\ batch' = Append(batch, m) /\ Queued(m.request)
      /\ \A c \in Request : Queued(c)' => Queued(c)
  BY <1>1, StageQueues
<1>3. m.request \in Request
  BY DEF Member
<1>4. up
  BY <1>1, <1>2, <1>3, QueuedIsUp
<1>5. /\ flush' = flush /\ flush = "none" /\ latched' = latched /\ poisoned' = poisoned
  BY DEF StageNext
<1>6. latched = FALSE
  BY <1>1, <1>5 DEF Stages, OwnerTypeOK
<1>7. batch \in Seq(Member) /\ Len(batch) \in Nat
  BY <1>1, LenProperties DEF OwnerTypeOK
<1>8. /\ Len(batch') = Len(batch) + 1
      /\ \A i \in 1..Len(batch) : batch'[i] = batch[i]
      /\ batch'[Len(batch) + 1] = m
  BY <1>2, <1>7, AppendProperties
<1>9. ASSUME NEW i \in 1..Len(batch')
      PROVE  batch'[i] = m \/ \E j \in 1..Len(batch) : batch'[i] = batch[j]
  <2>1. i \in 1..Len(batch) \/ i = Len(batch) + 1
    BY <1>7, <1>8
  <2>2. QED
    BY <2>1, <1>8
<1>10. Expected'
  BY <1>1, <1>2 DEF Expected
<1>11. Stages'
  BY <1>5, <1>6 DEF Stages
<1>12. DownIsEmpty'
  BY <1>4 DEF DownIsEmpty
<1>13. QED
  BY <1>1, <1>2, <1>3, <1>4, <1>5, <1>6, <1>9, <1>10, <1>11, <1>12 DEF Expected, Queues

LEMMA StagingWrites ==
    ASSUME OwedIsWritten, NEW m \in Member, UNCHANGED <<caller, build>>,
           m.answer = "Recorded" => m.owes,
           m.owes => \E j \in 1..Len(file') : file'[j] = RecordOf(m.request),
           \A i \in 1..Len(batch') :
               batch'[i] = m \/ \E j \in 1..Len(batch) : batch'[i] = batch[j],
           flush' = "none",
           \A i \in 1..Len(file) : i \in 1..Len(file') /\ file'[i] = file[i]
    PROVE  OwedIsWritten'
<1> SUFFICES ASSUME NEW i \in 1..Len(batch')
             PROVE  /\ batch'[i].answer = "Recorded" => batch'[i].owes
                    /\ batch'[i].owes =>
                         \E j \in 1..Len(file') : file'[j] = RecordOf(batch[i].request)'
  BY DEF OwedIsWritten
<1>1. CASE batch'[i] = m
  <2>1. RecordOf(batch[i].request)' = RecordOf(m.request)
    BY <1>1 DEF RecordOf
  <2>2. QED
    BY <1>1, <2>1
<1>2. ASSUME NEW k \in 1..Len(batch), batch'[i] = batch[k]
      PROVE  /\ batch'[i].answer = "Recorded" => batch'[i].owes
             /\ batch'[i].owes =>
                  \E j \in 1..Len(file') : file'[j] = RecordOf(batch[i].request)'
  <2>1. RecordOf(batch[i].request)' = RecordOf(batch[k].request)
    BY <1>2 DEF RecordOf
  <2>2. /\ batch[k].answer = "Recorded" => batch[k].owes
        /\ batch[k].owes => \E j \in 1..Len(file) : file[j] = RecordOf(batch[k].request)
    BY DEF OwedIsWritten
  <2>3. QED
    BY <1>2, <2>1, <2>2
<1>3. QED
  BY <1>1, <1>2

LEMMA StageSettledKeeps ==
    ASSUME IInv, NEW c \in Request, StageSettled(c)
    PROVE  IInv'
<1> DEFINE a == IF Decided(c) = "Recorded" THEN "Error" ELSE Decided(c)
           m == [request |-> c, owes |-> FALSE, answer |-> a]
<1>1. a \in Answers /\ a # "Recorded"
  BY DEF Decided, SameOrNot, Answers
<1>2. StageNext(m) /\ UNCHANGED storeVars
  BY DEF StageSettled
<1> HIDE DEF a
<1>3. m \in Member /\ m.answer # "Recorded" /\ ~m.owes
  BY <1>1 DEF Member
<1> HIDE DEF m
<1>4. UNCHANGED <<file, torn, synced, index, caller, build, up, restarts, recorded>>
  BY <1>2 DEF storeVars
<1>5. /\ Queues' /\ OwnerTypeOK' /\ flush' = "none" /\ poisoned' = poisoned
      /\ \A i \in 1..Len(batch') :
           batch'[i] = m \/ \E j \in 1..Len(batch) : batch'[i] = batch[j]
  BY <1>2, <1>3, <1>4, Staging
<1>6. /\ TypeOK /\ OwedIsWritten /\ RecordsAreHeld /\ DefinitionIsKnown /\ AgreedIsBuild
      /\ RecordedIsDurable /\ OneRecordPerStep /\ OneDefinitionPerRun
      /\ IndexIsWritten /\ FailureFindsPoison
  BY DEF IInv, Writes, Promises
<1>7. TypeOK'
  BY <1>4, <1>5, <1>6 DEF TypeOK
<1>8. OwedIsWritten'
  BY <1>3, <1>4, <1>5, <1>6, StagingWrites
<1>9. RecordsAreHeld' /\ DefinitionIsKnown' /\ AgreedIsBuild'
  BY <1>4, <1>6 DEF RecordsAreHeld, DefinitionIsKnown, AgreedIsBuild
<1>10. RecordedIsDurable' /\ OneRecordPerStep' /\ OneDefinitionPerRun' /\ IndexIsWritten'
  BY <1>4, <1>6 DEF RecordedIsDurable, InPrefix, OneRecordPerStep, OneDefinitionPerRun, IndexIsWritten
<1>11. FailureFindsPoison'
  BY <1>4, <1>5, <1>6 DEF FailureFindsPoison
<1>12. QED
  BY <1>5, <1>7, <1>8, <1>9, <1>10, <1>11 DEF IInv, Writes, Promises

LEMMA StageWriteFailedKeeps ==
    ASSUME IInv, NEW c \in Request, StageWriteFailed(c)
    PROVE  IInv'
<1> DEFINE m == [request |-> c, owes |-> FALSE, answer |-> "Error"]
<1>1. m \in Member /\ m.request = c /\ m.answer # "Recorded" /\ ~m.owes
  BY DEF Member, Answers
<1>2. StageNext(m)
  BY DEF StageWriteFailed
<1> HIDE DEF m
<1>3. /\ UNCHANGED <<file, synced, caller, build, up, restarts, recorded>>
      /\ index' = Reserved(c) /\ torn' \in BOOLEAN
  BY DEF StageWriteFailed
<1>4. /\ Queues' /\ OwnerTypeOK' /\ flush' = "none" /\ poisoned' = poisoned
      /\ caller[c].value \in Value
      /\ \A i \in 1..Len(batch') :
           batch'[i] = m \/ \E j \in 1..Len(batch) : batch'[i] = batch[j]
  BY <1>1, <1>2, <1>3, Staging
<1>5. /\ TypeOK /\ OwedIsWritten /\ RecordsAreHeld /\ DefinitionIsKnown /\ AgreedIsBuild
      /\ RecordedIsDurable /\ OneRecordPerStep /\ OneDefinitionPerRun
      /\ IndexIsWritten /\ FailureFindsPoison
  BY DEF IInv, Writes, Promises
<1>6. /\ index' \in Index /\ index'.runs = index.runs /\ index'.steps = index.steps
      /\ \A r \in Run, k \in Key :
           index'.staged[r][k] = IF r = Step[c].run /\ k = Step[c].key
                                 THEN caller[c].value ELSE index.staged[r][k]
  BY <1>3, <1>4, <1>5, ReservedIs DEF TypeOK
<1>7. TypeOK'
  BY <1>3, <1>4, <1>5, <1>6 DEF TypeOK
<1>8. OwedIsWritten'
  BY <1>1, <1>3, <1>4, <1>5, StagingWrites
<1>9. RecordsAreHeld'
  <2> SUFFICES ASSUME up, NEW i \in 1..Len(file)
               PROVE  \/ index'.steps[file[i].run][file[i].key] # None
                      \/ index'.staged[file[i].run][file[i].key] # None
    BY <1>3 DEF RecordsAreHeld
  <2>1. file[i] \in Record
    BY <1>5, ElementOfSeq DEF TypeOK
  <2>2. file[i].run \in Run /\ file[i].key \in Key
    BY <2>1 DEF Record
  <2>3. \/ index.steps[file[i].run][file[i].key] # None
        \/ index.staged[file[i].run][file[i].key] # None
    BY <1>5 DEF RecordsAreHeld
  <2>4. caller[c].value # None
    BY <1>4, StoreAssumption
  <2>5. QED
    BY <2>2, <2>3, <2>4, <1>6
<1>10. DefinitionIsKnown' /\ AgreedIsBuild'
  BY <1>3, <1>5, <1>6 DEF DefinitionIsKnown, AgreedIsBuild
<1>11. RecordedIsDurable' /\ OneRecordPerStep' /\ OneDefinitionPerRun' /\ IndexIsWritten'
  BY <1>3, <1>5, <1>6
     DEF RecordedIsDurable, InPrefix, OneRecordPerStep, OneDefinitionPerRun, IndexIsWritten
<1>12. FailureFindsPoison'
  BY <1>3, <1>4, <1>5 DEF FailureFindsPoison
<1>13. QED
  BY <1>4, <1>7, <1>8, <1>9, <1>10, <1>11, <1>12 DEF IInv, Writes, Promises

LEMMA StageWrittenKeeps ==
    ASSUME IInv, NEW c \in Request, StageWritten(c)
    PROVE  IInv'
<1> DEFINE m == [request |-> c, owes |-> TRUE, answer |-> "Recorded"]
           R == Step[c].run
           K == Step[c].key
<1>1. m \in Member /\ m.request = c /\ m.owes
  BY DEF Member, Answers
<1>2. StageNext(m)
  BY DEF StageWritten
<1> HIDE DEF m
<1>3. /\ UNCHANGED <<torn, synced, caller, build, up, restarts, recorded>>
      /\ index' = Reserved(c) /\ file' = Append(file, RecordOf(c))
  BY DEF StageWritten
<1>4. /\ Queues' /\ OwnerTypeOK' /\ flush' = "none" /\ poisoned' = poisoned /\ up
      /\ caller[c].value \in Value /\ caller[c].at \in {"submitted", "left"}
      /\ \A i \in 1..Len(batch') :
           batch'[i] = m \/ \E j \in 1..Len(batch) : batch'[i] = batch[j]
  BY <1>1, <1>2, <1>3, Staging
<1>5. /\ TypeOK /\ OwedIsWritten /\ RecordsAreHeld /\ DefinitionIsKnown /\ AgreedIsBuild
      /\ RecordedIsDurable /\ OneRecordPerStep /\ OneDefinitionPerRun
      /\ IndexIsWritten /\ FailureFindsPoison
  BY DEF IInv, Writes, Promises
<1>6. /\ index' \in Index /\ index'.runs = index.runs /\ index'.steps = index.steps
      /\ \A r \in Run, k \in Key :
           index'.staged[r][k] = IF r = R /\ k = K THEN caller[c].value
                                 ELSE index.staged[r][k]
  BY <1>3, <1>4, <1>5, ReservedIs DEF TypeOK
<1>7. index.steps[R][K] = None /\ index.staged[R][K] = None
  BY DEF StageWritten, Decided, SameOrNot, StepOf, StagedOf
<1>8. R \in Run /\ K \in Key /\ caller[c].value # None
  BY <1>4, StoreAssumption
<1> DEFINE rec == RecordOf(c)
<1>9. /\ rec \in Record /\ rec.run = R /\ rec.key = K /\ rec.definition = build
      /\ RecordOf(c)' = rec
  BY <1>3, <1>4, <1>5, RecordOfType DEF TypeOK, RecordOf
<1> HIDE DEF rec, R, K
<1>10. /\ file \in Seq(Record) /\ Len(file) \in Nat /\ synced \in 0..Len(file)
       /\ file' = Append(file, rec)
  BY <1>3, <1>5, LenProperties DEF TypeOK, rec
<1>11. /\ file' \in Seq(Record) /\ Len(file') = Len(file) + 1
       /\ \A i \in 1..Len(file) : i \in 1..Len(file') /\ file'[i] = file[i]
       /\ Len(file') \in 1..Len(file') /\ file'[Len(file')] = rec
       /\ \A i \in 1..Len(file') : i \in 1..Len(file) \/ i = Len(file')
  BY <1>9, <1>10, AppendProperties
<1>12. \A i \in 1..Len(file) : file[i].run \in Run /\ file[i].key \in Key
  <2>1. \A i \in 1..Len(file) : file[i] \in Record
    BY <1>10, ElementOfSeq
  <2>2. QED
    BY <2>1 DEF Record
<1>13. TypeOK'
  BY <1>3, <1>4, <1>5, <1>6, <1>10, <1>11 DEF TypeOK
<1>14. OwedIsWritten'
  <2>1. \E j \in 1..Len(file') : file'[j] = RecordOf(m.request)
    BY <1>1, <1>11 DEF rec
  <2>2. QED
    BY <2>1, <1>1, <1>3, <1>4, <1>5, <1>11, StagingWrites
<1>15. RecordsAreHeld'
  <2> SUFFICES ASSUME NEW i \in 1..Len(file')
               PROVE  \/ index'.steps[file'[i].run][file'[i].key] # None
                      \/ index'.staged[file'[i].run][file'[i].key] # None
    BY DEF RecordsAreHeld
  <2>1. CASE i = Len(file')
    BY <2>1, <1>6, <1>8, <1>9, <1>11
  <2>2. CASE i \in 1..Len(file)
    <3>1. \/ index.steps[file[i].run][file[i].key] # None
          \/ index.staged[file[i].run][file[i].key] # None
      BY <2>2, <1>4, <1>5 DEF RecordsAreHeld
    <3>2. QED
      BY <2>2, <3>1, <1>6, <1>8, <1>11, <1>12
  <2>3. QED
    BY <2>1, <2>2, <1>11
<1>16. DefinitionIsKnown'
  BY <1>3, <1>4, <1>5, <1>6, <1>9, <1>11 DEF DefinitionIsKnown
<1>17. AgreedIsBuild'
  BY <1>3, <1>4, <1>5, <1>9, <1>11 DEF AgreedIsBuild
<1>18. RecordedIsDurable'
  <2>1. \A i \in 1..synced : i \in 1..Len(file) /\ file'[i] = file[i]
    BY <1>10, <1>11
  <2>2. QED
    BY <2>1, <1>3, <1>5 DEF RecordedIsDurable, InPrefix
<1>19. OneRecordPerStep'
  <2>1. \A i \in 1..Len(file) : ~(file[i].run = R /\ file[i].key = K)
    BY <1>4, <1>5, <1>7 DEF RecordsAreHeld
  <2>2. QED
    BY <2>1, <1>5, <1>9, <1>11 DEF OneRecordPerStep
<1>20. OneDefinitionPerRun'
  <2>1. \A i \in 1..Len(file) : file[i].run = R => file[i].definition = build
    BY <1>4, <1>5 DEF AgreedIsBuild, R
  <2>2. QED
    BY <2>1, <1>5, <1>9, <1>11 DEF OneDefinitionPerRun
<1>21. IndexIsWritten'
  BY <1>5, <1>6, <1>11 DEF IndexIsWritten
<1>22. FailureFindsPoison'
  BY <1>3, <1>4, <1>5 DEF FailureFindsPoison
<1>23. QED
  BY <1>4, <1>13, <1>14, <1>15, <1>16, <1>17, <1>18, <1>19, <1>20, <1>21, <1>22
     DEF IInv, Writes, Promises

LEMMA FlushKeeps ==
    ASSUME IInv, NEW ok \in BOOLEAN, Flush(ok)
    PROVE  IInv'
<1>1. /\ TypeOK /\ EachOnce /\ Expected /\ Stages /\ DownIsEmpty
      /\ OwedIsWritten /\ RecordsAreHeld /\ DefinitionIsKnown /\ AgreedIsBuild
      /\ RecordedIsDurable /\ OneRecordPerStep /\ OneDefinitionPerRun
      /\ IndexIsWritten /\ FailureFindsPoison
  BY DEF IInv, Queues, Writes, Promises
<1>2. /\ UNCHANGED <<file, torn, index, caller, build, up, restarts, recorded>>
      /\ UNCHANGED <<pending, waiting, batch, latched, poisoned>>
      /\ flush = "none" /\ batch # <<>>
      /\ flush' = (IF ok THEN "ok" ELSE "failed") /\ failing' = FALSE
      /\ synced' = SyncedAfter(ok)
  BY DEF Flush, CloseBatch
<1>3. /\ file \in Seq(Record) /\ Len(file) \in Nat /\ synced \in 0..Len(file)
      /\ synced' \in synced..Len(file)
  BY <1>1, <1>2, LenProperties DEF TypeOK, SyncedAfter
<1>4. TypeOK'
  <2>1. OwnerTypeOK'
    BY <1>1, <1>2 DEF TypeOK, OwnerTypeOK
  <2>2. QED
    BY <2>1, <1>1, <1>2, <1>3 DEF TypeOK
<1>5. EachOnce' /\ Expected' /\ DownIsEmpty'
  BY <1>1, <1>2 DEF EachOnce, Expected, Queued, DownIsEmpty
<1>6. Stages'
  BY <1>1, <1>2 DEF Stages
<1>7. OwedIsWritten'
  <2> SUFFICES ASSUME NEW i \in 1..Len(batch)
               PROVE  /\ batch[i].answer = "Recorded" => batch[i].owes
                      /\ batch[i].owes =>
                           /\ \E j \in 1..Len(file) : file[j] = RecordOf(batch[i].request)
                           /\ ok => synced' = Len(file)
    BY <1>2 DEF OwedIsWritten, RecordOf
  <2>1. batch[i].owes /\ ok => synced' = Len(file)
    BY <1>2 DEF SyncedAfter, Owes
  <2>2. QED
    BY <2>1, <1>1 DEF OwedIsWritten
<1>8. RecordsAreHeld' /\ DefinitionIsKnown' /\ AgreedIsBuild'
  BY <1>1, <1>2 DEF RecordsAreHeld, DefinitionIsKnown, AgreedIsBuild
<1>9. RecordedIsDurable'
  <2>1. \A i \in 1..synced : i \in 1..synced'
    BY <1>3
  <2>2. QED
    BY <2>1, <1>1, <1>2 DEF RecordedIsDurable, InPrefix
<1>10. OneRecordPerStep' /\ OneDefinitionPerRun' /\ IndexIsWritten' /\ FailureFindsPoison'
  BY <1>1, <1>2 DEF OneRecordPerStep, OneDefinitionPerRun, IndexIsWritten, FailureFindsPoison
<1>11. QED
  BY <1>4, <1>5, <1>6, <1>7, <1>8, <1>9, <1>10 DEF IInv, Queues, Writes, Promises

LEMMA LatchAnswerKeeps ==
    ASSUME IInv, LatchAnswer
    PROVE  IInv'
<1>1. /\ TypeOK /\ OwnerTypeOK /\ EachOnce /\ Expected /\ Stages /\ DownIsEmpty
      /\ OwedIsWritten /\ RecordsAreHeld /\ DefinitionIsKnown /\ AgreedIsBuild
      /\ RecordedIsDurable /\ OneRecordPerStep /\ OneDefinitionPerRun
      /\ IndexIsWritten /\ FailureFindsPoison
  BY DEF IInv, Queues, Writes, Promises, TypeOK
<1>2. PICK c \in Request :
         /\ batch # <<>> /\ Head(batch).request = c
         /\ Latch(caller[c].at = "left")
         /\ index' = IF Head(batch).owes /\ flush = "ok" THEN Settled(c) ELSE index
  BY DEF LatchAnswer
<1>3. UNCHANGED <<file, torn, synced, caller, build, up, restarts, recorded>>
  BY DEF LatchAnswer
<1>4. /\ Len(batch) \in Nat \ {0} /\ Head(batch) = batch[1] /\ Head(batch) \in Member
      /\ Queued(c)
  BY <1>1, <1>2, HeadOfBatch
<1>5. up /\ caller[c].value \in Value
  BY <1>1, <1>4, QueuedIsUp DEF Expected
<1> DEFINE gone == caller[c].at = "left"
<1>6. /\ flush # "none" /\ latched' = TRUE
      /\ failing' = PoisonsWith(Head(batch), gone)
      /\ poisoned' = (poisoned \/ failing')
      /\ UNCHANGED <<pending, waiting, batch, flush>>
  BY <1>2 DEF Latch
<1>7. failing' \in BOOLEAN /\ poisoned' \in BOOLEAN
  <2>1. PoisonsWith(Head(batch), gone) \in BOOLEAN
    BY <1>1 DEF PoisonsWith, OwnerTypeOK
  <2>2. failing' \in BOOLEAN
    BY <2>1, <1>6
  <2>3. poisoned' = (poisoned \/ failing')
    BY <1>6
  <2>4. poisoned' \in BOOLEAN
    BY <2>3, Zenon
  <2>5. QED
    BY <2>2, <2>4
<1>8. poisoned => poisoned'
  BY <1>6
<1>9. OwnerTypeOK'
  BY <1>1, <1>6, <1>7 DEF OwnerTypeOK
<1>10. EachOnce' /\ Expected' /\ DownIsEmpty'
  BY <1>1, <1>3, <1>5, <1>6 DEF EachOnce, Expected, Queued, DownIsEmpty
<1>11. Stages'
  <2>1. AnswerOf(Head(batch)) = "Error" => poisoned'
    BY <1>6 DEF PoisonsWith
  <2>2. AnswerOf(Head(batch))' = AnswerOf(Head(batch))
    BY <1>6 DEF AnswerOf
  <2>3. QED
    BY <2>1, <2>2, <1>2, <1>6 DEF Stages
<1>12. OwedIsWritten'
  BY <1>1, <1>3, <1>6 DEF OwedIsWritten, RecordOf
<1>13. RecordedIsDurable' /\ OneRecordPerStep' /\ OneDefinitionPerRun' /\ AgreedIsBuild'
  BY <1>1, <1>3
     DEF RecordedIsDurable, InPrefix, OneRecordPerStep, OneDefinitionPerRun, AgreedIsBuild
<1>14. FailureFindsPoison'
  BY <1>1, <1>3, <1>8 DEF FailureFindsPoison
<1>15. index' \in Index /\ RecordsAreHeld' /\ DefinitionIsKnown' /\ IndexIsWritten'
  <2>1. CASE index' = index
    <3>1. index' \in Index /\ RecordsAreHeld'
      BY <2>1, <1>1, <1>3 DEF TypeOK, RecordsAreHeld
    <3>2. DefinitionIsKnown'
      BY <2>1, <1>1, <1>3 DEF DefinitionIsKnown
    <3>3. IndexIsWritten'
      BY <2>1, <1>1, <1>3 DEF IndexIsWritten
    <3>4. QED
      BY <3>1, <3>2, <3>3
  <2>2. CASE Head(batch).owes /\ flush = "ok" /\ index' = Settled(c)
    <3> DEFINE R == Step[c].run
               K == Step[c].key
    <3>1. /\ index' \in Index
          /\ \A r \in Run, k \in Key :
               /\ index'.steps[r][k] = IF r = R /\ k = K THEN caller[c].value
                                       ELSE index.steps[r][k]
               /\ index'.staged[r][k] = IF r = R /\ k = K THEN None ELSE index.staged[r][k]
          /\ \A r \in Run :
               index'.runs[r] = IF r = R /\ index.runs[r] = NoRun
                                THEN [tenant |-> Step[c].tenant, definition |-> build]
                                ELSE index.runs[r]
      BY <2>2, <1>1, <1>5, SettledIs DEF TypeOK
    <3>2. caller[c].value # None
      BY <1>5, StoreAssumption
    <3>3. \E j \in 1..Len(file) : file[j] = RecordOf(c)
      BY <2>2, <1>1, <1>2, <1>4 DEF OwedIsWritten
    <3>4. PICK j \in 1..Len(file) : /\ file[j].run = R /\ file[j].key = K
                                    /\ file[j].value = caller[c].value
      BY <3>3 DEF RecordOf
    <3> HIDE DEF R, K
    <3>5. \A i \in 1..Len(file) : file[i].run \in Run /\ file[i].key \in Key
      <4>1. \A i \in 1..Len(file) : file[i] \in Record
        BY <1>1, ElementOfSeq DEF TypeOK
      <4>2. QED
        BY <4>1 DEF Record
    <3>6. RecordsAreHeld'
      BY <3>1, <3>2, <3>5, <1>1, <1>3, <1>5 DEF RecordsAreHeld
    <3>7. DefinitionIsKnown'
      <4> SUFFICES ASSUME NEW i \in 1..Len(file),
                          index'.runs[file[i].run].definition \in {None, build}
                   PROVE  file[i].definition = build
        BY <1>3 DEF DefinitionIsKnown
      <4>1. index.runs[file[i].run].definition \in {None, build}
        <5>1. CASE index'.runs[file[i].run] = index.runs[file[i].run]
          BY <5>1
        <5>2. CASE index.runs[file[i].run] = NoRun
          BY <5>2 DEF NoRun
        <5>3. QED
          BY <5>1, <5>2, <3>1, <3>5
      <4>2. QED
        BY <4>1, <1>1, <1>5 DEF DefinitionIsKnown
    <3>8. IndexIsWritten'
      <4> SUFFICES ASSUME NEW r \in Run, NEW k \in Key, index'.steps[r][k] # None
                   PROVE  \E i \in 1..Len(file) :
                            /\ file[i].run = r /\ file[i].key = k
                            /\ file[i].value = index'.steps[r][k]
        BY <1>3 DEF IndexIsWritten
      <4>1. CASE r = R /\ k = K
        BY <4>1, <3>1, <3>4
      <4>2. CASE ~(r = R /\ k = K)
        <5>1. index'.steps[r][k] = index.steps[r][k]
          BY <4>2, <3>1
        <5>2. QED
          BY <5>1, <1>1 DEF IndexIsWritten
      <4>3. QED
        BY <4>1, <4>2
    <3>9. QED
      BY <3>1, <3>6, <3>7, <3>8
  <2>3. QED
    BY <2>1, <2>2, <1>2
<1>16. TypeOK'
  BY <1>1, <1>3, <1>9, <1>15 DEF TypeOK
<1>17. QED
  BY <1>10, <1>11, <1>12, <1>13, <1>14, <1>15, <1>16 DEF IInv, Queues, Writes, Promises

LEMMA PublishAnswerKeeps ==
    ASSUME IInv, PublishAnswer
    PROVE  IInv'
<1>1. /\ TypeOK /\ OwnerTypeOK /\ EachOnce /\ Expected /\ Stages /\ DownIsEmpty
      /\ OwedIsWritten /\ RecordsAreHeld /\ DefinitionIsKnown /\ AgreedIsBuild
      /\ RecordedIsDurable /\ OneRecordPerStep /\ OneDefinitionPerRun
      /\ IndexIsWritten /\ FailureFindsPoison
  BY DEF IInv, Queues, Writes, Promises, TypeOK
<1>2. /\ Publish
      /\ UNCHANGED <<file, torn, synced, index, build, up, restarts>>
  BY DEF PublishAnswer
<1>3. /\ latched /\ latched' = FALSE /\ batch' = Tail(batch)
      /\ flush' = (IF Len(batch) = 1 THEN "none" ELSE flush) /\ poisoned' = poisoned
      /\ flush # "none" /\ batch # <<>>
  BY <1>1, <1>2 DEF Publish, Stages
<1> DEFINE m == Head(batch)
           c == m.request
           a == AnswerOf(m)
<1>4. /\ Len(batch) \in Nat \ {0} /\ m = batch[1] /\ m \in Member /\ Queued(c)
  BY <1>1, <1>3, HeadOfBatch
<1>5. /\ OwnerTypeOK' /\ EachOnce' /\ Len(batch') = Len(batch) - 1
      /\ \A i \in 1..Len(batch') : /\ i + 1 \in 1..Len(batch) /\ batch'[i] = batch[i + 1]
                                    /\ batch'[i].request # c
      /\ \A d \in Request : Queued(d)' => Queued(d) /\ d # c
  BY <1>1, <1>2, <1>3, PublishQueues
<1>6. c \in Request /\ a \in Answers
  BY <1>4 DEF Member, AnswerOf, Answers
<1>7. up /\ caller[c].value \in Value /\ caller[c].at \in {"submitted", "left"}
  BY <1>1, <1>4, <1>6, QueuedIsUp DEF Expected
<1>8. /\ IF caller[c].at = "left" THEN UNCHANGED caller
         ELSE Finish(c, a, IF a \in {"Recorded", "AlreadyRecorded"}
                           THEN caller[c].value ELSE None)
      /\ recorded' = IF a = "Recorded" /\ caller[c].at # "left"
                     THEN recorded \cup {RecordOf(c)} ELSE recorded
  BY DEF PublishAnswer
<1>9. a = "Error" => poisoned
  BY <1>1, <1>3 DEF Stages
<1>10. a = "Recorded" => /\ \E j \in 1..Len(file) : file[j] = RecordOf(c)
                         /\ synced = Len(file)
  <2> SUFFICES ASSUME a = "Recorded"
               PROVE  /\ \E j \in 1..Len(file) : file[j] = RecordOf(c)
                      /\ synced = Len(file)
    OBVIOUS
  <2>1. m.answer = "Recorded" /\ ~(m.owes /\ flush = "failed")
    BY DEF AnswerOf
  <2>2. 1 \in 1..Len(batch)
    BY <1>4
  <2>3. m.owes /\ \E j \in 1..Len(file) : file[j] = RecordOf(c)
    BY <2>1, <2>2, <1>1, <1>4 DEF OwedIsWritten
  <2>4. flush = "ok"
    BY <2>1, <2>3, <1>1, <1>3 DEF OwnerTypeOK
  <2>5. QED
    BY <2>2, <2>3, <2>4, <1>1, <1>4 DEF OwedIsWritten
<1> HIDE DEF m, c, a
<1>11. /\ caller \in [Request -> CallerState]
       /\ index \in Index /\ build \in Definition /\ recorded \subseteq Record
  BY <1>1 DEF TypeOK
<1>12. PICK s \in CallerState :
          /\ caller' = [caller EXCEPT ![c] = s]
          /\ \/ s = caller[c] /\ s.at = "left"
             \/ s.at = "done" /\ s.answer = a
  <2>1. CASE caller[c].at = "left"
    <3>1. caller' = [caller EXCEPT ![c] = caller[c]]
      BY <2>1, <1>8, <1>11
    <3>2. QED
      BY <2>1, <3>1, <1>6, <1>11
  <2>2. CASE caller[c].at # "left"
    <3> DEFINE v == IF a \in {"Recorded", "AlreadyRecorded"} THEN caller[c].value ELSE None
               s == [at |-> "done", value |-> v, answer |-> a]
    <3>1. v \in Value \cup {None}
      BY <1>7
    <3> HIDE DEF v
    <3>2. s \in CallerState
      BY <3>1, <1>6 DEF CallerState
    <3>3. caller' = [caller EXCEPT ![c] = s]
      BY <2>2, <1>8 DEF Finish, v
    <3>4. QED
      BY <3>2, <3>3
  <2>3. QED
    BY <2>1, <2>2
<1>13. /\ caller' \in [Request -> CallerState] /\ caller'[c] = s
       /\ \A d \in Request : d # c => caller'[d] = caller[d]
  BY <1>6, <1>11, <1>12
<1>14. recorded' \subseteq Record
  BY <1>6, <1>7, <1>8, <1>11, RecordOfType
<1>15. TypeOK'
  BY <1>1, <1>2, <1>5, <1>13, <1>14 DEF TypeOK
<1>16. Expected'
  BY <1>1, <1>5, <1>13 DEF Expected
<1>17. Stages'
  <2>1. Len(batch) # 1 => batch' # <<>>
    BY <1>4, <1>5
  <2>2. QED
    BY <2>1, <1>3 DEF Stages
<1>18. OwedIsWritten'
  <2>0. \A i \in 1..Len(batch) : batch[i].request \in Request
    <3>1. batch \in Seq(Member)
      BY <1>1 DEF OwnerTypeOK
    <3>2. \A i \in 1..Len(batch) : batch[i] \in Member
      BY <3>1, ElementOfSeq
    <3>3. QED
      BY <3>2 DEF Member
  <2> SUFFICES ASSUME NEW i \in 1..Len(batch')
               PROVE  /\ batch'[i].answer = "Recorded" => batch'[i].owes
                      /\ batch'[i].owes =>
                           /\ \E j \in 1..Len(file) : file[j] = RecordOf(batch[i].request)'
                           /\ flush' = "ok" => synced = Len(file)
    BY <1>2 DEF OwedIsWritten
  <2> DEFINE k == i + 1
  <2>1. k \in 1..Len(batch) /\ batch'[i] = batch[k] /\ batch[k].request # c
    BY <1>5
  <2> HIDE DEF k
  <2>2. caller'[batch[k].request] = caller[batch[k].request]
    BY <2>0, <2>1, <1>13
  <2>3. RecordOf(batch[i].request)' = RecordOf(batch[k].request)
    BY <2>1, <2>2, <1>2 DEF RecordOf
  <2>4. /\ batch[k].answer = "Recorded" => batch[k].owes
        /\ batch[k].owes =>
             /\ \E j \in 1..Len(file) : file[j] = RecordOf(batch[k].request)
             /\ flush = "ok" => synced = Len(file)
    BY <2>1, <1>1 DEF OwedIsWritten
  <2>5. QED
    BY <2>1, <2>3, <2>4, <1>3
<1>19. DownIsEmpty' /\ RecordsAreHeld' /\ DefinitionIsKnown'
  BY <1>1, <1>2, <1>7 DEF DownIsEmpty, RecordsAreHeld, DefinitionIsKnown
<1>20. AgreedIsBuild'
  BY <1>1, <1>2, <1>7, <1>12, <1>13 DEF AgreedIsBuild
<1>21. RecordedIsDurable'
  BY <1>1, <1>2, <1>8, <1>10 DEF RecordedIsDurable, InPrefix
<1>22. OneRecordPerStep' /\ OneDefinitionPerRun' /\ IndexIsWritten'
  BY <1>1, <1>2 DEF OneRecordPerStep, OneDefinitionPerRun, IndexIsWritten
<1>23. FailureFindsPoison'
  BY <1>1, <1>2, <1>3, <1>9, <1>12, <1>13 DEF FailureFindsPoison
<1>24. QED
  BY <1>5, <1>15, <1>16, <1>17, <1>18, <1>19, <1>20, <1>21, <1>22, <1>23
     DEF IInv, Queues, Writes, Promises

-----------------------------------------------------------------------------
(* Crash, close and reopen. *)

(* What a stop leaves: no memory, and a file that still starts with what   *)
(* the device had flushed.                                                 *)
LEMMA Lost ==
    ASSUME IInv, MemoryLost, file' \in Seq(Record),
           \A i \in 1..Len(file') : i \in 1..Len(file) /\ file'[i] = file[i],
           synced' \in 0..Len(file'),
           \A i \in 1..synced : i \in 1..synced' /\ i \in 1..Len(file'),
           torn' \in BOOLEAN, restarts' \in 0..MaxRestarts,
           UNCHANGED <<build, recorded>>
    PROVE  IInv'
<1>1. /\ TypeOK /\ RecordedIsDurable /\ OneRecordPerStep /\ OneDefinitionPerRun
  BY DEF IInv, Promises
<1>2. /\ pending' = <<>> /\ waiting' = <<>> /\ batch' = <<>>
      /\ flush' = "none" /\ latched' = FALSE /\ failing' = FALSE /\ poisoned' = FALSE
      /\ index' = Replayed(<<>>) /\ caller' = [c \in Request |-> Idle] /\ up' = FALSE
  BY DEF MemoryLost
<1>3. Len(pending') = 0 /\ Len(waiting') = 0 /\ Len(batch') = 0
  BY <1>2
<1>4. OwnerTypeOK'
  <2>1. <<>> \in Seq(Request) /\ <<>> \in Seq(Member)
    BY EmptySeq
  <2>2. Len(pending') <= QueueDepth /\ Len(waiting') <= MaxWaiting /\ Len(batch') <= MaxBatch
    BY <1>3, OwnerAssumption
  <2>3. QED
    BY <2>1, <2>2, <1>2 DEF OwnerTypeOK
<1>5. Idle \in CallerState
  BY DEF Idle, CallerState
<1>6. TypeOK'
  BY <1>1, <1>2, <1>4, <1>5, NothingReplayed DEF TypeOK
<1>7. \A c \in Request : ~Queued(c)'
  BY <1>3 DEF Queued
<1>8. EachOnce'
  BY <1>3 DEF EachOnce
<1>9. Expected' /\ Stages' /\ OwedIsWritten'
  BY <1>2, <1>3, <1>7 DEF Expected, Stages, OwedIsWritten
<1>10. DownIsEmpty'
  BY <1>2 DEF DownIsEmpty
<1>11. RecordsAreHeld' /\ DefinitionIsKnown' /\ AgreedIsBuild' /\ FailureFindsPoison'
  BY <1>2 DEF RecordsAreHeld, DefinitionIsKnown, AgreedIsBuild, FailureFindsPoison
<1>12. RecordedIsDurable'
  BY <1>1 DEF RecordedIsDurable, InPrefix
<1>13. OneRecordPerStep' /\ OneDefinitionPerRun'
  BY <1>1, SMTT(30) DEF OneRecordPerStep, OneDefinitionPerRun
<1>14. IndexIsWritten'
  BY <1>2, NothingReplayed DEF IndexIsWritten
<1>15. QED
  BY <1>6, <1>8, <1>9, <1>10, <1>11, <1>12, <1>13, <1>14 DEF IInv, Queues, Writes, Promises

LEMMA StopKeeps ==
    ASSUME IInv, Die \/ LosePower \/ Close
    PROVE  IInv'
<1>1. /\ TypeOK /\ file \in Seq(Record) /\ Len(file) \in Nat
      /\ synced \in 0..Len(file) /\ torn \in BOOLEAN
  BY LenProperties DEF IInv, TypeOK
<1>2. restarts' \in 0..MaxRestarts
  <2>1. restarts \in 0..MaxRestarts /\ MaxRestarts \in Nat
    BY <1>1, StoreAssumption DEF TypeOK
  <2>2. restarts < MaxRestarts /\ restarts' = restarts + 1
    BY DEF Die, LosePower, Close
  <2>3. QED
    BY <2>1, <2>2
<1>3. CASE Die \/ Close
  <2>1. MemoryLost /\ UNCHANGED <<file, synced, build, recorded>> /\ torn' \in BOOLEAN
    BY <1>1, <1>3 DEF Die, Close
  <2>2. \A i \in 1..synced : i \in 1..Len(file)
    BY <1>1
  <2>3. QED
    BY <1>1, <1>2, <2>1, <2>2, Lost
<1>4. CASE LosePower
  <2>1. PICK n \in synced..Len(file) : file' = SubSeq(file, 1, n) /\ synced' = n
    BY <1>4 DEF LosePower
  <2>2. MemoryLost /\ UNCHANGED <<build, recorded>> /\ torn' \in BOOLEAN
    BY <1>4 DEF LosePower
  <2>3. n \in Nat /\ \A i \in 1..n : file[i] \in Record
    BY <1>1, ElementOfSeq
  <2>4. file' \in Seq(Record) /\ Len(file') = n /\ \A i \in 1..n : file'[i] = file[i]
    BY <1>1, <2>1, <2>3, SubSeqProperties
  <2>5. /\ \A i \in 1..Len(file') : i \in 1..Len(file) /\ file'[i] = file[i]
        /\ synced' \in 0..Len(file')
        /\ \A i \in 1..synced : i \in 1..synced' /\ i \in 1..Len(file')
    BY <1>1, <2>1, <2>4
  <2>6. QED
    BY <1>2, <2>2, <2>4, <2>5, Lost
<1>5. QED
  BY <1>3, <1>4

LEMMA ReopenKeeps ==
    ASSUME IInv, Reopen
    PROVE  IInv'
<1>1. /\ TypeOK /\ EachOnce /\ Expected /\ Stages /\ DownIsEmpty /\ OwedIsWritten
      /\ RecordedIsDurable /\ OneRecordPerStep /\ OneDefinitionPerRun
  BY DEF IInv, Queues, Writes, Promises
<1>2. /\ ~up /\ up' = TRUE /\ build' \in Definition /\ index' = Replayed(file)
      /\ torn' = FALSE /\ synced' = IF torn THEN Len(file) ELSE synced
      /\ UNCHANGED <<file, caller, restarts, recorded>>
      /\ UNCHANGED <<pending, waiting, batch, flush, latched, failing, poisoned>>
  BY DEF Reopen, ownerVars
<1>3. /\ batch = <<>> /\ Len(pending) = 0 /\ Len(waiting) = 0 /\ Len(batch) = 0
      /\ \A c \in Request : caller[c].at = "idle"
  <2>1. /\ pending = <<>> /\ waiting = <<>> /\ batch = <<>>
        /\ \A c \in Request : caller[c] = Idle
    BY <1>1, <1>2 DEF DownIsEmpty
  <2>2. Idle.at = "idle"
    BY DEF Idle
  <2>3. QED
    BY <2>1, <2>2
<1>4. /\ file \in Seq(Record) /\ Len(file) \in Nat /\ synced \in 0..Len(file)
      /\ synced' \in synced..Len(file)
  BY <1>1, <1>2, LenProperties DEF TypeOK
<1>5. /\ index' \in Index
      /\ \A r \in Run, k \in Key :
           index'.steps[r][k] # None =>
             \E i \in 1..Len(file) : /\ file[i].run = r /\ file[i].key = k
                                      /\ file[i].value = index'.steps[r][k]
      /\ \A i \in 1..Len(file) : index'.steps[file[i].run][file[i].key] # None
      /\ \A i \in 1..Len(file) : \E j \in 1..Len(file) :
           /\ file[j].run = file[i].run
           /\ index'.runs[file[i].run].definition = file[j].definition
  <2> DEFINE ix == Replayed(file)
  <2>1. /\ ix \in Index
        /\ \A r \in Run, k \in Key :
             ix.steps[r][k] # None =>
               \E i \in 1..Len(file) : /\ file[i].run = r /\ file[i].key = k
                                        /\ file[i].value = ix.steps[r][k]
        /\ \A i \in 1..Len(file) : ix.steps[file[i].run][file[i].key] # None
        /\ \A i \in 1..Len(file) : \E j \in 1..Len(file) :
             /\ file[j].run = file[i].run
             /\ ix.runs[file[i].run].definition = file[j].definition
    BY <1>4, ReplayedIs
  <2>2. index' = ix
    BY <1>2
  <2> HIDE DEF ix
  <2>3. QED
    BY <2>1, <2>2
<1>6. TypeOK'
  <2>1. OwnerTypeOK'
    BY <1>1, <1>2 DEF TypeOK, OwnerTypeOK
  <2>2. synced' \in 0..Len(file) /\ index' \in Index
    BY <1>4, <1>5
  <2>3. caller \in [Request -> CallerState] /\ restarts \in 0..MaxRestarts /\ recorded \subseteq Record
    BY <1>1 DEF TypeOK
  <2>4. QED
    BY <2>1, <2>2, <2>3, <1>2, <1>4 DEF TypeOK
<1>7. EachOnce' /\ Expected' /\ OwedIsWritten'
  BY <1>2, <1>3 DEF EachOnce, Expected, Queued, OwedIsWritten
<1>8. Stages' /\ DownIsEmpty'
  BY <1>1, <1>2, <1>3 DEF Stages, DownIsEmpty
<1>9. RecordsAreHeld'
  BY <1>2, <1>5 DEF RecordsAreHeld
<1>10. DefinitionIsKnown'
  <2> SUFFICES ASSUME NEW i \in 1..Len(file),
                      index'.runs[file[i].run].definition \in {None, build'}
               PROVE  file[i].definition = build'
    BY <1>2 DEF DefinitionIsKnown
  <2>1. PICK j \in 1..Len(file) :
           /\ file[j].run = file[i].run
           /\ index'.runs[file[i].run].definition = file[j].definition
    BY <1>5
  <2>2. file[j] \in Record
    BY <1>4, ElementOfSeq
  <2>3. file[j].definition # None
    BY <2>2, StoreAssumption DEF Record
  <2>4. file[i].definition = file[j].definition
    BY <2>1, <1>1 DEF OneDefinitionPerRun
  <2>5. QED
    BY <2>1, <2>3, <2>4
<1>11. AgreedIsBuild' /\ FailureFindsPoison'
  BY <1>2, <1>3 DEF AgreedIsBuild, FailureFindsPoison
<1>12. RecordedIsDurable'
  <2>1. \A i \in 1..synced : i \in 1..synced'
    BY <1>4
  <2>2. QED
    BY <2>1, <1>1, <1>2 DEF RecordedIsDurable, InPrefix
<1>13. OneRecordPerStep' /\ OneDefinitionPerRun' /\ IndexIsWritten'
  BY <1>1, <1>2, <1>5 DEF OneRecordPerStep, OneDefinitionPerRun, IndexIsWritten
<1>14. QED
  BY <1>6, <1>7, <1>8, <1>9, <1>10, <1>11, <1>12, <1>13 DEF IInv, Queues, Writes, Promises

-----------------------------------------------------------------------------

LEMMA InitIInv == ASSUME Init PROVE IInv
<1>1. /\ pending = <<>> /\ waiting = <<>> /\ batch = <<>>
      /\ flush = "none" /\ latched = FALSE /\ failing = FALSE /\ poisoned = FALSE
      /\ file = <<>> /\ torn = FALSE /\ synced = 0 /\ index = Replayed(<<>>)
      /\ caller = [c \in Request |-> Idle] /\ build \in Definition
      /\ up = TRUE /\ restarts = 0 /\ recorded = {}
  BY DEF Init, OwnerInit
<1>2. /\ Len(pending) = 0 /\ Len(waiting) = 0 /\ Len(batch) = 0 /\ Len(file) = 0
      /\ file \in Seq(Record)
  BY <1>1, NothingReplayed
<1>3. OwnerTypeOK
  <2>1. <<>> \in Seq(Request) /\ <<>> \in Seq(Member)
    BY EmptySeq
  <2>2. Len(pending) <= QueueDepth /\ Len(waiting) <= MaxWaiting /\ Len(batch) <= MaxBatch
    BY <1>2, OwnerAssumption
  <2>3. QED
    BY <2>1, <2>2, <1>1 DEF OwnerTypeOK
<1>4. Idle \in CallerState /\ Idle.at = "idle"
  BY DEF Idle, CallerState
<1>5. TypeOK
  <2>1. restarts \in 0..MaxRestarts /\ synced \in 0..Len(file)
    BY <1>1, <1>2, StoreAssumption
  <2>2. QED
    BY <2>1, <1>1, <1>2, <1>3, <1>4, NothingReplayed DEF TypeOK
<1>6. \A c \in Request : caller[c].at = "idle" /\ ~Queued(c)
  <2>1. \A c \in Request : caller[c] = Idle
    BY <1>1
  <2>2. \A c \in Request : caller[c].at = "idle"
    BY <2>1, <1>4
  <2>3. \A c \in Request : ~Queued(c)
    BY <1>2 DEF Queued
  <2>4. QED
    BY <2>2, <2>3
<1>7. EachOnce /\ Expected /\ Stages /\ DownIsEmpty
  BY <1>1, <1>2, <1>6 DEF EachOnce, Expected, Stages, DownIsEmpty
<1>8. OwedIsWritten /\ RecordsAreHeld /\ DefinitionIsKnown /\ AgreedIsBuild
  BY <1>2 DEF OwedIsWritten, RecordsAreHeld, DefinitionIsKnown, AgreedIsBuild
<1>9. RecordedIsDurable /\ OneRecordPerStep /\ OneDefinitionPerRun
  BY <1>1, <1>2 DEF RecordedIsDurable, OneRecordPerStep, OneDefinitionPerRun
<1>10. IndexIsWritten /\ FailureFindsPoison
  BY <1>1, <1>6, NothingReplayed DEF IndexIsWritten, FailureFindsPoison
<1>11. QED
  BY <1>5, <1>7, <1>8, <1>9, <1>10 DEF IInv, Queues, Writes, Promises

LEMMA StutterIInv == ASSUME IInv, UNCHANGED vars PROVE IInv'
<1>1. /\ UNCHANGED <<pending, waiting, batch, flush, latched, failing, poisoned>>
      /\ UNCHANGED <<file, torn, synced, index, caller, build, up, restarts, recorded>>
  BY DEF vars, ownerVars, storeVars
<1>2. /\ TypeOK /\ EachOnce /\ Expected /\ Stages /\ DownIsEmpty
      /\ OwedIsWritten /\ RecordsAreHeld /\ DefinitionIsKnown /\ AgreedIsBuild
      /\ RecordedIsDurable /\ OneRecordPerStep /\ OneDefinitionPerRun
      /\ IndexIsWritten /\ FailureFindsPoison
  BY DEF IInv, Queues, Writes, Promises
<1>3. TypeOK'
  BY <1>1, <1>2 DEF TypeOK, OwnerTypeOK
<1>4. EachOnce' /\ Expected' /\ Stages' /\ DownIsEmpty'
  BY <1>1, <1>2 DEF EachOnce, Expected, Queued, Stages, AnswerOf, DownIsEmpty
<1>5. OwedIsWritten' /\ RecordsAreHeld' /\ DefinitionIsKnown' /\ AgreedIsBuild'
  BY <1>1, <1>2 DEF OwedIsWritten, RecordOf, RecordsAreHeld, DefinitionIsKnown, AgreedIsBuild
<1>6. RecordedIsDurable' /\ OneRecordPerStep' /\ OneDefinitionPerRun'
  BY <1>1, <1>2 DEF RecordedIsDurable, InPrefix, OneRecordPerStep, OneDefinitionPerRun
<1>7. IndexIsWritten' /\ FailureFindsPoison'
  BY <1>1, <1>2 DEF IndexIsWritten, FailureFindsPoison
<1>8. QED
  BY <1>3, <1>4, <1>5, <1>6, <1>7 DEF IInv, Queues, Writes, Promises

LEMMA NextIInv == ASSUME IInv, [Next]_vars PROVE IInv'
<1>1. ASSUME NEW c \in Request, CheckDefinition(c) PROVE IInv'
  BY <1>1, CheckDefinitionKeeps
<1>2. ASSUME NEW c \in Request, Lookup(c) PROVE IInv'
  BY <1>2, LookupKeeps
<1>3. ASSUME NEW c \in Request, Submit(c) PROVE IInv'
  BY <1>3, SubmitKeeps
<1>4. ASSUME NEW c \in Request, Abandon(c) PROVE IInv'
  BY <1>4, AbandonKeeps
<1>5. ASSUME NEW c \in Request, StageSettled(c) PROVE IInv'
  BY <1>5, StageSettledKeeps
<1>6. ASSUME NEW c \in Request, StageWritten(c) PROVE IInv'
  BY <1>6, StageWrittenKeeps
<1>7. ASSUME NEW c \in Request, StageWriteFailed(c) PROVE IInv'
  BY <1>7, StageWriteFailedKeeps
<1>8. ASSUME NEW ok \in BOOLEAN, Flush(ok) PROVE IInv'
  BY <1>8, FlushKeeps
<1>9. CASE LatchAnswer
  BY <1>9, LatchAnswerKeeps
<1>10. CASE PublishAnswer
  BY <1>10, PublishAnswerKeeps
<1>11. CASE Die \/ LosePower \/ Close
  BY <1>11, StopKeeps
<1>12. CASE Reopen
  BY <1>12, ReopenKeeps
<1>13. CASE UNCHANGED vars
  BY <1>13, StutterIInv
<1>14. QED
  BY <1>1, <1>2, <1>3, <1>4, <1>5, <1>6, <1>7, <1>8, <1>9, <1>10, <1>11, <1>12, <1>13
     DEF Next, Owner

LEMMA SpecIInv == Spec => []IInv
<1>1. Init => IInv
  BY InitIInv
<1>2. IInv /\ [Next]_vars => IInv'
  BY NextIInv
<1>3. QED
  BY <1>1, <1>2, PTL DEF Spec

(* The rings and the batch keep their bounds, and every variable its type, *)
(* through every append, batch, failure and restart.                       *)
THEOREM TypeCorrect == Spec => []TypeOK
<1>1. IInv => TypeOK
  BY DEF IInv
<1>2. QED
  BY <1>1, SpecIInv, PTL

(* What a caller was told is recorded is on the device for good, for every *)
(* interleaving of callers, batches, failed writes and flushes, abandoned  *)
(* waits, crashes, power losses and reopens.                               *)
THEOREM RecordedStaysDurable == Spec => []RecordedIsDurable
<1>1. IInv => RecordedIsDurable
  BY DEF IInv, Promises
<1>2. QED
  BY <1>1, SpecIInv, PTL

(* decide_and_write never lets two records of one step into the file.      *)
THEOREM StepsWrittenOnce == Spec => []OneRecordPerStep
<1>1. IInv => OneRecordPerStep
  BY DEF IInv, Promises
<1>2. QED
  BY <1>1, SpecIInv, PTL

(* A run that a changed build resumes is never continued under another     *)
(* definition than the one its records name.                               *)
THEOREM RunsKeepTheirDefinition == Spec => []OneDefinitionPerRun
<1>1. IInv => OneDefinitionPerRun
  BY DEF IInv, Promises
<1>2. QED
  BY <1>1, SpecIInv, PTL

(* No lookup is ever answered from a record that is not in the file.       *)
THEOREM IndexStaysWritten == Spec => []IndexIsWritten
<1>1. IInv => IndexIsWritten
  BY DEF IInv, Promises
<1>2. QED
  BY <1>1, SpecIInv, PTL

(* Whoever has been told of a failure finds the handle refusing.           *)
THEOREM FailureLatches == Spec => []FailureFindsPoison
<1>1. IInv => FailureFindsPoison
  BY DEF IInv, Promises
<1>2. QED
  BY <1>1, SpecIInv, PTL

-----------------------------------------------------------------------------
(* A usable handle.  While it is not poisoned its index lags behind its    *)
(* file by exactly the members of the batch that have not been latched.    *)

Unlatched == {i \in 1..Len(batch) : latched => i > 1}

OwesFor(i, r) == batch[i].owes /\ Step[batch[i].request].run = r

CountIsFile ==
    (\A i \in Unlatched : batch[i].answer # "Error")
        => index.committed = Len(file) /\ ~torn

(* What is staged has a member that will fold it, or will poison the       *)
(* handle.                                                                 *)
StagedFor(i, r, k) ==
    /\ Step[batch[i].request].run = r /\ Step[batch[i].request].key = k
    /\ batch[i].owes \/ batch[i].answer = "Error"

StagedIsOwed ==
    \A r \in Run, k \in Key :
        index.staged[r][k] # None => \E i \in Unlatched : StagedFor(i, r, k)

IsFirst(f, i, r) ==
    /\ i \in 1..Len(f) /\ f[i].run = r
    /\ \A j \in 1..Len(f) : f[j].run = r => i <= j

Heading(rec) == [tenant |-> rec.tenant, definition |-> rec.definition]

(* A run the index knows is named after its first record...                *)
RunsAreFirst ==
    \A r \in Run : index.runs[r] # NoRun =>
        \E i \in 1..Len(file) :
            IsFirst(file, i, r) /\ index.runs[r] = Heading(file[i])

(* ... and one it does not know yet will be: its first record is that of   *)
(* the first member that owes it one.                                      *)
FirstOwes(i, r, t) ==
    /\ OwesFor(i, r)
    /\ Step[batch[i].request].tenant = t
    /\ \A h \in Unlatched : OwesFor(h, r) => i <= h

NewRunIsOwed ==
    \A r \in Run : index.runs[r] = NoRun =>
        \A j \in 1..Len(file) : IsFirst(file, j, r) =>
            \E i \in Unlatched : FirstOwes(i, r, file[j].tenant)

Lagging == CountIsFile /\ StagedIsOwed /\ RunsAreFirst /\ NewRunIsOwed

Healthy == up /\ ~poisoned => Lagging

LEMMA HealthySame ==
    ASSUME Healthy, UNCHANGED <<file, torn, index, up, poisoned, batch, latched>>
    PROVE  Healthy'
BY DEF Healthy, Lagging, CountIsFile, StagedIsOwed, StagedFor, RunsAreFirst,
       NewRunIsOwed, FirstOwes, OwesFor, Unlatched

LEMMA CommittedIs ==
    ASSUME index \in Index, NEW c \in Request
    PROVE  /\ Reserved(c).committed = index.committed + 1
           /\ Settled(c).committed = index.committed
<1>1. index.committed \in Nat
  BY DEF Index
<1>2. WithStaged(index, c, caller[c].value) \in
         [runs : {index.runs}, steps : {index.steps},
          staged : {WithStep(index.staged, c, caller[c].value)},
          committed : {index.committed}]
  BY DEF WithStaged, Index
<1>3. WithStaged(index, c, None) \in
         [runs : {index.runs}, steps : {index.steps},
          staged : {WithStep(index.staged, c, None)},
          committed : {index.committed}]
  BY DEF WithStaged, Index
<1>4. Reserved(c).committed = index.committed + 1
  BY <1>2 DEF Reserved
<1>5. Settled(c).committed = index.committed
  BY <1>3 DEF Settled
<1>6. QED
  BY <1>4, <1>5

LEMMA StagingIsHealthy ==
    ASSUME IInv, Healthy, NEW m \in Member, StageNext(m), UNCHANGED <<caller, up>>,
           \/ m.answer = "Error"
           \/ index'.committed - index.committed = Len(file') - Len(file) /\ torn' = torn,
           \A r \in Run, k \in Key :
             \/ index'.staged[r][k] = index.staged[r][k]
             \/ /\ Step[m.request].run = r /\ Step[m.request].key = k
                /\ m.owes \/ m.answer = "Error",
           index'.runs = index.runs, index'.committed \in Nat,
           file' = file \/ (m.owes /\ file' = Append(file, RecordOf(m.request)))
    PROVE  Healthy'
<1>1. /\ TypeOK /\ OwnerTypeOK /\ OwedIsWritten /\ file \in Seq(Record) /\ Len(file) \in Nat
      /\ index.committed \in Nat /\ m.request \in Request
      /\ batch \in Seq(Member) /\ Len(batch) \in Nat
  BY LenProperties DEF IInv, Writes, TypeOK, OwnerTypeOK, Index, Member
<1>0. PICK n \in Nat : n = Len(batch) + 1
  BY <1>1
<1>2. flush = "none" /\ latched' = latched /\ poisoned' = poisoned /\ latched = FALSE
  BY Staging DEF StageNext
<1>3. /\ batch' = Append(batch, m) /\ Len(batch') = n /\ batch'[n] = m
      /\ \A i \in 1..Len(batch) : batch'[i] = batch[i]
  BY <1>0, <1>1, AppendProperties DEF StageNext
<1>4. /\ Unlatched = 1..Len(batch) /\ Unlatched' = 1..n
      /\ n \in Unlatched' /\ Unlatched \subseteq Unlatched'
      /\ \A i \in Unlatched' : i \in Unlatched \/ i = n
  BY <1>0, <1>1, <1>2, <1>3 DEF Unlatched
<1> SUFFICES ASSUME up', ~poisoned'
             PROVE  Lagging'
  BY DEF Healthy
<1>5. CountIsFile /\ StagedIsOwed /\ RunsAreFirst /\ NewRunIsOwed
  BY <1>2 DEF Healthy, Lagging
<1>6. CountIsFile'
  <2> SUFFICES ASSUME \A i \in Unlatched' : batch'[i].answer # "Error"
               PROVE  index'.committed = Len(file') /\ ~torn'
    BY DEF CountIsFile
  <2>1. m.answer # "Error"
    BY <1>3, <1>4
  <2>2. \A i \in Unlatched : batch[i].answer # "Error"
    BY <1>3, <1>4
  <2>3. index.committed = Len(file) /\ ~torn
    BY <2>2, <1>5 DEF CountIsFile
  <2>4. RecordOf(m.request) \in Record
    BY <1>1, Staging, RecordOfType DEF TypeOK
  <2>5. Len(file') \in Nat
    BY <2>4, <1>1, AppendProperties
  <2>6. QED
    BY <2>1, <2>3, <2>5, <1>1
<1>7. StagedIsOwed'
  <2> SUFFICES ASSUME NEW r \in Run, NEW k \in Key, index'.staged[r][k] # None
               PROVE  \E i \in Unlatched' : StagedFor(i, r, k)'
    BY DEF StagedIsOwed
  <2>1. CASE index'.staged[r][k] = index.staged[r][k]
    <3>1. PICK i \in Unlatched : StagedFor(i, r, k)
      BY <2>1, <1>5 DEF StagedIsOwed
    <3>2. StagedFor(i, r, k)'
      BY <3>1, <1>3, <1>4 DEF StagedFor
    <3>3. QED
      BY <3>2, <1>4
  <2>2. CASE index'.staged[r][k] # index.staged[r][k]
    <3>1. StagedFor(n, r, k)'
      BY <2>2, <1>3 DEF StagedFor
    <3>2. QED
      BY <3>1, <1>4
  <2>3. QED
    BY <2>1, <2>2
<1>8. CASE file' = file
  <2>1. RunsAreFirst'
    BY <1>8, <1>5 DEF RunsAreFirst
  <2>2. NewRunIsOwed'
    <3> SUFFICES ASSUME NEW r \in Run, index.runs[r] = NoRun,
                        NEW j \in 1..Len(file), IsFirst(file, j, r)
                 PROVE  \E i \in Unlatched' : FirstOwes(i, r, file[j].tenant)'
      BY <1>8 DEF NewRunIsOwed
    <3>1. PICK i \in Unlatched : FirstOwes(i, r, file[j].tenant)
      BY <1>5 DEF NewRunIsOwed
    <3>2. \A h \in Unlatched' : OwesFor(h, r)' => i <= h
      <4> SUFFICES ASSUME NEW h \in Unlatched', OwesFor(h, r)' PROVE i <= h
        OBVIOUS
      <4>1. CASE h \in Unlatched
        BY <4>1, <3>1, <1>3, <1>4 DEF FirstOwes, OwesFor
      <4>2. CASE h = n
        BY <4>2, <1>0, <1>1, <1>4
      <4>3. QED
        BY <4>1, <4>2, <1>4
    <3>3. FirstOwes(i, r, file[j].tenant)'
      BY <3>1, <3>2, <1>3, <1>4, <1>8 DEF FirstOwes, OwesFor
    <3>4. QED
      BY <3>3, <1>4
  <2>3. QED
    BY <1>6, <1>7, <2>1, <2>2 DEF Lagging
<1>9. CASE m.owes /\ file' = Append(file, RecordOf(m.request))
  <2> DEFINE rec == RecordOf(m.request)
             R == Step[m.request].run
  <2>1. rec \in Record /\ rec.run = R /\ rec.tenant = Step[m.request].tenant
    BY <1>1, Staging, RecordOfType DEF TypeOK, RecordOf
  <2> HIDE DEF rec
  <2>2. /\ Len(file') = Len(file) + 1 /\ file'[Len(file')] = rec
        /\ Len(file') \in 1..Len(file') /\ Len(file') \in Nat
        /\ \A i \in 1..Len(file) : i \in 1..Len(file') /\ file'[i] = file[i]
        /\ \A i \in 1..Len(file') : i \in 1..Len(file) \/ i = Len(file')
    BY <2>1, <1>1, <1>9, AppendProperties DEF rec
  <2>3. ASSUME NEW r \in Run, NEW i \in 1..Len(file), IsFirst(file, i, r)
        PROVE  IsFirst(file', i, r)
    <3>1. i \in 1..Len(file') /\ file'[i].run = r
      BY <2>2, <2>3 DEF IsFirst
    <3>2. ASSUME NEW j \in 1..Len(file'), file'[j].run = r PROVE i <= j
      <4>1. CASE j \in 1..Len(file)
        BY <4>1, <3>2, <2>2, <2>3 DEF IsFirst
      <4>2. CASE j = Len(file')
        BY <4>2, <2>2, <1>1
      <4>3. QED
        BY <4>1, <4>2, <2>2
    <3>3. QED
      BY <3>1, <3>2 DEF IsFirst
  <2>4. RunsAreFirst'
    <3> SUFFICES ASSUME NEW r \in Run, index.runs[r] # NoRun
                 PROVE  \E i \in 1..Len(file') :
                          IsFirst(file', i, r) /\ index.runs[r] = Heading(file'[i])
      BY DEF RunsAreFirst
    <3>1. PICK i \in 1..Len(file) : IsFirst(file, i, r) /\ index.runs[r] = Heading(file[i])
      BY <1>5 DEF RunsAreFirst
    <3>2. QED
      BY <3>1, <2>2, <2>3
  <2>5. NewRunIsOwed'
    <3> SUFFICES ASSUME NEW r \in Run, index.runs[r] = NoRun,
                        NEW j \in 1..Len(file'), IsFirst(file', j, r)
                 PROVE  \E i \in Unlatched' : FirstOwes(i, r, file[j].tenant)'
      BY DEF NewRunIsOwed
    <3>1. CASE j \in 1..Len(file)
      <4>1. IsFirst(file, j, r)
        BY <3>1, <2>2 DEF IsFirst
      <4>2. PICK i \in Unlatched : FirstOwes(i, r, file[j].tenant)
        BY <3>1, <4>1, <1>5 DEF NewRunIsOwed
      <4>3. \A h \in Unlatched' : OwesFor(h, r)' => i <= h
        <5> SUFFICES ASSUME NEW h \in Unlatched', OwesFor(h, r)' PROVE i <= h
          OBVIOUS
        <5>1. CASE h \in Unlatched
          BY <5>1, <4>2, <1>3, <1>4 DEF FirstOwes, OwesFor
        <5>2. CASE h = n
          BY <5>2, <1>0, <1>1, <1>4
        <5>3. QED
          BY <5>1, <5>2, <1>4
      <4>4. FirstOwes(i, r, file[j].tenant)'
        BY <4>2, <4>3, <3>1, <1>3, <1>4, <2>2 DEF FirstOwes, OwesFor
      <4>5. QED
        BY <4>4, <1>4
    <3>2. CASE j = Len(file')
      <4>1. r = R /\ file'[j].tenant = Step[m.request].tenant
        BY <3>2, <2>1, <2>2 DEF IsFirst
      <4>2. \A h \in 1..Len(file) : file[h].run # r
        BY <3>2, <2>2, <1>1 DEF IsFirst
      <4>3. \A h \in Unlatched : ~OwesFor(h, r)
        <5> SUFFICES ASSUME NEW h \in 1..Len(batch), OwesFor(h, r) PROVE FALSE
          BY <1>4
        <5>1. PICK i \in 1..Len(file) : file[i] = RecordOf(batch[h].request)
          BY <1>1 DEF OwedIsWritten, OwesFor
        <5>2. file[i].run = r
          BY <5>1 DEF OwesFor, RecordOf
        <5>3. QED
          BY <5>2, <4>2
      <4>4. \A h \in Unlatched' : OwesFor(h, r)' => n <= h
        <5> SUFFICES ASSUME NEW h \in Unlatched', OwesFor(h, r)' PROVE n <= h
          OBVIOUS
        <5>1. CASE h \in Unlatched
          <6>1. OwesFor(h, r)
            BY <5>1, <1>3, <1>4 DEF OwesFor
          <6>2. QED
            BY <6>1, <5>1, <4>3
        <5>2. CASE h = n
          BY <5>2, <1>0
        <5>3. QED
          BY <5>1, <5>2, <1>4
      <4>5. FirstOwes(n, r, file[j].tenant)'
        BY <4>1, <4>4, <1>3, <1>9 DEF FirstOwes, OwesFor
      <4>6. QED
        BY <4>5, <1>4
    <3>3. QED
      BY <3>1, <3>2, <2>2
  <2>6. QED
    BY <1>6, <1>7, <2>4, <2>5 DEF Lagging
<1>10. QED
  BY <1>8, <1>9

LEMMA StageSettledIsHealthy ==
    ASSUME IInv, Healthy, NEW c \in Request, StageSettled(c)
    PROVE  Healthy'
<1> DEFINE a == IF Decided(c) = "Recorded" THEN "Error" ELSE Decided(c)
           m == [request |-> c, owes |-> FALSE, answer |-> a]
<1>1. a \in Answers
  BY DEF Decided, SameOrNot, Answers
<1>2. StageNext(m) /\ UNCHANGED storeVars
  BY DEF StageSettled
<1> HIDE DEF a
<1>3. m \in Member
  BY <1>1 DEF Member
<1> HIDE DEF m
<1>4. UNCHANGED <<file, torn, index, caller, up>>
  BY <1>2 DEF storeVars
<1>5. /\ index'.committed \in Nat
      /\ index'.committed - index.committed = Len(file') - Len(file)
      /\ index'.runs = index.runs /\ torn' = torn /\ file' = file
  BY <1>4, LenProperties DEF IInv, TypeOK, Index
<1>6. \A r \in Run, k \in Key : index'.staged[r][k] = index.staged[r][k]
  BY <1>4
<1>7. UNCHANGED <<caller, up>>
  BY <1>4
<1>8. file' = file \/ (m.owes /\ file' = Append(file, RecordOf(m.request)))
  BY <1>5
<1>9. QED
  BY <1>2, <1>3, <1>5, <1>6, <1>7, <1>8, StagingIsHealthy

LEMMA StageWrittenIsHealthy ==
    ASSUME IInv, Healthy, NEW c \in Request, StageWritten(c)
    PROVE  Healthy'
<1> DEFINE m == [request |-> c, owes |-> TRUE, answer |-> "Recorded"]
<1>1. m \in Member /\ m.request = c /\ m.owes
  BY DEF Member, Answers
<1>2. StageNext(m) /\ UNCHANGED <<torn, caller, up>> /\ index' = Reserved(c)
      /\ file' = Append(file, RecordOf(c))
  BY DEF StageWritten
<1> HIDE DEF m
<1>3. /\ TypeOK /\ Len(file) \in Nat /\ file \in Seq(Record) /\ index.committed \in Nat
      /\ index \in Index /\ build \in Definition
  BY LenProperties DEF IInv, TypeOK, Index
<1>4. caller[c].value \in Value
  BY <1>1, <1>2, Staging
<1>5. /\ index'.runs = index.runs /\ index'.committed = index.committed + 1
      /\ \A r \in Run, k \in Key :
           index'.staged[r][k] = IF r = Step[c].run /\ k = Step[c].key
                                 THEN caller[c].value ELSE index.staged[r][k]
  BY <1>2, <1>3, <1>4, ReservedIs, CommittedIs
<1>6. Len(file') = Len(file) + 1
  BY <1>2, <1>3, <1>4, RecordOfType, AppendProperties
<1>7. /\ index'.committed - index.committed = Len(file') - Len(file)
      /\ index'.committed \in Nat
  BY <1>3, <1>5, <1>6
<1>8. \A r \in Run, k \in Key :
        \/ index'.staged[r][k] = index.staged[r][k]
        \/ /\ Step[m.request].run = r /\ Step[m.request].key = k
           /\ m.owes \/ m.answer = "Error"
  BY <1>1, <1>5
<1>9. QED
  BY <1>1, <1>2, <1>5, <1>7, <1>8, StagingIsHealthy

LEMMA StageWriteFailedIsHealthy ==
    ASSUME IInv, Healthy, NEW c \in Request, StageWriteFailed(c)
    PROVE  Healthy'
<1> DEFINE m == [request |-> c, owes |-> FALSE, answer |-> "Error"]
<1>1. m \in Member /\ m.request = c /\ m.answer = "Error"
  BY DEF Member, Answers
<1>2. StageNext(m) /\ UNCHANGED <<file, caller, up>> /\ index' = Reserved(c)
  BY DEF StageWriteFailed
<1> HIDE DEF m
<1>3. index \in Index /\ index.committed \in Nat
  BY DEF IInv, TypeOK, Index
<1>4. caller[c].value \in Value
  BY <1>1, <1>2, Staging
<1>5. /\ index'.runs = index.runs /\ index'.committed = index.committed + 1
      /\ \A r \in Run, k \in Key :
           index'.staged[r][k] = IF r = Step[c].run /\ k = Step[c].key
                                 THEN caller[c].value ELSE index.staged[r][k]
  BY <1>2, <1>3, <1>4, ReservedIs, CommittedIs
<1>6. \A r \in Run, k \in Key :
        \/ index'.staged[r][k] = index.staged[r][k]
        \/ /\ Step[m.request].run = r /\ Step[m.request].key = k
           /\ m.owes \/ m.answer = "Error"
  BY <1>1, <1>5
<1>7. index'.committed \in Nat
  BY <1>3, <1>5
<1>8. UNCHANGED <<caller, up>>
  BY <1>2
<1>9. file' = file \/ (m.owes /\ file' = Append(file, RecordOf(m.request)))
  BY <1>2
<1>10. QED
  BY <1>1, <1>2, <1>5, <1>6, <1>7, <1>8, <1>9, StagingIsHealthy

LEMMA LatchIsHealthy ==
    ASSUME IInv, Healthy, LatchAnswer
    PROVE  Healthy'
<1> SUFFICES ASSUME up', ~poisoned'
             PROVE  Lagging'
  BY DEF Healthy
<1>1. PICK c \in Request :
         /\ batch # <<>> /\ Head(batch).request = c
         /\ Latch(caller[c].at = "left")
         /\ index' = IF Head(batch).owes /\ flush = "ok" THEN Settled(c) ELSE index
  BY DEF LatchAnswer
<1>2. UNCHANGED <<file, torn, synced, caller, build, up, restarts, recorded>>
  BY DEF LatchAnswer
<1>3. /\ TypeOK /\ OwnerTypeOK /\ EachOnce /\ Expected /\ DownIsEmpty /\ OwedIsWritten
      /\ OneDefinitionPerRun /\ index \in Index /\ build \in Definition
      /\ batch \in Seq(Member) /\ Len(batch) \in Nat /\ flush \in {"none", "ok", "failed"}
  BY LenProperties DEF IInv, Queues, Writes, Promises, TypeOK, OwnerTypeOK
<1>4. /\ Len(batch) \in Nat \ {0} /\ Head(batch) = batch[1] /\ Head(batch) \in Member
      /\ Queued(c)
  BY <1>1, <1>3, HeadOfBatch
<1>5. caller[c].value \in Value
  BY <1>3, <1>4 DEF Expected
<1>6. /\ flush # "none" /\ latched = FALSE /\ latched' = TRUE /\ batch' = batch
      /\ failing' = PoisonsWith(Head(batch), caller[c].at = "left")
      /\ poisoned' = (poisoned \/ failing')
  BY <1>1, <1>3 DEF Latch, OwnerTypeOK
<1>7. ~poisoned /\ AnswerOf(batch[1]) # "Error"
  BY <1>4, <1>6 DEF PoisonsWith
<1>8. batch[1].answer # "Error" /\ (batch[1].owes => flush = "ok")
  BY <1>3, <1>6, <1>7 DEF AnswerOf
<1>9. /\ Unlatched = 1..Len(batch) /\ 1 \in Unlatched
      /\ Unlatched' = {i \in 1..Len(batch) : i > 1}
      /\ \A i \in Unlatched : i \in Unlatched' \/ i = 1
      /\ \A i \in Unlatched' : i \in Unlatched /\ 1 <= i
  BY <1>4, <1>6 DEF Unlatched
<1>10. CountIsFile /\ StagedIsOwed /\ RunsAreFirst /\ NewRunIsOwed
  BY <1>2, <1>7 DEF Healthy, Lagging
<1>11. index'.committed = index.committed
  BY <1>1, <1>3, CommittedIs
<1>12. CountIsFile'
  <2> SUFFICES ASSUME \A i \in Unlatched' : batch[i].answer # "Error"
               PROVE  index'.committed = Len(file') /\ ~torn'
    BY <1>6 DEF CountIsFile
  <2>1. \A i \in Unlatched : batch[i].answer # "Error"
    BY <1>8, <1>9
  <2>2. QED
    BY <2>1, <1>2, <1>10, <1>11 DEF CountIsFile
<1>13. CASE ~batch[1].owes
  <2>1. index' = index
    BY <1>1, <1>4, <1>13
  <2>2. StagedIsOwed'
    <3> SUFFICES ASSUME NEW r \in Run, NEW k \in Key, index.staged[r][k] # None
                 PROVE  \E i \in Unlatched' : StagedFor(i, r, k)'
      BY <2>1 DEF StagedIsOwed
    <3>1. PICK i \in Unlatched : StagedFor(i, r, k)
      BY <1>10 DEF StagedIsOwed
    <3>2. i # 1
      BY <3>1, <1>8, <1>13 DEF StagedFor
    <3>3. i \in Unlatched' /\ StagedFor(i, r, k)'
      BY <3>1, <3>2, <1>6, <1>9 DEF StagedFor
    <3>4. QED
      BY <3>3
  <2>3. RunsAreFirst'
    BY <2>1, <1>2, <1>10 DEF RunsAreFirst
  <2>4. NewRunIsOwed'
    <3> SUFFICES ASSUME NEW r \in Run, index.runs[r] = NoRun,
                        NEW j \in 1..Len(file), IsFirst(file, j, r)
                 PROVE  \E i \in Unlatched' : FirstOwes(i, r, file[j].tenant)'
      BY <2>1, <1>2 DEF NewRunIsOwed
    <3>1. PICK i \in Unlatched : FirstOwes(i, r, file[j].tenant)
      BY <1>10 DEF NewRunIsOwed
    <3>2. i \in Unlatched'
      BY <3>1, <1>9, <1>13 DEF FirstOwes, OwesFor
    <3>3. FirstOwes(i, r, file[j].tenant)'
      BY <3>1, <1>2, <1>6, <1>9 DEF FirstOwes, OwesFor
    <3>4. QED
      BY <3>2, <3>3
  <2>5. QED
    BY <1>12, <2>2, <2>3, <2>4 DEF Lagging
<1>14. CASE batch[1].owes
  <2> DEFINE R == Step[c].run
             K == Step[c].key
             first == [tenant |-> Step[c].tenant, definition |-> build]
  <2>1. index' = Settled(c) /\ batch[1].request = c
    BY <1>1, <1>4, <1>8, <1>14
  <2>2. /\ \A r \in Run, k \in Key :
             index'.staged[r][k] = IF r = R /\ k = K THEN None ELSE index.staged[r][k]
        /\ \A r \in Run :
             index'.runs[r] = IF r = R /\ index.runs[r] = NoRun THEN first
                              ELSE index.runs[r]
    BY <2>1, <1>3, <1>5, SettledIs
  <2>3. OwesFor(1, R)
    BY <2>1, <1>14 DEF OwesFor
  <2>4. StagedIsOwed'
    <3> SUFFICES ASSUME NEW r \in Run, NEW k \in Key, index'.staged[r][k] # None
                 PROVE  \E i \in Unlatched' : StagedFor(i, r, k)'
      BY DEF StagedIsOwed
    <3>1. ~(r = R /\ k = K) /\ index.staged[r][k] # None
      BY <2>2
    <3>2. PICK i \in Unlatched : StagedFor(i, r, k)
      BY <3>1, <1>10 DEF StagedIsOwed
    <3>3. i # 1
      BY <3>1, <3>2, <2>1 DEF StagedFor
    <3>4. i \in Unlatched' /\ StagedFor(i, r, k)'
      BY <3>2, <3>3, <1>6, <1>9 DEF StagedFor
    <3>5. QED
      BY <3>4
  <2>5. RunsAreFirst'
    <3> SUFFICES ASSUME NEW r \in Run, index'.runs[r] # NoRun
                 PROVE  \E i \in 1..Len(file) :
                          IsFirst(file, i, r) /\ index'.runs[r] = Heading(file[i])
      BY <1>2 DEF RunsAreFirst
    <3>1. CASE index.runs[r] # NoRun
      BY <3>1, <2>2, <1>10 DEF RunsAreFirst
    <3>2. CASE index.runs[r] = NoRun
      <4>1. r = R /\ index'.runs[r] = first
        BY <3>2, <2>2
      <4>2. PICK w \in 1..Len(file) : file[w] = RecordOf(c)
        BY <2>1, <1>3, <1>4, <1>14 DEF OwedIsWritten
      <4>3. file[w].run = r /\ file[w].definition = build
        BY <4>1, <4>2 DEF RecordOf
      <4> DEFINE S == {i \in 1..Len(file) : file[i].run = r}
      <4>4. S # {} /\ S \in SUBSET Nat
        BY <4>3
      <4>5. \E i \in S : \A j \in S : i <= j
        <5> HIDE DEF S
        <5>1. QED
          BY <4>4, Least
      <4>6. PICK i \in 1..Len(file) : IsFirst(file, i, r)
        BY <4>5 DEF IsFirst
      <4>7. PICK h \in Unlatched : FirstOwes(h, r, file[i].tenant)
        BY <3>2, <4>6, <1>10 DEF NewRunIsOwed
      <4>8. h = 1
        BY <4>1, <4>7, <2>3, <1>9 DEF FirstOwes
      <4>9. file[i].tenant = Step[c].tenant
        BY <4>7, <4>8, <2>1 DEF FirstOwes
      <4>10. file[i].definition = build
        BY <4>3, <4>6, <1>3 DEF IsFirst, OneDefinitionPerRun
      <4>11. QED
        BY <4>1, <4>6, <4>9, <4>10 DEF Heading
    <3>3. QED
      BY <3>1, <3>2
  <2>6. NewRunIsOwed'
    <3> SUFFICES ASSUME NEW r \in Run, index'.runs[r] = NoRun,
                        NEW j \in 1..Len(file), IsFirst(file, j, r)
                 PROVE  \E i \in Unlatched' : FirstOwes(i, r, file[j].tenant)'
      BY <1>2 DEF NewRunIsOwed
    <3>1. first # NoRun
      <4>1. build # None
        BY <1>3, StoreAssumption
      <4>2. first.definition = build /\ NoRun.definition = None
        BY DEF NoRun
      <4>3. QED
        BY <4>1, <4>2
    <3>2. r # R /\ index.runs[r] = NoRun
      <4> HIDE DEF first
      <4>1. QED
        BY <3>1, <2>2
    <3>3. PICK i \in Unlatched : FirstOwes(i, r, file[j].tenant)
      BY <3>2, <1>10 DEF NewRunIsOwed
    <3>4. i # 1
      BY <3>2, <3>3, <2>1 DEF FirstOwes, OwesFor
    <3>5. i \in Unlatched'
      BY <3>3, <3>4, <1>9
    <3>6. FirstOwes(i, r, file[j].tenant)'
      BY <3>3, <1>2, <1>6, <1>9 DEF FirstOwes, OwesFor
    <3>7. QED
      BY <3>5, <3>6
  <2>7. QED
    BY <1>12, <2>4, <2>5, <2>6 DEF Lagging
<1>15. QED
  BY <1>13, <1>14

LEMMA PublishIsHealthy ==
    ASSUME IInv, Healthy, PublishAnswer
    PROVE  Healthy'
<1> SUFFICES ASSUME up', ~poisoned'
             PROVE  Lagging'
  BY DEF Healthy
<1>1. /\ UNCHANGED <<file, torn, synced, index, build, up, restarts>>
      /\ Publish /\ latched /\ latched' = FALSE /\ poisoned' = poisoned
  BY DEF PublishAnswer, Publish
<1>2. OwnerTypeOK /\ EachOnce /\ batch # <<>>
  BY <1>1 DEF IInv, Queues, TypeOK, Stages
<1>3. /\ Len(batch) \in Nat \ {0} /\ Len(batch') = Len(batch) - 1
      /\ \A i \in 1..Len(batch') : i + 1 \in 1..Len(batch) /\ batch'[i] = batch[i + 1]
  BY <1>1, <1>2, HeadOfBatch, PublishQueues
<1>4. /\ \A i \in Unlatched' : i + 1 \in Unlatched /\ batch'[i] = batch[i + 1] /\ i \in Nat
      /\ \A i \in Unlatched : i \in Nat /\ i - 1 \in Unlatched' /\ batch'[i - 1] = batch[i]
  <2>1. \A i \in Unlatched' : i + 1 \in Unlatched /\ batch'[i] = batch[i + 1] /\ i \in Nat
    BY <1>1, <1>3 DEF Unlatched
  <2>2. ASSUME NEW i \in Unlatched
        PROVE  i \in Nat /\ i - 1 \in Unlatched' /\ batch'[i - 1] = batch[i]
    <3>1. i \in 1..Len(batch) /\ i > 1
      BY <1>1 DEF Unlatched
    <3>2. i - 1 \in 1..Len(batch') /\ (i - 1) + 1 = i
      BY <3>1, <1>3
    <3>3. QED
      BY <3>1, <3>2, <1>1, <1>3 DEF Unlatched
  <2>3. QED
    BY <2>1, <2>2
<1>5. CountIsFile /\ StagedIsOwed /\ RunsAreFirst /\ NewRunIsOwed
  BY <1>1 DEF Healthy, Lagging
<1>6. CountIsFile'
  <2> SUFFICES ASSUME \A i \in Unlatched' : batch'[i].answer # "Error"
               PROVE  index.committed = Len(file) /\ ~torn
    BY <1>1 DEF CountIsFile
  <2>1. \A i \in Unlatched : batch[i].answer # "Error"
    BY <1>4
  <2>2. QED
    BY <2>1, <1>5 DEF CountIsFile
<1>7. StagedIsOwed'
  <2> SUFFICES ASSUME NEW r \in Run, NEW k \in Key, index.staged[r][k] # None
               PROVE  \E i \in Unlatched' : StagedFor(i, r, k)'
    BY <1>1 DEF StagedIsOwed
  <2>1. PICK i \in Unlatched : StagedFor(i, r, k)
    BY <1>5 DEF StagedIsOwed
  <2>2. PICK p \in Nat : p = i - 1
    BY <1>3 DEF Unlatched
  <2>3. p \in Unlatched' /\ batch'[p] = batch[i]
    BY <2>2, <1>4
  <2>4. StagedFor(p, r, k)'
    BY <2>1, <2>3 DEF StagedFor
  <2>5. QED
    BY <2>3, <2>4
<1>8. RunsAreFirst'
  BY <1>1, <1>5 DEF RunsAreFirst
<1>9. NewRunIsOwed'
  <2> SUFFICES ASSUME NEW r \in Run, index.runs[r] = NoRun,
                      NEW j \in 1..Len(file), IsFirst(file, j, r)
               PROVE  \E i \in Unlatched' : FirstOwes(i, r, file[j].tenant)'
    BY <1>1 DEF NewRunIsOwed
  <2>1. PICK i \in Unlatched : FirstOwes(i, r, file[j].tenant)
    BY <1>5 DEF NewRunIsOwed
  <2>2. PICK p \in Nat : p = i - 1
    BY <1>3 DEF Unlatched
  <2>3. p \in Unlatched' /\ batch'[p] = batch[i] /\ i \in Nat
    BY <2>2, <1>4
  <2>4. ASSUME NEW h \in Unlatched', OwesFor(h, r)' PROVE p <= h
    <3>1. h + 1 \in Unlatched /\ OwesFor(h + 1, r) /\ h \in Nat
      BY <2>4, <1>4 DEF OwesFor
    <3>2. i <= h + 1
      BY <3>1, <2>1 DEF FirstOwes
    <3>3. QED
      BY <3>1, <3>2, <2>2, <2>3
  <2>5. FirstOwes(p, r, file[j].tenant)'
    BY <2>1, <2>3, <2>4, <1>1 DEF FirstOwes, OwesFor
  <2>6. QED
    BY <2>3, <2>5
<1>10. QED
  BY <1>6, <1>7, <1>8, <1>9 DEF Lagging

(* The fields of a replay. *)
LEMMA ReplayedFields ==
    ASSUME NEW f \in Seq(Record)
    PROVE  /\ Replayed(f).staged = NoSteps /\ Replayed(f).committed = Len(f)
           /\ \A r \in Run :
                Replayed(f).runs[r] =
                  IF OfRun(f, r) = {} THEN NoRun
                  ELSE Heading(f[First(OfRun(f, r))])
           /\ \A r \in Run, k \in Key : NoSteps[r][k] = None
BY DEF Replayed, Heading, NoSteps

LEMMA FirstIs ==
    ASSUME NEW f \in Seq(Record), NEW r, OfRun(f, r) # {}
    PROVE  IsFirst(f, First(OfRun(f, r)), r)
<1>1. OfRun(f, r) \in SUBSET Nat
  BY LenProperties DEF OfRun
<1>2. \E i \in OfRun(f, r) : \A j \in OfRun(f, r) : i <= j
  BY <1>1, Least
<1>3. /\ First(OfRun(f, r)) \in OfRun(f, r)
      /\ \A j \in OfRun(f, r) : First(OfRun(f, r)) <= j
  BY <1>2 DEF First
<1>4. QED
  BY <1>3 DEF IsFirst, OfRun

(* The index of a replay does not lag. *)
LEMMA ReplayIsLagging ==
    ASSUME TypeOK, index = Replayed(file), batch = <<>>, ~torn
    PROVE  Lagging
<1>1. file \in Seq(Record) /\ Unlatched = {}
  <2>1. Len(batch) = 0
    OBVIOUS
  <2>2. QED
    BY <2>1 DEF TypeOK, Unlatched
<1>2. /\ index.staged = NoSteps /\ index.committed = Len(file)
      /\ \A r \in Run :
           index.runs[r] = IF OfRun(file, r) = {} THEN NoRun
                           ELSE Heading(file[First(OfRun(file, r))])
      /\ \A r \in Run, k \in Key : NoSteps[r][k] = None
  BY <1>1, ReplayedFields
<1>3. CountIsFile /\ StagedIsOwed
  BY <1>2 DEF CountIsFile, StagedIsOwed
<1>4. RunsAreFirst
  <2> SUFFICES ASSUME NEW r \in Run, index.runs[r] # NoRun
               PROVE  \E i \in 1..Len(file) :
                        IsFirst(file, i, r) /\ index.runs[r] = Heading(file[i])
    BY DEF RunsAreFirst
  <2>1. OfRun(file, r) # {} /\ index.runs[r] = Heading(file[First(OfRun(file, r))])
    BY <1>2
  <2>2. IsFirst(file, First(OfRun(file, r)), r)
    BY <2>1, <1>1, FirstIs
  <2>3. QED
    BY <2>1, <2>2 DEF IsFirst
<1>5. NewRunIsOwed
  <2> SUFFICES ASSUME NEW r \in Run, index.runs[r] = NoRun,
                      NEW j \in 1..Len(file), IsFirst(file, j, r)
               PROVE  FALSE
    BY DEF NewRunIsOwed
  <2>1. OfRun(file, r) # {}
    BY DEF IsFirst, OfRun
  <2>2. IsFirst(file, First(OfRun(file, r)), r)
    BY <2>1, <1>1, FirstIs
  <2> DEFINE w == First(OfRun(file, r))
  <2>3. w \in 1..Len(file)
    BY <2>2 DEF IsFirst
  <2>4. file[w] \in Record
    BY <2>3, <1>1, ElementOfSeq
  <2>5. file[w].tenant # None
    BY <2>4, StoreAssumption DEF Record
  <2>6. Heading(file[w]).tenant # NoRun.tenant
    BY <2>5 DEF Heading, NoRun
  <2>7. QED
    BY <2>1, <2>6, <1>2
<1>6. QED
  BY <1>3, <1>4, <1>5 DEF Lagging

LEMMA ReplayNeverLags ==
    (TypeOK /\ index = Replayed(file) /\ batch = <<>> /\ ~torn => Lagging)'
<1>1. TypeOK /\ index = Replayed(file) /\ batch = <<>> /\ ~torn => Lagging
  BY ReplayIsLagging
<1>2. QED
  BY <1>1, PTL

LEMMA ReopenIsHealthy ==
    ASSUME IInv, IInv', Reopen
    PROVE  Healthy'
<1>1. index' = Replayed(file') /\ ~torn' /\ batch' = batch /\ ~up /\ TypeOK'
  BY DEF Reopen, ownerVars, IInv
<1>2. batch' = <<>>
  BY <1>1 DEF IInv, Queues, DownIsEmpty
<1>3. Lagging'
  BY <1>1, <1>2, ReplayNeverLags
<1>4. QED
  BY <1>3 DEF Healthy

LEMMA InitIsHealthy == ASSUME Init PROVE Healthy
<1>1. IInv /\ index = Replayed(file) /\ batch = <<>> /\ ~torn
  BY InitIInv DEF Init, OwnerInit
<1>2. QED
  BY <1>1, ReplayIsLagging DEF IInv, Healthy

LEMMA NextIsHealthy == ASSUME IInv, IInv', Healthy, [Next]_vars PROVE Healthy'
<1>1. ASSUME NEW c \in Request,
             CheckDefinition(c) \/ Lookup(c) \/ Submit(c) \/ Abandon(c)
      PROVE  Healthy'
  <2>1. UNCHANGED <<file, torn, index, up, poisoned, batch, latched>>
    BY <1>1 DEF CheckDefinition, Lookup, Submit, Abandon, Enqueue, ownerVars
  <2>2. QED
    BY <2>1, HealthySame
<1>2. ASSUME NEW c \in Request, StageSettled(c) PROVE Healthy'
  BY <1>2, StageSettledIsHealthy
<1>3. ASSUME NEW c \in Request, StageWritten(c) PROVE Healthy'
  BY <1>3, StageWrittenIsHealthy
<1>4. ASSUME NEW c \in Request, StageWriteFailed(c) PROVE Healthy'
  BY <1>4, StageWriteFailedIsHealthy
<1>5. ASSUME NEW ok \in BOOLEAN, Flush(ok) PROVE Healthy'
  <2>1. UNCHANGED <<file, torn, index, up, poisoned, batch, latched>>
    BY <1>5 DEF Flush, CloseBatch
  <2>2. QED
    BY <2>1, HealthySame
<1>6. CASE LatchAnswer
  BY <1>6, LatchIsHealthy
<1>7. CASE PublishAnswer
  BY <1>7, PublishIsHealthy
<1>8. CASE Die \/ LosePower \/ Close
  BY <1>8 DEF Die, LosePower, Close, MemoryLost, Healthy
<1>9. CASE Reopen
  BY <1>9, ReopenIsHealthy
<1>10. CASE UNCHANGED vars
  <2>1. UNCHANGED <<file, torn, index, up, poisoned, batch, latched>>
    BY <1>10 DEF vars, ownerVars, storeVars
  <2>2. QED
    BY <2>1, HealthySame
<1>11. QED
  BY <1>1, <1>2, <1>3, <1>4, <1>5, <1>6, <1>7, <1>8, <1>9, <1>10 DEF Next, Owner

(* An index and the replay of the file, field by field. *)
LEMMA HealthyAtRest ==
    ASSUME IInv, Healthy, up, ~poisoned, batch = <<>>
    PROVE  index = Replayed(file) /\ ~torn
<1>1. /\ TypeOK /\ file \in Seq(Record) /\ index \in Index /\ Unlatched = {}
      /\ OneRecordPerStep /\ RecordsAreHeld /\ IndexIsWritten
  <2>1. Len(batch) = 0
    OBVIOUS
  <2>2. QED
    BY <2>1 DEF IInv, TypeOK, Writes, Promises, Unlatched
<1>2. /\ index.committed = Len(file) /\ ~torn
      /\ \A r \in Run, k \in Key : index.staged[r][k] = None
      /\ RunsAreFirst
      /\ \A r \in Run : index.runs[r] = NoRun =>
           \A j \in 1..Len(file) : ~IsFirst(file, j, r)
  BY <1>1 DEF Healthy, Lagging, CountIsFile, StagedIsOwed, NewRunIsOwed
<1> DEFINE R == Replayed(file)
<1>3. /\ R \in Index
      /\ \A r \in Run, k \in Key :
           R.steps[r][k] # None =>
             \E i \in 1..Len(file) : /\ file[i].run = r /\ file[i].key = k
                                      /\ file[i].value = R.steps[r][k]
      /\ \A i \in 1..Len(file) : R.steps[file[i].run][file[i].key] # None
  BY <1>1, ReplayedIs
<1>4. /\ R.staged = NoSteps /\ R.committed = Len(file)
      /\ \A r \in Run :
           R.runs[r] = IF OfRun(file, r) = {} THEN NoRun
                       ELSE Heading(file[First(OfRun(file, r))])
      /\ \A r \in Run, k \in Key : NoSteps[r][k] = None
  BY <1>1, ReplayedFields
<1> HIDE DEF R
<1>5. ASSUME NEW r \in Run PROVE index.runs[r] = R.runs[r]
  <2>1. CASE OfRun(file, r) = {}
    <3>1. \A i \in 1..Len(file) : ~IsFirst(file, i, r)
      BY <2>1 DEF IsFirst, OfRun
    <3>2. index.runs[r] = NoRun
      BY <3>1, <1>2 DEF RunsAreFirst
    <3>3. QED
      BY <2>1, <3>2, <1>4
  <2>2. CASE OfRun(file, r) # {}
    <3> DEFINE w == First(OfRun(file, r))
    <3>1. IsFirst(file, w, r) /\ w \in 1..Len(file)
      BY <2>2, <1>1, FirstIs DEF IsFirst
    <3>2. R.runs[r] = Heading(file[w])
      BY <2>2, <1>4
    <3> HIDE DEF w
    <3>3. index.runs[r] # NoRun
      BY <3>1, <1>2
    <3>4. PICK i \in 1..Len(file) : IsFirst(file, i, r) /\ index.runs[r] = Heading(file[i])
      BY <3>3, <1>2 DEF RunsAreFirst
    <3>5. i <= w /\ w <= i
      BY <3>1, <3>4 DEF IsFirst
    <3>6. i = w
      BY <3>1, <3>5, <1>1, LenProperties
    <3>7. QED
      BY <3>2, <3>4, <3>6
  <2>3. QED
    BY <2>1, <2>2
<1>6. ASSUME NEW r \in Run, NEW k \in Key PROVE index.steps[r][k] = R.steps[r][k]
  <2>1. ASSUME NEW i \in 1..Len(file), file[i].run = r, file[i].key = k
        PROVE  index.steps[r][k] = file[i].value /\ R.steps[r][k] = file[i].value
    <3>1. index.steps[r][k] # None
      BY <2>1, <1>1, <1>2 DEF RecordsAreHeld
    <3>2. PICK j \in 1..Len(file) : /\ file[j].run = r /\ file[j].key = k
                                    /\ file[j].value = index.steps[r][k]
      BY <3>1, <1>1 DEF IndexIsWritten
    <3>3. PICK l \in 1..Len(file) : /\ file[l].run = r /\ file[l].key = k
                                    /\ file[l].value = R.steps[r][k]
      BY <2>1, <1>3
    <3>4. j = i /\ l = i
      BY <2>1, <3>2, <3>3, <1>1 DEF OneRecordPerStep
    <3>5. QED
      BY <3>2, <3>3, <3>4
  <2>2. CASE \E i \in 1..Len(file) : file[i].run = r /\ file[i].key = k
    BY <2>1, <2>2
  <2>3. CASE \A i \in 1..Len(file) : ~(file[i].run = r /\ file[i].key = k)
    <3>1. index.steps[r][k] = None
      BY <2>3, <1>1 DEF IndexIsWritten
    <3>2. R.steps[r][k] = None
      BY <2>3, <1>3
    <3>3. QED
      BY <3>1, <3>2
  <2>4. QED
    BY <2>2, <2>3
<1>7. index.runs = R.runs
  BY <1>1, <1>3, <1>5 DEF Index
<1>8. index.steps = R.steps
  <2> DEFINE Row == [Key -> Value \cup {None}]
  <2>1. index.steps \in [Run -> Row] /\ R.steps \in [Run -> Row]
    BY <1>1, <1>3 DEF Index
  <2>2. ASSUME NEW r \in Run PROVE index.steps[r] = R.steps[r]
    <3>1. index.steps[r] \in Row /\ R.steps[r] \in Row
      BY <2>1
    <3>2. QED
      BY <3>1, <1>6
  <2> HIDE DEF Row
  <2>3. QED
    BY <2>1, <2>2
<1>9. index.staged = R.staged
  <2> DEFINE Row == [Key -> Value \cup {None}]
  <2>1. index.staged \in [Run -> Row] /\ R.staged \in [Run -> Row]
    BY <1>1, <1>3 DEF Index
  <2>2. ASSUME NEW r \in Run PROVE index.staged[r] = R.staged[r]
    <3>1. index.staged[r] \in Row /\ R.staged[r] \in Row
      BY <2>1
    <3>2. \A k \in Key : index.staged[r][k] = None /\ R.staged[r][k] = None
      BY <1>2, <1>4
    <3>3. QED
      BY <3>1, <3>2
  <2> HIDE DEF Row
  <2>3. QED
    BY <2>1, <2>2
<1>10. index = R
  BY <1>1, <1>2, <1>3, <1>4, <1>7, <1>8, <1>9 DEF Index
<1>11. QED
  BY <1>2, <1>10 DEF R

(* A usable handle at rest stands where its file does: its index is the    *)
(* fold of every frame, so a reopen that the record limit does not refuse  *)
(* changes no answer it gave, and its fence lets the next append through   *)
(* (settle, replay, decide_and_write).                                     *)
THEOREM HealthyHandleIsTheFile == Spec => []HealthyIndexIsTheFile
<1>1. Init => Healthy
  BY InitIsHealthy
<1>2. IInv /\ IInv' /\ Healthy /\ [Next]_vars => Healthy'
  BY NextIsHealthy
<1>3. IInv /\ Healthy => HealthyIndexIsTheFile
  BY HealthyAtRest DEF HealthyIndexIsTheFile
<1>4. QED
  BY <1>1, <1>2, <1>3, SpecIInv, PTL DEF Spec

-----------------------------------------------------------------------------
(* The limits. *)

(* Where the byte ceiling holds no more records than the record limit, as  *)
(* it does when frames are of a kilobyte or more, every file the store     *)
(* leaves behind can be replayed, whatever happened to its owner (open,    *)
(* MAX_STORE_BYTES, bump_frame_count).                                     *)
THEOREM FullStoreReopens ==
    ASSUME MaxStore <= MaxRecords
    PROVE  Spec => []ReplayTakes(file)
<1> DEFINE Fits == Len(file) <= MaxStore
<1>1. Init => Fits
  BY StoreAssumption, EmptySeq DEF Init
<1>2. TypeOK /\ Fits /\ [Next]_vars => Fits'
  <2> SUFFICES ASSUME TypeOK, Fits, [Next]_vars PROVE Fits'
    OBVIOUS
  <2>1. file \in Seq(Record) /\ Len(file) \in Nat
    BY LenProperties DEF TypeOK
  <2>2. ASSUME NEW c \in Request, StageWritten(c) PROVE Fits'
    <3>1. index.committed < MaxStore /\ Len(file) = index.committed
          /\ file' = Append(file, RecordOf(c))
      BY <2>2 DEF StageWritten, Decided, MayWrite, SameOrNot
    <3>2. QED
      BY <3>1, <2>1, StoreAssumption
  <2>3. CASE LosePower
    <3>1. PICK n \in synced..Len(file) : file' = SubSeq(file, 1, n)
      BY <2>3 DEF LosePower
    <3>2. n \in Nat /\ n <= Len(file) /\ Len(file') = n
      BY <2>1, <3>1, SubSeqProperties, ElementOfSeq DEF TypeOK
    <3>3. QED
      BY <2>1, <3>2, StoreAssumption
  <2>4. CASE UNCHANGED file
    BY <2>4
  <2>5. QED
    BY <2>2, <2>3, <2>4
       DEF Next, Owner, CheckDefinition, Lookup, Submit, Abandon, StageSettled,
           StageWriteFailed, Flush, LatchAnswer, PublishAnswer, Die, Close, Reopen,
           vars, storeVars
<1>3. TypeOK /\ Fits => ReplayTakes(file)
  BY StoreAssumption, LenProperties DEF ReplayTakes, TypeOK
<1>4. QED
  BY <1>1, <1>2, <1>3, TypeCorrect, PTL DEF Spec

Folded(r) == {k \in Key : index.steps[r][k] # None}

(* A run with a step in the index is known by its tenant. *)
StepsAreKnown ==
    \A r \in Run, k \in Key : index.steps[r][k] # None => index.runs[r] # NoRun

LEMMA ReplayKnows ==
    (TypeOK /\ index = Replayed(file) => StepsAreKnown)
<1> SUFFICES ASSUME TypeOK, index = Replayed(file), NEW r \in Run, NEW k \in Key,
                    index.steps[r][k] # None
             PROVE  index.runs[r] # NoRun
  BY DEF StepsAreKnown
<1>1. file \in Seq(Record)
  BY DEF TypeOK
<1>2. PICK i \in 1..Len(file) : file[i].run = r
  BY <1>1, ReplayedIs
<1>3. OfRun(file, r) # {}
  BY <1>2 DEF OfRun
<1> DEFINE w == First(OfRun(file, r))
<1>4. w \in 1..Len(file)
  BY <1>1, <1>3, FirstIs DEF IsFirst
<1>5. index.runs[r] = Heading(file[w])
  BY <1>1, <1>3, ReplayedFields
<1> HIDE DEF w
<1>6. file[w] \in Record
  BY <1>1, <1>4, ElementOfSeq
<1>7. Heading(file[w]).tenant # NoRun.tenant
  BY <1>6, StoreAssumption DEF Heading, NoRun, Record
<1>8. QED
  BY <1>5, <1>7

(* The records of a run are its folded steps and members of the batch. *)
LEMMA RunIsHeld ==
    ASSUME IInv, Healthy, up, ~poisoned, NEW r \in Run
    PROVE  /\ IsFiniteSet(OfRun(file, r)) /\ Cardinality(OfRun(file, r)) \in Nat
           /\ IsFiniteSet(Folded(r)) /\ Cardinality(Folded(r)) \in Nat
           /\ Cardinality(OfRun(file, r)) <= Cardinality(Folded(r)) + Len(batch)
<1>1. /\ file \in Seq(Record) /\ Len(file) \in Nat /\ Len(batch) \in Nat
      /\ StagedIsOwed /\ RecordsAreHeld /\ IndexIsWritten /\ OneRecordPerStep
  BY LenProperties
     DEF IInv, TypeOK, OwnerTypeOK, Writes, Promises, Healthy, Lagging
<1>2. \A i \in 1..Len(file) : file[i].key \in Key
  <2>1. \A i \in 1..Len(file) : file[i] \in Record
    BY <1>1, ElementOfSeq
  <2>2. QED
    BY <2>1 DEF Record
<1>3. /\ IsFiniteSet(1..Len(file))
      /\ IsFiniteSet(1..Len(batch)) /\ Cardinality(1..Len(batch)) = Len(batch)
  <2> DEFINE m == Len(file)
             n == Len(batch)
  <2>1. 1 \in Int /\ m \in Int /\ n \in Int /\ n \in Nat
    BY <1>1
  <2> HIDE DEF m, n
  <2>2. IsFiniteSet(1..m) /\ IsFiniteSet(1..n)
        /\ Cardinality(1..n) = IF 1 > n THEN 0 ELSE n - 1 + 1
    BY <2>1, FS_Interval
  <2>3. Cardinality(1..n) = n
    BY <2>1, <2>2
  <2>4. QED
    BY <2>2, <2>3 DEF m, n
<1>4. IsFiniteSet(OfRun(file, r)) /\ Cardinality(OfRun(file, r)) \in Nat
  BY <1>3, FS_Subset, FS_CardinalityType DEF OfRun
<1>5. IsFiniteSet(Folded(r)) /\ Cardinality(Folded(r)) \in Nat
  <2> DEFINE place == [k \in Folded(r) |->
                         CHOOSE i \in 1..Len(file) : file[i].run = r /\ file[i].key = k]
  <2>1. \A k \in Folded(r) : \E i \in 1..Len(file) : file[i].run = r /\ file[i].key = k
    BY <1>1 DEF IndexIsWritten, Folded
  <2>2. \A k \in Folded(r) : place[k] \in 1..Len(file) /\ file[place[k]].key = k
    BY <2>1
  <2> HIDE DEF place
  <2>3. \A k, l \in Folded(r) : place[k] = place[l] => k = l
    BY <2>2
  <2>4. place \in Injection(Folded(r), 1..Len(file))
    BY <2>2, <2>3 DEF Injection, IsInjective, place
  <2>5. QED
    BY <2>4, <1>3, FS_Injection, FS_CardinalityType
<1> DEFINE A == {i \in OfRun(file, r) : file[i].key \in Folded(r)}
           B == OfRun(file, r) \ A
<1>6. IsFiniteSet(A) /\ Cardinality(A) \in Nat /\ Cardinality(A) <= Cardinality(Folded(r))
  <2> DEFINE key == [i \in A |-> file[i].key]
  <2>1. \A i, j \in A : file[i].key = file[j].key => i = j
    BY <1>1 DEF OneRecordPerStep, OfRun
  <2>2. key \in Injection(A, Folded(r))
    BY <2>1 DEF Injection, IsInjective
  <2> HIDE DEF A, key
  <2>3. QED
    BY <2>2, <1>5, FS_Injection, FS_CardinalityType
<1>7. IsFiniteSet(B) /\ Cardinality(B) \in Nat /\ Cardinality(B) <= Len(batch)
  <2> DEFINE owner == [i \in B |-> CHOOSE j \in 1..Len(batch) :
                                     Step[batch[j].request].key = file[i].key]
  <2>1. ASSUME NEW i \in B
        PROVE  \E j \in 1..Len(batch) : Step[batch[j].request].key = file[i].key
    <3>1. i \in 1..Len(file) /\ file[i].run = r /\ index.steps[r][file[i].key] = None
      BY <1>2 DEF OfRun, Folded
    <3>2. index.staged[r][file[i].key] # None
      BY <3>1, <1>1 DEF RecordsAreHeld
    <3>3. \E j \in Unlatched : StagedFor(j, r, file[i].key)
      BY <3>1, <3>2, <1>1, <1>2 DEF StagedIsOwed
    <3>4. QED
      BY <3>3 DEF Unlatched, StagedFor
  <2>2. \A i \in B : owner[i] \in 1..Len(batch)
                     /\ Step[batch[owner[i]].request].key = file[i].key
    BY <2>1
  <2> HIDE DEF owner
  <2>3. \A i, j \in B : owner[i] = owner[j] => i = j
    BY <2>2, <1>1 DEF OneRecordPerStep, OfRun
  <2>4. owner \in Injection(B, 1..Len(batch))
    BY <2>2, <2>3 DEF Injection, IsInjective, owner
  <2> HIDE DEF B
  <2>5. QED
    BY <2>4, <1>3, FS_Injection, FS_CardinalityType
<1>8. Cardinality(OfRun(file, r)) = Cardinality(A) + Cardinality(B)
  <2>1. A \cup B = OfRun(file, r) /\ A \cap B = {}
    OBVIOUS
  <2> HIDE DEF A, B
  <2>2. QED
    BY <2>1, <1>6, <1>7, FS_Union, FS_EmptySet
<1>9. QED
  BY <1>1, <1>4, <1>5, <1>6, <1>7, <1>8

StepsKnown == up => StepsAreKnown

LEMMA ReplayKnowsNext == (TypeOK /\ index = Replayed(file) => StepsAreKnown)'
<1>1. TypeOK /\ index = Replayed(file) => StepsAreKnown
  BY ReplayKnows
<1>2. QED
  BY <1>1, PTL

LEMMA StagedValue ==
    ASSUME IInv, NEW c \in Request, StageWritten(c) \/ StageWriteFailed(c)
    PROVE  caller[c].value \in Value
<1>1. PICK m \in Member : m.request = c /\ StageNext(m)
  BY DEF StageWritten, StageWriteFailed, Member, Answers
<1>2. UNCHANGED <<caller, up>>
  BY DEF StageWritten, StageWriteFailed
<1>3. QED
  BY <1>1, <1>2, Staging

LEMMA StepsKnownKept ==
    ASSUME IInv, IInv', StepsKnown, [Next]_vars
    PROVE  StepsKnown'
<1>1. index \in Index /\ build \in Definition /\ TypeOK'
  BY DEF IInv, TypeOK
<1>2. ASSUME UNCHANGED <<index, up>> PROVE StepsKnown'
  BY <1>2 DEF StepsKnown, StepsAreKnown
<1>3. ASSUME NEW c \in Request, index' = Reserved(c), up' = up, caller[c].value \in Value
      PROVE  StepsKnown'
  <2>1. index'.runs = index.runs /\ index'.steps = index.steps
    BY <1>1, <1>3, ReservedIs
  <2>2. QED
    BY <1>3, <2>1 DEF StepsKnown, StepsAreKnown
<1>4. ASSUME NEW c \in Request, StageWritten(c) PROVE StepsKnown'
  <2>1. caller[c].value \in Value
    BY <1>4, StagedValue
  <2>2. QED
    BY <1>3, <1>4, <2>1 DEF StageWritten
<1>5. ASSUME NEW c \in Request, StageWriteFailed(c) PROVE StepsKnown'
  <2>1. caller[c].value \in Value
    BY <1>5, StagedValue
  <2>2. QED
    BY <1>3, <1>5, <2>1 DEF StageWriteFailed
<1>6. CASE LatchAnswer
  <2>1. PICK c \in Request :
           /\ batch # <<>> /\ Head(batch).request = c
           /\ index' = IF Head(batch).owes /\ flush = "ok" THEN Settled(c) ELSE index
    BY <1>6 DEF LatchAnswer
  <2>2. up' = up
    BY <1>6 DEF LatchAnswer
  <2>3. CASE index' = Settled(c)
    <3>1. caller[c].value \in Value
      <4>1. Queued(c)
        BY <2>1, HeadOfBatch DEF IInv, TypeOK
      <4>2. QED
        BY <4>1 DEF IInv, Queues, Expected
    <3>2. /\ \A r \in Run, k \in Key :
               index'.steps[r][k] = IF r = Step[c].run /\ k = Step[c].key
                                    THEN caller[c].value ELSE index.steps[r][k]
          /\ \A r \in Run :
               index'.runs[r] = IF r = Step[c].run /\ index.runs[r] = NoRun
                                THEN [tenant |-> Step[c].tenant, definition |-> build]
                                ELSE index.runs[r]
      BY <1>1, <2>3, <3>1, SettledIs
    <3>3. [tenant |-> Step[c].tenant, definition |-> build] # NoRun
      <4>1. Step[c].tenant # None
        BY StoreAssumption
      <4>2. [tenant |-> Step[c].tenant, definition |-> build].tenant # NoRun.tenant
        BY <4>1 DEF NoRun
      <4>3. QED
        BY <4>2
    <3>4. ASSUME up', NEW r \in Run, NEW k \in Key, index'.steps[r][k] # None
          PROVE  index'.runs[r] # NoRun
      <4>1. CASE r = Step[c].run
        BY <4>1, <3>2, <3>3
      <4>2. CASE r # Step[c].run
        BY <4>2, <3>2, <3>4, <2>2 DEF StepsKnown, StepsAreKnown
      <4>3. QED
        BY <4>1, <4>2
    <3>5. QED
      BY <3>4 DEF StepsKnown, StepsAreKnown
  <2>4. QED
    BY <1>2, <2>1, <2>2, <2>3
<1>7. CASE Die \/ LosePower \/ Close
  BY <1>7 DEF Die, LosePower, Close, MemoryLost, StepsKnown
<1>8. CASE Reopen
  <2>1. index' = Replayed(file')
    BY <1>8 DEF Reopen
  <2>2. QED
    BY <1>1, <2>1, ReplayKnowsNext DEF StepsKnown
<1>9. QED
  BY <1>2, <1>4, <1>5, <1>6, <1>7, <1>8
     DEF Next, Owner, CheckDefinition, Lookup, Submit, Abandon, StageSettled,
         Flush, PublishAnswer, vars, storeVars

(* What one write adds to its run. *)
LEMMA WriteWithinLimit ==
    ASSUME IInv, IInv', Healthy, StepsKnown, LimitPassedByOneBatch, MaxRecords # 0,
           NEW c \in Request, StageWritten(c)
    PROVE  LimitPassedByOneBatch'
<1> DEFINE n == Len(file) + 1
<1>1. /\ TypeOK /\ file \in Seq(Record) /\ Len(file) \in Nat /\ file' \in Seq(Record)
      /\ up' = up /\ poisoned' = poisoned /\ file' = Append(file, RecordOf(c))
      /\ Len(batch) \in Nat /\ Len(batch) < MaxBatch
      /\ MaxRecords \in Nat \ {0} /\ MaxBatch \in Nat
  BY LenProperties, StoreAssumption, OwnerAssumption
     DEF IInv, TypeOK, OwnerTypeOK, StageWritten, StageNext
<1>2. Len(file') = n /\ (\A i \in 1..Len(file) : file'[i] = file[i])
      /\ file'[n] = RecordOf(c)
  <2>1. caller[c].value \in Value
    BY StagedValue
  <2>2. RecordOf(c) \in Record
    BY <1>1, <2>1, RecordOfType
  <2>3. QED
    BY <1>1, <2>2, AppendProperties
<1>3. RecordOf(c).run = Step[c].run
  BY DEF RecordOf
<1> SUFFICES ASSUME up, ~poisoned, NEW r \in Run
             PROVE  Cardinality(OfRun(file', r)) < MaxRecords + MaxBatch
  BY <1>1 DEF LimitPassedByOneBatch
<1>4. CASE r # Step[c].run
  <2>1. OfRun(file', r) = OfRun(file, r)
    BY <1>1, <1>2, <1>3, <1>4 DEF OfRun
  <2>2. QED
    BY <2>1 DEF LimitPassedByOneBatch
<1>5. CASE r = Step[c].run
  <2>1. /\ IsFiniteSet(OfRun(file, r)) /\ Cardinality(OfRun(file, r)) \in Nat
        /\ Cardinality(Folded(r)) \in Nat
        /\ Cardinality(OfRun(file, r)) <= Cardinality(Folded(r)) + Len(batch)
    BY RunIsHeld
  <2>2. OfRun(file', r) = OfRun(file, r) \cup {n}
    BY <1>1, <1>2, <1>3, <1>5 DEF OfRun
  <2>3. n \notin OfRun(file, r)
    BY <1>1 DEF OfRun
  <2> HIDE DEF n
  <2>4. Cardinality(OfRun(file', r)) = Cardinality(OfRun(file, r)) + 1
    BY <2>1, <2>2, <2>3, FS_AddElement
  <2>5. index.runs[r] = NoRun \/ ~RunFull(c)
    BY <1>5 DEF StageWritten, Decided, SameOrNot
  <2>6. Cardinality(Folded(r)) < MaxRecords
    <3>1. CASE index.runs[r] = NoRun
      <4>1. Folded(r) = {}
        BY <3>1 DEF StepsKnown, StepsAreKnown, Folded
      <4>2. QED
        BY <4>1, <1>1, FS_EmptySet
    <3>2. CASE ~RunFull(c)
      BY <3>2, <1>1, <1>5, <2>1 DEF RunFull, Folded
    <3>3. QED
      BY <2>5, <3>1, <3>2
  <2>7. QED
    BY <1>1, <2>1, <2>4, <2>6
<1>6. QED
  BY <1>4, <1>5

(* A file a replay takes holds no more of any run. *)
LEMMA TakenWithinLimit ==
    ASSUME file \in Seq(Record), ReplayTakes(file), NEW r \in Run
    PROVE  Cardinality(OfRun(file, r)) < MaxRecords + MaxBatch
<1> DEFINE n == Len(file)
<1>1. n \in Nat /\ n \in Int /\ 1 \in Int /\ n <= MaxRecords
      /\ MaxRecords \in Nat /\ MaxBatch \in Nat \ {0}
  BY LenProperties, StoreAssumption, OwnerAssumption DEF ReplayTakes
<1>2. OfRun(file, r) \in SUBSET (1..n)
  BY DEF OfRun
<1> HIDE DEF n
<1>3. IsFiniteSet(1..n) /\ Cardinality(1..n) = IF 1 > n THEN 0 ELSE n - 1 + 1
  BY <1>1, FS_Interval
<1>4. Cardinality(1..n) = n
  BY <1>1, <1>3
<1>5. IsFiniteSet(OfRun(file, r)) /\ Cardinality(OfRun(file, r)) <= n
  BY <1>2, <1>3, <1>4, FS_Subset
<1>6. Cardinality(OfRun(file, r)) \in Nat
  BY <1>5, FS_CardinalityType
<1>7. QED
  BY <1>1, <1>5, <1>6

LEMMA LimitKept ==
    ASSUME IInv, IInv', Healthy, StepsKnown, LimitPassedByOneBatch, MaxRecords # 0,
           [Next]_vars
    PROVE  LimitPassedByOneBatch'
<1>1. ASSUME NEW c \in Request, StageWritten(c) PROVE LimitPassedByOneBatch'
  BY <1>1, WriteWithinLimit
<1>2. CASE Die \/ LosePower \/ Close
  BY <1>2 DEF Die, LosePower, Close, MemoryLost, LimitPassedByOneBatch
<1>3. CASE Reopen
  <2>1. file \in Seq(Record) /\ ReplayTakes(file) /\ file' = file
    BY <1>3 DEF Reopen, IInv, TypeOK
  <2>2. QED
    BY <2>1, TakenWithinLimit DEF LimitPassedByOneBatch
<1>4. ASSUME file' = file, up' = up, poisoned => poisoned'
      PROVE  LimitPassedByOneBatch'
  BY <1>4 DEF LimitPassedByOneBatch
<1>5. CASE LatchAnswer
  BY <1>4, <1>5 DEF LatchAnswer, Latch
<1>6. CASE UNCHANGED <<file, up, poisoned>>
  BY <1>4, <1>6
<1>7. QED
  BY <1>1, <1>2, <1>3, <1>5, <1>6
     DEF Next, Owner, CheckDefinition, Lookup, Submit, Abandon, Enqueue,
         StageSettled, StageWriteFailed, StageNext, Flush, CloseBatch,
         PublishAnswer, Publish, vars, ownerVars, storeVars

(* A run goes past its limit by one batch at most: what it holds in the    *)
(* file is folded or in the batch, and a member is staged only while its   *)
(* folded steps are below the limit (decide_and_write, settle, replay).    *)
THEOREM LimitHolds ==
    ASSUME MaxRecords # 0
    PROVE  Spec => []LimitPassedByOneBatch
<1>1. Init => Healthy
  BY InitIsHealthy
<1>2. IInv /\ IInv' /\ Healthy /\ [Next]_vars => Healthy'
  BY NextIsHealthy
<1>3. Init => StepsKnown /\ LimitPassedByOneBatch
  <2> SUFFICES ASSUME Init PROVE StepsKnown /\ LimitPassedByOneBatch
    OBVIOUS
  <2>1. TypeOK /\ file \in Seq(Record) /\ index = Replayed(file) /\ Len(file) = 0
    BY InitIInv DEF Init, IInv, TypeOK
  <2>2. ReplayTakes(file)
    BY <2>1, StoreAssumption DEF ReplayTakes
  <2>3. QED
    BY <2>1, <2>2, ReplayKnows, TakenWithinLimit DEF StepsKnown, LimitPassedByOneBatch
<1>4. IInv /\ IInv' /\ StepsKnown /\ [Next]_vars => StepsKnown'
  BY StepsKnownKept
<1>5. IInv /\ IInv' /\ Healthy /\ StepsKnown /\ LimitPassedByOneBatch /\ [Next]_vars
        => LimitPassedByOneBatch'
  BY LimitKept
<1>6. QED
  BY <1>1, <1>2, <1>3, <1>4, <1>5, SpecIInv, PTL DEF Spec
=============================================================================
