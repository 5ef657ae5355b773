---------------------------- MODULE StorageOwner ----------------------------
(***************************************************************************)
(* The thread that owns a store's file, as its callers and its batches see *)
(* it: two bounded rings of requests, one batch staged from them in order, *)
(* one flush for the batch, then the answers in order, and a latch that    *)
(* refuses every later request once an outcome is unknown.  What a request *)
(* writes is its store's; a store extends this module and says so.         *)
(***************************************************************************)
EXTENDS Integers, Sequences

CONSTANTS Request,
          QueueDepth,   \* DEFAULT_QUEUE_DEPTH
          MaxWaiting,   \* MAX_WAITING_SUBMITTERS
          MaxBatch      \* MAX_BATCH_RECORDS

ASSUME OwnerAssumption ==
    /\ QueueDepth \in Nat \ {0}
    /\ MaxWaiting \in Nat
    /\ MaxBatch \in Nat \ {0}

VARIABLES pending,   \* requests admitted and not yet staged
          waiting,   \* requests that found pending full
          batch,     \* the staged members not yet answered
          flush,     \* what the batch's flush said
          latched,   \* the first member is about to be told its answer
          failing,   \* an answer of this batch was a failure
          poisoned   \* the handle refuses requests until it is reopened

ownerVars == <<pending, waiting, batch, flush, latched, failing, poisoned>>

(* Errors are one answer: what the caller does next is the same. *)
Answers == {"Recorded", "AlreadyRecorded", "Conflicting", "Error"}

Member == [request : Request, owes : BOOLEAN, answer : Answers]

(* The types, and the bounds of the rings and of the batch. *)
OwnerTypeOK ==
    /\ pending \in Seq(Request) /\ Len(pending) <= QueueDepth
    /\ waiting \in Seq(Request) /\ Len(waiting) <= MaxWaiting
    /\ batch \in Seq(Member)    /\ Len(batch) <= MaxBatch
    /\ flush \in {"none", "ok", "failed"}
    /\ latched \in BOOLEAN
    /\ failing \in BOOLEAN
    /\ poisoned \in BOOLEAN

OwnerInit ==
    /\ pending = <<>>
    /\ waiting = <<>>
    /\ batch = <<>>
    /\ flush = "none"
    /\ latched = FALSE
    /\ failing = FALSE
    /\ poisoned = FALSE

-----------------------------------------------------------------------------
(* enqueue *)

(* Mutant: one request more than the ring's depth is admitted. *)
AdmitsOnePast == ~poisoned /\ Len(pending) <= QueueDepth

Admits == ~poisoned /\ Len(pending) < QueueDepth

Parks == ~poisoned /\ Len(pending) >= QueueDepth /\ Len(waiting) < MaxWaiting

Enqueue(r) ==
    /\ \/ Admits /\ pending' = Append(pending, r) /\ UNCHANGED waiting
       \/ Parks  /\ waiting' = Append(waiting, r) /\ UNCHANGED pending
    /\ UNCHANGED <<batch, flush, latched, failing, poisoned>>

(* Mutant: requests that wait for room are never given it. *)
PromotedNone == 0

(* promote: as many waiting requests as the pending ring has room for. *)
Promoted ==
    IF batch # <<>> \/ Len(pending) >= QueueDepth THEN 0
    ELSE IF Len(waiting) < QueueDepth - Len(pending) THEN Len(waiting)
    ELSE QueueDepth - Len(pending)

PendingNow == pending \o SubSeq(waiting, 1, Promoted)

(* The owner takes the next request of its batch and stages it; an empty   *)
(* batch first gives the waiting requests the room there is.               *)
StageNext(m) ==
    /\ flush = "none"
    /\ Len(batch) < MaxBatch
    /\ PendingNow # <<>>
    /\ m.request = Head(PendingNow)
    /\ batch' = Append(batch, m)
    /\ pending' = Tail(PendingNow)
    /\ waiting' = SubSeq(waiting, Promoted + 1, Len(waiting))
    /\ UNCHANGED <<flush, latched, failing, poisoned>>

Owes == \E i \in 1..Len(batch) : batch[i].owes

(* One flush covers the batch, and only a batch that owes one. *)
CloseBatch(ok) ==
    /\ flush = "none"
    /\ batch # <<>>
    /\ pending = <<>> \/ Len(batch) = MaxBatch
    /\ Owes \/ ok
    /\ flush' = IF ok THEN "ok" ELSE "failed"
    /\ failing' = FALSE
    /\ UNCHANGED <<pending, waiting, batch, latched, poisoned>>

(* Mutant: a member is answered as it was staged, whatever the flush said. *)
AnswerAsStaged(m) == m.answer

AnswerOf(m) == IF m.owes /\ flush = "failed" THEN "Error" ELSE m.answer

(* Mutant: a batch whose first answer is good leaves the handle usable. *)
PoisonsOnFirst(m, abandoned) ==
    failing \/ abandoned \/ (AnswerOf(m) = "Error" /\ ~m.owes)

PoisonsWith(m, abandoned) == failing \/ abandoned \/ AnswerOf(m) = "Error"

(* The latch is raised before the member is told its answer. *)
Latch(abandoned) ==
    /\ flush # "none"
    /\ ~latched
    /\ latched' = TRUE
    /\ failing' = PoisonsWith(Head(batch), abandoned)
    /\ poisoned' = (poisoned \/ failing')
    /\ UNCHANGED <<pending, waiting, batch, flush>>

Publish ==
    /\ latched
    /\ latched' = FALSE
    /\ batch' = Tail(batch)
    /\ flush' = IF Len(batch) = 1 THEN "none" ELSE flush
    /\ UNCHANGED <<pending, waiting, failing, poisoned>>
=============================================================================
