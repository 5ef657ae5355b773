------------------------------ MODULE RunStore ------------------------------
(***************************************************************************)
(* The durable store of a run's steps over its storage owner.  A caller    *)
(* remembers one step of a run: it compares definitions, looks the step    *)
(* up, and else performs it and appends its record.  The store decides and *)
(* writes each append on the owner's thread and folds it into the index    *)
(* after the flush; a crash leaves what the device holds, and a reopen     *)
(* replays it.                                                             *)
(***************************************************************************)
EXTENDS StorageOwner, FiniteSets

CONSTANTS Run, Key, Value, Tenant, Definition,
          Step,         \* the run, key and tenant each caller remembers
          Yields,       \* the values each caller's body may return
          MaxRecords,   \* MAX_RECORDS_PER_RUN: of a run to an append, of
                        \* the whole file to a replay
          MaxStore,     \* MAX_STORE_BYTES, in records
          MaxRestarts,  \* a bound of the model
          None

ASSUME StoreAssumption ==
    /\ Step \in [Request -> [run : Run, key : Key, tenant : Tenant]]
    /\ Yields \in [Request -> SUBSET Value]
    /\ MaxRecords \in Nat /\ MaxStore \in Nat /\ MaxRestarts \in Nat
    /\ None \notin Value \cup Tenant \cup Definition

VARIABLES file,       \* the records written, whole frames in order
          torn,       \* a frame was cut short behind them
          synced,     \* how many of them the device has flushed
          index,      \* what lookups and appends are decided on
          caller,     \* where each caller is in remember_at
          build,      \* the definition this process runs under
          up,         \* the store is open
          restarts,
          recorded    \* history: the records answered Recorded

storeVars == <<file, torn, synced, index, caller, build, up, restarts, recorded>>

vars == <<ownerVars, storeVars>>

Record == [run : Run, key : Key, tenant : Tenant, definition : Definition,
           value : Value]

NoRun == [tenant |-> None, definition |-> None]

Index == [runs : [Run -> [tenant : Tenant, definition : Definition]
                             \cup {NoRun}],
          steps : [Run -> [Key -> Value \cup {None}]],
          staged : [Run -> [Key -> Value \cup {None}]],
          committed : Nat]

CallerState ==
    [at : {"idle", "agreed", "body", "submitted", "left"},
     value : Value \cup {None}, answer : {None}]
    \cup [at : {"done"}, value : Value \cup {None},
          answer : Answers \cup {"Found", "Incompatible", "Refused"}]

Idle == [at |-> "idle", value |-> None, answer |-> None]

TypeOK ==
    /\ OwnerTypeOK
    /\ file \in Seq(Record)
    /\ torn \in BOOLEAN
    /\ synced \in 0..Len(file)
    /\ index \in Index
    /\ caller \in [Request -> CallerState]
    /\ build \in Definition
    /\ up \in BOOLEAN
    /\ restarts \in 0..MaxRestarts
    /\ recorded \subseteq Record

NoSteps == [r \in Run |-> [k \in Key |-> None]]

Recorded(f, r, k) == {i \in 1..Len(f) : f[i].run = r /\ f[i].key = k}

OfRun(f, r) == {i \in 1..Len(f) : f[i].run = r}

First(S) == CHOOSE i \in S : \A j \in S : i <= j

Last(S) == CHOOSE i \in S : \A j \in S : i >= j

(* bump_frame_count: a replay counts every frame of the file, of whatever  *)
(* run, and past the limit it is an error and the open is refused.         *)
ReplayTakes(f) == Len(f) <= MaxRecords

(* The index of a replay that is not refused: the first record of a run    *)
(* names its tenant and definition, and of two records of one step the     *)
(* later is held.                                                          *)
Replayed(f) ==
    [runs |-> [r \in Run |->
         IF OfRun(f, r) = {} THEN NoRun
         ELSE [tenant |-> f[First(OfRun(f, r))].tenant,
               definition |-> f[First(OfRun(f, r))].definition]],
     steps |-> [r \in Run |-> [k \in Key |->
         IF Recorded(f, r, k) = {} THEN None
         ELSE f[Last(Recorded(f, r, k))].value]],
     staged |-> NoSteps,
     committed |-> Len(f)]

Init ==
    /\ OwnerInit
    /\ file = <<>> /\ torn = FALSE /\ synced = 0
    /\ index = Replayed(<<>>)
    /\ caller = [c \in Request |-> Idle]
    /\ build \in Definition
    /\ up = TRUE
    /\ restarts = 0
    /\ recorded = {}

-----------------------------------------------------------------------------
(* remember_at *)

StepOf(c) == index.steps[Step[c].run][Step[c].key]

Finish(c, answer, v) ==
    caller' = [caller EXCEPT ![c] = [at |-> "done", value |-> v,
                                     answer |-> answer]]

Goes(c, at, v) ==
    caller' = [caller EXCEPT ![c] = [at |-> at, value |-> v, answer |-> None]]

(* Mutant: the definition is not compared. *)
AgreesAlways(c) == TRUE

(* agrees *)
AgreesWith(c) ==
    index.runs[Step[c].run].definition \in {None, build}

CheckDefinition(c) ==
    /\ up
    /\ caller[c].at = "idle"
    /\ IF AgreesWith(c) THEN Goes(c, "agreed", None)
                        ELSE Finish(c, "Incompatible", None)
    /\ UNCHANGED <<ownerVars, file, torn, synced, index, build, up, restarts,
                   recorded>>

Foreign(c) == index.runs[Step[c].run].tenant \notin {None, Step[c].tenant}

Lookup(c) ==
    /\ up
    /\ caller[c].at = "agreed"
    /\ IF Foreign(c) THEN Finish(c, "Refused", None)
       ELSE IF StepOf(c) # None THEN Finish(c, "Found", StepOf(c))
       ELSE Goes(c, "body", None)
    /\ UNCHANGED <<ownerVars, file, torn, synced, index, build, up, restarts,
                   recorded>>

(* The body has run, to some value, and its record is handed over. *)
Submit(c) ==
    /\ up
    /\ caller[c].at = "body"
    /\ \E v \in Yields[c] :
          IF Admits \/ Parks
          THEN Enqueue(c) /\ Goes(c, "submitted", v)
          ELSE Finish(c, "Refused", None) /\ UNCHANGED ownerVars
    /\ UNCHANGED <<file, torn, synced, index, build, up, restarts, recorded>>

(* The caller is dropped before its answer arrives (Awaiting::drop). *)
Abandon(c) ==
    /\ caller[c].at = "submitted"
    /\ Goes(c, "left", caller[c].value)
    /\ UNCHANGED <<ownerVars, file, torn, synced, index, build, up, restarts,
                   recorded>>

-----------------------------------------------------------------------------
(* decide_and_write, on the owner's thread *)

SameOrNot(v, w) == IF v = w THEN "AlreadyRecorded" ELSE "Conflicting"

StagedOf(c) == index.staged[Step[c].run][Step[c].key]

(* An append counts the folded steps of its own run: not what is staged,   *)
(* and not what other runs have written.                                   *)
RunFull(c) ==
    Cardinality({k \in Key : index.steps[Step[c].run][k] # None})
        >= MaxRecords

(* The device, the store's ceiling or the fence over the file's length. *)
MayWrite == index.committed < MaxStore /\ ~torn /\ Len(file) = index.committed

(* Mutant: what is written and not yet flushed is not looked at. *)
DecidedOnIndex(c) ==
    IF Foreign(c) THEN "Error"
    ELSE IF StepOf(c) # None THEN SameOrNot(StepOf(c), caller[c].value)
    ELSE IF index.runs[Step[c].run] # NoRun /\ RunFull(c) THEN "Error"
    ELSE IF MayWrite THEN "Recorded" ELSE "Error"

Decided(c) ==
    IF Foreign(c) THEN "Error"
    ELSE IF StepOf(c) # None THEN SameOrNot(StepOf(c), caller[c].value)
    ELSE IF index.runs[Step[c].run] # NoRun /\ RunFull(c) THEN "Error"
    ELSE IF StagedOf(c) # None THEN SameOrNot(StagedOf(c), caller[c].value)
    ELSE IF MayWrite THEN "Recorded" ELSE "Error"

RecordOf(c) == [run |-> Step[c].run, key |-> Step[c].key,
                tenant |-> Step[c].tenant, definition |-> build,
                value |-> caller[c].value]

(* A map of runs to their steps, with the step of a caller's set. *)
WithStep(map, c, v) == [map EXCEPT ![Step[c].run][Step[c].key] = v]

WithStaged(ix, c, v) == [ix EXCEPT !.staged = WithStep(ix.staged, c, v)]

(* An append that is decided without a write, or that the device refuses   *)
(* before one.                                                             *)
StageSettled(c) ==
    /\ StageNext([request |-> c, owes |-> FALSE,
                  answer |-> IF Decided(c) = "Recorded" THEN "Error"
                             ELSE Decided(c)])
    /\ UNCHANGED storeVars

(* Mutant: the step is folded before the bytes move. *)
ReservedFolded(c) ==
    [index EXCEPT !.committed = @ + 1,
                  !.steps = WithStep(index.steps, c, caller[c].value)]

(* The index counts the frame and holds the step before the bytes move. *)
Reserved(c) ==
    [WithStaged(index, c, caller[c].value) EXCEPT !.committed = @ + 1]

StageWritten(c) ==
    /\ Decided(c) = "Recorded"
    /\ StageNext([request |-> c, owes |-> TRUE, answer |-> "Recorded"])
    /\ index' = Reserved(c)
    /\ file' = Append(file, RecordOf(c))
    /\ UNCHANGED <<torn, synced, caller, build, up, restarts, recorded>>

(* write_all failed: none or a part of the frame is in the file. *)
StageWriteFailed(c) ==
    /\ Decided(c) = "Recorded"
    /\ StageNext([request |-> c, owes |-> FALSE, answer |-> "Error"])
    /\ index' = Reserved(c)
    /\ torn' \in BOOLEAN
    /\ UNCHANGED <<file, synced, caller, build, up, restarts, recorded>>

(* sync_all returned: it covers every byte of the file. *)
SyncedAfter(ok) == IF ok /\ Owes THEN Len(file) ELSE synced

Flush(ok) ==
    /\ CloseBatch(ok)
    /\ synced' = SyncedAfter(ok)
    /\ UNCHANGED <<file, torn, index, caller, build, up, restarts, recorded>>

(* Mutant: the step stays staged after it is folded. *)
SettledKeepingStaged(c) ==
    [index EXCEPT !.steps = WithStep(index.steps, c, caller[c].value)]

(* settle: the fold of a record whose flush returned. *)
Settled(c) ==
    LET r == Step[c].run
        first == [tenant |-> Step[c].tenant, definition |-> build]
    IN  [WithStaged(index, c, None) EXCEPT
           !.runs = IF index.runs[r] = NoRun
                    THEN [index.runs EXCEPT ![r] = first] ELSE index.runs,
           !.steps = WithStep(index.steps, c, caller[c].value)]

LatchAnswer ==
    /\ \E c \in Request :
          /\ batch # <<>> /\ Head(batch).request = c
          /\ Latch(caller[c].at = "left")
          /\ index' = IF Head(batch).owes /\ flush = "ok" THEN Settled(c)
                      ELSE index
    /\ UNCHANGED <<file, torn, synced, caller, build, up, restarts, recorded>>

(* A caller that has gone is not told, and its record still counts. *)
PublishAnswer ==
    /\ Publish
    /\ LET c == Head(batch).request
           answer == AnswerOf(Head(batch))
       IN  /\ IF caller[c].at = "left" THEN UNCHANGED caller
              ELSE Finish(c, answer, IF answer \in {"Recorded", "AlreadyRecorded"}
                                     THEN caller[c].value ELSE None)
           /\ recorded' = IF answer = "Recorded" /\ caller[c].at # "left"
                          THEN recorded \cup {RecordOf(c)} ELSE recorded
    /\ UNCHANGED <<file, torn, synced, index, build, up, restarts>>

-----------------------------------------------------------------------------
(* crash, close and reopen *)

MemoryLost ==
    /\ pending' = <<>> /\ waiting' = <<>> /\ batch' = <<>>
    /\ flush' = "none" /\ latched' = FALSE /\ failing' = FALSE
    /\ poisoned' = FALSE
    /\ index' = Replayed(<<>>)
    /\ caller' = [c \in Request |-> Idle]
    /\ up' = FALSE

(* The process dies: what it wrote is in the file, flushed or not, and the *)
(* frame it was writing may be cut short.                                  *)
Die ==
    /\ up
    /\ restarts < MaxRestarts
    /\ restarts' = restarts + 1
    /\ torn' \in {torn, TRUE}
    /\ MemoryLost
    /\ UNCHANGED <<file, synced, build, recorded>>

(* The machine stops: of what was not flushed some prefix is there.  What  *)
(* is read after it came from the device.                                  *)
LosePower ==
    /\ up
    /\ restarts < MaxRestarts
    /\ restarts' = restarts + 1
    /\ \E n \in synced..Len(file) :
          /\ file' = SubSeq(file, 1, n)
          /\ synced' = n
    /\ torn' \in BOOLEAN
    /\ MemoryLost
    /\ UNCHANGED <<build, recorded>>

(* The last handle is dropped: nobody waits, and the owner has drained. *)
Close ==
    /\ up
    /\ \A c \in Request : caller[c].at \notin {"agreed", "body", "submitted"}
    /\ pending = <<>> /\ waiting = <<>> /\ batch = <<>>
    /\ restarts < MaxRestarts
    /\ restarts' = restarts + 1
    /\ MemoryLost
    /\ UNCHANGED <<file, torn, synced, build, recorded>>

(* open: replay, and trim (and flush) a frame that was cut short.  A file  *)
(* the replay does not take stays closed, with its torn frame.             *)
Reopen ==
    /\ ~up
    /\ ReplayTakes(file)
    /\ up' = TRUE
    /\ build' \in Definition
    /\ index' = Replayed(file)
    /\ torn' = FALSE
    /\ synced' = IF torn THEN Len(file) ELSE synced
    /\ UNCHANGED <<ownerVars, file, caller, restarts, recorded>>

Owner ==
    \/ \E c \in Request : StageSettled(c) \/ StageWritten(c)
                             \/ StageWriteFailed(c)
    \/ \E ok \in BOOLEAN : Flush(ok)
    \/ LatchAnswer
    \/ PublishAnswer

Next ==
    \/ \E c \in Request : CheckDefinition(c) \/ Lookup(c) \/ Submit(c)
                             \/ Abandon(c)
    \/ Owner
    \/ Die \/ LosePower \/ Close \/ Reopen

(* The owner's thread runs, and a stopped process is started again, while  *)
(* its file is one that opens.                                             *)
Fairness == WF_vars(Owner) /\ WF_vars(Reopen)

Spec == Init /\ [][Next]_vars /\ Fairness

-----------------------------------------------------------------------------

InPrefix(rec, n) == \E i \in 1..n : file[i] = rec

(* What a caller was told is recorded is on the device, and stays there    *)
(* whatever fails, dies or is reopened afterwards (Appended::Recorded, the *)
(* group commit of owner.rs).                                              *)
RecordedIsDurable == \A rec \in recorded : InPrefix(rec, synced)

(* Two callers of one step, in one batch or across a restart, never both   *)
(* write it: the file has one record of a step (decide_and_write).         *)
OneRecordPerStep ==
    \A i, j \in 1..Len(file) :
        file[i].run = file[j].run /\ file[i].key = file[j].key => i = j

(* Every record of a run was written under one definition, although a      *)
(* changed build may resume the run at any restart (check_definition,      *)
(* RunIndex::definition).                                                  *)
OneDefinitionPerRun ==
    \A i, j \in 1..Len(file) :
        file[i].run = file[j].run => file[i].definition = file[j].definition

(* A usable handle whose owner is at rest stands where its file does:      *)
(* nothing is left staged, its index is the fold of every frame, and the   *)
(* fence over the file's length will let the next append through (settle,  *)
(* replay).  What a reopen of that file answers it answers too; whether    *)
(* the record limit lets it reopen is HealthyHandleReopens.                *)
HealthyIndexIsTheFile ==
    up /\ ~poisoned /\ batch = <<>> => index = Replayed(file) /\ ~torn

(* The file of a usable handle at rest can be reopened, as the docs of     *)
(* open promise of every file whose records are whole.  The code does not  *)
(* keep it: a replay counts the frames of all runs, an append the folded   *)
(* steps of one (bump_frame_count, decide_and_write).                      *)
HealthyHandleReopens ==
    up /\ ~poisoned /\ batch = <<>> => ReplayTakes(file)

(* A run goes past its limit by the batch that reaches it and no further:  *)
(* the members of that batch are not counted for one another, and whatever *)
(* is staged behind it finds the run full (decide_and_write, settle).      *)
LimitPassedByOneBatch ==
    up /\ ~poisoned => \A r \in Run :
        Cardinality(OfRun(file, r)) < MaxRecords + MaxBatch

(* The index never names a record that is not in the file, not even while  *)
(* a batch is being answered, nor after it failed (settle after sync).     *)
IndexIsWritten ==
    \A r \in Run, k \in Key :
        index.steps[r][k] # None =>
            \E i \in 1..Len(file) : /\ file[i].run = r /\ file[i].key = k
                                     /\ file[i].value = index.steps[r][k]

(* A caller told of a failure finds the handle already refusing: it cannot *)
(* append behind bytes nobody answers for (the latch of run_batch).        *)
FailureFindsPoison ==
    \A c \in Request :
        up /\ caller[c].at = "done" /\ caller[c].answer = "Error" => poisoned

(* A caller whose append was taken is answered, or gone: no request stays  *)
(* behind in a ring or a batch (promote, run_batch).                       *)
Answered ==
    \A c \in Request : caller[c].at = "submitted" ~> caller[c].at # "submitted"
=============================================================================
