---------------------------- MODULE Continuation ----------------------------
(***************************************************************************)
(* Continue-as-new of a file journal: past its watermark a journal seals   *)
(* itself with a checkpoint of what it holds, and the same frame opens the *)
(* successor file.  Nothing but the bytes says which file is the journal,  *)
(* so a process killed between any two writes must find one live file that *)
(* still knows every attempt.  A chain head stands for everything before   *)
(* it, so a frame's place in its file stands for its position.             *)
(***************************************************************************)
EXTENDS Ladder, FiniteSets

CONSTANTS Action,
          MaxAttempt,     \* a bound of the model
          MaxGeneration,  \* a bound of the model
          EventsAt,       \* the policy's trigger, in events
          MaxEvents,      \* MAX_JOURNAL_EVENTS
          MaxUnresolved,  \* MAX_CHECKPOINT_UNRESOLVED
          MaxSettled      \* MAX_CHECKPOINT_SETTLED

ASSUME ContinuationAssumption ==
    /\ MaxAttempt \in Nat /\ MaxGeneration \in Nat \ {0}
    /\ EventsAt \in Nat \ {0} /\ MaxEvents \in Nat /\ EventsAt < MaxEvents
    /\ MaxUnresolved \in Nat /\ MaxSettled \in Nat

VARIABLES files,    \* generation by generation, the frames and a cut one
          handle,   \* the open journal, or Closed
          sealing,  \* how far seal_on_owner has come
          acked,    \* history: the frames acknowledged, by file and place
          resumed   \* history: a journal was opened behind its own seal

vars == <<files, handle, sealing, acked, resumed>>

Generation == 1..MaxGeneration

Key == [action : Action, attempt : 1..MaxAttempt]

Rungs == [Key -> Kind \cup {NoKind}]

Event(k, kind) == [is |-> "event", key |-> k, kind |-> kind]

(* The checkpoint: the position it follows, and the rung of every attempt  *)
(* it carries.  A rung below OutcomeObserved is of the unresolved list.    *)
Seal(n, rungs) == [is |-> "seal", after |-> n, carries |-> rungs]

Frame == [is : {"event"}, key : Key, kind : Kind]
         \cup [is : {"seal"}, after : Nat, carries : Rungs]

File == [frames : Seq(Frame), cut : BOOLEAN]

Closed == [gen |-> 0, view |-> 0]

Handle == [gen : Generation, view : Nat, fence : Rungs,
           sealedBy : BOOLEAN, poisoned : BOOLEAN]

TypeOK ==
    /\ files \in [Generation -> File]
    /\ handle \in Handle \cup {Closed}
    /\ handle # Closed => handle.view <= Len(files[handle.gen].frames)
    /\ sealing \in {"idle", "sealed", "written"}
    /\ acked \subseteq Generation \X Nat
    /\ resumed \in BOOLEAN

-----------------------------------------------------------------------------
(* What a file says: scan, recover_continued, the fence open_impl builds *)

EventsOf(f) == {i \in 1..Len(f) : f[i].is = "event"}

LastRung(f, k) ==
    LET own == {i \in EventsOf(f) : f[i].key = k}
    IN  IF own = {} THEN NoKind
        ELSE f[CHOOSE i \in own : \A j \in own : j <= i].kind

Carried(f) ==
    IF f # <<>> /\ f[1].is = "seal" THEN f[1].carries
    ELSE [k \in Key |-> NoKind]

(* The fold: what the file's own events say, over what it was handed. *)
Fold(f) ==
    [k \in Key |-> IF LastRung(f, k) # NoKind THEN LastRung(f, k)
                   ELSE Carried(f)[k]]

(* The fence of an opened file: the carried rungs are put over those of    *)
(* the file's own events.                                                  *)
FenceOf(f) ==
    [k \in Key |-> IF Carried(f)[k] # NoKind THEN Carried(f)[k]
                   ELSE LastRung(f, k)]

OwnSeal(f) == Len(f) > 1 /\ f[Len(f)].is = "seal"

(* scan: any whole frame behind a file's own seal refuses the file. *)
Corrupt(f) == \E i \in 2..(Len(f) - 1) : f[i].is = "seal"

(* Mutant: the successor must hold the seal and nothing else. *)
CompleteExactly(f, s) == f = <<s>>

(* successor_is_complete: its first frame is whole and follows the seal. *)
Complete(f, s) == f # <<>> /\ f[1].is = "seal" /\ f[1].after = s.after

Superseded(g) ==
    LET f == files[g].frames
    IN  /\ g < MaxGeneration
        /\ ~Corrupt(f) /\ OwnSeal(f)
        /\ Complete(files[g + 1].frames, f[Len(f)])

(* open_active: the first file of the walk that is not superseded. *)
Live == CHOOSE g \in Generation :
            ~Superseded(g) /\ \A p \in 1..(g - 1) : Superseded(p)

Refused == Corrupt(files[Live].frames)

(* Mutant: the bytes of a cut frame are counted in. *)
OpenedCounting(g) ==
    [gen |-> g,
     view |-> Len(files[g].frames) + (IF files[g].cut THEN 1 ELSE 0),
     fence |-> FenceOf(files[g].frames),
     sealedBy |-> FALSE, poisoned |-> FALSE]

Opened(g) ==
    [gen |-> g, view |-> Len(files[g].frames),
     fence |-> FenceOf(files[g].frames),
     sealedBy |-> FALSE, poisoned |-> FALSE]

-----------------------------------------------------------------------------
Empty == [frames |-> <<>>, cut |-> FALSE]

Init ==
    /\ files = [g \in Generation |-> Empty]
    /\ handle = Closed
    /\ sealing = "idle"
    /\ acked = {}
    /\ resumed = FALSE

(* open_impl repairs the live file's tail; the superseded are not touched. *)
Open ==
    /\ handle = Closed
    /\ ~Refused
    /\ handle' = Opened(Live)
    /\ files' = [files EXCEPT ![Live] = [frames |-> @.frames, cut |-> FALSE]]
    /\ resumed' = (resumed \/ OwnSeal(files[Live].frames))
    /\ UNCHANGED <<sealing, acked>>

(* The process is killed, or drops the handle. *)
Die ==
    /\ handle # Closed
    /\ handle' = Closed
    /\ sealing' = "idle"
    /\ UNCHANGED <<files, acked, resumed>>

-----------------------------------------------------------------------------
Seen == SubSeq(files[handle.gen].frames, 1, handle.view)

Committed == Cardinality(EventsOf(Seen))

(* is_due, in events *)
Due == Committed >= EventsAt

(* Mutant: a handle that sealed its journal still writes. *)
UsableSealed ==
    /\ handle # Closed /\ sealing = "idle"
    /\ ~handle.poisoned

(* refuse_sealed and fence *)
Usable ==
    /\ handle # Closed /\ sealing = "idle"
    /\ ~handle.sealedBy /\ ~handle.poisoned

Untouched ==
    Len(files[handle.gen].frames) = handle.view /\ ~files[handle.gen].cut

IsSettled(rung) == rung \in {"OutcomeObserved", "Verified"}

(* Mutant: the folded actions are not asked. *)
NeverWalked(k) == FALSE

(* refuse_walked: at or below the attempt the checkpoint folded. *)
AlreadyWalked(k) ==
    /\ handle.fence[k] = NoKind
    /\ \E w \in Key : /\ w.action = k.action /\ k.attempt <= w.attempt
                      /\ IsSettled(Carried(Seen)[w])

Known(a) == {n \in 1..MaxAttempt : Fold(Seen)[[action |-> a, attempt |-> n]]
                                        # NoKind}

Latest(a) == CHOOSE n \in Known(a) \cup {0} : \A m \in Known(a) : m <= n

Unsettled(a) == {n \in Known(a) :
                    ~IsSettled(Fold(Seen)[[action |-> a, attempt |-> n]])}

(* A controller asks for the latest attempt of an action, for the one      *)
(* after it once that is settled, or again for one long behind it.         *)
Asked(k, kind) ==
    \/ k.attempt = Latest(k.action)
    \/ k.attempt = Latest(k.action) + 1 /\ Unsettled(k.action) = {}
    \/ k.attempt < Latest(k.action) /\ kind = "IntentAdmitted"

(* prepare_append, for an append the journal may take. *)
Admits(k, kind) ==
    /\ Usable
    /\ NextAllowed[handle.fence[k]] = kind
    /\ ~AlreadyWalked(k)
    /\ Untouched
    /\ Committed < MaxEvents

Extended(frame) ==
    [files EXCEPT ![handle.gen] =
        [frames |-> Append(@.frames, frame), cut |-> FALSE]]

AppendAcked(k, kind) ==
    /\ files' = Extended(Event(k, kind))
    /\ handle' = [gen |-> handle.gen, view |-> handle.view + 1,
                  fence |-> [handle.fence EXCEPT ![k] = kind],
                  sealedBy |-> FALSE, poisoned |-> FALSE]
    /\ acked' = acked \cup {<<handle.gen, handle.view + 1>>}

Poisoned == [gen |-> handle.gen, view |-> handle.view,
             fence |-> handle.fence, sealedBy |-> handle.sealedBy,
             poisoned |-> TRUE]

(* OutcomeUnknown: the frame is not there, is cut short, or is whole. *)
WriteFails(frame) ==
    /\ files' \in {files, Extended(frame),
                   [files EXCEPT ![handle.gen] =
                       [frames |-> @.frames, cut |-> TRUE]]}
    /\ handle' = Poisoned
    /\ UNCHANGED acked

(* append: continue_if_due has let it through. *)
AppendOne(k, kind) ==
    /\ Admits(k, kind) /\ Asked(k, kind)
    /\ ~Due
    /\ AppendAcked(k, kind) \/ WriteFails(Event(k, kind))
    /\ UNCHANGED <<sealing, resumed>>

-----------------------------------------------------------------------------
(* continue_as_new *)

(* Mutant: an attempt that was only admitted is not carried. *)
KeptDispatched(fold, k) ==
    /\ fold[k] \notin {NoKind, "IntentAdmitted"}
    /\ IsSettled(fold[k]) =>
          \A w \in Key : w.action = k.action /\ IsSettled(fold[w])
                            => w.attempt <= k.attempt

(* carried: every unresolved attempt, and the latest settled of an action. *)
Kept(fold, k) ==
    /\ fold[k] # NoKind
    /\ IsSettled(fold[k]) =>
          \A w \in Key : w.action = k.action /\ IsSettled(fold[w])
                            => w.attempt <= k.attempt

(* Mutant: an unresolved attempt is carried as handed off. *)
CheckpointHandedOff ==
    [k \in Key |-> IF ~Kept(Fold(Seen), k) THEN NoKind
                   ELSE IF IsSettled(Fold(Seen)[k]) THEN Fold(Seen)[k]
                   ELSE "DispatchPrepared"]

Checkpoint ==
    [k \in Key |-> IF Kept(Fold(Seen), k) THEN Fold(Seen)[k] ELSE NoKind]

CarryFits ==
    /\ Cardinality({k \in Key : IsSettled(Checkpoint[k])}) <= MaxSettled
    /\ Cardinality({k \in Key : ~IsSettled(Checkpoint[k])
                                  /\ Checkpoint[k] # NoKind}) <= MaxUnresolved

OwnFrame == Seal(Len(Seen), Checkpoint)

(* The seal goes behind the predecessor's events first. *)
SealPredecessor ==
    /\ Usable /\ Due
    /\ handle.gen < MaxGeneration
    /\ CarryFits /\ Untouched
    /\ \/ /\ files' = Extended(OwnFrame)
          /\ sealing' = "sealed"
          /\ UNCHANGED <<handle, acked>>
       \/ WriteFails(OwnFrame) /\ UNCHANGED sealing
    /\ UNCHANGED resumed

(* write_successor: an interrupted one is taken back and written again. *)
WriteSuccessor ==
    /\ sealing = "sealed"
    /\ LET f == files[handle.gen].frames
           whole == [frames |-> <<f[Len(f)]>>, cut |-> FALSE]
       IN  \/ /\ files' = [files EXCEPT ![handle.gen + 1] = whole]
              /\ sealing' = "written"
              /\ UNCHANGED handle
           \/ /\ \E left \in BOOLEAN :
                    files' = [files EXCEPT ![handle.gen + 1] =
                                 [frames |-> <<>>, cut |-> left]]
              /\ sealing' = "idle"
              /\ handle' = Poisoned
    /\ UNCHANGED <<acked, resumed>>

SealedBy == [gen |-> handle.gen, view |-> handle.view + 1,
             fence |-> handle.fence, sealedBy |-> TRUE, poisoned |-> FALSE]

(* The flushes: both files' and the directory's, then the successor is     *)
(* opened; any of them may fail.                                           *)
FinishSeal ==
    /\ sealing = "written"
    /\ sealing' = "idle"
    /\ handle' \in {Opened(handle.gen + 1), Poisoned, SealedBy}
    /\ UNCHANGED <<files, acked, resumed>>

Next ==
    \/ Open \/ Die
    \/ \E k \in Key, kind \in Kind : AppendOne(k, kind)
    \/ SealPredecessor \/ WriteSuccessor \/ FinishSeal

Spec == Init /\ [][Next]_vars

-----------------------------------------------------------------------------
(* What the files of the chain say of an attempt, first to last. *)
Written(k, g) ==
    LET naming == {p \in 1..g : LastRung(files[p].frames, k) # NoKind}
    IN  IF naming = {} THEN NoKind
        ELSE LastRung(files[CHOOSE p \in naming :
                                \A q \in naming : q <= p].frames, k)

AtRest == Usable /\ Untouched

(* Any number of continuations, interrupted anywhere, leave the journal    *)
(* with what one uninterrupted file would say: every unresolved attempt at *)
(* its rung and the latest attempt of every action; of the others it has   *)
(* forgotten only settled ones (carried, recover_continued).               *)
FoldKept ==
    AtRest =>
        \A k \in Key :
            LET whole == Written(k, handle.gen)
                told  == Fold(Seen)[k]
            IN  \/ told = whole
                \/ /\ told = NoKind /\ IsSettled(whole)
                   /\ \E w \in Key : /\ w.action = k.action
                                      /\ w.attempt > k.attempt
                                      /\ Written(w, handle.gen) # NoKind

(* No attempt is admitted a second time, in its own file or in a successor *)
(* that has forgotten it (the ladder, refuse_walked).                      *)
AdmittedOnce ==
    \A k \in Key, g, p \in Generation :
        \A i \in 1..Len(files[g].frames), j \in 1..Len(files[p].frames) :
            /\ files[g].frames[i] = Event(k, "IntentAdmitted")
            /\ files[p].frames[j] = Event(k, "IntentAdmitted")
            => g = p /\ i = j

(* While the walk from the first file is not refused, it reaches every     *)
(* acknowledged frame (open_active, the authority rule).                   *)
AckedIsReached ==
    ~Refused =>
        \A a \in acked : a[1] <= Live /\ a[2] <= Len(files[a[1]].frames)

(* Nothing is written to a file but the one the walk finds live at that    *)
(* moment, and no event to its successor: two files never both take        *)
(* appends (refuse_sealed, the poison).                                    *)
OnlyTheLiveIsWritten ==
    [][~Refused =>
          /\ \A g \in Generation \ {Live, Live + 1} : files'[g] = files[g]
          /\ \A g \in Generation \ {Live} :
                EventsOf(files'[g].frames) = EventsOf(files[g].frames)]_vars

(* No rung is recorded of an attempt before the rung below it, in the same *)
(* file or in one it was carried from: an outcome needs its handoff, though *)
(* a reopened fence may stand behind the fold (carried, the ladder).       *)
NoRungSkipped ==
    \A g \in Generation : \A i \in EventsOf(files[g].frames) :
        LET e == files[g].frames[i]
        IN  e.kind = "IntentAdmitted" \/
            \E p \in 1..g : \E j \in EventsOf(files[p].frames) :
                /\ p = g => j < i
                /\ files[p].frames[j].key = e.key
                /\ Rung[files[p].frames[j].kind] >= Rung[e.kind] - 1

(* A walk is refused only after a journal was opened behind its own seal:  *)
(* no other kill, failed write or failed flush makes a file unreadable.    *)
ReopensUnlessResumed == Refused => resumed

(* Whatever was interrupted, the next open finds the journal (the crash    *)
(* table of continuation.rs: the predecessor resumes appending).           *)
AlwaysReopens == ~Refused
=============================================================================
