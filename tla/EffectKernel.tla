---------------------------- MODULE EffectKernel ----------------------------
(***************************************************************************)
(* The effect kernel of the bot: controllers that walk chains of entries,  *)
(* hand attempts to the world and keep the record of them in one durable   *)
(* journal they share.                                                     *)
(*                                                                         *)
(* A controller is one assembled bot.  Its memory (the fence `tail`, the   *)
(* fold of the journal, the live transition of each chain) is lost when it *)
(* stops; the journal is not, up to what was durable.  A tick walks the    *)
(* planned entries of a chain and can be dropped at each await.  Effects   *)
(* are external ones: their record has to survive the process.             *)
(***************************************************************************)
EXTENDS EffectJournal, FiniteSets

CONSTANTS Controller, Action, Chain, Input,
          Entries,     \* [Chain -> Seq(Action)]: each chain's declaration
          Delivers,    \* [Chain -> SUBSET Input]: what each source may show
          Wants,       \* <<action, input>> pairs whose condition holds
          EventInput,  \* inputs whose identity names an event, not content
          Budget,      \* RetryPolicy::max_attempts
          MaxAttempt,  \* bound on attempt identities, for model checking
          Exclusive    \* TRUE when the journal's lock admits one controller

ASSUME KernelAssumption ==
    /\ Budget \in Nat \ {0}
    /\ MaxAttempt \in Nat
    /\ Exclusive \in BOOLEAN
    /\ EventInput \subseteq Input
    /\ Delivers \in [Chain -> SUBSET Input]
    /\ Wants \subseteq Action \X Input
    /\ Entries \in [Chain -> Seq(Action)]
    /\ Key = [action : Action, input : Input, attempt : 1..MaxAttempt]

VARIABLES up,          \* controllers that are assembled
          tail,        \* Effects::tail, the position each fold represents
          unsettled,   \* Effects::unsettled, recovered unknowns
          recording,   \* Effects::recording, recovered outcomes unattested
          latest,      \* Effects::applied_latest
          landedEvent, \* Effects::applied_events
          attempted,   \* Effects::attempted, the highest attempt recorded
          bound,       \* the input each chain's transition is bound to
          state,       \* EntryState of each action's entry
          begun,       \* AttemptRecord::begun, 0 for None
          pc,          \* where each controller's tick is
          handed,      \* history: attempts given to the world
          truth        \* history: what the world did with each attempt

held == <<unsettled, recording>>
fold == <<latest, landedEvent, attempted>>
memory == <<tail, held, fold>>
transition == <<bound, state, begun>>
world == <<handed, truth>>
vars == <<log, durable, up, memory, transition, pc, world>>

NoInput == "NoInput"
(* No observation is mistaken for having none. *)
ASSUME NoInputAssumption == NoInput \notin Input

NoKey   == [action |-> "None", input |-> "None", attempt |-> 0]
Unknown == "Unknown"

EntryState == {"NotStarted", "Unrecorded", "Succeeded", "Skipped",
               "DefinitelyFailed", "OutcomeUnknown",
               "AppliedUnrecorded", "NotAppliedUnrecorded",   \* RecordingFailed
               "Exhausted", "GivenUp"}                        \* Abandoned

Idle == [at |-> "idle"]

Walking(ch, next, upto) ==
    [at |-> "walk", chain |-> ch, next |-> next, upto |-> upto]

PC == {Idle} \cup [at : {"walk", "intent", "running"}, chain : Chain,
                   next : Nat \ {0}, upto : Nat]

TypeOK ==
    /\ JournalTypeOK
    /\ up \subseteq Controller
    /\ tail \in [Controller -> Seq(EffectEvent(Key))]
    /\ unsettled \in [Controller -> SUBSET Key]
    /\ recording \in [Controller -> SUBSET (Key \X Evidence)]
    /\ latest \in [Controller -> [Action -> Key \cup {NoKey}]]
    /\ landedEvent \in [Controller -> SUBSET (Action \X Input)]
    /\ attempted \in [Controller -> [Action -> 0..MaxAttempt]]
    /\ bound \in [Controller -> [Chain -> Input \cup {NoInput}]]
    /\ state \in [Controller -> [Action -> EntryState]]
    /\ begun \in [Controller -> [Action -> 0..MaxAttempt]]
    /\ pc \in [Controller -> PC]
    /\ handed \subseteq Key
    /\ truth \in [Key -> Evidence \cup {Unknown}]

-----------------------------------------------------------------------------
ActionsOf(ch) == {Entries[ch][i] : i \in 1..Len(Entries[ch])}

(* An action is named for its chain and its place there (derive_action_id), *)
(* so one entry has one action and one action has one entry.               *)
ASSUME OneEntryPerAction ==
    \A ch, other \in Chain :
        \A i \in 1..Len(Entries[ch]), j \in 1..Len(Entries[other]) :
            Entries[ch][i] = Entries[other][j] => ch = other /\ i = j

ChainOf(a) == CHOOSE ch \in Chain : a \in ActionsOf(ch)

(* Mutant: an entry of unknown outcome does not keep its transition. *)
IsOpenUnlessUnknown(s) ==
    s \notin {"Succeeded", "Skipped", "Exhausted", "GivenUp", "OutcomeUnknown"}

IsOpen(s) == s \notin {"Succeeded", "Skipped", "Exhausted", "GivenUp"}
IsAbandoned(s) == s \in {"Exhausted", "GivenUp"}
(* Mutant: an entry of unknown outcome is walked past. *)
IsDoneOrUnknown(s) == s \in {"Succeeded", "Skipped", "OutcomeUnknown"}

IsDone(s) == s \in {"Succeeded", "Skipped"}
IsRecordingFailed(s) == s \in {"AppliedUnrecorded", "NotAppliedUnrecorded"}

KeyOf(c, a, attempt) ==
    [action |-> a, input |-> bound[c][ChainOf(a)], attempt |-> attempt]

HeldEvidence(s) == IF s = "AppliedUnrecorded" THEN "Applied" ELSE "NotApplied"

(* Mutant: a recovered unknown does not stand in the way. *)
BlocksOnRecordOnly(c, a) == \E r \in recording[c] : r[1].action = a

Blocks(c, a) ==
    \/ \E k \in unsettled[c] : k.action = a
    \/ \E r \in recording[c] : r[1].action = a

(* Mutant: the events that landed are not consulted. *)
AppliedInLatest(c, a, i) == i \notin EventInput /\ latest[c][a].input = i

AppliedIn(c, a, i) ==
    IF i \in EventInput
    THEN <<a, i>> \in landedEvent[c]
    ELSE latest[c][a] # NoKey /\ latest[c][a].input = i

(* after_definite_failure: the budget, then the deadline the clock decides. *)
AfterDefiniteFailure(attempts) ==
    IF attempts >= Budget THEN {"Exhausted"} ELSE {"DefinitelyFailed", "GivenUp"}

(* fold_outcome: a receipted outcome enters the controller's fold. *)
FoldOutcome(c, k, e) ==
    /\ attempted' = IF k.attempt > attempted[c][k.action]
                    THEN [attempted EXCEPT ![c][k.action] = k.attempt]
                    ELSE attempted
    /\ latest' = IF e = "Applied"
                 THEN [latest EXCEPT ![c][k.action] = k] ELSE latest
    /\ landedEvent' = IF e = "Applied"
                      THEN [landedEvent EXCEPT ![c] = @ \cup {<<k.action, k.input>>}]
                      ELSE landedEvent

(* Mutants: the acknowledgment's durability is taken for granted; the tail *)
(* is read afresh for the append.                                          *)
FencedUngraded(c, e, strong) == tail[c] = log /\ Commit(e, FALSE)
FencedAfresh(c, e, strong) == Commit(e, strong)

(* The fence: an append names the position this controller's fold stands   *)
(* at, never one read afresh.                                              *)
Fenced(c, e, strong) == tail[c] = log /\ Commit(e, strong)

Larger(m, n) == IF m < n THEN n ELSE m

(* ensure_outcome, the one settlement write: ok when the outcome of k is   *)
(* recorded, receipted and folded.  An outcome already recorded needs a    *)
(* receipt and its position still to be the journal's tail (which then     *)
(* becomes the fence); a new one is appended at the fence.                 *)
EnsureOutcome(c, k, e, ok) ==
    \/ /\ ~ok                       \* refused: the journal is unchanged
       /\ UNCHANGED <<log, durable, tail, fold>>
    \/ /\ Says(log, k, e)           \* settle_committed_outcome
       /\ durable' = Larger(durable, OutcomeAt(log, k))
       /\ ok = (OutcomeAt(log, k) = Len(log))
       /\ IF ok
          THEN tail' = [tail EXCEPT ![c] = log] /\ FoldOutcome(c, k, e)
          ELSE UNCHANGED <<tail, fold>>
       /\ UNCHANGED log
    \/ /\ ~ok                       \* landed, and no receipt could be had
       /\ Fenced(c, OutcomeObserved(k, e), FALSE)
       /\ UNCHANGED <<tail, fold>>
    \/ /\ ok                        \* record_new_outcome
       /\ Fenced(c, OutcomeObserved(k, e), TRUE)
       /\ tail' = [tail EXCEPT ![c] = log']
       /\ FoldOutcome(c, k, e)

(* What the world did with k, fixed the first time anyone learns it. *)
Learn(k, e) ==
    /\ truth[k] \in {Unknown, e}
    /\ truth' = [truth EXCEPT ![k] = e]

-----------------------------------------------------------------------------
(***************************************************************************)
(* Transitions: what a chain is working on.                                *)
(***************************************************************************)
AtRest(c) == c \in up /\ pc[c] = Idle

(* fire_plan opens a transition over a new observation, or resumes one     *)
(* that holds nothing but abandonments; those stay abandoned.              *)
Observe(c, ch, i) ==
    /\ AtRest(c)
    /\ bound[c][ch] # i
    /\ bound[c][ch] = NoInput \/ \A a \in ActionsOf(ch) : ~IsOpen(state[c][a])
    /\ bound' = [bound EXCEPT ![c][ch] = i]
    /\ state' = [state EXCEPT ![c] = [a \in Action |->
                    IF a \in ActionsOf(ch) /\ ~IsAbandoned(@[a])
                    THEN "NotStarted" ELSE @[a]]]
    /\ begun' = [begun EXCEPT ![c] = [a \in Action |->
                    IF a \in ActionsOf(ch) THEN 0 ELSE @[a]]]
    /\ UNCHANGED <<log, durable, up, memory, pc, world>>

(* A transition with nothing open and nothing abandoned is not retained. *)
Release(c, ch) ==
    /\ AtRest(c)
    /\ bound[c][ch] # NoInput
    /\ \A a \in ActionsOf(ch) : IsDone(state[c][a])
    /\ bound' = [bound EXCEPT ![c][ch] = NoInput]
    /\ state' = [state EXCEPT ![c] = [a \in Action |->
                    IF a \in ActionsOf(ch) THEN "NotStarted" ELSE @[a]]]
    /\ begun' = [begun EXCEPT ![c] = [a \in Action |->
                    IF a \in ActionsOf(ch) THEN 0 ELSE @[a]]]
    /\ UNCHANGED <<log, durable, up, memory, pc, world>>

(***************************************************************************)
(* The walk: plan_chain fixes how far it goes, run_chain goes.             *)
(***************************************************************************)
Passable(c, a) ==
    /\ ~Blocks(c, a)
    /\ \/ IsDone(state[c][a]) \/ IsRecordingFailed(state[c][a])
       \/ state[c][a] \in {"NotStarted", "DefinitelyFailed"}

(* The entries planned: up to the first barrier, or to a failed entry      *)
(* still inside its backoff.                                               *)
PlanEnds(c, ch) ==
    LET last == Len(Entries[ch])
    IN  {n \in 0..last :
            /\ \A i \in 1..n : Passable(c, Entries[ch][i])
            /\ \/ n = last
               \/ ~Passable(c, Entries[ch][n + 1])
               \/ state[c][Entries[ch][n + 1]] = "DefinitelyFailed"}

(* The walk's next entry after n that is not already decided. *)
WalkFrom(c, ch, n, upto) ==
    LET left == {i \in n..upto : ~IsDone(state[c][Entries[ch][i]])}
    IN  IF left = {}
        THEN Idle
        ELSE Walking(ch, CHOOSE i \in left : \A j \in left : i <= j, upto)

WalkOn(c) == WalkFrom(c, pc[c].chain, pc[c].next + 1, pc[c].upto)

Plan(c, ch) ==
    /\ AtRest(c)
    /\ bound[c][ch] # NoInput
    /\ \E n \in PlanEnds(c, ch) :
        /\ WalkFrom(c, ch, 1, n) # Idle
        /\ pc' = [pc EXCEPT ![c] = WalkFrom(c, ch, 1, n)]
    /\ UNCHANGED <<log, durable, up, memory, transition, world>>

Here(c) == Entries[pc[c].chain][pc[c].next]

Reached(c) == c \in up /\ pc[c].at = "walk"

StateBecomes(c, a, s) ==
    /\ state' = [state EXCEPT ![c][a] = s]
    /\ UNCHANGED <<bound, begun>>

Advance(c, stage) ==
    pc' = [pc EXCEPT ![c] = [at |-> stage, chain |-> pc[c].chain,
                             next |-> pc[c].next, upto |-> pc[c].upto]]

Stop(c) == pc' = [pc EXCEPT ![c] = Idle]

Wanted(c) == <<Here(c), bound[c][pc[c].chain]>> \in Wants

Retired(c) == AppliedIn(c, Here(c), bound[c][pc[c].chain])

(* The condition is false, or the record says the effect has landed for    *)
(* this generation: nothing is owed and the walk goes on.                  *)
SkipEntry(c) ==
    /\ Reached(c)
    /\ ~IsRecordingFailed(state[c][Here(c)])
    /\ ~Wanted(c) \/ Retired(c)
    /\ StateBecomes(c, Here(c), "Skipped")
    /\ pc' = [pc EXCEPT ![c] = WalkOn(c)]
    /\ UNCHANGED <<log, durable, up, memory, world>>

(* A known outcome without its record: the append is retried, never the    *)
(* action.  The walk goes on past it whatever the outcome was.             *)
RetryRecording(c) ==
    /\ Reached(c)
    /\ IsRecordingFailed(state[c][Here(c)])
    /\ LET a == Here(c)
           e == HeldEvidence(state[c][a])
       IN  \E ok \in BOOLEAN :
            /\ EnsureOutcome(c, KeyOf(c, a, begun[c][a]), e, ok)
            /\ IF ~ok
               THEN Stop(c) /\ UNCHANGED transition
               ELSE /\ IF e = "Applied"
                       THEN StateBecomes(c, a, "Succeeded")
                       ELSE \E s \in AfterDefiniteFailure(begun[c][a]) :
                                StateBecomes(c, a, s)
                    /\ pc' = [pc EXCEPT ![c] = WalkOn(c)]
    /\ UNCHANGED <<up, held, world>>

Startable(c) ==
    /\ Reached(c)
    /\ state[c][Here(c)] \in {"NotStarted", "DefinitelyFailed"}
    /\ Wanted(c) /\ ~Retired(c) /\ ~Blocks(c, Here(c))

(* expire_retry: the backoff ended after the deadline. *)
Expire(c) ==
    /\ Startable(c)
    /\ state[c][Here(c)] = "DefinitelyFailed"
    /\ StateBecomes(c, Here(c), "GivenUp")
    /\ Stop(c)
    /\ UNCHANGED <<log, durable, up, memory, world>>

(* begin_attempt mints the successor of this generation's attempt, or of   *)
(* the highest one the journal records.                                    *)
Mint(c, a) ==
    IF begun[c][a] # 0 THEN begun[c][a] + 1 ELSE attempted[c][a] + 1

(* Mutant: the settling outcome is left out of the reservation. *)
HandoffRungsBeforeEffect == 2

(* Intent, preparation and the outcome that settles the attempt. *)
HandoffRungs == 3

ReserveHandoffCapacity == Len(log) + HandoffRungs <= Capacity

BeginAttempt(c) ==
    /\ Startable(c)
    /\ Mint(c, Here(c)) <= MaxAttempt
    /\ ReserveHandoffCapacity
    /\ Fenced(c, IntentAdmitted(KeyOf(c, Here(c), Mint(c, Here(c)))), TRUE)
    /\ tail' = [tail EXCEPT ![c] = log']
    /\ attempted' = [attempted EXCEPT ![c][Here(c)] =
                        Larger(@, Mint(c, Here(c)))]
    /\ Advance(c, "intent")
    /\ UNCHANGED <<up, held, latest, landedEvent, transition, world>>

(* The intent landed and the controller did not take it as a durable fact: *)
(* acknowledged too weakly (the attempt is noted), or the reply was lost   *)
(* or the tick dropped while waiting for it.  The fence stays behind.      *)
IntentUnaccepted(c) ==
    /\ Startable(c)
    /\ Mint(c, Here(c)) <= MaxAttempt
    /\ ReserveHandoffCapacity
    /\ \E strong, acknowledged \in BOOLEAN :
        /\ Fenced(c, IntentAdmitted(KeyOf(c, Here(c), Mint(c, Here(c)))), strong)
        /\ attempted' = IF acknowledged
                        THEN [attempted EXCEPT ![c][Here(c)] =
                                Larger(@, Mint(c, Here(c)))]
                        ELSE attempted
    /\ Stop(c)
    /\ UNCHANGED <<up, tail, held, latest, landedEvent, transition, world>>

Preparing(c) == KeyOf(c, Here(c), attempted[c][Here(c)])

(* prepare_dispatch committed and acknowledged durably: the entry is       *)
(* marked in flight and the attempt leaves the process.                    *)
Dispatch(c) ==
    /\ c \in up
    /\ pc[c].at = "intent"
    /\ Fenced(c, DispatchPrepared(Preparing(c)), TRUE)
    /\ tail' = [tail EXCEPT ![c] = log']
    /\ begun' = [begun EXCEPT ![c][Here(c)] = Preparing(c).attempt]
    /\ state' = [state EXCEPT ![c][Here(c)] = "Unrecorded"]
    /\ handed' = handed \cup {Preparing(c)}
    /\ Advance(c, "running")
    /\ UNCHANGED <<up, held, fold, bound, truth>>

(* The preparation landed, too weakly or unacknowledged: nothing is sent. *)
DispatchUnaccepted(c) ==
    /\ c \in up
    /\ pc[c].at = "intent"
    /\ \E strong \in BOOLEAN : Fenced(c, DispatchPrepared(Preparing(c)), strong)
    /\ Stop(c)
    /\ UNCHANGED <<up, memory, transition, world>>

(* The tick stops here: an append refused before it was written (a stale   *)
(* fence, no room, a storage error), or the tick's future dropped at an    *)
(* await.  An entry in flight stays Unrecorded.                            *)
DropTick(c) ==
    /\ \/ Startable(c)
       \/ c \in up /\ pc[c].at \in {"intent", "running"}
    /\ Stop(c)
    /\ UNCHANGED <<log, durable, up, memory, transition, world>>

Running(c) == c \in up /\ pc[c].at = "running"

InFlight(c) == KeyOf(c, Here(c), begun[c][Here(c)])

(* The action returned success. *)
ReturnOk(c) ==
    /\ Running(c)
    /\ Learn(InFlight(c), "Applied")
    /\ \E ok \in BOOLEAN :
        /\ EnsureOutcome(c, InFlight(c), "Applied", ok)
        /\ IF ok
           THEN /\ StateBecomes(c, Here(c), "Succeeded")
                /\ pc' = [pc EXCEPT ![c] = WalkOn(c)]
           ELSE StateBecomes(c, Here(c), "AppliedUnrecorded") /\ Stop(c)
    /\ UNCHANGED <<up, held, handed>>

(* The action failed and says nothing reached the world: retryable when it *)
(* was not delivered, terminal when it was refused.                        *)
ReturnNotApplied(c) ==
    /\ Running(c)
    /\ Learn(InFlight(c), "NotApplied")
    /\ \E ok \in BOOLEAN :
        /\ EnsureOutcome(c, InFlight(c), "NotApplied", ok)
        /\ IF ok
           THEN \E s \in AfterDefiniteFailure(begun[c][Here(c)]) \cup {"GivenUp"} :
                    StateBecomes(c, Here(c), s)
           ELSE StateBecomes(c, Here(c), "NotAppliedUnrecorded")
    /\ Stop(c)
    /\ UNCHANGED <<up, held, handed>>

(* The action cannot tell: nothing is recorded and the entry is held. *)
ReturnUnsettled(c) ==
    /\ Running(c)
    /\ StateBecomes(c, Here(c), "OutcomeUnknown")
    /\ Stop(c)
    /\ UNCHANGED <<log, durable, up, memory, world>>

(***************************************************************************)
(* Evidence: resolve_effect, called between ticks.  The caller tells the   *)
(* truth about an attempt the journal shows as dispatched.                 *)
(***************************************************************************)
Offered(c, k, e) ==
    /\ AtRest(c)
    /\ IsHandedOff(log, k)
    /\ e = "Applied" => k \in handed
    /\ Learn(k, e)
    /\ UNCHANGED <<up, pc, handed>>

(* Mutant: a recovered attempt is looked for in a live transition only. *)
IsRecoveredUnknownIfBound(c, k) ==
    /\ k \in unsettled[c]
    /\ bound[c][ChainOf(k.action)] = k.input

IsRecoveredUnknown(c, k) ==
    /\ k \in unsettled[c]
    /\ \A j \in unsettled[c] : j.action = k.action => k.attempt <= j.attempt

IsRecoveredRecord(c, k, e) ==
    /\ <<k, e>> \in recording[c]
    /\ \A r \in recording[c] : r[1].action = k.action => k.attempt <= r[1].attempt

(* settle_recovered: an attempt this controller recovered as unknown. *)
ResolveRecovered(c, k, e) ==
    /\ Offered(c, k, e)
    /\ IsRecoveredUnknown(c, k)
    /\ \E ok \in BOOLEAN :
        /\ EnsureOutcome(c, k, e, ok)
        /\ unsettled' = IF ok THEN [unsettled EXCEPT ![c] = @ \ {k}] ELSE unsettled
    /\ UNCHANGED <<recording, transition>>

(* settle_recording: an outcome recovery read back and could not attest is *)
(* still the one recorded, and its receipt can be had now.                 *)
ResolveRecording(c, k, e) ==
    /\ Offered(c, k, e)
    /\ ~IsRecoveredUnknown(c, k)
    /\ IsRecoveredRecord(c, k, e)
    /\ Says(log, k, e)              \* outcome_position
    /\ durable' = Larger(durable, OutcomeAt(log, k))
    /\ recording' = [recording EXCEPT ![c] = @ \ {<<k, e>>}]
    /\ FoldOutcome(c, k, e)
    /\ UNCHANGED <<log, tail, unsettled, transition>>

(* classify_settlement looks at the live transition and at the record. *)
Classified(c, k, e) ==
    /\ Offered(c, k, e)
    /\ ~IsRecoveredUnknown(c, k) /\ ~IsRecoveredRecord(c, k, e)
    /\ \A other \in Evidence \ {e} : ~Says(log, k, other)

IsSettleable(s) == s \in {"Unrecorded", "OutcomeUnknown"} \/ IsAbandoned(s)

(* Decided: the entry's outstanding attempt.  The record moves first. *)
ResolveHeld(c, k, e) ==
    /\ Classified(c, k, e)
    /\ bound[c][ChainOf(k.action)] = k.input
    /\ IsSettleable(state[c][k.action])
    /\ begun[c][k.action] = k.attempt
    /\ \E ok \in BOOLEAN :
        /\ EnsureOutcome(c, k, e, ok)
        /\ IF ok
           THEN StateBecomes(c, k.action,
                    IF e = "Applied" THEN "Succeeded" ELSE "NotStarted")
           ELSE UNCHANGED transition
    /\ UNCHANGED held

(* Duplicate: nothing live to move, and the record already says so. *)
ResolveRepeated(c, k, e) ==
    /\ Classified(c, k, e)
    /\ Says(log, k, e)
    /\ \/ bound[c][ChainOf(k.action)] = NoInput
       \/ /\ bound[c][ChainOf(k.action)] = k.input
          /\ ~IsSettleable(state[c][k.action])
    /\ \E ok \in BOOLEAN : EnsureOutcome(c, k, e, ok)
    /\ UNCHANGED <<held, transition>>

Resolve(c) ==
    \E k \in Key, e \in Evidence :
        \/ ResolveRecovered(c, k, e) \/ ResolveRecording(c, k, e)
        \/ ResolveHeld(c, k, e) \/ ResolveRepeated(c, k, e)

(***************************************************************************)
(* Lifetime: a controller stops, storage fails, a controller is assembled. *)
(***************************************************************************)
Blank(f, c, v) == [f EXCEPT ![c] = v]

(* The process ends: everything but the journal is gone. *)
Crash(c) ==
    /\ c \in up
    /\ up' = up \ {c}
    /\ tail' = Blank(tail, c, <<>>)
    /\ unsettled' = Blank(unsettled, c, {})
    /\ recording' = Blank(recording, c, {})
    /\ latest' = Blank(latest, c, [a \in Action |-> NoKey])
    /\ landedEvent' = Blank(landedEvent, c, {})
    /\ attempted' = Blank(attempted, c, [a \in Action |-> 0])
    /\ bound' = Blank(bound, c, [ch \in Chain |-> NoInput])
    /\ state' = Blank(state, c, [a \in Action |-> "NotStarted"])
    /\ begun' = Blank(begun, c, [a \in Action |-> 0])
    /\ pc' = Blank(pc, c, Idle)
    /\ UNCHANGED <<log, durable, world>>

(* The host fails while no controller runs. *)
LoseSuffix ==
    /\ up = {}
    /\ \E n \in durable..Len(log) : n < Len(log) /\ Lose(n)
    /\ UNCHANGED <<up, memory, transition, pc, world>>

(* assemble folds the whole journal.  An unknown is held; a recorded       *)
(* outcome counts once its receipt is confirmed, and is held if it is not. *)
Recorded == {k \in Key : HasOutcome(log, k)}

Recovered == {k \in Key : Walked(log, k) # {}}

AppliedOf(ks, a) == {k \in ks : k.action = a /\ Says(log, k, "Applied")}

LatestAttempt(ks) == CHOOSE k \in ks : \A j \in ks : j.attempt <= k.attempt

(* The receipts for ks make the journal durable up to the last of them. *)
ReceiptsFor(ks) ==
    LET ends == {durable} \cup {OutcomeAt(log, k) : k \in ks}
    IN  CHOOSE n \in ends : \A m \in ends : m <= n

Assemble(c, refused) ==
    /\ c \notin up
    /\ Exclusive => up = {}
    /\ refused \subseteq Recorded
    /\ durable' = ReceiptsFor(Recorded \ refused)
    /\ unsettled' = [unsettled EXCEPT ![c] = {k \in Recovered : IsUncertain(log, k)}]
    /\ recording' = [recording EXCEPT ![c] =
                        {r \in refused \X Evidence : Says(log, r[1], r[2])}]
    /\ latest' = [latest EXCEPT ![c] = [a \in Action |->
                    IF AppliedOf(Recorded \ refused, a) = {} THEN NoKey
                    ELSE LatestAttempt(AppliedOf(Recorded \ refused, a))]]
    /\ landedEvent' = [landedEvent EXCEPT ![c] =
                        {<<k.action, k.input>> : k \in
                            {j \in Recorded \ refused : Says(log, j, "Applied")}}]
    /\ attempted' = [attempted EXCEPT ![c] = [a \in Action |->
                        LET mine == {k \in Recovered : k.action = a}
                        IN  IF mine = {} THEN 0 ELSE LatestAttempt(mine).attempt]]
    /\ tail' = [tail EXCEPT ![c] = log]
    /\ up' = up \cup {c}
    /\ UNCHANGED <<log, transition, pc, world>>

-----------------------------------------------------------------------------
Init ==
    /\ JournalInit
    /\ up = {}
    /\ tail = [c \in Controller |-> <<>>]
    /\ unsettled = [c \in Controller |-> {}]
    /\ recording = [c \in Controller |-> {}]
    /\ latest = [c \in Controller |-> [a \in Action |-> NoKey]]
    /\ landedEvent = [c \in Controller |-> {}]
    /\ attempted = [c \in Controller |-> [a \in Action |-> 0]]
    /\ bound = [c \in Controller |-> [ch \in Chain |-> NoInput]]
    /\ state = [c \in Controller |-> [a \in Action |-> "NotStarted"]]
    /\ begun = [c \in Controller |-> [a \in Action |-> 0]]
    /\ pc = [c \in Controller |-> Idle]
    /\ handed = {}
    /\ truth = [k \in Key |-> Unknown]

WalkStep(c) ==
    \/ SkipEntry(c) \/ RetryRecording(c) \/ Expire(c)
    \/ BeginAttempt(c) \/ IntentUnaccepted(c)
    \/ Dispatch(c) \/ DispatchUnaccepted(c) \/ DropTick(c)
    \/ ReturnOk(c) \/ ReturnNotApplied(c) \/ ReturnUnsettled(c)

Next ==
    \/ \E c \in Controller :
        \/ \E ch \in Chain : \/ \E i \in Delivers[ch] : Observe(c, ch, i)
                             \/ Release(c, ch)
                             \/ Plan(c, ch)
        \/ WalkStep(c)
        \/ Resolve(c)
        \/ Crash(c)
        \/ \E refused \in SUBSET Recorded : Assemble(c, refused)
    \/ LoseSuffix

Spec == Init /\ [][Next]_vars

(* What is asked of a host before an unknown outcome is sure to be settled:*)
(* a stopped controller is assembled again, one whose fence is behind is   *)
(* stopped, ticks come and their awaits end, and for each action evidence  *)
(* is offered, or a late record retried, until the journal takes it.       *)
IsUnknown(a) == \E k \in Key : k.action = a /\ IsUncertain(log, k)

Settles(a) ==
    /\ IsUnknown(a)
    /\ \E c \in Controller : Resolve(c) \/ RetryRecording(c)
    /\ log' # log
    /\ log'[Len(log')].key.action = a

StopStale(c) == tail[c] # log /\ Crash(c)

Fairness ==
    /\ \A c \in Controller :
        /\ WF_vars(\E refused \in SUBSET Recorded : Assemble(c, refused))
        /\ WF_vars(StopStale(c))
        /\ WF_vars(\E ch \in Chain : Plan(c, ch))
        /\ WF_vars(WalkStep(c))
    /\ \A a \in Action : SF_vars(Settles(a))

FairSpec == Spec /\ Fairness

-----------------------------------------------------------------------------
(* Nothing reaches the world on a record the journal could lose: an        *)
(* attempt handed off has its preparation in the durable prefix, through   *)
(* every crash and every weak or lost acknowledgment (Effects::prepare).   *)
HandedIsDurable ==
    \A k \in handed : IsHandedOff(DurableLog, k)

(* At most one attempt at an action has an unknown outcome: nothing is     *)
(* resent while the record cannot say what became of the last attempt,     *)
(* whichever controller made it (Ledger::begin_attempt, Effects::blocks).  *)
OneUncertain ==
    \A j, k \in Key :
        (j.action = k.action /\ IsUncertain(log, j) /\ IsUncertain(log, k)) => j = k

(* A controller whose fold is current knows of every unknown outcome: it   *)
(* recovered it, or holds the entry that is about it.  None can be walked  *)
(* past, settled by nobody or forgotten by a change of input               *)
(* (assemble, plan_chain, Transition::resumed).                            *)
UnknownIsHeld ==
    \A c \in up : tail[c] = log =>
        \A k \in Key : IsUncertain(log, k) =>
            \/ k \in unsettled[c]
            \/ /\ KeyOf(c, k.action, begun[c][k.action]) = k
               /\ state[c][k.action] \in {"Unrecorded", "OutcomeUnknown",
                                          "AppliedUnrecorded", "NotAppliedUnrecorded"}

(* A chain is a sequence of prerequisites: while an entry runs, no entry   *)
(* before it has an attempt of unknown outcome (plan_chain's barrier).     *)
NoUnknownAhead ==
    \A c \in up : pc[c].at = "running" =>
        \A i \in 1..(pc[c].next - 1), k \in Key :
            k.action = Entries[pc[c].chain][i] => ~IsUncertain(log, k)

(* Every attempt with an unknown outcome can still be settled: the journal *)
(* has room for its outcome (reserve_handoff_capacity, asked before the    *)
(* first rung of every handoff).                                           *)
SettlementRoom ==
    Cardinality({k \in Key : IsUncertain(log, k)}) <= Capacity - Len(log)

(* An entry never moves on an outcome the journal could still lose: one    *)
(* that succeeded, or failed for good or for now, has exactly that outcome *)
(* in the durable prefix (Ledger::apply_settlement, Effects::ensure_outcome). *)
SettledIsRecorded ==
    \A c \in up, a \in Action : begun[c][a] # 0 =>
        LET k == KeyOf(c, a, begun[c][a])
        IN  /\ state[c][a] = "Succeeded" => Says(DurableLog, k, "Applied")
            /\ state[c][a] \in {"DefinitelyFailed", "Exhausted", "GivenUp"} =>
                    Says(DurableLog, k, "NotApplied")

(* The key each action's applied work is retired under is the last one     *)
(* applied: no later attempt in the fold is recorded Applied unless its    *)
(* record still waits for its receipt (Effects::applied_latest).           *)
LatestIsLast ==
    \A c \in up, a \in Action : latest[c][a] # NoKey =>
        \A k \in AppliedOf(Key, a) :
            \/ k.attempt <= latest[c][a].attempt
            \/ <<k, "Applied">> \in recording[c]
            \/ tail[c] # log

(* An entry runs only when every entry before it in its chain has          *)
(* succeeded or owed nothing (plan_chain: an entry in a chain is a         *)
(* prerequisite of the next).                                              *)
PrerequisitesMet ==
    \A c \in up : pc[c].at = "running" =>
        \A i \in 1..(pc[c].next - 1) : IsDone(state[c][Entries[pc[c].chain][i]])

(* An entry out of attempts never applied its effect: not one of the       *)
(* attempts counted against its budget landed                              *)
(* (AbandonReason::AttemptsExhausted, ecs/work.rs).                        *)
ExhaustedNeverApplied ==
    \A c \in up, k \in handed :
        (/\ state[c][k.action] = "Exhausted"
         /\ k.attempt <= begun[c][k.action]) => truth[k] # "Applied"

(* No hold is for ever: every unknown outcome is settled, whichever of the *)
(* controllers made the attempt and however often they stop, race or lose  *)
(* replies, once the host does its part (resolve_effect, retry of a late   *)
(* record, assemble).                                                      *)
UnknownIsSettled ==
    \A a \in Action : IsUnknown(a) ~> ~IsUnknown(a)

(* The contract the kernel keeps, with the durable record as the answers. *)
Verdict(k) ==
    IF \E e \in Evidence : Says(DurableLog, k, e)
    THEN CHOOSE e \in Evidence : Says(DurableLog, k, e)
    ELSE "Unanswered"

Contract == INSTANCE HandoffContract WITH verdict <- [k \in Key |-> Verdict(k)]

(* Whatever crashes, lost replies, restarts and repeated evidence do, the  *)
(* attempts handed to the world are those the contract allows.             *)
KeepsContract == Contract!ContractSpec
=============================================================================
