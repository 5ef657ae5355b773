# A TLA+ development of the lgwks-bot effect path

This directory models the part of the repository that decides whether an
action reaches the outside world, the stores its records are kept in and the
scheduler that admits its work and the tokens that cancel it, and proves and
checks what keeps them right.
The code is `crates/lgwks-bot` (paths below are relative to
`crates/lgwks-bot/src/`). A bot observes sources, walks a chain of entries over
each admitted observation, and runs the action of every entry whose condition
holds. An action may be irreversible (a payment, a merge), the process may die
at any await, and the journal may answer weakly, late or not at all. The code
promises that an effect whose outcome is unknown is never sent again, that
every handoff is on a record that survives the process, and that evidence
supplied later settles exactly the attempt it is about.

## Inventory

| Component | State it keeps | Operations | Hard behaviour |
|---|---|---|---|
| Journal contract (`journal.rs`) | the committed events, a tail position | compare-and-append, receipts, reservation, continuation | stale writers, weak or lost acknowledgments |
| In-memory journal (`journal/memory.rs`) | events, a rung index, an outcome index | the contract's | indexes that disagree with the log |
| File journal (`journal/file/*`, `continuation.rs`) | file length, replayed events, a seal | open, replay, append, seal, continue | torn tails, a crash between two files |
| Storage owner (`journal/owner*`) | two request rings, a batch, a poison latch | submit, stage, flush, settle, abandon | group commit, abandoned waiters |
| Recovery (`journal/recover.rs`) | the status of each attempt | fold, seed from a seal | — |
| Effect kernel (`ecs/effects.rs`, `ledger.rs`, `entry.rs`, `bot_run.rs`) | the fence, the recovery fold, one transition per chain | prepare, run, record, retry the record, settle evidence | everything below |
| Admission and planning (`ecs/admit.rs`, `fold.rs`) | observations, admitted inputs | open, resume, keep, release a transition; plan a walk | a new input while work is held |
| Bot lifetime (`ecs/bot.rs`, `builder.rs`) | the assembled world | assemble over a journal, tick, resolve evidence | restart with unknowns |
| Broker (`broker.rs`) | environment generations | authorize, revalidate, prepare the dispatch | a generation replaced in between |
| Run store, tasks (`script/run_store.rs`, `task/*`) | step records, submissions, repair tickets | claim, append, resume, submit, repair | concurrent runs, changed definitions |
| Scripts (`script/*`) | approvals, compensation stacks | ask, approve, compensate, fan out | partial failure of a group |
| Tenancy (`rt/tenancy.rs`, `rt/supervise/tenancy_support.rs`) | a queue per tenant, a ring, a pool of permits | arrive, grant, release, leave | starvation, abandoned waiters |
| Cancellation (`rt/cancel.rs`) | a flag, a lazy channel and a parent per token | child, clone, cancel, ask, await, drop | lost wakes, concurrent last drops |
| Supervision (`rt/supervise/*`) | supervised groups | spawn, stop, join | order of stopping |
| Leases, keyed and sealed stores | leases, content, keys | acquire, fence, erase | stale lease holders |

The components interact through one object: the kernel holds an
`EffectJournal`, appends each rung of an attempt at the tail its own fold
represents (`Effects::tail`), and reads the whole log back only at assembly.
Two bots are two controllers that share nothing but the journal. Sources,
conditions and actions are callbacks; the world outside is reached only through
`Action::run_any`, and comes back either as its result or as evidence a caller
hands to `EcsBot::resolve_effect`.

What makes each component right:

- journal: durable events are never revised; each attempt's events follow the
  ladder; one attempt has one outcome; a refused append changes nothing;
- in-memory journal: its indexes are the log's; it implements the contract;
- kernel: what is handed off is durably recorded first; at most one unknown
  per action; no unknown is forgotten, walked past or sent again; an entry moves
  only on a durable outcome; an unknown can always still be settled; an event
  lands once; a chain's order is a prerequisite order; budgets count what they
  say;
- storage owner: nothing is acknowledged before the flush that covers it, a
  failure is never told before the handle refuses, no request is left behind;
- continuation: exactly one of two files is the run's journal after any crash,
  and it knows every attempt the files before it knew;
- run store: one record per step and one definition per run, in every
  interleaving of runs; a healthy handle's index is the fold of its file, and
  that file can be reopened;
- tenancy: what is charged is what is held; nobody goes past its ceiling, waits
  beside a free permit, or waits for ever;
- cancellation: a token that is held can be cancelled through its whole ancestry,
  what is not needed is freed, and no cancel is missed by a question or a wait.

## Modules

| Module | Models | Used by |
|---|---|---|
| `Ladder` | the facts of an attempt, their order, what a log says, replay (`EventKind::next`, `recover`) | all |
| `EffectJournal` | the contract of the `EffectJournal` trait: a log, its durable length, `Commit`, `Attest`, `Lose` | abstract specification of `MemoryJournal`; extended by `EffectKernel` |
| `MemoryJournal` | `journal/memory.rs` with several writers | `MCMemoryJournal` |
| `HandoffContract` | what the effect path promises about handing attempts to the world | abstract specification of `EffectKernel` |
| `EffectKernel` | controllers, ticks, evidence, crashes and assembly over one journal | `MCKernel` |
| `Continuation` | the file journal across seals and kills: `journal/file/*`, `continuation.rs`, `recover_continued` | `MCContinuation` |
| `StorageOwner` | the thread that owns a store's file: `journal/owner/store.rs` | extended by `RunStore` |
| `RunStore` | a run's step records over their owner: `task/store*`, `remember_at` | `MCRunStore`, `MCRunLimit` |
| `TenantRound` | the pure scheduler: `rt/tenancy.rs` | extended by `TenancyShell` |
| `TenancyShell` | the threads around it: `rt/supervise/tenancy_support.rs` | `MCTenancy` |
| `CancellationToken` | the tree of cancellation tokens under several threads: `rt/cancel.rs` | `MCCancellation` |
| `MCMemoryJournal`, `MCKernel`, `MCContinuation`, `MCRunStore`, `MCRunLimit`, `MCTenancy`, `MCCancellation` | the instances TLC checks | the `.cfg` files |
| `MemoryJournalProofs`, `HandoffContractProofs`, `EffectKernelProofs` (with the journal contract's), `ContinuationProofs`, `TenancyProofs`, `RunStoreProofs`, `CancellationProofs` | theorems | — |
| `Extremes` | a nonempty set of naturals has ends: two lemmas | every proof module but `HandoffContractProofs` |

A journal position is a sequence number with a hash of all events before it, so
a position *is* a log prefix here and `tail[c] = log` is the whole fence.

### `MemoryJournal` and the code

`committed`, `ladder` and `outcomes` are the three fields of the same names;
`tail[w]` is the position writer `w` last read or was acknowledged and will pass
as `expected_tail`. `CompareAndAppend` is the accepted append, with its checks
in `CheckAppendOrder` and `BoundEvents`; a refused append leaves the journal as
it was and is therefore no step. `Crash` is the end of the process, which this
adapter's `Ephemeral` promise allows to take everything.

### `EffectKernel` and the code

| Model | Code |
|---|---|
| `log`, `durable` | the shared journal; how much of it no crash takes back |
| `tail`, `unsettled`, `recording`, `latest`, `landedEvent`, `attempted` | `Effects`: `tail`, `unsettled`, `recording`, `applied_latest`, `applied_events`, `attempted` |
| `bound`, `state`, `begun` | `Transition`: the admitted input, `entries`, `AttemptRecord::begun` |
| `pc` | where a `tick_async` future stands between its awaits |
| `handed`, `truth` | history: what the world was given and did with it |
| `Observe`, `Release` | `fire_plan` with `plan_admissions` and `resume`; `Transition::is_retained` |
| `Plan`, `SkipEntry`, `RetryRecording`, `Expire` | `plan_chain`; the arms of `run_chain` before an attempt |
| `BeginAttempt`, `Dispatch` | `Ledger::begin_attempt` with `Effects::prepare` up to each of its two appends |
| `IntentUnaccepted`, `DispatchUnaccepted` | the same appends, landed but acknowledged too weakly, or unheard of |
| `DropTick` | an append refused, or the tick's future dropped at an await |
| `ReturnOk`, `ReturnNotApplied`, `ReturnUnsettled` | `run_any` returned: `ensure_outcome`, then `succeed` or `fail` |
| `ResolveRecovered`, `ResolveRecording`, `ResolveHeld`, `ResolveRepeated` | the four ways `resolve_effect` accepts evidence |
| `Crash`, `LoseSuffix`, `Assemble` | the process ends; storage loses what was not durable; `EcsBot::assemble` |

`RecordingFailed`, which carries its evidence, is two states
(`AppliedUnrecorded`, `NotAppliedUnrecorded`), and `Abandoned` is two
(`Exhausted`, and `GivenUp` for a deadline or a terminal failure).
`EnsureOutcome` is `ensure_outcome` with every outcome its caller can see:
refused, already committed (receipt and position then checked), landed without
an acceptable acknowledgment, recorded. A refusal of evidence that changes
nothing is no step.

### Abstractions

- Effects are external ones on a journal that promises `ProcessCrash`; a local
  effect needs only an acknowledgment, which always meets it.
- The broker is left out: a bot owns its broker, whose generation is fixed at
  assembly, so `authorize` and `revalidate` cannot refuse in a running bot.
- The clock is a choice: a failed entry is inside its backoff or past it, and
  the deadline is reached or not, whenever the code would ask.
- A condition is a fixed predicate of the action and the input (`Wants`). A
  condition that fails to evaluate stops the walk; `PlanEnds` does not add that.
- A tick is the walk of one chain. The chains of a bot share no transition, and
  `run_steps` walks them one after the other.
- An entry is named by its action: `derive_action_id` gives each entry its own.
- An input is an event or content (`EventInput`). An input that has no identity
  of its own and takes a fresh stamp is a new input.
- `AttemptRecord::settled` is left out: the durable outcome of the attempt says
  the same.
- An action cannot report `Occurred` of itself (`run_chain` says so), so the
  model has no such result.
- Evidence is truthful: `truth` is fixed when anyone first learns it.
- A durable append makes every event before it durable, as one flush of one
  file does. Storage loses a suffix only while no controller is assembled.
- A journal that reaches its ceiling refuses; the continuation into a successor
  is `Continuation`, a module of its own: what the kernel asks of a journal is
  the same on both sides of one, which is what its `FoldKept` says.

### `Continuation` and the code

| Model | Code |
|---|---|
| `files` | each generation's file: its whole frames and whether a cut one follows |
| `handle` | `FileJournal`: generation, `committed`, `ladder`, `sealed_by`, the owner's poison |
| `sealing` | how far `seal_on_owner` has come |
| `acked`, `resumed` | history: acknowledged frames; a journal was opened behind its own seal |
| `Open` | `open_active`: the walk over superseded files, scan, tail repair, the fence |
| `AppendOne` | `continue_if_due`, `prepare_append`, `fence_and_write`, `accept`, and each way the write fails |
| `SealPredecessor`, `WriteSuccessor`, `FinishSeal` | `continue_as_file` and `seal_on_owner`, step by step |
| `Die` | the process is killed, or drops the handle |

A frame's place in its file stands for its position (the chain head stands for
everything before it), and the checkpoint is the rung of every attempt it
carries. Left out: framing and its ambiguous tails, the bytes watermark, the
sealed journal, `compare_and_append_all`, and power loss: the journal promises
the survival of the process's death, and so much is modelled. A controller asks
for the attempts it could ask for (`Asked`).

### `StorageOwner`, `RunStore` and the code

| Model | Code |
|---|---|
| `pending`, `waiting`, `batch`, `poisoned` | `Slot`: the two rings, the batch of `run_batch`, the latch |
| `flush`, `latched`, `failing` | where `run_batch` stands between its flush and each answer |
| `file`, `torn`, `synced` | the device |
| `index` | `Index`: runs, steps, `staged`, `committed` |
| `caller` | where each caller is in `remember_at` |
| `Enqueue`, `StageNext`, `CloseBatch`, `Latch`, `Publish` | `enqueue`; `run_batch`: stage, flush, latch, publish |
| `CheckDefinition`, `Lookup`, `Submit`, `Abandon` | `agrees`, `lookup`, the body and `append_async`, `Awaiting::drop` |
| `StageSettled`, `StageWritten`, `StageWriteFailed` | `decide_and_write` |
| `LatchAnswer` | the fold (`settle`) and the latch, before an answer is given |
| `Die`, `LosePower`, `Close`, `Reopen` | the process ends, the machine ends, the last handle drops; `open_impl` with `replay` |
| `RunFull`, `ReplayTakes` | `MAX_RECORDS_PER_RUN` as an append asks it and as a replay does (`bump_frame_count`) |

All errors are one answer. `MaxStore` is the byte ceiling in records. `MaxRecords`
is one constant with two meanings, as in the code: an append compares it with the
folded steps of its run, a replay with every frame of the file. A file past it is
not opened again, so `Reopen` is not enabled over one. A caller's
body may return more than one value, so that two performances of one step may
conflict. Left out: the sealed store, the approval counts, the stall gate, the
fault injectors, the byte bound of a batch and the `Committed` stage, which only
the run ledger returns.

### `TenantRound`, `TenancyShell` and the code

`TenantRound` has one operator per decision of `DeficitRoundRobin`, from the
round to the round it leaves; `is_live` is the set `live` a decision is told.
`TenancyShell` is the shell: `pool` is the semaphore, `slot` the `WaitSlot` of
each caller, `held` the leases, and `pump` who holds the round lock and where
the pump stands. A pass of `grant`, a delivery and its refusal are steps of
their own, so a waiter may leave between any two of them; leaving is two steps
(`Leave` under the slot's lock, `ReportAbandoned` under the round's). The shell
is modelled at its own interface, where several callers wait at once; the one
caller in the tree, `claim_tenanted`, takes `&mut self` and so parks one at a
time. The work and decision-cost meters are left out.

### `CancellationToken` and the code

| Model | Code |
|---|---|
| `flag`, `signal` | `Inner::cancelled`; `Inner::signal`, absent until the first waiter builds it |
| `strong`, `born`, `freed` | the strong count of each `Arc<Inner>`, and which are allocated |
| `holds`, `op` | the tokens each thread owns; where it stands in the call it is in |
| `early` | history: nodes whose cancel looked its channel up before its store |
| `Child`, `Clone`, `Drop`, `Unlink` | `child_of`; the derived `Clone`; `Inner::drop`, one `Arc::into_inner` at a time |
| `Cancel`, `Signal`, or `EarlyLookup`, `Store` | `cancel`: its store and its lookup, in either order (below) |
| `Ask`, `AskNext` | `is_cancelled`, one node at a time |
| `Await`, `Install`, `Check`, `Read` | `cancelled` and `subscribe`, one node at a time |
| `Wake`, `GiveUp` | a waiter resolves; its future is dropped, as in `run_until_cancelled` |

A thread holds at most one handle of each token. A channel is its value: every
send writes `true`, so a waiter that read `false` is woken exactly when the value
is no longer that. Two pairs of accesses are one step each: a channel that is
found stays, so its lookup and the send on it; a flag never falls, so its load in
`subscribe` and the send that follows. A question asked after a cancel is at
`askingLate`, which is history too. What wakes a waiter (tokio's `watch`) is
external, and so is `OnceLock::get`, which std implements as an acquire load. The
memory model lets such a load pass the store before it, and a build whose acquire
loads are RCpc does (AArch64 with `LDAPR`); on x86 the store is a fence.
`EarlyLookup` is that order, and `early` remembers it.

## Runs

| Run | Bounds | What it asks |
|---|---|---|
| `memory_journal` | 2 attempts, 2 writers, 7 events | do the indexes agree with the log, and does the adapter implement the contract |
| `kernel_restart` | 1 controller at a time, a chain of 2 entries, one event and one content input, budget 2, 3 attempt identities, 8 events | does the contract survive crashes, lost acknowledgments, dropped ticks and repeated evidence |
| `kernel_takeover` | 2 controllers at once, 1 action, 1 event, budget 2, 3 attempt identities, 8 events | does the fence keep two controllers from acting on one action, does every unknown keep its slot, and is it settled in the end |
| `continuation` | 1 action, 3 attempts, 5 generations, a watermark of 2 events, a ceiling of 3 | is one file the journal, with everything it ever knew, whatever was cut short |
| `run_store` | 3 callers of 2 steps of one run, rings of 1 and 1, batches of 2, a file of 2 records, 2 definitions, 1 restart | does what was told recorded stay, once and under one definition, and is everyone answered |
| `tenancy` | 3 tenants (one of weight 2), 3 waiters (one impatient), 3 permits, ceiling 2, queues of 2 and 3 | do the accounts stay exact, and is every caller that stays granted |
| `cancellation` | 2 threads, a root, a child and a grandchild | is what is allocated what is needed, is no wake lost, does every wait on a cancelled ancestry end |
| `prerequisites`, `attempt_budget`, `settlement_room`, `stale_fold`, `record_limit` | see below | one documented promise each, which the code does not keep |

Why the bounds are enough. Two attempts and seven events let both ladders grow
to their repeating rung and hit the ceiling at each rung below it. In the kernel
two entries make every barrier matter, two inputs make both the change of input
and the return to an earlier one happen, a budget of 2 separates "retry" from
"abandon", and three attempt identities allow an attempt after the budget is
spent and revived. Eight events hold two complete attempts and two rungs, so the reservation
refuses where a smaller one would strand an outcome. `MaxAttempt` and
`Capacity` are guards; a run that reaches them stops there, which is why the
kernel's runs do not check for deadlock.

In `continuation` a watermark of 2 events under a ceiling of 3 makes most
journals seal themselves and lets an event follow a seal that was taken up
again; three attempts make one settled attempt be forgotten while a later one
is carried; five generations hold the events all three attempts can have, with
seals resumed on the way. The run does not check for deadlock: a journal whose
walk is refused stops, and so does one at its last generation. In `run_store`
two callers of one step and a batch of two make duplicates fall in one batch, in
two batches and across a restart; the third caller makes the rings overflow; a
file of two records is filled; a store that has used its restart and is closed
or poisoned stops, so deadlock is not checked. There the file cannot pass the record
limit, which equals its size. `record_limit` takes it past, by the second member of
a batch and by the second run (a file of three records, a limit of one); at the same
bounds `RunLimit.cfg`, with `MCRunLimit`, searches all 1.5 million states for
`HealthyIndexIsTheFile` and `LimitPassedByOneBatch`, which hold. Both are also
proved, the second for every limit but zero, and the file is kept beside the runs. In `tenancy` weight 2 keeps a turn
open, ceiling 2 of 3 permits takes a tenant off the ring with waiters left, and
three waiters make the departed outnumber the others, which is what triggers the
compaction. Deadlock is checked there: the shell never stops. In `cancellation` two
threads let one wait or free while the other cancels or frees, and a line of three
tokens has a node between the one waited on and the one cancelled, and one whose
release is inherited twice. When every handle is dropped nothing is left to do, so
deadlock is not checked.

### Fairness

- `kernel_takeover` (`FairSpec`). `UnknownIsSettled` is about repairable holds,
  so it assumes the host does its part and the journal answers: a stopped
  controller is assembled again, and one whose fence is behind is stopped and
  assembled too (`tail` advances only from accepted acknowledgments,
  `ecs/effects.rs:31`, so nothing else repairs it); ticks come and what they
  await ends; evidence is offered, and a late record retried, until the journal
  takes it. The last two are strong: other controllers' appends refuse them again
  and again without disabling them for good.
- `run_store` (`Spec`). The owner's thread runs, and a stopped process is started
  again, while its file is one that opens: `WF` asks nothing of a `Reopen` that is
  refused. Callers owe nothing.
- `tenancy` (`FairSpec`). A thread holding the round lock goes on; a woken caller
  collects its permit; every tenant's admissions end (strong, because each end
  has to win the lock against the others). Arrivals and departures owe nothing.
- `cancellation` (`FairSpec`). A thread finishes the call it is in, and a waiter
  that was woken is polled. Nobody owes a cancel, a question or a drop.

### What the passing runs show

`HandedIsDurable` (the preparation of everything handed off is in the durable
prefix), `OneUncertain` (one unknown per action, whichever controller made
it), `UnknownIsHeld` (a controller whose fold is current has every unknown in
its state), `NoUnknownAhead` (nothing runs behind an unknown of the same chain),
`SettledIsRecorded` (an entry moves only on an outcome that is durable),
`SettlementRoom` (every unknown still has a slot) and `KeepsContract`: the
kernel refines `HandoffContract` under the mapping that reads the verdict of an
attempt off the durable log. With the theorems on `HandoffContract` the last
one gives, on the checked instances, one attempt in flight per action and one
landing per event. `UnknownIsSettled`: every unknown outcome is settled,
whichever controllers race, stop or lose replies on the way.

`continuation`: `FoldKept` (the live journal says of every attempt what one
uninterrupted file would, or has forgotten it as settled with a later one known),
`AdmittedOnce` (no attempt is admitted twice, forgotten or not), `AckedIsReached`
(the walk passes every acknowledged frame), `NoRungSkipped` (an outcome has its
handoff, although a reopened fence may stand behind the fold),
`OnlyTheLiveIsWritten` (two files never both take appends), and
`ReopensUnlessResumed` (a journal becomes unreadable only after it was opened
behind its own seal).

`run_store`: `RecordedIsDurable`, `OneRecordPerStep`, `OneDefinitionPerRun`,
`HealthyIndexIsTheFile` (a usable handle at rest stands where its file does: its
index is the fold of every frame, so what a reopen of that file answers it answers),
`IndexIsWritten` (the index never names what is not in the file),
`FailureFindsPoison` (who hears of a failure finds the handle refusing) and
`Answered` (no request stays behind).

The index does not depend on the record limit: past it a file does not
open again, but the handle that wrote it still stands where it does, and a run
holds less than the limit and a whole batch more (`LimitPassedByOneBatch`).

`tenancy`: `InFlightExact`, `CeilingHeld`, `RingExact`, `WorkConserving`,
`EveryWaiterHasItsPlace`, `AccountsBalance` (every permit is somewhere, once, and
the total retained is the sum of the queues), `NoOvertaking` (what may still be
granted before a tenant's turn only shrinks, by one with every grant) and
`NoStarvation`.

`cancellation`: `AliveIsNeeded` (the nodes allocated are those a handle or a release
under way needs, whoever drops their neighbours meanwhile: nothing dangles and
nothing leaks), `NoLostWake` (a cancel of any node a sleeping waiter is on has
reached its channel, or will, unless its lookup was early), `SeesCancel` (a
question asked after a cancel is answered yes) and `CancelReaches` (a wait on a
cancelled ancestry ends).

### Where the code and its documentation part

- `prerequisites`: the record of a definite failure that lands on a later tick
  is followed by `continue` (`ecs/bot_run.rs:172`), and the entries planned
  behind the failed one run.
- `attempt_budget`: attempt identities continue across generations, and the
  budget is compared with them (`ecs/ledger.rs:487`), so an entry is reported
  as out of attempts although one of those attempts was applied. For the same
  reason `NotApplied` evidence does not bring a fresh budget (`ecs/work.rs:472`).
- `settlement_room`: the reservation of three slots is asked per handoff and not
  held (`ecs/effects.rs:200`); two actions whose outcomes stay unknown are
  admitted against the same slots. With one action it holds
  (`kernel_takeover`).
- `stale_fold`: settling an outcome that is already committed moves the fence to
  the journal's tail (`ecs/effects.rs:692`) without folding what other
  controllers wrote in between. It needs two chains and two controllers.
- `record_limit`: an append bounds the folded steps of its own run by
  `MAX_RECORDS_PER_RUN` (`task/store/append.rs:80`), a replay every frame of the
  file (`task/store/record.rs:467`). A run that reaches the limit with two members
  of a batch, or two runs that pass it together, are acknowledged by a healthy
  handle, and the next open answers `StoreError::Limit`, although `open` documents
  that every earlier record is retained (`task/store.rs:299`) and names no such
  error. What holds is `LimitPassedByOneBatch`, and `FullStoreReopens` when the
  byte ceiling comes first.

More were met in the code. They have no run of their own, and those that a `.cfg`
named here shows are kept with it.

- Effect path: repeated evidence is refused with `TailMismatch` once another
  event follows the outcome (`ecs/bot_run.rs:439` documents that it succeeds); an
  abandoned entry that is resumed over a new input has no attempt record, so
  evidence can no longer revive it; a receipt that comes late for an earlier attempt
  makes that attempt the latest applied (`ecs/effects.rs:476`), which
  `LatestApplied.cfg` (with `MCKernel`) shows by `LatestIsLast`. It needs an adapter
  that can refuse one receipt and grant another; the shipped file journal does not.
- Continuation: a continuation cut before its successor is whole leaves a
  predecessor that opens as unsealed (`journal/file/open.rs:427`) and appends
  behind its own seal, which the next scan refuses for good
  (`journal/file/scan.rs:409`, and `:289` for a second seal), although
  `journal/continuation.rs:50` says that it resumes appending. This is a defect:
  TLC shows it with `MCContinuation` under `AlwaysReopens.cfg`, which is kept beside
  the runs, and `ReopensUnlessResumed` that it is the only way a journal becomes
  unreadable;
  the fence of a reopened successor puts the carried rungs over
  those of its own events (`journal/file/open.rs:386`), so it may refuse the next
  rung of an attempt it carries; the refusal of a carry that is too large comes
  out of `continue_if_due` and refuses the append (`ecs/effects.rs:324`; the
  comment at `:296` says the append then lands); `compare_and_append_all` does
  not ask `refuse_walked`; a torn or empty successor opened by its own path with
  `FileJournal::open` becomes a fresh journal.
- Run store: a duplicate decided from `staged` is told `AlreadyRecorded` although
  the flush of its batch failed (`journal/owner.rs:40`: a failure "acknowledges
  *nobody* in the batch"); a replay after a process kill trusts bytes that were
  never flushed; the tenant is not compared for a run that is only staged, nor on
  replay; an append does not compare the definition, only the lookup before it
  does; submissions overtake waiting ones; requests already in the rings are run
  after the handle is poisoned.
- Cancellation: with an early lookup (above) a cancel finds no channel, the waiter
  that builds it finds no flag, and it sleeps beside a cancelled token;
  `rt/cancel.rs:152` says that one of the two always sees the other. `NoLostWake`
  shows that nothing else loses a wake.
- Tenancy: a departure reported after its waiter was skipped is counted against a
  caller that still waits, although `rt/tenancy.rs:881` says that the count cannot
  drift. The tenant may then park one caller more than `queue_per_tenant`, and its
  queue may be compacted early; `QueueBound.cfg` (with `MCTenancy`) shows the first by
  `QueueBoundKept`. Before its report the skip spends a unit another departure
  added, if there is one, so that meanwhile the tenant may be refused one caller
  early. `claim_tenanted` parks one caller at a time and meets neither. `try_arrive` refuses a tenant that has admissions in flight and
  nobody waiting, which `TryArrival::Contended` does not list
  (`rt/tenancy.rs:339`).

## Theorems

All are proved for every value of the constants, from the named assumptions of
the modules: `JournalAssumption` and `CapacityAssumption` (a capacity is a
natural number), `KernelAssumption` (the types of the declaration: chains of
actions, what a source delivers, a positive budget), `OneEntryPerAction` (an
action is declared on one entry, because `derive_action_id` hashes the chain and
the entry into it, `ecs/identity.rs:112`), `NoInputAssumption` (`NoInput` is no
input) and those named below. A theorem that needs more says so in its `ASSUME`:
of the kernel, that one controller writes (`Exclusive`, the journal's lock) or
that there is one action, or one action and one event; of the tenants, that they are finitely many.

- The journal contract, in `EffectKernelProofs`. `JournalInvariant` is the type invariant with the two
  bounds (the durable length is within the log, the log within its capacity);
  it is inductive as it stands. `DurablePrefixStable` follows from it, because an
  append extends and a loss cuts at or after the durable length.
  `EveryEventInOrder` is inductive because being in order depends only on the
  prefix before an event, which an append keeps and a cut keeps.
  `OneOutcomePerAttempt` needs both: the second of two outcomes would be in order
  after a prefix that already walked the outcome rung, and no rung admits that.
- `MemoryJournalProofs`. The adapter never looks at the log when it checks an
  append, so neither `LadderOrder` nor the refinement is inductive alone. The
  strengthening is `IndexAgrees`, which says for every key that the rungs walked
  in the log are those up to the indexed one; `InductiveInvariant` proves it with
  the type and the capacity. `LadderInOrder` and `Refinement` (every accepted
  append is the contract's `Commit`, a read is a stutter, `Crash` is `Lose(0)`)
  then follow step by step. `OutcomeIndexAlwaysAgrees` compares the outcome index
  with the fold of recovery, `Recover`, a recursive function on the naturals. The
  library's induction is out of reach, so each fact about it (that it has a value
  at every length, that the value at `n + 1` is its step from the one at `n`) is
  shown by the least length at which it would fail (`Least`).
- `HandoffContractProofs`. `OneAttemptInFlight` and `OneLandingPerEvent` from one
  inductive invariant; the key fact is that an answer is never withdrawn.

- `EffectKernelProofs`. The invariant is `KernelInv`: the types, the journal's
  two bounds, and `WalkBound` (a walk stands at an entry of its chain, without
  which `Here` would be no action and a minted key no attempt). One lemma per
  group of actions shows `StepOK`: the step is one of the journal contract's, or
  leaves the journal alone, and what it leaves in memory is typed. Two things
  carry it. A rung above the first is in order only after a rung of the same key
  (`LaterRungIsKey`), so preparations and outcomes need no invariant about where
  their key came from; and a receipt moves the durable end forward to a position
  that is committed (`OutcomeIsAt`, `ReceiptsForRange`). `KernelUsesJournal` is
  then the refinement `Spec => JournalSpec`, and `KernelRecordIsSound` transfers
  the theorems about the contract to the kernel. `HandedStaysDurable` adds that
  only `Dispatch` hands off, and that the durable prefix only grows. It holds
  with and without the journal's lock (`Exclusive`), although `stale_fold` shows
  that several controllers can do other harm. `Least` and `Greatest` (a set of
  naturals has ends) come from the library's well-foundedness of strict subsets.

- The kernel's safety, in `EffectKernelProofs`. Its invariant, `SafeInv`, adds to
  `KernelInv` what the log says (`RecordInv`) and, of every controller, where it
  is, what it knows and what it did (`ControllerInv`). None of the properties is
  inductive without most of the others: a second unknown is ruled out because the
  fold of the controller that hands off has the first (`Knows`), which blocks the
  chain it is on (`WalkClear`), which it does because an entry has moved only over
  a bound input (`Bound`) and is past an attempt only by a durable outcome
  (`Settled`). `AloneAt` says what the lock gives: one controller, behind the
  journal by at most the append whose answer it lost, and by nothing between the
  two appends of a handoff (`Intends`). `KernelIsSafe` has a lemma per action.
  - `SettledStaysRecorded` holds for any number of controllers.
  - `OneOutcomeIsUncertain` and `EveryUnknownIsHeld` assume `Exclusive` or that
    there is one action. Without either, a controller that settles an event
    another has committed takes the tail for its own and does not fold what is
    before it: `stale_fold` is the counterexample to `UnknownIsHeld`.
  - `NothingUnknownAhead` assumes `Exclusive`: another controller may hand off an
    entry of the same chain while this one is behind.
  - `RoomToSettle` assumes one action; `settlement_room` shows why.
  - `KernelKeepsContract` is the refinement `Spec => KeepsContract` under
    `Exclusive`, or with any number of controllers on one action and one event
    (`OneEvent`): one handoff is `HandOff`, a durable outcome of an unanswered attempt
    is `Answer`, everything else stutters. A second landing of an event is excluded
    by `Landings`: an event the fold has seen applied it knows as landed, or its
    record is still to be attested. Several controllers keep that by `LandingEnds`,
    which says of every prefix of the log that once the event has landed nothing is
    unknown. A controller that was behind and settles the last outcome recorded
    therefore settles the landing itself, if there is one, and folds it
    (`LandedAtOutcome`, `CaughtUp`); and who prepares an attempt has seen no landing
    (`Prepared`), which keeps `LandingEnds`. With two inputs the last outcome can be
    that of the other one: the step behind `stale_fold` then takes the fence past a
    landing that is not folded. With `HandoffContractProofs` the theorem gives
    one attempt in flight per action and one landing per event for every
    declaration, log length and number of crashes; `kernel_restart` and
    `kernel_takeover` check an instance of each case.

- `ContinuationProofs`: for every set of actions, number of attempts and files,
  trigger and limit; the assumption is `ContinuationAssumption`. The invariant is
  that some file `t` is the last of the chain (`IInv == \E t : Sound(t)`): every
  file before it ends in its own seal and hands it to the next, nothing behind it
  holds a frame, and a handle that may write holds it (`LinkedTo`, `Held`). The
  rest relates one file to all before it: what it carries is on record
  (`CarriedIsRecorded`), a settled attempt it carries gets no unsettled rung
  (`SettledStays`), and an attempt it has forgotten is at or below a settled one
  that it carries (`ForgottenIsBelow`), which is why its identity is not minted
  again. Each fact is kept twice: for `t` when an event is appended, and for
  `t + 1` when its first frame is durable. `Fenced` is weaker than equality with
  the fold, because the fence of a reopened file may stand behind it; what is left
  suffices for `EveryRungFollows`. From the invariant come `ContinuationTyped`,
  `NothingAdmittedTwice`, `EveryRungFollows`, `AcknowledgedReached`,
  `RefusedOnlyWhenResumed`, `ContinuationKeepsTheFold` and the action property
  `OnlyLiveFileWritten`.

- `TenancyProofs`: for every policy, set of tenants and number of permits. The
  assumption beyond the policy's types is that slots are naturals and finitely
  many, so that a fresh one can be named. The invariant is `IInv`: the types,
  `Sound(round)`, `InFlightExact` and four facts about the shell. `Sound` is about
  the round alone: the ring has no repetitions, an entry is `onRing` exactly when
  it is a member, a tenant that waits with room is a member, a member has room,
  nobody is past the ceiling, and an unknown tenant's entry is `Absent`. Each
  decision keeps it (one lemma per operator), which gives `RingExact`. The shell's
  part: what lies in a queue is a slot of that tenant or one whose owner has gone
  (`QueueSlots`), a delivery
  under way is to a slot that is parked or being left (`DeliveryTo`), a parked
  caller lies in its tenant's queue or is being delivered to (`LiveQueued`), and
  with the lock free either the pool or the ring is empty (`PumpedOut`). The last
  two give `WorkConserving`: a parked caller with room would be on the ring.
  `ChargesAreExact` follows each permit through a grant, a delivery, a refusal
  and a collection; `CeilingIsHeld` joins it to `Sound`. `SF` and `WF` play no part:
  every theorem is about `Spec`. Three more invariants rest on `IInv`.
  `Places` (no queue names a caller twice, the slot a delivery is to has left its
  queue, and without a delivery the pump names nobody) gives `EveryCallerHasOnePlace`; what a
  compaction, a skip and a grant leave of a queue without repetitions has none
  (`OwnedOnlyKeeps`, `AbandonedSound`, `ServedSound`). `Balanced` gives
  `EveryPermitIsSomewhere`, for finitely many tenants: a sum over all of them has
  a value only then, and a process names finitely many. It adds to the two sums
  that the pump holds a permit exactly where its place says (`Sparing`). The
  community modules' `SumFunction` recurses over a set; that it has a value, may
  take any element first, covers each summand and moves with one of them is
  shown by the size of the least subset that fails (`SumTakes`, `SumCovers`,
  `SumMoves`, `SumDrops`). `Turns` (a turn is open exactly while a deficit is left,
  and a closed turn has none) is what `NoOvertaking` needs. Every step but one
  leaves those that stand before a tenant in their order with what they may still
  be served (`InOrder`), as an entry is appended behind them. The decision at
  the front of the ring is the other: the front leaves the ring or goes behind the
  tenant (`FrontGone`), or stays with less left of its turn (`FrontSpends`), and
  either way the sum over `Before` is smaller. The ring is finite, so the set of
  tenants need not be.

- `RunStoreProofs`: for every set of callers, runs, keys and values and every
  depth of the rings, the batch and the store. The assumptions are the constants'
  types and that `None` is no value, tenant or definition. No property is
  inductive alone; `IInv` adds to six of them three groups of facts.
  `Queues`: a request is in one place of one ring or of the batch (`EachOnce`),
  its caller still waits or has left and its value is known (`Expected`), the
  latch is raised before an error is told (`Stages`), and a closed store is empty
  (`DownIsEmpty`). `Writes`: a member that owes a flush is in the file, and after a
  good flush the whole file is synced (`OwedIsWritten`); a record in the file is
  in the index or staged (`RecordsAreHeld`), which is what stops a second record of
  its step; a run the index does not know, or knows under this build, was
  written under no other definition (`DefinitionIsKnown`), and so was the run of a
  caller that has passed the comparison (`AgreedIsBuild`). The last covers the time
  between `CheckDefinition` and `StageWritten`, in which others may write the run's
  first record. There is a lemma for each action, with one for the rings
  (`StageQueues`, `EnqueueQueues`, `PublishQueues`), one for what a replay reads
  (`ReplayedIs`, from `Least` and `Greatest`) and one for what a stop leaves (`Lost`).
  `HealthyHandleIsTheFile` says that the index is the fold of the file, whatever the
  file's length: whether the file opens is another matter, and `FullStoreReopens`
  proves it where `MaxStore <= MaxRecords`, that is where no frame is smaller than
  64 MiB / 65,536 = 1 KiB. `HealthyHandleIsTheFile` has an invariant of its own over `IInv`: while the
  handle is usable its index lags behind the file by exactly the members of the
  batch that are not latched (`Lagging`): the counts agree unless one of them
  failed, what is staged has a member that will fold or poison it, and a run is
  named by its first record, which while the index does not know the run is that
  of the first member that owes it one. At rest there is no such member.
  `LimitHolds` rests on the same invariant: every record of a run in the file is
  folded or is that of a member of the batch (`RunIsHeld`), a member is staged for a
  run only while the folded steps are below the limit, or while the index does not
  know the run and so has folded none of its steps (`StepsAreKnown`), and a file
  that opens is within the limit as a whole. It assumes that the limit is not zero.

- `CancellationProofs`: for every finite tree of tokens and every set of threads
  (`TreeAssumption`: a child is made from its parent, so depth grows downwards).
  `Counted` gives every node the set of its references (handles, the links of
  living children, releases under way) and says that the strong count is its size
  and that a node lives while it is not empty; a release either takes one
  reference out, or frees the node and turns its link into a release under way
  (`CountedGivesUp`). `AliveIsNeeded` follows in both directions: what lives is
  closed upwards, and a living node that nothing needs would have a child as
  little needed, deeper than itself, which `Greatest` refutes. For the wakes,
  `Heard` says of a node that its channel is there and no cancel of it can pass
  unnoticed; no step takes it back (`Forward`, `HeardStays`), and a wait has it of
  every node behind it (`Waits`), which `ChainAbove` carries up one node at a
  time. `Asks` does the same for a question that began late.

Proved and not checked: the types of the in-memory journal, the kernel, the
tenancy shell and the tokens. Only model-checked: the liveness properties
(`UnknownIsSettled`, `NoStarvation`, `Answered`, `CancelReaches`), which with
fairness and ENABLED are beyond the prover. Every other property of a passing run is
stated by a theorem, `OneUncertain`, `UnknownIsHeld`, `NoUnknownAhead`,
`SettlementRoom` and `KeepsContract` under the hypotheses given above.

## Not modelled

- Durable tasks (`task/host.rs`, `submit.rs`, `execute.rs`, `ledger.rs`,
  `repair.rs`) and scripts (`script/*` but `remember_at`): their durable steps are
  records of the run store; what they add is sequential within one run.
- Supervision (`rt/supervise/*` but the tenancy shell): a protocol over the
  executor's tasks; not reached.
- Leases, the content store and keyed cells: the lease's fencing is an external
  store's; the others are short critical sections. Not reached.
- Sealed records: erasure is a property of keys; the record protocol below is
  the run store's and the journal's.
- The run feed and the wake signal: a tick may come at any time in the kernel, so
  nothing here depends on when they call for one.
- The other crates (`lgwks-std`, `lgwks-ast`, `lgwks-macros`, `lgwks-deps`,
  `drishti`): sequential libraries, tooling and a user interface.

What would come next: supervised groups over the cancellation tokens.
