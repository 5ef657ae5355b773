---------------------------- MODULE TenancyShell ----------------------------
(***************************************************************************)
(* Tenanted admission as threads run it: the round behind one mutex, the   *)
(* permit pool, and one slot per parked caller behind a mutex of its own.  *)
(* The thread that holds the round lock pumps permits to waiters, pass by  *)
(* pass; an owner may leave its slot at any of those moments and tell the  *)
(* round only later.                                                       *)
(***************************************************************************)
EXTENDS TenantRound, Functions

CONSTANTS Permits,    \* the supervisor's own bound
          Impatient,  \* the callers that may go away while they are parked
          None        \* no slot

ASSUME ShellAssumption ==
    /\ Permits \in Nat
    /\ Waiter \subseteq Nat /\ IsFiniteSet(Waiter)
    /\ Impatient \subseteq Waiter
    /\ None \notin Waiter /\ None \notin Tenant

VARIABLES pool,    \* permits in the semaphore
          round,   \* the scheduler
          slot,    \* WaitSlot of each caller
          held,    \* permits in the hands of a tenant's owners: leases, and
                   \* handed permits on their way back
          pump     \* who holds the round lock, and where the pump is

vars == <<pool, round, slot, held, pump>>

Phase == {"free", "parked", "leaving", "withdrawn", "handed"}

Slot == [phase : {"free"}, tenant : {None}]
            \cup [phase : Phase \ {"free"}, tenant : Tenant]

NoSlot == [phase |-> "free", tenant |-> None]

InPhase(sl, phase) == [phase |-> phase, tenant |-> sl.tenant]

Pump == [at : {"unlocked", "pass", "deliver"}, spare : BOOLEAN,
         to : Waiter \cup {None}, arriving : Waiter \cup {None}]

Unlocked == [at |-> "unlocked", spare |-> FALSE, to |-> None,
             arriving |-> None]

TypeOK ==
    /\ pool \in Nat
    /\ round \in Round
    /\ slot \in [Waiter -> Slot]
    /\ held \in [Tenant -> Nat]
    /\ pump \in Pump

Init ==
    /\ pool = Permits
    /\ round = EmptyRound
    /\ slot = [w \in Waiter |-> NoSlot]
    /\ held = [t \in Tenant |-> 0]
    /\ pump = Unlocked

(* is_live *)
Live == {w \in Waiter : slot[w].phase = "parked"}

InQueue(w) == \E t \in Tenant : \E i \in 1..Len(round.entries[t].queue) :
                  round.entries[t].queue[i] = w

FreeSlots == {w \in Waiter : slot[w].phase = "free" /\ ~InQueue(w)}

(* Every parked caller has a slot of its own, one that nothing refers to. *)
FreshSlot == CHOOSE w \in FreeSlots : \A v \in FreeSlots : w <= v

-----------------------------------------------------------------------------
(* admit and try_admit *)

AdmitNow(t) ==
    /\ pump.at = "unlocked"
    /\ MayEnterNow(round, t)
    /\ pool > 0
    /\ round' = EnterNow(round, t)
    /\ pool' = pool - 1
    /\ held' = [held EXCEPT ![t] = @ + 1]
    /\ UNCHANGED <<slot, pump>>

TryAdmit(t) ==
    /\ pump.at = "unlocked"
    /\ MayTryEnter(round, t)
    /\ pool > 0
    /\ round' = EnterNow(round, t)
    /\ pool' = pool - 1
    /\ held' = [held EXCEPT ![t] = @ + 1]
    /\ UNCHANGED <<slot, pump>>

(* The arrival parks and pumps before it gives the lock back. *)
AdmitQueued(t) ==
    /\ pump.at = "unlocked"
    /\ ~(MayEnterNow(round, t) /\ pool > 0)
    /\ MayQueue(round, t)
    /\ FreeSlots # {}
    /\ round' = Enqueued(round, t, FreshSlot)
    /\ slot' = [slot EXCEPT ![FreshSlot] = [phase |-> "parked", tenant |-> t]]
    /\ pump' = [at |-> "pass", spare |-> FALSE, to |-> None,
                arriving |-> FreshSlot]
    /\ UNCHANGED <<pool, held>>

(* release: an admission ended, or an owner gave a handed permit back. *)
Release(t) ==
    /\ pump.at = "unlocked"
    /\ held[t] > 0
    /\ round' = Released(round, t)
    /\ held' = [held EXCEPT ![t] = @ - 1]
    /\ pump' = [Unlocked EXCEPT !.at = "pass", !.spare = TRUE]
    /\ UNCHANGED <<pool, slot>>

-----------------------------------------------------------------------------
(* pump *)

HasPermit == pump.spare \/ pool > 0

(* The pool's permit leaves it only for a pass that has one to give. *)
PoolAfterTaking == IF pump.spare THEN pool ELSE pool - 1

(* Neither a spare permit nor a reason to take one. *)
PumpStops ==
    /\ pump.at = "pass"
    /\ ~pump.spare
    /\ round.ring = <<>> \/ pool = 0
    /\ pump' = Unlocked
    /\ UNCHANGED <<pool, round, slot, held>>

(* GrantOutcome::Idle *)
PumpIdles ==
    /\ pump.at = "pass"
    /\ pump.spare
    /\ round.ring = <<>>
    /\ pool' = pool + 1
    /\ pump' = Unlocked
    /\ UNCHANGED <<round, slot, held>>

PumpRetires ==
    /\ pump.at = "pass"
    /\ HasPermit
    /\ round.ring # <<>>
    /\ ~HasLive(round.entries[Head(round.ring)], Live)
    /\ round' = Retired(round, Live)
    /\ pool' = PoolAfterTaking
    /\ pump' = [pump EXCEPT !.spare = TRUE]
    /\ UNCHANGED <<slot, held>>

PumpGrants ==
    /\ pump.at = "pass"
    /\ HasPermit
    /\ round.ring # <<>>
    /\ HasLive(round.entries[Head(round.ring)], Live)
    /\ round' = Served(round, Live)
    /\ pool' = PoolAfterTaking
    /\ pump' = [pump EXCEPT !.at = "deliver", !.spare = TRUE,
                            !.to = Chosen(round, Live)]
    /\ UNCHANGED <<slot, held>>

Deliver ==
    /\ pump.at = "deliver"
    /\ slot[pump.to].phase = "parked"
    /\ slot' = [slot EXCEPT ![pump.to] = InPhase(@, "handed")]
    /\ pump' = [pump EXCEPT !.at = "pass", !.spare = FALSE, !.to = None]
    /\ UNCHANGED <<pool, round, held>>

(* Mutant: the admission charged by the grant is not charged back. *)
SettleUncharged(r, t) == r

SettledBack(r, t) == Released(r, t)

(* The owner left between the choice and the handover. *)
DeliverRefused ==
    /\ pump.at = "deliver"
    /\ slot[pump.to].phase = "leaving"
    /\ slot' = [slot EXCEPT ![pump.to] = InPhase(@, "withdrawn")]
    /\ round' = SettledBack(round, slot[pump.to].tenant)
    /\ pump' = [pump EXCEPT !.at = "pass", !.to = None]
    /\ UNCHANGED <<pool, held>>

-----------------------------------------------------------------------------
(* the parked caller *)

(* The permit is taken out of the slot: the caller was woken and collects  *)
(* it, or it was leaving and will release it.                              *)
Collect(w) ==
    /\ slot[w].phase = "handed"
    /\ pump.arriving # w
    /\ held' = [held EXCEPT ![slot[w].tenant] = @ + 1]
    /\ slot' = [slot EXCEPT ![w] = NoSlot]
    /\ UNCHANGED <<pool, round, pump>>

(* The caller goes away, its token cancelled or its future dropped. *)
Leave(w) ==
    /\ w \in Impatient
    /\ slot[w].phase = "parked"
    /\ pump.arriving # w
    /\ slot' = [slot EXCEPT ![w] = InPhase(@, "leaving")]
    /\ UNCHANGED <<pool, round, held, pump>>

NeedsReport(w) == slot[w].phase = "leaving"

(* report_abandoned: the other half of leaving, under the round lock. *)
ReportAbandoned(w) ==
    /\ pump.at = "unlocked"
    /\ slot[w].phase \in {"leaving", "withdrawn"}
    /\ round' = IF NeedsReport(w)
                THEN Abandoned(round, slot[w].tenant, Live)
                ELSE round
    /\ slot' = [slot EXCEPT ![w] = NoSlot]
    /\ UNCHANGED <<pool, held, pump>>

Pumping == PumpStops \/ PumpIdles \/ PumpRetires \/ PumpGrants
              \/ Deliver \/ DeliverRefused

Next ==
    \/ \E t \in Tenant : AdmitNow(t) \/ TryAdmit(t) \/ AdmitQueued(t)
                            \/ Release(t)
    \/ Pumping
    \/ \E w \in Waiter : Collect(w) \/ Leave(w) \/ ReportAbandoned(w)

(* A thread that holds the round lock runs on, a woken caller collects its *)
(* permit, and every tenant's admissions end: each end has to win the      *)
(* round lock against the others, hence the strong form.                   *)
Fairness ==
    /\ WF_vars(Pumping)
    /\ \A w \in Waiter : WF_vars(Collect(w))
    /\ \A t \in Tenant : SF_vars(Release(t))

Spec == Init /\ [][Next]_vars

FairSpec == Spec /\ Fairness

-----------------------------------------------------------------------------

Handed(t) == {w \in Waiter : slot[w] = [phase |-> "handed", tenant |-> t]}

Delivering(t) == pump.at = "deliver" /\ slot[pump.to].tenant = t

Holding(t) == held[t] + Cardinality(Handed(t))
                 + (IF Delivering(t) THEN 1 ELSE 0)

(* What the round charges to a tenant is what the tenant really holds: in  *)
(* its leases, in slots a grant was handed to, and in the delivery under   *)
(* way, whichever of a departure, a delivery and a release came first      *)
(* (in_flight, settle, WaitPermit::drop).                                  *)
InFlightExact == \A t \in Tenant : round.entries[t].inFlight = Holding(t)

(* No tenant ever holds more permits than its ceiling, so the rest of the  *)
(* pool stays within reach of the others (per_tenant_limit).               *)
CeilingHeld == \A t \in Tenant : Holding(t) <= PerTenantLimit

(* The ring is exactly the tenants that have a waiter and room, each once: *)
(* nobody is served past its ceiling and nobody waits where no pass looks. *)
RingExact ==
    /\ \A i, j \in 1..Len(round.ring) :
           round.ring[i] = round.ring[j] => i = j
    /\ \A t \in Tenant :
           LET e == round.entries[t]
               member == \E i \in 1..Len(round.ring) : round.ring[i] = t
           IN  /\ e.onRing = member
               /\ e.queue # <<>> /\ UnderCeiling(e) => member
               /\ member => UnderCeiling(e)

(* Once the lock is free no permit lies in the pool while a caller that    *)
(* could take it is parked: every freed permit went as far as the queued   *)
(* work justified (pump).                                                  *)
WorkConserving ==
    pump.at = "unlocked" /\ pool > 0 =>
        \A w \in Live : ~UnderCeiling(round.entries[slot[w].tenant])

(* A parked caller has exactly one place in its own tenant's queue, or the *)
(* delivery under way is to it: no departure, skip or compaction of others *)
(* loses a waiter or lets it be granted twice.                             *)
EveryWaiterHasItsPlace ==
    \A w \in Live :
        IF pump.to = w THEN ~InQueue(w)
        ELSE /\ \A t \in Tenant \ {slot[w].tenant} :
                   \A i \in 1..Len(round.entries[t].queue) :
                       round.entries[t].queue[i] # w
             /\ Cardinality({i \in 1..Len(round.entries[slot[w].tenant].queue)
                   : round.entries[slot[w].tenant].queue[i] = w}) = 1

(* The callers a tenant has parked stay within its queue bound.  The code  *)
(* does not keep it: a departure that is reported after its waiter was     *)
(* skipped is counted against one that still waits (grant,                 *)
(* note_abandoned), and the round takes one caller too many.               *)
QueueBoundKept ==
    \A t \in Tenant :
        Cardinality({w \in Live : slot[w].tenant = t /\ pump.to # w})
            <= QueuePerTenant

Outstanding == [t \in Tenant |-> held[t] + Cardinality(Handed(t))]

QueueLengths == [t \in Tenant |-> Len(round.entries[t].queue)]

(* Every permit of the supervisor is somewhere, once: in the pool, with    *)
(* the pump, in a slot or in an owner's hands; and the total the bound on  *)
(* waiting is checked against is the waiters really retained, abandoned    *)
(* ones included (Lease, WaitPermit::drop, retained).                      *)
AccountsBalance ==
    /\ pool + (IF pump.spare THEN 1 ELSE 0) + SumFunction(Outstanding)
           = Permits
    /\ round.retained = SumFunction(QueueLengths)

(* What a tenant's turn, open or still to come, may grant. *)
TurnLeft(r, t) ==
    IF r.entries[t].turnOpen THEN r.entries[t].deficit ELSE Weight[t]

Before(r, t) ==
    {u \in Tenant : \E i, j \in 1..Len(r.ring) :
                       i < j /\ r.ring[i] = u /\ r.ring[j] = t}

(* The permits that may be granted to others before tenant t's turn.       *)
Ahead(r, t) == SumFunction([u \in Before(r, t) |-> TurnLeft(r, u)])

(* A tenant on the ring is never overtaken: what may go before it only     *)
(* shrinks, by one with every permit that goes to another, until its turn  *)
(* (grant).                                                                *)
NoOvertaking ==
    [][\A t \in Tenant :
          round.entries[t].onRing /\ round'.entries[t].onRing
              /\ Head(round.ring) # t
          => IF PumpGrants THEN Ahead(round', t) < Ahead(round, t)
                           ELSE Ahead(round', t) <= Ahead(round, t)]_vars

(* A caller that parks is handed a permit unless it goes away first,       *)
(* however loudly the other tenants arrive (DeficitRoundRobin).            *)
NoStarvation ==
    \A w \in Waiter : slot[w].phase = "parked" ~> slot[w].phase # "parked"
=============================================================================
