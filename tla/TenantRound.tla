---------------------------- MODULE TenantRound ----------------------------
(***************************************************************************)
(* The pure scheduler behind tenanted admission: deficit round robin over  *)
(* bounded per-tenant queues.  Each decision is an operator from a round   *)
(* to the round it leaves.  A waiter is any value; which waiters are still *)
(* owned is told to a decision as the set live, the code's is_live.        *)
(***************************************************************************)
EXTENDS Integers, Sequences, FiniteSets

CONSTANTS Tenant, Waiter,
          PerTenantLimit,   \* in-flight admissions one tenant may hold
          QueuePerTenant,   \* live waiters one tenant may park
          QueueTotal,       \* waiters retained across every tenant
          Weight            \* a tenant's share of the freed permits

ASSUME PolicyAssumption ==
    /\ PerTenantLimit \in Nat \ {0}
    /\ QueuePerTenant \in Nat
    /\ QueueTotal \in Nat
    /\ Weight \in [Tenant -> Nat \ {0}]

(* No entry of the map: what an entry is again once it is removed. *)
Absent == [known |-> FALSE, queue |-> <<>>, abandoned |-> 0, inFlight |-> 0,
           deficit |-> 0, turnOpen |-> FALSE, onRing |-> FALSE]

Entry == [known : BOOLEAN, queue : Seq(Waiter), abandoned : Nat,
          inFlight : Nat, deficit : Nat, turnOpen : BOOLEAN,
          onRing : BOOLEAN]

Round == [entries : [Tenant -> Entry], ring : Seq(Tenant), retained : Nat]

EmptyRound == [entries |-> [t \in Tenant |-> Absent], ring |-> <<>>,
               retained |-> 0]

(* saturating_sub *)
Less(n, k) == IF n > k THEN n - k ELSE 0

LiveCount(e) == Less(Len(e.queue), e.abandoned)

IsIdle(e) == e.queue = <<>> /\ e.inFlight = 0 /\ ~e.onRing

Kept(e) == IF IsIdle(e) THEN Absent ELSE e

WithEntry(r, t, e) == [r EXCEPT !.entries = [@ EXCEPT ![t] = e]]

(* Mutant: the ceiling is compared with one admission too many. *)
UnderCeilingPlusOne(e) == e.inFlight <= PerTenantLimit

UnderCeiling(e) == e.inFlight < PerTenantLimit

(* Mutant: a tenant is put on the ring although it is there already. *)
ArmedAlways(r, t, e) ==
    IF e.queue # <<>> /\ UnderCeiling(e)
    THEN [WithEntry(r, t, [e EXCEPT !.onRing = TRUE])
             EXCEPT !.ring = Append(@, t)]
    ELSE WithEntry(r, t, Kept(e))

(* A tenant with a waiter and room joins the back of the ring. *)
Armed(r, t, e) ==
    IF e.queue # <<>> /\ ~e.onRing /\ UnderCeiling(e)
    THEN [WithEntry(r, t, [e EXCEPT !.onRing = TRUE])
             EXCEPT !.ring = Append(@, t)]
    ELSE WithEntry(r, t, Kept(e))

Charged(e) == [e EXCEPT !.known = TRUE, !.inFlight = @ + 1]

-----------------------------------------------------------------------------

(* arrive_with, answered Immediate *)
MayEnterNow(r, t) == r.ring = <<>> /\ UnderCeiling(r.entries[t])

EnterNow(r, t) == WithEntry(r, t, Charged(r.entries[t]))

(* The two refusals, TenantAtCapacity before SupervisorQueueFull. *)
MayQueue(r, t) ==
    LiveCount(r.entries[t]) < QueuePerTenant /\ r.retained < QueueTotal

(* arrive_with, answered Queued *)
Enqueued(r, t, w) ==
    LET e == [r.entries[t] EXCEPT !.known = TRUE,
                                  !.queue = Append(@, w)]
    IN  [Armed(r, t, e) EXCEPT !.retained = @ + 1]

(* try_arrive, answered Immediate: any entry of the tenant refuses. *)
MayTryEnter(r, t) == r.ring = <<>> /\ ~r.entries[t].known

(* Mutant: a tenant that waits at its ceiling is not put on the ring. *)
ReleasedUnarmed(r, t) ==
    IF r.entries[t].known
    THEN WithEntry(r, t, Kept([r.entries[t] EXCEPT !.inFlight = Less(@, 1)]))
    ELSE r

(* note_release *)
Released(r, t) ==
    IF r.entries[t].known
    THEN Armed(r, t, [r.entries[t] EXCEPT !.inFlight = Less(@, 1)])
    ELSE r

(* Mutant: the compaction forgets the total. *)
UncountedAll(r, n) == r

(* Waiters that leave the queues leave the total as well. *)
Uncounted(r, n) == [r EXCEPT !.retained = Less(@, n)]

(* The n-th of a set of places, from below. *)
Nth(S, n) == CHOOSE k \in S : Cardinality({j \in S : j <= k}) = n

(* Mutant: the compaction clears the queue. *)
OwnedCleared(q, live) == <<>>

OwnedOnly(q, live) ==
    LET left == {i \in 1..Len(q) : q[i] \in live}
    IN  [n \in 1..Cardinality(left) |-> q[Nth(left, n)]]

(* note_abandoned: one more owner has left; once they outnumber the others *)
(* the queue is rebuilt from the waiters still owned.                      *)
Abandoned(r, t, live) ==
    LET e == r.entries[t]
        n == IF e.abandoned + 1 < Len(e.queue) THEN e.abandoned + 1
                                               ELSE Len(e.queue)
        q == OwnedOnly(e.queue, live)
    IN  IF ~e.known THEN r
        ELSE IF n > Len(e.queue) - n
             THEN Uncounted(WithEntry(r, t, [e EXCEPT !.queue = q,
                                                      !.abandoned = 0]),
                            Len(e.queue) - Len(q))
             ELSE WithEntry(r, t, [e EXCEPT !.abandoned = n])

-----------------------------------------------------------------------------
(* grant *)

(* The heads whose owner has left, which the grant drops. *)
DeadHeads(q, live) ==
    CHOOSE n \in 0..Len(q) :
        /\ \A i \in 1..n : q[i] \notin live
        /\ n = Len(q) \/ q[n + 1] \in live

Skipped(e, live) ==
    LET n == DeadHeads(e.queue, live)
    IN  [e EXCEPT !.queue = SubSeq(@, n + 1, Len(@)),
                  !.abandoned = Less(@, n)]

HasLive(e, live) == \E i \in 1..Len(e.queue) : e.queue[i] \in live

OffRing(e) == Kept([e EXCEPT !.onRing = FALSE, !.deficit = 0,
                             !.turnOpen = FALSE])

(* A pass over a front whose owners have all left: it is retired, and the  *)
(* next pass looks at the tenant behind it.                                *)
Retired(r, live) ==
    LET t == Head(r.ring)
        e == r.entries[t]
    IN  Uncounted([WithEntry(r, t, OffRing(Skipped(e, live)))
                      EXCEPT !.ring = Tail(@)],
                  Len(e.queue))

(* The waiter a grant takes from the front of the ring. *)
Chosen(r, live) == Skipped(r.entries[Head(r.ring)], live).queue[1]

(* Mutant: a turn that has spent its deficit stays at the front. *)
RotatedLate(ring, off, closed) == IF off THEN Tail(ring) ELSE ring

(* A tenant that is drained or at its ceiling leaves the ring; one that    *)
(* has spent its turn goes behind the others.                              *)
Rotated(ring, off, closed) ==
    IF off THEN Tail(ring)
    ELSE IF closed THEN Append(Tail(ring), Head(ring))
    ELSE ring

(* A pass that grants: the turn opens with the tenant's weight, and every  *)
(* permit spends one of it.                                                *)
Served(r, live) ==
    LET t == Head(r.ring)
        s == Skipped(r.entries[t], live)
        d == IF s.turnOpen THEN s.deficit ELSE s.deficit + Weight[t]
        e == Charged([s EXCEPT !.queue = Tail(@), !.deficit = Less(d, 1),
                               !.turnOpen = TRUE])
        off == e.queue = <<>> \/ ~UnderCeiling(e)
        closed == off \/ e.deficit = 0
    IN  Uncounted([WithEntry(r, t, IF off THEN OffRing(e)
                                   ELSE [e EXCEPT !.turnOpen = ~closed])
                      EXCEPT !.ring = Rotated(@, off, closed)],
                  DeadHeads(r.entries[t].queue, live) + 1)
=============================================================================
