------------------------------- MODULE Ladder -------------------------------
(***************************************************************************)
(* The facts an effect journal holds and the order they are recorded in.   *)
(*                                                                         *)
(* One attempt at one intent (an EffectKey) walks the ladder               *)
(*   IntentAdmitted, DispatchPrepared, OutcomeObserved, Verified*          *)
(* once; a retry is a new attempt and so a new key.  A log is the sequence *)
(* of committed events.  A journal position is a sequence number with a    *)
(* hash of every event before it, so here a position IS the log's prefix.  *)
(* The module has no state: every journal and the effect kernel share it.  *)
(***************************************************************************)
EXTENDS Naturals, Sequences

NoKind == "NoKind"

Kind == {"IntentAdmitted", "DispatchPrepared", "OutcomeObserved", "Verified"}

Evidence == {"Applied", "NotApplied"}

(* A predicate's answer over observations taken after the effect. *)
Verification == {"Satisfied", "NotSatisfied"}

EffectEvent(Key) ==
         [kind : {"IntentAdmitted", "DispatchPrepared"}, key : Key, says : {"Nothing"}]
    \cup [kind : {"OutcomeObserved"}, key : Key, says : Evidence]
    \cup [kind : {"Verified"}, key : Key, says : Verification]

IntentAdmitted(k)     == [kind |-> "IntentAdmitted", key |-> k, says |-> "Nothing"]
DispatchPrepared(k)   == [kind |-> "DispatchPrepared", key |-> k, says |-> "Nothing"]
OutcomeObserved(k, e) == [kind |-> "OutcomeObserved", key |-> k, says |-> e]

(* The rung that may follow the last one recorded; Verified may repeat. *)
NextAllowed ==
    [NoKind           |-> "IntentAdmitted",
     IntentAdmitted   |-> "DispatchPrepared",
     DispatchPrepared |-> "OutcomeObserved",
     OutcomeObserved  |-> "Verified",
     Verified         |-> "Verified"]

(***************************************************************************)
(* What a log says, read from the log alone.                               *)
(***************************************************************************)
Walked(l, k) == {l[i].kind : i \in {j \in 1..Len(l) : l[j].key = k}}

Rung == [NoKind |-> 0, IntentAdmitted |-> 1, DispatchPrepared |-> 2,
         OutcomeObserved |-> 3, Verified |-> 4]

UpTo(kind) == {rung \in Kind : Rung[rung] <= Rung[kind]}

(* e is the next rung of its own key's ladder. *)
InOrder(l, e) ==
    \E last \in Kind \cup {NoKind} :
        /\ Walked(l, e.key) = UpTo(last)
        /\ NextAllowed[last] = e.kind

IsHandedOff(l, k) == "DispatchPrepared" \in Walked(l, k)
HasOutcome(l, k)  == "OutcomeObserved" \in Walked(l, k)

(* Handed to the world, and no outcome was ever recorded. *)
IsUncertain(l, k) == IsHandedOff(l, k) /\ ~HasOutcome(l, k)

(* The position that settles k. *)
OutcomeAt(l, k) ==
    CHOOSE i \in 1..Len(l) : l[i].kind = "OutcomeObserved" /\ l[i].key = k

Says(l, k, e) ==
    \E i \in 1..Len(l) : l[i] = OutcomeObserved(k, e)

(***************************************************************************)
(* Replay: each event overwrites the status of its key.                    *)
(***************************************************************************)
NotSeen == "NotSeen"

Status == {"Prepared", "OutcomeUnknown", "Applied", "NotApplied",
           "Verified", "VerificationFailed"}

(* Mutant: a recorded outcome is read as an applied one. *)
StatusAfterApplied(event) ==
    CASE event.kind = "IntentAdmitted"                -> "Prepared"
      [] event.kind = "DispatchPrepared"              -> "OutcomeUnknown"
      [] event.kind \in {"OutcomeObserved", "Verified"} -> "Applied"

StatusAfter(event) ==
    CASE event.kind = "IntentAdmitted"    -> "Prepared"
      [] event.kind = "DispatchPrepared"  -> "OutcomeUnknown"
      [] event.kind = "OutcomeObserved"   -> event.says
      [] event.kind = "Verified"          ->
            IF event.says = "Satisfied" THEN "Verified" ELSE "VerificationFailed"

(* The status of every key after the first n events. *)
Recover(Key, l) ==
    LET fold[n \in 0..Len(l)] ==
            IF n = 0
            THEN [k \in Key |-> NotSeen]
            ELSE [fold[n - 1] EXCEPT ![l[n].key] = StatusAfter(l[n])]
    IN  fold[Len(l)]
=============================================================================
