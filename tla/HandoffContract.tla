-------------------------- MODULE HandoffContract --------------------------
(***************************************************************************)
(* What the effect path promises about handing attempts to the world,      *)
(* whatever the controllers, the journal and the crashes behind it: an     *)
(* attempt is handed off at most once, never while an earlier attempt at   *)
(* the same action is unanswered, and never for an event that has already  *)
(* landed.  An answer is durable and never changes.                        *)
(***************************************************************************)
EXTENDS Ladder

CONSTANTS Key,         \* attempts: records with an action and an input
          EventInput   \* the inputs whose identity names one event

VARIABLES handed,      \* attempts the world has been given
          verdict      \* what is durably recorded of each attempt

contractVars == <<handed, verdict>>

Unanswered == "Unanswered"

ContractTypeOK ==
    /\ handed \subseteq Key
    /\ verdict \in [Key -> Evidence \cup {Unanswered}]

ContractInit ==
    /\ handed = {}
    /\ verdict = [k \in Key |-> Unanswered]

SameEvent(j, k) == j.action = k.action /\ j.input = k.input /\ k.input \in EventInput

HandOff(k) ==
    /\ k \notin handed
    /\ verdict[k] = Unanswered
    /\ \A j \in handed : j.action = k.action => verdict[j] # Unanswered
    /\ \A j \in handed : SameEvent(j, k) => verdict[j] # "Applied"
    /\ handed' = handed \cup {k}
    /\ UNCHANGED verdict

(* One durable write can answer several attempts: a journal prefix does. *)
Answer ==
    /\ verdict' \in [Key -> Evidence \cup {Unanswered}]
    /\ \A k \in Key : verdict[k] # Unanswered => verdict'[k] = verdict[k]
    /\ \A k \in Key : verdict'[k] = "Applied" => k \in handed
    /\ UNCHANGED handed

ContractNext == Answer \/ \E k \in Key : HandOff(k)

ContractSpec == ContractInit /\ [][ContractNext]_contractVars

-----------------------------------------------------------------------------
(* At most one attempt at an action is with the world and unanswered: the  *)
(* bytes of two attempts are never in flight together                      *)
(* (Ledger::begin_attempt refuses a blocked action, ecs/ledger.rs).        *)
OneInFlight ==
    \A j, k \in handed :
        (j.action = k.action /\ verdict[j] = Unanswered /\ verdict[k] = Unanswered) => j = k

(* An event lands once, however often it is redelivered: of the attempts   *)
(* handed off for one action and one event, all but one are answered       *)
(* NotApplied (Effects::applied_in, ecs/effects.rs).                       *)
EventLandsOnce ==
    \A j, k \in handed :
        (SameEvent(j, k) /\ j # k) => "NotApplied" \in {verdict[j], verdict[k]}
=============================================================================
