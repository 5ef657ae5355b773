--------------------------- MODULE EffectJournal ---------------------------
(***************************************************************************)
(* What an effect journal promises, whatever stores it: the contract of    *)
(* the EffectJournal trait.  The log grows by one event at a time, each    *)
(* the next rung of its key's ladder.  An append is acknowledged at a      *)
(* durability that survives the writer (the whole log up to it is then     *)
(* durable), or more weakly, or not at all; a receipt obtained later makes *)
(* a prefix durable; a crash takes back nothing that was durable.          *)
(***************************************************************************)
EXTENDS Ladder

CONSTANTS Key,        \* attempts: (action, input, attempt number)
          Capacity    \* MAX_JOURNAL_EVENTS

ASSUME JournalAssumption == Capacity \in Nat

VARIABLES log,        \* the committed events
          durable     \* how many of them no crash takes back

journalVars == <<log, durable>>

JournalTypeOK ==
    /\ log \in Seq(EffectEvent(Key))
    /\ durable \in Nat

JournalInit ==
    /\ log = <<>>
    /\ durable = 0

(* compare_and_append: the acknowledgment is strong, or weak or lost. *)
Commit(e, strong) ==
    /\ InOrder(log, e)
    /\ Len(log) < Capacity
    /\ log' = Append(log, e)
    /\ durable' = IF strong THEN Len(log) + 1 ELSE durable

(* confirm_outcome: a receipt for something already committed. *)
Attest(n) ==
    /\ n \in durable..Len(log)
    /\ durable' = n
    /\ UNCHANGED log

(* The storage loses a suffix that was never durable. *)
Lose(n) ==
    /\ n \in durable..Len(log)
    /\ log' = SubSeq(log, 1, n)
    /\ UNCHANGED durable

JournalNext ==
    \/ \E e \in EffectEvent(Key), strong \in BOOLEAN : Commit(e, strong)
    \/ \E n \in 0..Len(log) : Attest(n) \/ Lose(n)

JournalSpec == JournalInit /\ [][JournalNext]_journalVars

-----------------------------------------------------------------------------
DurableLog == SubSeq(log, 1, durable)

(* What was acknowledged as durable stays, event for event: a crash, a     *)
(* later append or a receipt never takes it back or rewrites it            *)
(* (DurableAck, journal.rs).                                               *)
DurableNeverRevised ==
    [][/\ durable <= durable'
       /\ DurableLog = SubSeq(log', 1, durable)]_journalVars

(* Every event stands on the rungs below it, for every key and every       *)
(* prefix of the log: nothing is dispatched without an intent and nothing  *)
(* settled without a dispatch (EventKind::next), and no rung of the effect *)
(* is walked twice, crash losses included.                                 *)
LadderOrder ==
    \A i \in 1..Len(log) : InOrder(SubSeq(log, 1, i - 1), log[i])

JournalBounds ==
    /\ durable <= Len(log)
    /\ Len(log) <= Capacity

(* One attempt has one outcome: no two entries of the log settle one key,  *)
(* in agreement or not (outcome_at answers with a single evidence).        *)
OneOutcome ==
    \A i, j \in 1..Len(log) :
        (/\ log[i].kind = "OutcomeObserved"
         /\ log[j].kind = "OutcomeObserved"
         /\ log[i].key = log[j].key) => i = j
=============================================================================
