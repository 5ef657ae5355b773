--------------------------- MODULE MemoryJournal ---------------------------
(***************************************************************************)
(* The in-memory journal adapter under several writers, each holding the   *)
(* tail it last read or was acknowledged.  An append is fenced by that     *)
(* tail and checked against a per-key index of the last rung, never        *)
(* against the log; a second index answers what outcome a key has.         *)
(***************************************************************************)
EXTENDS Ladder

CONSTANTS Key, Writer,
          Capacity    \* MAX_JOURNAL_EVENTS

ASSUME CapacityAssumption == Capacity \in Nat

VARIABLES committed,  \* Vec<JournalEntry>
          ladder,     \* the last rung committed for each key
          outcomes,   \* where each key's outcome is, and what it says
          tail        \* the position each writer will name as expected

vars == <<committed, ladder, outcomes, tail>>

NoOutcome == [at |-> 0, says |-> "Nothing"]

OutcomeEntry == [at : Nat \ {0}, says : Evidence]

TypeOK ==
    /\ committed \in Seq(EffectEvent(Key))
    /\ ladder \in [Key -> Kind \cup {NoKind}]
    /\ outcomes \in [Key -> OutcomeEntry \cup {NoOutcome}]
    /\ tail \in [Writer -> Seq(EffectEvent(Key))]

Init ==
    /\ committed = <<>>
    /\ ladder = [k \in Key |-> NoKind]
    /\ outcomes = [k \in Key |-> NoOutcome]
    /\ tail = [w \in Writer |-> <<>>]

(* Mutant: the rung is not checked. *)
CheckTailOnly(expected, e) == expected = committed

(* check_append_order: the fence, then the key's rung. *)
CheckAppendOrder(expected, e) ==
    /\ expected = committed
    /\ NextAllowed[ladder[e.key]] = e.kind

(* Mutant: the ceiling is checked before the event is counted. *)
BoundHeldEvents(additional) == Len(committed) <= Capacity

BoundEvents(additional) == Len(committed) + additional <= Capacity

(* A refusal leaves the journal unchanged, so only acceptance is a step. *)
CompareAndAppend(w, e) ==
    /\ CheckAppendOrder(tail[w], e)
    /\ BoundEvents(1)
    /\ committed' = Append(committed, e)
    /\ ladder' = [ladder EXCEPT ![e.key] = e.kind]
    /\ outcomes' = IF e.kind = "OutcomeObserved"
                   THEN [outcomes EXCEPT ![e.key] =
                            [at |-> Len(committed) + 1, says |-> e.says]]
                   ELSE outcomes
    /\ tail' = [tail EXCEPT ![w] = committed']

(* A writer reads the tail: assembly does, after it has folded the log. *)
ReadTail(w) ==
    /\ tail[w] # committed
    /\ tail' = [tail EXCEPT ![w] = committed]
    /\ UNCHANGED <<committed, ladder, outcomes>>

(* Mutant: the rung index outlives the log it was built from. *)
CrashKeepingLadder ==
    /\ committed # <<>>
    /\ committed' = <<>>
    /\ outcomes' = [k \in Key |-> NoOutcome]
    /\ tail' = [w \in Writer |-> <<>>]
    /\ UNCHANGED ladder

(* The process dies: nothing here was ever durable. *)
Crash ==
    /\ committed # <<>>
    /\ committed' = <<>>
    /\ ladder' = [k \in Key |-> NoKind]
    /\ outcomes' = [k \in Key |-> NoOutcome]
    /\ tail' = [w \in Writer |-> <<>>]

Next ==
    \/ \E w \in Writer, e \in EffectEvent(Key) : CompareAndAppend(w, e)
    \/ \E w \in Writer : ReadTail(w)
    \/ Crash

Spec == Init /\ [][Next]_vars

-----------------------------------------------------------------------------
(* The index an append is checked against says for every key exactly what  *)
(* the log says, so checking the index is checking the log                 *)
(* (check_append_order reads self.ladder and never self.committed).        *)
IndexAgrees == \A k \in Key : Walked(committed, k) = UpTo(ladder[k])

(* outcome_at answers from an index; recovery folds the log.  Both are     *)
(* authorities of the same kernel, and they never disagree: a key has an   *)
(* indexed outcome iff replay says it is settled, the entry the index      *)
(* names is that outcome, and no verification changed which one it was.    *)
OutcomeIndexAgrees ==
    LET recovered == Recover(Key, committed)
    IN  \A k \in Key :
            IF outcomes[k] = NoOutcome
            THEN recovered[k] \in {NotSeen, "Prepared", "OutcomeUnknown"}
            ELSE /\ outcomes[k].at \in 1..Len(committed)
                 /\ committed[outcomes[k].at] = OutcomeObserved(k, outcomes[k].says)
                 /\ \/ recovered[k] = outcomes[k].says
                    \/ recovered[k] \in {"Verified", "VerificationFailed"}

Journal == INSTANCE EffectJournal WITH log <- committed, durable <- 0

(* The adapter keeps the contract of the trait it implements. *)
Implements == Journal!JournalSpec

(* The ladder order and the single outcome of the contract, on this state: *)
(* the adapter decides by index, the contract by the log.                  *)
LadderOrder == Journal!LadderOrder
OneOutcome  == Journal!OneOutcome
=============================================================================
