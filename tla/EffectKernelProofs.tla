------------------------- MODULE EffectKernelProofs -------------------------
(***************************************************************************)
(* The journal's contract, for every set of keys and every capacity: what  *)
(* is durable is never revised, every event stands on the rungs below it,  *)
(* and one attempt has one outcome.  Then the effect kernel, for every set *)
(* of controllers, chains, inputs and actions and every budget: its        *)
(* variables keep their types, every step it takes on the journal is one   *)
(* the contract allows, and what it hands to the world is on the durable   *)
(* record.  Then what it promises about attempts: one unknown outcome per  *)
(* action, every unknown held by a controller that is current, nothing     *)
(* running past one, settlements on the durable record, room to settle,    *)
(* and the handoff contract.                                               *)
(*                                                                         *)
(* Where two controllers may share the journal, a settlement of what is    *)
(* already recorded moves the fence past events the controller has not     *)
(* folded.  What depends on the fold is therefore proved for a journal     *)
(* that admits one controller, or for a single action, as each theorem     *)
(* says.                                                                   *)
(***************************************************************************)
EXTENDS EffectKernel, Extremes

-----------------------------------------------------------------------------
(* Facts about sequences the proofs below cut and extend. *)

LEMMA AppendFacts ==
    ASSUME NEW S, NEW s \in Seq(S), NEW e \in S
    PROVE  /\ Append(s, e) \in Seq(S)
           /\ Len(Append(s, e)) = Len(s) + 1
           /\ \A i \in 1..Len(s) : Append(s, e)[i] = s[i]
           /\ Append(s, e)[Len(s) + 1] = e
           /\ \A n \in 0..Len(s) : SubSeq(Append(s, e), 1, n) = SubSeq(s, 1, n)
  OBVIOUS

LEMMA SubSeqFacts ==
    ASSUME NEW S, NEW s \in Seq(S), NEW n \in 0..Len(s)
    PROVE  /\ SubSeq(s, 1, n) \in Seq(S)
           /\ Len(SubSeq(s, 1, n)) = n
           /\ \A i \in 1..n : SubSeq(s, 1, n)[i] = s[i]
           /\ \A m \in 0..n : SubSeq(SubSeq(s, 1, n), 1, m) = SubSeq(s, 1, m)
  OBVIOUS

-----------------------------------------------------------------------------
JournalInv == JournalTypeOK /\ JournalBounds

LEMMA JournalStepKeepsInv ==
    ASSUME JournalInv, [JournalNext]_journalVars
    PROVE  JournalInv'
<1> USE JournalAssumption DEF JournalInv, JournalTypeOK, JournalBounds
<1>1. CASE \E e \in EffectEvent(Key), strong \in BOOLEAN : Commit(e, strong)
  BY <1>1, AppendFacts DEF Commit
<1>2. CASE \E n \in 0..Len(log) : Attest(n)
  BY <1>2 DEF Attest
<1>3. CASE \E n \in 0..Len(log) : Lose(n)
  BY <1>3, SubSeqFacts DEF Lose
<1>4. CASE UNCHANGED journalVars
  BY <1>4 DEF journalVars
<1>5. QED
  BY <1>1, <1>2, <1>3, <1>4 DEF JournalNext

(* The log holds events, its durable part is part of it, and it never      *)
(* grows past the ceiling (MAX_JOURNAL_EVENTS).                            *)
THEOREM JournalInvariant == JournalSpec => []JournalInv
<1>1. JournalInit => JournalInv
  BY JournalAssumption DEF JournalInit, JournalInv, JournalTypeOK, JournalBounds
<1>2. JournalInv /\ [JournalNext]_journalVars => JournalInv'
  BY JournalStepKeepsInv
<1>3. QED
  BY <1>1, <1>2, PTL DEF JournalSpec

LEMMA JournalStepKeepsDurable ==
    ASSUME JournalInv, [JournalNext]_journalVars
    PROVE  durable <= durable' /\ DurableLog = SubSeq(log', 1, durable)
<1> USE DEF JournalInv, JournalTypeOK, JournalBounds, DurableLog
<1>1. CASE \E e \in EffectEvent(Key), strong \in BOOLEAN : Commit(e, strong)
  BY <1>1, AppendFacts DEF Commit
<1>2. CASE \E n \in 0..Len(log) : Attest(n)
  BY <1>2 DEF Attest
<1>3. CASE \E n \in 0..Len(log) : Lose(n)
  BY <1>3, SubSeqFacts DEF Lose
<1>4. CASE UNCHANGED journalVars
  BY <1>4 DEF journalVars
<1>5. QED
  BY <1>1, <1>2, <1>3, <1>4 DEF JournalNext

(* What was acknowledged as durable stays, event for event. *)
THEOREM DurablePrefixStable == JournalSpec => DurableNeverRevised
<1>1. JournalInv /\ [JournalNext]_journalVars
        => [/\ durable <= durable'
            /\ DurableLog = SubSeq(log', 1, durable)]_journalVars
  BY JournalStepKeepsDurable
<1>2. QED
  BY <1>1, JournalInvariant, PTL DEF JournalSpec, DurableNeverRevised

-----------------------------------------------------------------------------
(* Being in order is a matter of the prefix before the event alone, so an  *)
(* append keeps it for the events before it and a cut for those it leaves. *)
LEMMA JournalStepKeepsOrder ==
    ASSUME JournalInv, LadderOrder, [JournalNext]_journalVars
    PROVE  LadderOrder'
<1> USE DEF JournalInv, JournalTypeOK, JournalBounds, LadderOrder
<1>1. ASSUME NEW e \in EffectEvent(Key), NEW strong \in BOOLEAN, Commit(e, strong)
      PROVE  LadderOrder'
  <2>1. ASSUME NEW i \in 1..Len(log')
        PROVE  InOrder(SubSeq(log', 1, i - 1), log'[i])
    <3>1. CASE i \in 1..Len(log)
      <4>1. SubSeq(log', 1, i - 1) = SubSeq(log, 1, i - 1) /\ log'[i] = log[i]
        BY <1>1, <3>1, AppendFacts DEF Commit
      <4>2. QED
        BY <3>1, <4>1
    <3>2. CASE i = Len(log) + 1
      <4>1. SubSeq(log', 1, i - 1) = log /\ log'[i] = e
        BY <1>1, <3>2 DEF Commit
      <4>2. QED
        BY <1>1, <4>1 DEF Commit
    <3>3. QED
      BY <1>1, <2>1, <3>1, <3>2, AppendFacts DEF Commit
  <2>2. QED
    BY <2>1
<1>2. ASSUME NEW n \in 0..Len(log), Attest(n)
      PROVE  LadderOrder'
  BY <1>2 DEF Attest
<1>3. ASSUME NEW n \in 0..Len(log), Lose(n)
      PROVE  LadderOrder'
  <2>1. ASSUME NEW i \in 1..Len(log')
        PROVE  /\ i \in 1..Len(log)
               /\ SubSeq(log', 1, i - 1) = SubSeq(log, 1, i - 1)
               /\ log'[i] = log[i]
    BY <1>3, SubSeqFacts DEF Lose
  <2>2. QED
    BY <2>1
<1>4. CASE UNCHANGED journalVars
  BY <1>4 DEF journalVars
<1>5. QED
  BY <1>1, <1>2, <1>3, <1>4 DEF JournalNext

(* Every event stands on the rungs below it (EventKind::next). *)
THEOREM EveryEventInOrder == JournalSpec => []LadderOrder
<1>1. JournalInit => LadderOrder
  BY DEF JournalInit, LadderOrder
<1>2. JournalInv /\ LadderOrder /\ [JournalNext]_journalVars => LadderOrder'
  BY JournalStepKeepsOrder
<1>3. QED
  BY <1>1, <1>2, JournalInvariant, PTL DEF JournalSpec

-----------------------------------------------------------------------------
(* Once the outcome rung is walked no later event is in order at it. *)
LEMMA OutcomeIsWalkedOnce ==
    ASSUME JournalInv, LadderOrder,
           NEW i \in 1..Len(log), NEW j \in 1..Len(log),
           log[i].kind = "OutcomeObserved", log[j].kind = "OutcomeObserved",
           log[i].key = log[j].key
    PROVE  ~(i < j)
<1> SUFFICES ASSUME i < j PROVE FALSE
  OBVIOUS
<1> DEFINE before == SubSeq(log, 1, j - 1)
<1>1. i \in 1..Len(before) /\ before[i] = log[i]
  BY SubSeqFacts DEF JournalInv, JournalTypeOK
<1>2. "OutcomeObserved" \in Walked(before, log[j].key)
  BY <1>1 DEF Walked
<1>3. InOrder(before, log[j])
  BY DEF LadderOrder
<1>4. PICK last \in Kind \cup {NoKind} :
          Walked(before, log[j].key) = UpTo(last) /\ NextAllowed[last] = "OutcomeObserved"
  BY <1>3 DEF InOrder
<1>5. last = "DispatchPrepared"
  BY <1>4 DEF NextAllowed, Kind, NoKind
<1>6. "OutcomeObserved" \notin UpTo("DispatchPrepared")
  BY DEF UpTo, Rung
<1>7. QED
  BY <1>2, <1>4, <1>5, <1>6

(* One attempt has one outcome. *)
THEOREM OneOutcomePerAttempt == JournalSpec => []OneOutcome
<1>1. JournalInv /\ LadderOrder => OneOutcome
  <2> SUFFICES ASSUME JournalInv, LadderOrder,
                      NEW i \in 1..Len(log), NEW j \in 1..Len(log),
                      log[i].kind = "OutcomeObserved", log[j].kind = "OutcomeObserved",
                      log[i].key = log[j].key
               PROVE  i = j
    BY DEF OneOutcome
  <2>1. ~(i < j) /\ ~(j < i)
    BY OutcomeIsWalkedOnce
  <2>2. QED
    BY <2>1 DEF JournalInv, JournalTypeOK
<1>2. QED
  BY <1>1, JournalInvariant, EveryEventInOrder, PTL

-----------------------------------------------------------------------------
(* Keys and the log. *)

LEMMA KeyFields ==
    /\ \A k \in Key : k.action \in Action /\ k.input \in Input /\ k.attempt \in 1..MaxAttempt
    /\ \A a \in Action, i \in Input, n \in 1..MaxAttempt :
            [action |-> a, input |-> i, attempt |-> n] \in Key
  BY KernelAssumption

(* What a log says of k, it says of an attempt. *)
LEMMA WalkedIsKey ==
    ASSUME NEW l \in Seq(EffectEvent(Key)), NEW k, Walked(l, k) # {}
    PROVE  k \in Key
<1>1. PICK i \in 1..Len(l) : l[i].key = k
  BY DEF Walked
<1>2. l[i] \in EffectEvent(Key)
  OBVIOUS
<1>3. QED
  BY <1>1, <1>2 DEF EffectEvent

LEMMA SaysIsOutcome ==
    ASSUME NEW l \in Seq(EffectEvent(Key)), NEW k, NEW e, Says(l, k, e)
    PROVE  k \in Key /\ HasOutcome(l, k)
<1>1. PICK i \in 1..Len(l) : l[i] = OutcomeObserved(k, e)
  BY DEF Says
<1>2. l[i].key = k /\ l[i].kind = "OutcomeObserved"
  BY <1>1 DEF OutcomeObserved
<1>3. "OutcomeObserved" \in Walked(l, k)
  BY <1>2 DEF Walked
<1>4. QED
  BY <1>3, WalkedIsKey DEF HasOutcome

LEMMA OutcomeIsAt ==
    ASSUME NEW l \in Seq(EffectEvent(Key)), NEW k, HasOutcome(l, k)
    PROVE  OutcomeAt(l, k) \in 1..Len(l)
<1>1. \E i \in 1..Len(l) : l[i].kind = "OutcomeObserved" /\ l[i].key = k
  BY DEF HasOutcome, Walked
<1>2. QED
  BY <1>1 DEF OutcomeAt

(* A rung above the first stands on a rung of its own key. *)
LEMMA LaterRungIsKey ==
    ASSUME NEW l \in Seq(EffectEvent(Key)), NEW e, InOrder(l, e),
           e.kind \in {"DispatchPrepared", "OutcomeObserved"}
    PROVE  e.key \in Key
<1>1. PICK last \in Kind \cup {NoKind} :
          Walked(l, e.key) = UpTo(last) /\ NextAllowed[last] = e.kind
  BY DEF InOrder
<1>2. last \in {"IntentAdmitted", "DispatchPrepared"}
  BY <1>1 DEF NextAllowed, Kind, NoKind
<1>3. "IntentAdmitted" \in UpTo(last)
  BY <1>2 DEF UpTo, Kind, Rung
<1>4. QED
  BY <1>1, <1>3, WalkedIsKey

LEMMA LaterRungIsEvent ==
    ASSUME NEW l \in Seq(EffectEvent(Key)), NEW k, NEW e \in Evidence
    PROVE  /\ InOrder(l, DispatchPrepared(k)) =>
                  k \in Key /\ DispatchPrepared(k) \in EffectEvent(Key)
           /\ InOrder(l, OutcomeObserved(k, e)) =>
                  k \in Key /\ OutcomeObserved(k, e) \in EffectEvent(Key)
<1>1. /\ DispatchPrepared(k).kind = "DispatchPrepared"
      /\ DispatchPrepared(k).key = k
      /\ OutcomeObserved(k, e).kind = "OutcomeObserved"
      /\ OutcomeObserved(k, e).key = k
  BY DEF DispatchPrepared, OutcomeObserved
<1>2. /\ InOrder(l, DispatchPrepared(k)) => k \in Key
      /\ InOrder(l, OutcomeObserved(k, e)) => k \in Key
  BY <1>1, LaterRungIsKey
<1>3. k \in Key => /\ DispatchPrepared(k) \in EffectEvent(Key)
                   /\ OutcomeObserved(k, e) \in EffectEvent(Key)
  BY DEF DispatchPrepared, OutcomeObserved, EffectEvent
<1>4. QED
  BY <1>2, <1>3

LEMMA IntentIsEvent ==
    ASSUME NEW k \in Key PROVE IntentAdmitted(k) \in EffectEvent(Key)
  BY DEF IntentAdmitted, EffectEvent

-----------------------------------------------------------------------------
(* The walk of a controller stays within the entries of its chain. *)
Within(at) ==
    at # Idle => /\ at.next <= Len(Entries[at.chain])
                 /\ at.upto <= Len(Entries[at.chain])

WalkBound == \A c \in Controller : Within(pc[c])

KernelInv == TypeOK /\ JournalBounds /\ WalkBound

JournalStep == [JournalNext]_journalVars

LEMMA ReceiptMoves ==
    ASSUME JournalTypeOK, JournalBounds, UNCHANGED log,
           durable' \in durable..Len(log)
    PROVE  JournalStep
<1>1. durable' \in 0..Len(log)
  BY DEF JournalTypeOK
<1>2. Attest(durable')
  BY DEF Attest
<1>3. QED
  BY <1>1, <1>2 DEF JournalStep, JournalNext

LEMMA CommitMoves ==
    ASSUME NEW e \in EffectEvent(Key), NEW strong \in BOOLEAN, Commit(e, strong)
    PROVE  JournalStep
  BY DEF JournalStep, JournalNext

(* A fold only ever takes in a key. *)
FoldTypeOK ==
    /\ latest \in [Controller -> [Action -> Key \cup {NoKey}]]
    /\ landedEvent \in [Controller -> SUBSET (Action \X Input)]
    /\ attempted \in [Controller -> [Action -> 0..MaxAttempt]]

LEMMA FoldOutcomeTypes ==
    ASSUME FoldTypeOK, NEW c \in Controller, NEW k \in Key, NEW e, FoldOutcome(c, k, e)
    PROVE  FoldTypeOK'
<1>1. k.action \in Action /\ k.input \in Input /\ k.attempt \in 0..MaxAttempt
  BY KeyFields, KernelAssumption
<1>2. latest' \in [Controller -> [Action -> Key \cup {NoKey}]]
  BY DEF FoldTypeOK, FoldOutcome
<1>3. landedEvent' \in [Controller -> SUBSET (Action \X Input)]
  BY <1>1 DEF FoldTypeOK, FoldOutcome
<1>4. attempted' \in [Controller -> [Action -> 0..MaxAttempt]]
  BY <1>1 DEF FoldTypeOK, FoldOutcome
<1>5. QED
  BY <1>2, <1>3, <1>4 DEF FoldTypeOK

LEMMA NoteTypes ==
    ASSUME FoldTypeOK, NEW c \in Controller, NEW a, NEW n \in 0..MaxAttempt,
           attempted' = [attempted EXCEPT ![c][a] = Larger(@, n)],
           UNCHANGED <<latest, landedEvent>>
    PROVE  FoldTypeOK'
  BY DEF FoldTypeOK, Larger

TailTypeOK == tail \in [Controller -> Seq(EffectEvent(Key))]

(* The one settlement write is a step of the journal, and what it leaves   *)
(* in the controller's memory is a fence and a fold.                       *)
LEMMA EnsureOutcomeTypes ==
    ASSUME KernelInv, NEW c \in Controller, NEW k, NEW e \in Evidence, NEW ok \in BOOLEAN,
           EnsureOutcome(c, k, e, ok)
    PROVE  JournalStep /\ TailTypeOK' /\ FoldTypeOK'
<1>1. /\ log \in Seq(EffectEvent(Key)) /\ durable \in Nat /\ durable <= Len(log)
      /\ JournalTypeOK /\ JournalBounds /\ TailTypeOK /\ FoldTypeOK
  BY DEF KernelInv, TypeOK, JournalTypeOK, JournalBounds, TailTypeOK, FoldTypeOK
<1>2. CASE UNCHANGED <<log, durable, tail, fold>>
  BY <1>1, <1>2 DEF JournalStep, journalVars, TailTypeOK, FoldTypeOK, fold
<1>3. CASE /\ Says(log, k, e)
           /\ durable' = Larger(durable, OutcomeAt(log, k))
           /\ IF ok
              THEN tail' = [tail EXCEPT ![c] = log] /\ FoldOutcome(c, k, e)
              ELSE UNCHANGED <<tail, fold>>
           /\ UNCHANGED log
  <2>1. k \in Key /\ OutcomeAt(log, k) \in 1..Len(log)
    BY <1>1, <1>3, SaysIsOutcome, OutcomeIsAt
  <2>2. durable' \in durable..Len(log)
    BY <1>1, <1>3, <2>1 DEF Larger
  <2>3. JournalStep
    BY <1>1, <1>3, <2>2, ReceiptMoves
  <2>4. TailTypeOK' /\ FoldTypeOK'
    <3>1. CASE ok
      BY <1>1, <1>3, <2>1, <3>1, FoldOutcomeTypes DEF TailTypeOK
    <3>2. CASE ~ok
      BY <1>1, <1>3, <3>2 DEF TailTypeOK, FoldTypeOK, fold
    <3>3. QED
      BY <3>1, <3>2
  <2>5. QED
    BY <2>3, <2>4
<1>4. CASE Fenced(c, OutcomeObserved(k, e), FALSE) /\ UNCHANGED <<tail, fold>>
  <2>1. Commit(OutcomeObserved(k, e), FALSE) /\ OutcomeObserved(k, e) \in EffectEvent(Key)
    BY <1>1, <1>4, LaterRungIsEvent DEF Fenced, Commit
  <2>2. JournalStep
    BY <2>1, CommitMoves
  <2>3. QED
    BY <1>1, <1>4, <2>2 DEF TailTypeOK, FoldTypeOK, fold
<1>5. CASE /\ Fenced(c, OutcomeObserved(k, e), TRUE)
           /\ tail' = [tail EXCEPT ![c] = log']
           /\ FoldOutcome(c, k, e)
  <2>1. /\ Commit(OutcomeObserved(k, e), TRUE)
        /\ k \in Key /\ OutcomeObserved(k, e) \in EffectEvent(Key)
    BY <1>1, <1>5, LaterRungIsEvent DEF Fenced, Commit
  <2>2. JournalStep
    BY <2>1, CommitMoves
  <2>3. log' \in Seq(EffectEvent(Key))
    BY <1>1, <2>1 DEF Commit
  <2>4. QED
    BY <1>1, <1>5, <2>1, <2>2, <2>3, FoldOutcomeTypes DEF TailTypeOK
<1>6. QED
  BY <1>2, <1>3, <1>4, <1>5 DEF EnsureOutcome

-----------------------------------------------------------------------------
(* Where a walk may be. *)
PcTypeOK == pc \in [Controller -> PC] /\ WalkBound

LEMMA WalkFromTypes ==
    ASSUME NEW c, NEW ch \in Chain, NEW n \in Nat \ {0},
           NEW upto \in Nat, upto <= Len(Entries[ch])
    PROVE  WalkFrom(c, ch, n, upto) \in PC /\ Within(WalkFrom(c, ch, n, upto))
<1> DEFINE left == {i \in n..upto : ~IsDone(state[c][Entries[ch][i]])}
           first == CHOOSE i \in left : \A j \in left : i <= j
<1>1. CASE left = {}
  BY <1>1 DEF WalkFrom, PC, Within
<1>2. CASE left # {}
  <2>1. left \subseteq n..upto /\ left \subseteq Nat
    OBVIOUS
  <2>2. \E i \in left : \A j \in left : i <= j
    <3> HIDE DEF left
    <3>1. QED
      BY <1>2, <2>1, Least
  <2>3. first \in left
    <3> HIDE DEF left
    <3>1. QED
      BY <2>2
  <2>4. first \in Nat \ {0} /\ first <= upto
    <3> HIDE DEF left, first
    <3>1. QED
      BY <2>1, <2>3
  <2>5. WalkFrom(c, ch, n, upto) = Walking(ch, first, upto)
    BY <1>2 DEF WalkFrom
  <2>6. Len(Entries[ch]) \in Nat
    BY KernelAssumption
  <2> HIDE DEF first
  <2>7. QED
    BY <2>4, <2>5, <2>6 DEF Walking, PC, Within
<1>3. QED
  BY <1>1, <1>2

LEMMA WalkOnTypes ==
    ASSUME PcTypeOK, NEW c \in Controller, pc[c] # Idle,
           pc' = [pc EXCEPT ![c] = WalkOn(c)]
    PROVE  PcTypeOK'
<1>1. /\ pc[c].chain \in Chain /\ pc[c].next \in Nat \ {0} /\ pc[c].upto \in Nat
      /\ pc[c].upto <= Len(Entries[pc[c].chain])
  BY DEF PcTypeOK, PC, WalkBound, Within
<1>2. WalkOn(c) \in PC /\ Within(WalkOn(c))
  <2>1. pc[c].next + 1 \in Nat \ {0}
    BY <1>1
  <2>2. QED
    BY <1>1, <2>1, WalkFromTypes DEF WalkOn
<1>3. QED
  BY <1>2 DEF PcTypeOK, WalkBound

LEMMA StopTypes ==
    ASSUME PcTypeOK, NEW c \in Controller, Stop(c)
    PROVE  PcTypeOK'
  BY DEF PcTypeOK, WalkBound, Within, Stop, PC

LEMMA AdvanceTypes ==
    ASSUME PcTypeOK, NEW c \in Controller, pc[c] # Idle,
           NEW stage \in {"intent", "running"}, Advance(c, stage)
    PROVE  PcTypeOK'
<1>1. pc[c] \in [at : {"walk", "intent", "running"}, chain : Chain, next : Nat \ {0}, upto : Nat]
  BY DEF PcTypeOK, PC
<1>2. /\ pc'[c] \in PC
      /\ pc'[c].next = pc[c].next /\ pc'[c].upto = pc[c].upto /\ pc'[c].chain = pc[c].chain
  BY <1>1 DEF PcTypeOK, PC, Advance
<1>3. \A d \in Controller : d # c => pc'[d] = pc[d]
  BY DEF PcTypeOK, Advance
<1>4. pc' \in [Controller -> PC]
  BY <1>2, <1>3 DEF PcTypeOK, Advance
<1>5. QED
  BY <1>1, <1>2, <1>3, <1>4 DEF PcTypeOK, WalkBound, Within

-----------------------------------------------------------------------------
(* What the controllers remember, part by part. *)
HeldTypeOK ==
    /\ unsettled \in [Controller -> SUBSET Key]
    /\ recording \in [Controller -> SUBSET (Key \X Evidence)]

TransitionTypeOK ==
    /\ bound \in [Controller -> [Chain -> Input \cup {NoInput}]]
    /\ state \in [Controller -> [Action -> EntryState]]
    /\ begun \in [Controller -> [Action -> 0..MaxAttempt]]

WorldTypeOK ==
    /\ handed \subseteq Key
    /\ truth \in [Key -> Evidence \cup {Unknown}]

MemoryOK ==
    /\ up \subseteq Controller
    /\ TailTypeOK /\ HeldTypeOK /\ FoldTypeOK
    /\ TransitionTypeOK /\ PcTypeOK /\ WorldTypeOK

LEMMA InvParts == KernelInv <=> JournalInv /\ MemoryOK
  BY DEF KernelInv, TypeOK, JournalInv, MemoryOK, TailTypeOK, HeldTypeOK, FoldTypeOK,
         TransitionTypeOK, PcTypeOK, WorldTypeOK

LEMMA LogTypes ==
    ASSUME KernelInv
    PROVE  /\ log \in Seq(EffectEvent(Key)) /\ durable \in Nat /\ durable <= Len(log)
           /\ JournalTypeOK /\ JournalBounds /\ MemoryOK
  BY InvParts DEF JournalInv, JournalTypeOK, JournalBounds

(* An action is of the chain whose entries it is among. *)
LEMMA ChainOfEntry ==
    ASSUME NEW ch \in Chain, NEW i \in 1..Len(Entries[ch])
    PROVE  ChainOf(Entries[ch][i]) = ch
<1> DEFINE a == Entries[ch][i]
<1>1. a \in ActionsOf(ch)
  BY DEF ActionsOf
<1>2. ASSUME NEW other \in Chain, a \in ActionsOf(other) PROVE other = ch
  <2>1. PICK j \in 1..Len(Entries[other]) : Entries[other][j] = a
    BY <1>2 DEF ActionsOf
  <2>2. QED
    BY <2>1, OneEntryPerAction
<1>3. QED
  BY <1>1, <1>2 DEF ChainOf

(* The key an attempt is minted under is one of an attempt. *)
LEMMA MintIsKey ==
    ASSUME KernelInv, NEW c \in Controller, Startable(c), Mint(c, Here(c)) <= MaxAttempt
    PROVE  /\ KeyOf(c, Here(c), Mint(c, Here(c))) \in Key
           /\ Mint(c, Here(c)) \in 0..MaxAttempt
           /\ pc[c] # Idle
<1>1. pc[c].at = "walk" /\ pc[c] # Idle
  BY DEF Startable, Reached, Idle
<1>2. pc[c].chain \in Chain /\ pc[c].next \in 1..Len(Entries[pc[c].chain])
  BY <1>1, LogTypes, KernelAssumption DEF MemoryOK, PcTypeOK, PC, WalkBound, Within
<1>3. ChainOf(Here(c)) = pc[c].chain
  BY <1>2, ChainOfEntry DEF Here
<1>4. Here(c) \in Action /\ bound[c][pc[c].chain] \in Input
  BY KernelAssumption DEF Startable, Wanted
<1>5. begun[c][Here(c)] \in Nat /\ attempted[c][Here(c)] \in Nat /\ MaxAttempt \in Nat
  BY <1>4, LogTypes, KernelAssumption DEF MemoryOK, TransitionTypeOK, FoldTypeOK
<1>6. Mint(c, Here(c)) \in 1..MaxAttempt
  BY <1>5 DEF Mint
<1>7. KeyOf(c, Here(c), Mint(c, Here(c))) \in Key
  BY <1>3, <1>4, <1>6, KeyFields DEF KeyOf
<1>8. QED
  BY <1>1, <1>6, <1>7, KernelAssumption

LEMMA StateBecomesTypes ==
    ASSUME TransitionTypeOK, NEW c \in Controller, NEW a, NEW s \in EntryState,
           StateBecomes(c, a, s)
    PROVE  TransitionTypeOK'
  BY DEF TransitionTypeOK, StateBecomes

LEMMA LearnTypes ==
    ASSUME WorldTypeOK, NEW k, NEW e \in Evidence, Learn(k, e), UNCHANGED handed
    PROVE  WorldTypeOK'
  BY DEF WorldTypeOK, Learn

LEMMA Unchanged ==
    /\ JournalStep \/ ~UNCHANGED <<log, durable>>
    /\ UNCHANGED tail /\ TailTypeOK => TailTypeOK'
    /\ UNCHANGED held /\ HeldTypeOK => HeldTypeOK'
    /\ UNCHANGED fold /\ FoldTypeOK => FoldTypeOK'
    /\ UNCHANGED transition /\ TransitionTypeOK => TransitionTypeOK'
    /\ UNCHANGED pc /\ PcTypeOK => PcTypeOK'
    /\ UNCHANGED world /\ WorldTypeOK => WorldTypeOK'
  BY DEF JournalStep, journalVars, TailTypeOK, HeldTypeOK, FoldTypeOK, TransitionTypeOK,
         PcTypeOK, WalkBound, WorldTypeOK, held, fold, transition, world

-----------------------------------------------------------------------------
(* Each step: what it does to the journal and what it leaves in memory.    *)
StepOK == JournalStep /\ MemoryOK'

LEMMA TransitionSteps ==
    ASSUME KernelInv, NEW c \in Controller, NEW ch \in Chain,
           \/ \E i \in Delivers[ch] : Observe(c, ch, i)
           \/ Release(c, ch)
           \/ Plan(c, ch)
    PROVE  StepOK
<1>1. MemoryOK
  BY LogTypes
<1>2. ASSUME NEW i \in Delivers[ch], Observe(c, ch, i) PROVE StepOK
  <2>1. i \in Input
    BY KernelAssumption
  <2>2. bound' \in [Controller -> [Chain -> Input \cup {NoInput}]]
    BY <1>1, <1>2, <2>1 DEF Observe, MemoryOK, TransitionTypeOK
  <2>3. state' \in [Controller -> [Action -> EntryState]]
    BY <1>1, <1>2 DEF Observe, MemoryOK, TransitionTypeOK, EntryState
  <2>4. begun' \in [Controller -> [Action -> 0..MaxAttempt]]
    BY <1>1, <1>2, KernelAssumption DEF Observe, MemoryOK, TransitionTypeOK
  <2>5. UNCHANGED <<log, durable, up, tail, held, fold, pc, world>>
    BY <1>2 DEF Observe, memory
  <2>6. QED
    BY <1>1, <2>2, <2>3, <2>4, <2>5, Unchanged DEF StepOK, MemoryOK, TransitionTypeOK
<1>3. ASSUME Release(c, ch) PROVE StepOK
  <2>2. bound' \in [Controller -> [Chain -> Input \cup {NoInput}]]
    BY <1>1, <1>3 DEF Release, MemoryOK, TransitionTypeOK
  <2>3. state' \in [Controller -> [Action -> EntryState]]
    BY <1>1, <1>3 DEF Release, MemoryOK, TransitionTypeOK, EntryState
  <2>4. begun' \in [Controller -> [Action -> 0..MaxAttempt]]
    BY <1>1, <1>3, KernelAssumption DEF Release, MemoryOK, TransitionTypeOK
  <2>5. UNCHANGED <<log, durable, up, tail, held, fold, pc, world>>
    BY <1>3 DEF Release, memory
  <2>6. QED
    BY <1>1, <2>2, <2>3, <2>4, <2>5, Unchanged DEF StepOK, MemoryOK, TransitionTypeOK
<1>4. ASSUME Plan(c, ch) PROVE StepOK
  <2>1. PICK n \in PlanEnds(c, ch) : pc' = [pc EXCEPT ![c] = WalkFrom(c, ch, 1, n)]
    BY <1>4 DEF Plan
  <2>2. n \in Nat /\ n <= Len(Entries[ch])
    BY KernelAssumption DEF PlanEnds
  <2>3. WalkFrom(c, ch, 1, n) \in PC /\ Within(WalkFrom(c, ch, 1, n))
    BY <2>2, WalkFromTypes
  <2>4. PcTypeOK'
    BY <1>1, <2>1, <2>3 DEF MemoryOK, PcTypeOK, WalkBound
  <2>5. UNCHANGED <<log, durable, up, tail, held, fold, transition, world>>
    BY <1>4 DEF Plan, memory
  <2>6. QED
    BY <1>1, <2>4, <2>5, Unchanged DEF StepOK, MemoryOK
<1>5. QED
  BY <1>2, <1>3, <1>4

LEMMA WalkingIsNotIdle ==
    ASSUME NEW c, pc[c].at \in {"walk", "intent", "running"}
    PROVE  pc[c] # Idle
  BY DEF Idle

LEMMA WalkSteps ==
    ASSUME KernelInv, NEW c \in Controller, WalkStep(c)
    PROVE  StepOK
<1>1. MemoryOK /\ log \in Seq(EffectEvent(Key))
  BY LogTypes
<1>2. ASSUME SkipEntry(c) PROVE StepOK
  <2>1. PcTypeOK'
    <3>1. pc[c] # Idle /\ pc' = [pc EXCEPT ![c] = WalkOn(c)]
      BY <1>2, WalkingIsNotIdle DEF SkipEntry, Reached
    <3>2. QED
      BY <1>1, <3>1, WalkOnTypes DEF MemoryOK
  <2>2. TransitionTypeOK'
    BY <1>1, <1>2, StateBecomesTypes DEF SkipEntry, MemoryOK, EntryState
  <2>3. UNCHANGED <<log, durable, up, tail, held, fold, world>>
    BY <1>2 DEF SkipEntry, memory
  <2>4. QED
    BY <1>1, <2>1, <2>2, <2>3, Unchanged DEF StepOK, MemoryOK
<1>3. ASSUME RetryRecording(c) PROVE StepOK
  <2> DEFINE a == Here(c)
             e == HeldEvidence(state[c][a])
  <2>1. PICK ok \in BOOLEAN :
            /\ EnsureOutcome(c, KeyOf(c, a, begun[c][a]), e, ok)
            /\ IF ~ok
               THEN Stop(c) /\ UNCHANGED transition
               ELSE /\ IF e = "Applied"
                       THEN StateBecomes(c, a, "Succeeded")
                       ELSE \E s \in AfterDefiniteFailure(begun[c][a]) :
                                StateBecomes(c, a, s)
                    /\ pc' = [pc EXCEPT ![c] = WalkOn(c)]
    BY <1>3 DEF RetryRecording
  <2>2. e \in Evidence
    BY DEF HeldEvidence, Evidence
  <2>3. JournalStep /\ TailTypeOK' /\ FoldTypeOK'
    BY <2>1, <2>2, EnsureOutcomeTypes
  <2>4. "Succeeded" \in EntryState /\ AfterDefiniteFailure(begun[c][a]) \subseteq EntryState
    BY DEF AfterDefiniteFailure, EntryState
  <2>5. pc[c] # Idle
    BY <1>3, WalkingIsNotIdle DEF RetryRecording, Reached
  <2>6. TransitionTypeOK' /\ PcTypeOK'
    <3>1. CASE ~ok
      BY <1>1, <2>1, <3>1, StopTypes, Unchanged DEF MemoryOK
    <3>2. CASE ok
      BY <1>1, <2>1, <2>4, <2>5, <3>2, StateBecomesTypes, WalkOnTypes DEF MemoryOK
    <3>3. QED
      BY <3>1, <3>2
  <2>7. UNCHANGED <<up, held, world>>
    BY <1>3 DEF RetryRecording
  <2>8. QED
    BY <1>1, <2>3, <2>6, <2>7, Unchanged DEF StepOK, MemoryOK
<1>4. ASSUME Expire(c) PROVE StepOK
  <2>1. TransitionTypeOK' /\ PcTypeOK'
    BY <1>1, <1>4, StateBecomesTypes, StopTypes DEF Expire, MemoryOK, EntryState
  <2>2. UNCHANGED <<log, durable, up, tail, held, fold, world>>
    BY <1>4 DEF Expire, memory
  <2>3. QED
    BY <1>1, <2>1, <2>2, Unchanged DEF StepOK, MemoryOK
<1>5. ASSUME BeginAttempt(c) PROVE StepOK
  <2> DEFINE k == KeyOf(c, Here(c), Mint(c, Here(c)))
  <2>1. k \in Key /\ Mint(c, Here(c)) \in 0..MaxAttempt /\ pc[c] # Idle
    BY <1>5, MintIsKey DEF BeginAttempt
  <2>2. IntentAdmitted(k) \in EffectEvent(Key) /\ Commit(IntentAdmitted(k), TRUE)
    BY <1>5, <2>1, IntentIsEvent DEF BeginAttempt, Fenced
  <2>3. JournalStep /\ log' \in Seq(EffectEvent(Key))
    <3>1. JournalStep
      BY <2>2, CommitMoves
    <3>2. log' = Append(log, IntentAdmitted(k))
      BY <2>2 DEF Commit
    <3>3. QED
      BY <1>1, <2>2, <3>1, <3>2
  <2>4. TailTypeOK' /\ PcTypeOK'
    BY <1>1, <1>5, <2>1, <2>3, AdvanceTypes DEF BeginAttempt, MemoryOK, TailTypeOK
  <2>5. FoldTypeOK'
    BY <1>1, <1>5, <2>1, NoteTypes DEF BeginAttempt, MemoryOK
  <2>6. UNCHANGED <<up, held, transition, world>>
    BY <1>5 DEF BeginAttempt
  <2>7. QED
    BY <1>1, <2>3, <2>4, <2>5, <2>6, Unchanged DEF StepOK, MemoryOK
<1>6. ASSUME IntentUnaccepted(c) PROVE StepOK
  <2> DEFINE k == KeyOf(c, Here(c), Mint(c, Here(c)))
  <2>1. k \in Key /\ Mint(c, Here(c)) \in 0..MaxAttempt
    BY <1>6, MintIsKey DEF IntentUnaccepted
  <2>2. PICK strong \in BOOLEAN : Commit(IntentAdmitted(k), strong)
    BY <1>6 DEF IntentUnaccepted, Fenced
  <2>3. JournalStep
    BY <2>1, <2>2, IntentIsEvent, CommitMoves
  <2>4. FoldTypeOK'
    <3>1. /\ \/ attempted' = [attempted EXCEPT ![c][Here(c)] = Larger(@, Mint(c, Here(c)))]
             \/ UNCHANGED attempted
          /\ UNCHANGED <<latest, landedEvent>>
      BY <1>6 DEF IntentUnaccepted
    <3>2. CASE UNCHANGED attempted
      BY <1>1, <3>1, <3>2, Unchanged DEF MemoryOK, fold
    <3>3. QED
      BY <1>1, <2>1, <3>1, <3>2, NoteTypes DEF MemoryOK
  <2>5. PcTypeOK'
    BY <1>1, <1>6, StopTypes DEF IntentUnaccepted, MemoryOK
  <2>6. UNCHANGED <<up, tail, held, transition, world>>
    BY <1>6 DEF IntentUnaccepted
  <2>7. QED
    BY <1>1, <2>3, <2>4, <2>5, <2>6, Unchanged DEF StepOK, MemoryOK
<1>7. ASSUME Dispatch(c) PROVE StepOK
  <2> DEFINE k == Preparing(c)
  <2>1. Commit(DispatchPrepared(k), TRUE)
    BY <1>7 DEF Dispatch, Fenced
  <2>2. k \in Key /\ DispatchPrepared(k) \in EffectEvent(Key)
    BY <1>1, <2>1, LaterRungIsEvent DEF Commit, Evidence
  <2>3. JournalStep /\ log' \in Seq(EffectEvent(Key))
    <3>1. JournalStep
      BY <2>1, <2>2, CommitMoves
    <3>2. log' = Append(log, DispatchPrepared(k))
      BY <2>1 DEF Commit
    <3>3. QED
      BY <1>1, <2>2, <3>1, <3>2
  <2>4. k.attempt \in 0..MaxAttempt
    BY <2>2, KeyFields, KernelAssumption
  <2>5. TailTypeOK' /\ PcTypeOK'
    BY <1>1, <1>7, <2>3, WalkingIsNotIdle, AdvanceTypes DEF Dispatch, MemoryOK, TailTypeOK
  <2>6. TransitionTypeOK'
    BY <1>1, <1>7, <2>4 DEF Dispatch, MemoryOK, TransitionTypeOK, EntryState
  <2>7. WorldTypeOK'
    BY <1>1, <1>7, <2>2 DEF Dispatch, MemoryOK, WorldTypeOK
  <2>8. UNCHANGED <<up, held, fold>>
    BY <1>7 DEF Dispatch
  <2>9. QED
    BY <1>1, <2>3, <2>5, <2>6, <2>7, <2>8, Unchanged DEF StepOK, MemoryOK
<1>8. ASSUME DispatchUnaccepted(c) PROVE StepOK
  <2>1. PICK strong \in BOOLEAN : Commit(DispatchPrepared(Preparing(c)), strong)
    BY <1>8 DEF DispatchUnaccepted, Fenced
  <2>2. DispatchPrepared(Preparing(c)) \in EffectEvent(Key)
    BY <1>1, <2>1, LaterRungIsEvent DEF Commit, Evidence
  <2>3. JournalStep /\ PcTypeOK'
    BY <1>1, <1>8, <2>1, <2>2, CommitMoves, StopTypes DEF DispatchUnaccepted, MemoryOK
  <2>4. UNCHANGED <<up, tail, held, fold, transition, world>>
    BY <1>8 DEF DispatchUnaccepted, memory
  <2>5. QED
    BY <1>1, <2>3, <2>4, Unchanged DEF StepOK, MemoryOK
<1>9. ASSUME DropTick(c) PROVE StepOK
  <2>1. PcTypeOK' /\ UNCHANGED <<log, durable, up, tail, held, fold, transition, world>>
    BY <1>1, <1>9, StopTypes DEF DropTick, MemoryOK, memory
  <2>2. QED
    BY <1>1, <2>1, Unchanged DEF StepOK, MemoryOK
<1>10. ASSUME ReturnOk(c) PROVE StepOK
  <2>1. PICK ok \in BOOLEAN :
            /\ EnsureOutcome(c, InFlight(c), "Applied", ok)
            /\ IF ok
               THEN /\ StateBecomes(c, Here(c), "Succeeded")
                    /\ pc' = [pc EXCEPT ![c] = WalkOn(c)]
               ELSE StateBecomes(c, Here(c), "AppliedUnrecorded") /\ Stop(c)
    BY <1>10 DEF ReturnOk
  <2>2. JournalStep /\ TailTypeOK' /\ FoldTypeOK'
    BY <2>1, EnsureOutcomeTypes DEF Evidence
  <2>3. pc[c] # Idle
    BY <1>10, WalkingIsNotIdle DEF ReturnOk, Running
  <2>4. TransitionTypeOK' /\ PcTypeOK'
    BY <1>1, <2>1, <2>3, StateBecomesTypes, WalkOnTypes, StopTypes DEF MemoryOK, EntryState
  <2>5. WorldTypeOK' /\ UNCHANGED <<up, held>>
    BY <1>1, <1>10, LearnTypes DEF ReturnOk, MemoryOK, Evidence
  <2>6. QED
    BY <1>1, <2>2, <2>4, <2>5, Unchanged DEF StepOK, MemoryOK
<1>11. ASSUME ReturnNotApplied(c) PROVE StepOK
  <2>1. PICK ok \in BOOLEAN :
            /\ EnsureOutcome(c, InFlight(c), "NotApplied", ok)
            /\ IF ok
               THEN \E s \in AfterDefiniteFailure(begun[c][Here(c)]) \cup {"GivenUp"} :
                        StateBecomes(c, Here(c), s)
               ELSE StateBecomes(c, Here(c), "NotAppliedUnrecorded")
    BY <1>11 DEF ReturnNotApplied
  <2>2. JournalStep /\ TailTypeOK' /\ FoldTypeOK'
    BY <2>1, EnsureOutcomeTypes DEF Evidence
  <2>3. /\ AfterDefiniteFailure(begun[c][Here(c)]) \cup {"GivenUp"} \subseteq EntryState
        /\ "NotAppliedUnrecorded" \in EntryState
    BY DEF AfterDefiniteFailure, EntryState
  <2>4. TransitionTypeOK' /\ PcTypeOK'
    BY <1>1, <1>11, <2>1, <2>3, StateBecomesTypes, StopTypes DEF ReturnNotApplied, MemoryOK
  <2>5. WorldTypeOK' /\ UNCHANGED <<up, held>>
    BY <1>1, <1>11, LearnTypes DEF ReturnNotApplied, MemoryOK, Evidence
  <2>6. QED
    BY <1>1, <2>2, <2>4, <2>5, Unchanged DEF StepOK, MemoryOK
<1>12. ASSUME ReturnUnsettled(c) PROVE StepOK
  <2>1. TransitionTypeOK' /\ PcTypeOK'
    BY <1>1, <1>12, StateBecomesTypes, StopTypes DEF ReturnUnsettled, MemoryOK, EntryState
  <2>2. UNCHANGED <<log, durable, up, tail, held, fold, world>>
    BY <1>12 DEF ReturnUnsettled, memory
  <2>3. QED
    BY <1>1, <2>1, <2>2, Unchanged DEF StepOK, MemoryOK
<1>13. QED
  BY <1>2, <1>3, <1>4, <1>5, <1>6, <1>7, <1>8, <1>9, <1>10, <1>11, <1>12 DEF WalkStep

LEMMA ResolveSteps ==
    ASSUME KernelInv, NEW c \in Controller, Resolve(c)
    PROVE  StepOK
<1>1. MemoryOK /\ log \in Seq(EffectEvent(Key))
  BY LogTypes
<1>2. PICK k \in Key, e \in Evidence :
          \/ ResolveRecovered(c, k, e) \/ ResolveRecording(c, k, e)
          \/ ResolveHeld(c, k, e) \/ ResolveRepeated(c, k, e)
  BY DEF Resolve
<1>3. Offered(c, k, e)
  BY <1>2 DEF ResolveRecovered, ResolveRecording, ResolveHeld, ResolveRepeated, Classified
<1>4. WorldTypeOK' /\ PcTypeOK' /\ UNCHANGED up
  BY <1>1, <1>3, LearnTypes, Unchanged DEF Offered, MemoryOK
<1>5. CASE ResolveRecovered(c, k, e)
  <2>1. PICK ok \in BOOLEAN :
            /\ EnsureOutcome(c, k, e, ok)
            /\ unsettled' = IF ok THEN [unsettled EXCEPT ![c] = @ \ {k}] ELSE unsettled
    BY <1>5 DEF ResolveRecovered
  <2>2. JournalStep /\ TailTypeOK' /\ FoldTypeOK'
    BY <2>1, EnsureOutcomeTypes
  <2>3. HeldTypeOK'
    BY <1>1, <1>5, <2>1 DEF ResolveRecovered, MemoryOK, HeldTypeOK
  <2>4. TransitionTypeOK'
    BY <1>1, <1>5, Unchanged DEF ResolveRecovered, MemoryOK
  <2>5. QED
    BY <1>1, <1>4, <2>2, <2>3, <2>4 DEF StepOK, MemoryOK
<1>6. CASE ResolveRecording(c, k, e)
  <2>1. HasOutcome(log, k)
    BY <1>1, <1>6, SaysIsOutcome DEF ResolveRecording
  <2>2. OutcomeAt(log, k) \in 1..Len(log)
    BY <1>1, <2>1, OutcomeIsAt
  <2>3. durable' \in durable..Len(log)
    BY <1>6, <2>2, LogTypes DEF ResolveRecording, Larger
  <2>4. JournalStep
    BY <1>6, <2>3, LogTypes, ReceiptMoves DEF ResolveRecording
  <2>5. FoldTypeOK'
    BY <1>1, <1>6, FoldOutcomeTypes DEF ResolveRecording, MemoryOK
  <2>6. HeldTypeOK'
    BY <1>1, <1>6 DEF ResolveRecording, MemoryOK, HeldTypeOK
  <2>7. TailTypeOK' /\ TransitionTypeOK'
    BY <1>1, <1>6, Unchanged DEF ResolveRecording, MemoryOK
  <2>8. QED
    BY <1>1, <1>4, <2>4, <2>5, <2>6, <2>7 DEF StepOK, MemoryOK
<1>7. CASE ResolveHeld(c, k, e)
  <2>1. PICK ok \in BOOLEAN :
            /\ EnsureOutcome(c, k, e, ok)
            /\ IF ok
               THEN StateBecomes(c, k.action, IF e = "Applied" THEN "Succeeded" ELSE "NotStarted")
               ELSE UNCHANGED transition
    BY <1>7 DEF ResolveHeld
  <2>2. JournalStep /\ TailTypeOK' /\ FoldTypeOK'
    BY <2>1, EnsureOutcomeTypes
  <2>3. TransitionTypeOK'
    <3>1. CASE ok
      BY <1>1, <2>1, <3>1, StateBecomesTypes DEF MemoryOK, EntryState
    <3>2. CASE ~ok
      BY <1>1, <2>1, <3>2, Unchanged DEF MemoryOK
    <3>3. QED
      BY <3>1, <3>2
  <2>4. HeldTypeOK'
    BY <1>1, <1>7, Unchanged DEF ResolveHeld, MemoryOK
  <2>5. QED
    BY <1>1, <1>4, <2>2, <2>3, <2>4 DEF StepOK, MemoryOK
<1>8. CASE ResolveRepeated(c, k, e)
  <2>1. PICK ok \in BOOLEAN : EnsureOutcome(c, k, e, ok)
    BY <1>8 DEF ResolveRepeated
  <2>2. JournalStep /\ TailTypeOK' /\ FoldTypeOK'
    BY <2>1, EnsureOutcomeTypes
  <2>3. HeldTypeOK' /\ TransitionTypeOK'
    BY <1>1, <1>8, Unchanged DEF ResolveRepeated, MemoryOK
  <2>4. QED
    BY <1>1, <1>4, <2>2, <2>3 DEF StepOK, MemoryOK
<1>9. QED
  BY <1>2, <1>5, <1>6, <1>7, <1>8

-----------------------------------------------------------------------------
LEMMA CrashStep ==
    ASSUME KernelInv, NEW c \in Controller, Crash(c)
    PROVE  StepOK
<1>1. MemoryOK
  BY LogTypes
<1>2. TailTypeOK' /\ HeldTypeOK'
  BY <1>1 DEF Crash, Blank, MemoryOK, TailTypeOK, HeldTypeOK
<1>3. FoldTypeOK'
  BY <1>1, KernelAssumption DEF Crash, Blank, MemoryOK, FoldTypeOK
<1>4. TransitionTypeOK'
  BY <1>1, KernelAssumption DEF Crash, Blank, MemoryOK, TransitionTypeOK, EntryState
<1>5. PcTypeOK' /\ up' \subseteq Controller
  BY <1>1, StopTypes DEF Crash, Blank, Stop, MemoryOK
<1>6. UNCHANGED <<log, durable, world>>
  BY DEF Crash
<1>7. QED
  BY <1>1, <1>2, <1>3, <1>4, <1>5, <1>6, Unchanged DEF StepOK, MemoryOK

LEMMA LoseStep ==
    ASSUME KernelInv, LoseSuffix
    PROVE  StepOK
<1>1. MemoryOK /\ durable \in Nat
  BY LogTypes
<1>2. PICK n \in durable..Len(log) : Lose(n)
  BY DEF LoseSuffix
<1>3. n \in 0..Len(log)
  BY <1>1
<1>4. JournalStep
  BY <1>2, <1>3 DEF JournalStep, JournalNext
<1>5. UNCHANGED <<up, tail, held, fold, transition, pc, world>>
  BY DEF LoseSuffix, memory
<1>6. QED
  BY <1>1, <1>4, <1>5, Unchanged DEF StepOK, MemoryOK

(* A non-empty set of attempts has one numbered highest. *)
LEMMA LatestAttemptIn ==
    ASSUME NEW ks, ks \subseteq Key, ks # {}
    PROVE  LatestAttempt(ks) \in ks
<1> DEFINE numbers == {k.attempt : k \in ks}
<1>1. numbers \subseteq 0..MaxAttempt /\ numbers # {} /\ MaxAttempt \in Nat
  BY KeyFields, KernelAssumption
<1>2. PICK n \in numbers : \A m \in numbers : m <= n
  <2> HIDE DEF numbers
  <2>1. QED
    BY <1>1, Greatest
<1>3. PICK k \in ks : k.attempt = n
  OBVIOUS
<1>4. \A j \in ks : j.attempt <= k.attempt
  BY <1>2, <1>3
<1>5. QED
  BY <1>4 DEF LatestAttempt

(* Receipts move the durable end forward, within what is committed. *)
LEMMA ReceiptsForRange ==
    ASSUME KernelInv, NEW ks, ks \subseteq Recorded
    PROVE  ReceiptsFor(ks) \in durable..Len(log)
<1> DEFINE ends == {durable} \cup {OutcomeAt(log, k) : k \in ks}
<1>1. durable \in Nat /\ durable <= Len(log) /\ log \in Seq(EffectEvent(Key)) /\ Len(log) \in Nat
  BY LogTypes
<1>2. \A k \in ks : OutcomeAt(log, k) \in 0..Len(log)
  BY <1>1, OutcomeIsAt DEF Recorded
<1>3. ends \subseteq 0..Len(log) /\ ends # {} /\ durable \in ends
  BY <1>1, <1>2
<1>4. ReceiptsFor(ks) = CHOOSE n \in ends : \A m \in ends : m <= n
  BY DEF ReceiptsFor
<1>5. \E n \in ends : \A m \in ends : m <= n
  <2> HIDE DEF ends
  <2>1. QED
    BY <1>1, <1>3, Greatest
<1> HIDE DEF ends
<1>6. ReceiptsFor(ks) \in ends /\ \A m \in ends : m <= ReceiptsFor(ks)
  BY <1>4, <1>5
<1>7. ReceiptsFor(ks) \in 0..Len(log) /\ durable <= ReceiptsFor(ks)
  BY <1>3, <1>6
<1>8. QED
  BY <1>1, <1>7

LEMMA AssembleStep ==
    ASSUME KernelInv, NEW c \in Controller, NEW refused \in SUBSET Recorded,
           Assemble(c, refused)
    PROVE  StepOK
<1>1. MemoryOK /\ log \in Seq(EffectEvent(Key))
  BY LogTypes
<1>2. Recorded \subseteq Key /\ Recovered \subseteq Key
  BY DEF Recorded, Recovered
<1>3. JournalStep
  <2>1. durable' \in durable..Len(log) /\ UNCHANGED log
    BY ReceiptsForRange DEF Assemble
  <2>2. QED
    BY <2>1, LogTypes, ReceiptMoves
<1>4. up' \subseteq Controller /\ TailTypeOK'
  BY <1>1 DEF Assemble, MemoryOK, TailTypeOK
<1>5. HeldTypeOK'
  BY <1>1, <1>2 DEF Assemble, MemoryOK, HeldTypeOK
<1>6. FoldTypeOK'
  <2>1. latest' \in [Controller -> [Action -> Key \cup {NoKey}]]
    <3> DEFINE ks(a) == AppliedOf(Recorded \ refused, a)
               new == [a \in Action |-> IF ks(a) = {} THEN NoKey ELSE LatestAttempt(ks(a))]
    <3>1. \A a \in Action : ks(a) \subseteq Key
      BY <1>2 DEF AppliedOf
    <3>2. \A a \in Action : ks(a) # {} => LatestAttempt(ks(a)) \in Key
      <4> HIDE DEF ks
      <4>1. QED
        BY <3>1, LatestAttemptIn
    <3>3. new \in [Action -> Key \cup {NoKey}]
      BY <3>2
    <3>4. latest' = [latest EXCEPT ![c] = new]
      BY DEF Assemble
    <3> HIDE DEF new
    <3>5. QED
      BY <1>1, <3>3, <3>4 DEF MemoryOK, FoldTypeOK
  <2>2. landedEvent' \in [Controller -> SUBSET (Action \X Input)]
    <3> DEFINE new == {<<k.action, k.input>> : k \in
                            {j \in Recorded \ refused : Says(log, j, "Applied")}}
    <3>1. new \subseteq Action \X Input
      BY <1>2, KeyFields
    <3>2. landedEvent' = [landedEvent EXCEPT ![c] = new]
      BY DEF Assemble
    <3> HIDE DEF new
    <3>3. QED
      BY <1>1, <3>1, <3>2 DEF MemoryOK, FoldTypeOK
  <2>3. attempted' \in [Controller -> [Action -> 0..MaxAttempt]]
    <3> DEFINE mine(a) == {k \in Recovered : k.action = a}
               new == [a \in Action |-> IF mine(a) = {} THEN 0 ELSE LatestAttempt(mine(a)).attempt]
    <3>1. \A a \in Action : mine(a) \subseteq Key
      BY <1>2
    <3>2. \A a \in Action : mine(a) # {} => LatestAttempt(mine(a)).attempt \in 0..MaxAttempt
      <4> HIDE DEF mine
      <4>1. \A a \in Action : mine(a) # {} => LatestAttempt(mine(a)) \in Key
        BY <3>1, LatestAttemptIn
      <4>2. QED
        BY <4>1, KeyFields, KernelAssumption
    <3>3. new \in [Action -> 0..MaxAttempt]
      <4> HIDE DEF mine
      <4>1. QED
        BY <3>2, KernelAssumption
    <3>4. attempted' = [attempted EXCEPT ![c] = new]
      BY DEF Assemble
    <3> HIDE DEF new
    <3>5. QED
      BY <1>1, <3>3, <3>4 DEF MemoryOK, FoldTypeOK
  <2>4. QED
    BY <2>1, <2>2, <2>3 DEF FoldTypeOK
<1>7. UNCHANGED <<transition, pc, world>>
  BY DEF Assemble
<1>8. QED
  BY <1>1, <1>3, <1>4, <1>5, <1>6, <1>7, Unchanged DEF StepOK, MemoryOK

-----------------------------------------------------------------------------
LEMMA EveryStepOK ==
    ASSUME KernelInv, [Next]_vars
    PROVE  StepOK
<1>1. CASE UNCHANGED vars
  BY <1>1, LogTypes, Unchanged DEF vars, memory, StepOK, MemoryOK
<1>2. CASE LoseSuffix
  BY <1>2, LoseStep
<1>3. ASSUME NEW c \in Controller,
             \/ \E ch \in Chain : \/ \E i \in Delivers[ch] : Observe(c, ch, i)
                                  \/ Release(c, ch)
                                  \/ Plan(c, ch)
             \/ WalkStep(c)
             \/ Resolve(c)
             \/ Crash(c)
             \/ \E refused \in SUBSET Recorded : Assemble(c, refused)
      PROVE  StepOK
  BY <1>3, TransitionSteps, WalkSteps, ResolveSteps, CrashStep, AssembleStep
<1>4. QED
  BY <1>1, <1>2, <1>3 DEF Next

LEMMA InitIsTyped == Init => KernelInv
<1> SUFFICES ASSUME Init PROVE JournalInv /\ MemoryOK
  BY InvParts
<1>1. JournalInv
  BY JournalAssumption DEF Init, JournalInit, JournalInv, JournalTypeOK, JournalBounds
<1>2. TailTypeOK /\ HeldTypeOK /\ up \subseteq Controller
  BY DEF Init, TailTypeOK, HeldTypeOK
<1>3. FoldTypeOK
  BY KernelAssumption DEF Init, FoldTypeOK
<1>4. TransitionTypeOK
  BY KernelAssumption DEF Init, TransitionTypeOK, EntryState
<1>5. PcTypeOK /\ WorldTypeOK
  BY DEF Init, PcTypeOK, PC, WalkBound, Within, WorldTypeOK
<1>6. QED
  BY <1>1, <1>2, <1>3, <1>4, <1>5 DEF MemoryOK

LEMMA StepKeepsKernel ==
    ASSUME KernelInv, [Next]_vars
    PROVE  JournalStep /\ KernelInv'
<1>1. JournalStep /\ MemoryOK'
  BY EveryStepOK DEF StepOK
<1>2. JournalInv'
  BY <1>1, InvParts, JournalStepKeepsInv DEF JournalStep
<1>3. QED
  BY <1>1, <1>2 DEF KernelInv, TypeOK, JournalInv, MemoryOK, TailTypeOK, HeldTypeOK,
      FoldTypeOK, TransitionTypeOK, PcTypeOK, WorldTypeOK

LEMMA KernelInvariant == Spec => []KernelInv
  BY InitIsTyped, StepKeepsKernel, PTL DEF Spec

(* Every variable of the kernel keeps its type: no attempt is numbered     *)
(* past its bound, no walk leaves its chain's entries, and nothing enters  *)
(* a controller's fold that is not an attempt.                             *)
THEOREM KernelTypeCorrect == Spec => []TypeOK
<1>1. KernelInv => TypeOK
  BY DEF KernelInv
<1>2. QED
  BY <1>1, KernelInvariant, PTL

(* Whatever the controllers, crashes and refusals do, the kernel uses its  *)
(* journal as the journal's contract allows: each step appends one event   *)
(* in its key's order, gets a receipt, loses what was never durable, or    *)
(* leaves the journal alone.                                               *)
THEOREM KernelUsesJournal == Spec => JournalSpec
<1>1. Init => JournalInit
  BY DEF Init
<1>2. KernelInv /\ [Next]_vars => [JournalNext]_journalVars
  BY EveryStepOK DEF StepOK, JournalStep
<1>3. QED
  BY <1>1, <1>2, KernelInvariant, PTL DEF Spec, JournalSpec

(* So the kernel's record is sound: every event in it stands on the rungs  *)
(* below it, no attempt is settled twice, and nothing durable is revised.  *)
THEOREM KernelRecordIsSound ==
    Spec => [](LadderOrder /\ OneOutcome) /\ DurableNeverRevised
  BY KernelUsesJournal, EveryEventInOrder, OneOutcomePerAttempt, DurablePrefixStable, PTL

-----------------------------------------------------------------------------
LEMMA LongerPrefixHandsOff ==
    ASSUME NEW l \in Seq(EffectEvent(Key)), NEW m \in 0..Len(l), NEW n \in 0..m, NEW k,
           IsHandedOff(SubSeq(l, 1, n), k)
    PROVE  IsHandedOff(SubSeq(l, 1, m), k)
<1> DEFINE early == SubSeq(l, 1, n)
           later == SubSeq(l, 1, m)
<1>1. /\ Len(early) = n /\ Len(later) = m
      /\ \A i \in 1..n : early[i] = l[i] /\ later[i] = l[i]
  BY SubSeqFacts
<1> HIDE DEF early, later
<1>2. PICK i \in 1..Len(early) : early[i].key = k /\ early[i].kind = "DispatchPrepared"
  BY DEF IsHandedOff, Walked, early
<1>3. i \in 1..Len(later) /\ later[i].key = k /\ later[i].kind = "DispatchPrepared"
  BY <1>1, <1>2
<1>4. "DispatchPrepared" \in Walked(later, k)
  BY <1>3 DEF Walked
<1>5. QED
  BY <1>4 DEF IsHandedOff, later

LEMMA HandedOffStays ==
    ASSUME JournalInv, JournalStep, NEW k, IsHandedOff(DurableLog, k)
    PROVE  IsHandedOff(DurableLog, k)'
<1>1. JournalInv' /\ durable <= durable' /\ DurableLog = SubSeq(log', 1, durable)
  BY JournalStepKeepsInv, JournalStepKeepsDurable DEF JournalStep
<1>2. /\ log' \in Seq(EffectEvent(Key))
      /\ durable' \in 0..Len(log') /\ durable \in 0..durable'
  BY <1>1 DEF JournalInv, JournalTypeOK, JournalBounds
<1>3. IsHandedOff(SubSeq(log', 1, durable'), k)
  BY <1>1, <1>2, LongerPrefixHandsOff
<1>4. QED
  BY <1>3 DEF DurableLog

LEMMA OnlyDispatchHands ==
    ASSUME [Next]_vars
    PROVE  UNCHANGED handed \/ \E c \in Controller : Dispatch(c)
<1>1. CASE UNCHANGED vars \/ LoseSuffix
  BY <1>1 DEF vars, world, LoseSuffix
<1>2. ASSUME NEW c \in Controller, NEW ch \in Chain,
             \/ \E i \in Delivers[ch] : Observe(c, ch, i)
             \/ Release(c, ch)
             \/ Plan(c, ch)
      PROVE  UNCHANGED handed
  BY <1>2 DEF Observe, Release, Plan, world
<1>3. ASSUME NEW c \in Controller, WalkStep(c)
      PROVE  UNCHANGED handed \/ Dispatch(c)
  <2>1. CASE SkipEntry(c) \/ RetryRecording(c) \/ Expire(c)
    BY <2>1 DEF SkipEntry, RetryRecording, Expire, world
  <2>2. CASE BeginAttempt(c) \/ IntentUnaccepted(c) \/ DispatchUnaccepted(c) \/ DropTick(c)
    BY <2>2 DEF BeginAttempt, IntentUnaccepted, DispatchUnaccepted, DropTick, world
  <2>3. CASE ReturnOk(c) \/ ReturnNotApplied(c) \/ ReturnUnsettled(c)
    BY <2>3 DEF ReturnOk, ReturnNotApplied, ReturnUnsettled, world
  <2>4. QED
    BY <1>3, <2>1, <2>2, <2>3 DEF WalkStep
<1>4. ASSUME NEW c \in Controller, Resolve(c)
      PROVE  UNCHANGED handed
  <2>1. PICK k \in Key, e \in Evidence : Offered(c, k, e)
    BY <1>4 DEF Resolve, ResolveRecovered, ResolveRecording, ResolveHeld, ResolveRepeated,
        Classified
  <2>2. QED
    BY <2>1 DEF Offered
<1>5. ASSUME NEW c \in Controller,
             Crash(c) \/ \E refused \in SUBSET Recorded : Assemble(c, refused)
      PROVE  UNCHANGED handed
  BY <1>5 DEF Crash, Assemble, world
<1>6. QED
  BY <1>1, <1>2, <1>3, <1>4, <1>5 DEF Next

LEMMA StepKeepsHanded ==
    ASSUME KernelInv, HandedIsDurable, [Next]_vars
    PROVE  HandedIsDurable'
<1> SUFFICES ASSUME NEW k \in handed' PROVE IsHandedOff(DurableLog, k)'
  BY DEF HandedIsDurable
<1>1. JournalInv /\ JournalStep
  BY EveryStepOK, InvParts DEF StepOK
<1>2. CASE k \in handed
  BY <1>1, <1>2, HandedOffStays DEF HandedIsDurable
<1>3. CASE k \notin handed
  <2>1. PICK c \in Controller : Dispatch(c) /\ k = Preparing(c)
    BY <1>3, OnlyDispatchHands DEF Dispatch
  <2> DEFINE e == DispatchPrepared(k)
  <2>2. log' = Append(log, e) /\ durable' = Len(log) + 1
    BY <2>1 DEF Dispatch, Fenced, Commit
  <2>3. e \in EffectEvent(Key) /\ e.key = k /\ e.kind = "DispatchPrepared"
    BY <2>1, LogTypes, LaterRungIsEvent DEF Dispatch, Fenced, Commit, DispatchPrepared, Evidence
  <2>4. /\ log' \in Seq(EffectEvent(Key)) /\ Len(log') = durable' /\ durable' \in 1..Len(log')
        /\ log'[durable'] = e
    BY <2>2, <2>3, LogTypes, AppendFacts
  <2>5. DurableLog' = log'
    BY <2>4 DEF DurableLog
  <2>6. "DispatchPrepared" \in Walked(log', k)
    BY <2>3, <2>4 DEF Walked
  <2>7. QED
    BY <2>5, <2>6 DEF IsHandedOff
<1>4. QED
  BY <1>2, <1>3

(* An attempt leaves the process only once its preparation is durable, and *)
(* no crash, lost acknowledgment or second controller takes that back.     *)
THEOREM HandedStaysDurable == Spec => []HandedIsDurable
<1>1. Init => HandedIsDurable
  BY DEF Init, HandedIsDurable
<1>2. KernelInv /\ HandedIsDurable /\ [Next]_vars => HandedIsDurable'
  BY StepKeepsHanded
<1>3. QED
  BY <1>1, <1>2, KernelInvariant, PTL DEF Spec

-----------------------------------------------------------------------------
(* What one more event adds to what a log says. *)

LEMMA WalkedAppend ==
    ASSUME NEW l \in Seq(EffectEvent(Key)), NEW e \in EffectEvent(Key), NEW k
    PROVE  Walked(Append(l, e), k) = Walked(l, k) \cup (IF e.key = k THEN {e.kind} ELSE {})
<1> DEFINE m == Append(l, e)
<1>1. /\ Len(m) = Len(l) + 1 /\ Len(l) \in Nat
      /\ \A i \in 1..Len(l) : m[i] = l[i]
      /\ m[Len(l) + 1] = e
  BY AppendFacts
<1> HIDE DEF m
<1>2. ASSUME NEW x \in Walked(m, k)
      PROVE  x \in Walked(l, k) \cup (IF e.key = k THEN {e.kind} ELSE {})
  <2>1. PICK i \in 1..Len(m) : m[i].key = k /\ m[i].kind = x
    BY <1>2 DEF Walked
  <2>2. CASE i \in 1..Len(l)
    BY <1>1, <2>1, <2>2 DEF Walked
  <2>3. CASE i = Len(l) + 1
    BY <1>1, <2>1, <2>3
  <2>4. QED
    BY <1>1, <2>1, <2>2, <2>3
<1>3. ASSUME NEW x \in Walked(l, k) PROVE x \in Walked(m, k)
  <2>1. PICK i \in 1..Len(l) : l[i].key = k /\ l[i].kind = x
    BY <1>3 DEF Walked
  <2>2. i \in 1..Len(m) /\ m[i].key = k /\ m[i].kind = x
    BY <1>1, <2>1
  <2>3. QED
    BY <2>2 DEF Walked
<1>4. e.key = k => e.kind \in Walked(m, k)
  <2>1. Len(l) + 1 \in 1..Len(m)
    BY <1>1
  <2>2. QED
    BY <1>1, <2>1 DEF Walked
<1>5. QED
  BY <1>2, <1>3, <1>4 DEF m

LEMMA SaysAppend ==
    ASSUME NEW l \in Seq(EffectEvent(Key)), NEW e \in EffectEvent(Key), NEW k, NEW v
    PROVE  Says(Append(l, e), k, v) <=> Says(l, k, v) \/ e = OutcomeObserved(k, v)
<1> DEFINE m == Append(l, e)
<1>1. /\ Len(m) = Len(l) + 1 /\ Len(l) \in Nat
      /\ \A i \in 1..Len(l) : m[i] = l[i]
      /\ m[Len(l) + 1] = e
  BY AppendFacts
<1> HIDE DEF m
<1>2. ASSUME Says(m, k, v) PROVE Says(l, k, v) \/ e = OutcomeObserved(k, v)
  <2>1. PICK i \in 1..Len(m) : m[i] = OutcomeObserved(k, v)
    BY <1>2 DEF Says
  <2>2. i \in 1..Len(l) \/ i = Len(l) + 1
    BY <1>1
  <2>3. QED
    BY <1>1, <2>1, <2>2 DEF Says
<1>3. ASSUME Says(l, k, v) PROVE Says(m, k, v)
  <2>1. PICK i \in 1..Len(l) : l[i] = OutcomeObserved(k, v)
    BY <1>3 DEF Says
  <2>2. i \in 1..Len(m) /\ m[i] = l[i]
    BY <1>1
  <2>3. QED
    BY <2>1, <2>2 DEF Says
<1>4. e = OutcomeObserved(k, v) => Says(m, k, v)
  <2>1. Len(l) + 1 \in 1..Len(m)
    BY <1>1
  <2>2. QED
    BY <1>1, <2>1 DEF Says
<1>5. QED
  BY <1>2, <1>3, <1>4 DEF m

(* A prefix says nothing that the whole does not. *)
LEMMA PrefixSays ==
    ASSUME NEW l \in Seq(EffectEvent(Key)), NEW n \in 0..Len(l), NEW k, NEW v
    PROVE  /\ Says(SubSeq(l, 1, n), k, v) => Says(l, k, v)
           /\ Walked(SubSeq(l, 1, n), k) \subseteq Walked(l, k)
<1> DEFINE p == SubSeq(l, 1, n)
<1>1. Len(p) = n /\ \A i \in 1..n : p[i] = l[i]
  BY SubSeqFacts
<1>2. 1..n \subseteq 1..Len(l)
  OBVIOUS
<1> HIDE DEF p
<1>3. Says(p, k, v) => Says(l, k, v)
  BY <1>1, <1>2 DEF Says
<1>4. Walked(p, k) \subseteq Walked(l, k)
  BY <1>1, <1>2 DEF Walked
<1>5. QED
  BY <1>3, <1>4 DEF p

(* What has been walked when an event is in order. *)
LEMMA RungsBefore ==
    ASSUME NEW l, NEW k, NEW v
    PROVE  /\ InOrder(l, IntentAdmitted(k)) => Walked(l, k) = {}
           /\ InOrder(l, DispatchPrepared(k)) => Walked(l, k) = {"IntentAdmitted"}
           /\ InOrder(l, OutcomeObserved(k, v)) =>
                  Walked(l, k) = {"IntentAdmitted", "DispatchPrepared"}
<1>1. /\ UpTo(NoKind) = {}
      /\ UpTo("IntentAdmitted") = {"IntentAdmitted"}
      /\ UpTo("DispatchPrepared") = {"IntentAdmitted", "DispatchPrepared"}
  BY DEF UpTo, Kind, Rung, NoKind
<1>2. \A last \in Kind \cup {NoKind} :
          /\ NextAllowed[last] = "IntentAdmitted" => last = NoKind
          /\ NextAllowed[last] = "DispatchPrepared" => last = "IntentAdmitted"
          /\ NextAllowed[last] = "OutcomeObserved" => last = "DispatchPrepared"
  BY DEF NextAllowed, Kind, NoKind
<1>3. QED
  BY <1>1, <1>2 DEF InOrder, IntentAdmitted, DispatchPrepared, OutcomeObserved

-----------------------------------------------------------------------------
(* The inductive invariant, one controller at a time. *)

OneAction == \A a, b \in Action : a = b

(* A controller that was behind the journal and settled its last event     *)
(* knows all of it: nobody else writes, or nothing else is written about.  *)
CatchesUp == Exclusive \/ OneAction

(* Every event is the same event, and nothing but an event is acted on. *)
OneEvent == OneAction /\ \A e \in EventInput, i \in Input : i = e

(* It also knows what has landed: nobody else writes, or what it settled   *)
(* was an attempt at the one event there is.                               *)
KeepsUp == Exclusive \/ OneEvent

HeldStates == {"Unrecorded", "OutcomeUnknown", "AppliedUnrecorded", "NotAppliedUnrecorded"}

(* c stands in the way of another attempt until k is settled. *)
Holds(c, k) ==
    \/ k \in unsettled[c]
    \/ /\ KeyOf(c, k.action, begun[c][k.action]) = k
       /\ state[c][k.action] \in HeldStates

Stopped(c) == c \notin up => pc[c] = Idle /\ tail[c] = <<>>

(* Only entries of a chain that is bound have moved. *)
Bound(c) ==
    \A a \in Action : state[c][a] # "NotStarted" =>
        \E ch \in Chain : a \in ActionsOf(ch) /\ bound[c][ch] # NoInput

(* What a walk leaves behind it and has before it. *)
PassedStates == {"Succeeded", "Skipped", "DefinitelyFailed", "Exhausted", "GivenUp"}
AheadStates == {"Succeeded", "Skipped", "AppliedUnrecorded", "NotAppliedUnrecorded",
                "NotStarted", "DefinitelyFailed"}

StateOf(c, i) == state[c][Entries[pc[c].chain][i]]

WalkClear(c) ==
    pc[c] # Idle =>
        /\ bound[c][pc[c].chain] # NoInput
        /\ pc[c].next \in 1..pc[c].upto
        /\ \A i \in 1..pc[c].upto :
            /\ ~Blocks(c, Entries[pc[c].chain][i])
            /\ i < pc[c].next => StateOf(c, i) \in PassedStates
            /\ i > pc[c].next => StateOf(c, i) \in AheadStates
        /\ pc[c].at = "walk" => StateOf(c, pc[c].next) \in AheadStates
        /\ pc[c].at = "intent" =>
            StateOf(c, pc[c].next) \in {"NotStarted", "DefinitelyFailed"}
        /\ pc[c].at = "running" =>
            /\ StateOf(c, pc[c].next) = "Unrecorded"
            /\ InFlight(c) \in handed

(* Alone at the journal, a controller is behind by its own last append at  *)
(* most, and not at all while an attempt is under way.                     *)
AloneAt(c) ==
    Exclusive /\ c \in up =>
        /\ \A d \in up : d = c
        /\ tail[c] = log \/ \E e \in EffectEvent(Key) : log = Append(tail[c], e)
        /\ pc[c].at \in {"intent", "running"} => tail[c] = log

NotAhead(c) == Len(tail[c]) <= Len(log)

(* What the fold has seen handed off it holds, unless it is settled since. *)
Knows(c) ==
    CatchesUp =>
        \A k \in Key : IsUncertain(tail[c], k) => Holds(c, k) \/ HasOutcome(log, k)

(* An event the fold has seen applied it knows as landed, or blocks on. *)
Landings(c) ==
    KeepsUp =>
        \A k \in Key : k.input \in EventInput /\ Says(tail[c], k, "Applied") =>
            \/ <<k.action, k.input>> \in landedEvent[c]
            \/ <<k, "Applied">> \in recording[c]

(* Between the two appends of a handoff. *)
Intends(c) ==
    pc[c].at = "intent" =>
        /\ tail[c] = log => durable = Len(log)
        /\ bound[c][pc[c].chain] \in EventInput =>
            <<Here(c), bound[c][pc[c].chain]>> \notin landedEvent[c]
        /\ OneAction /\ tail[c] = log => Len(log) + 2 <= Capacity

Delivered(c) ==
    \A a \in Action : state[c][a] = "AppliedUnrecorded" =>
        KeyOf(c, a, begun[c][a]) \in handed

Settled(c) ==
    \A a \in Action : begun[c][a] # 0 =>
        /\ state[c][a] = "Succeeded" => Says(DurableLog, KeyOf(c, a, begun[c][a]), "Applied")
        /\ state[c][a] \in {"DefinitelyFailed", "Exhausted", "GivenUp"} =>
                Says(DurableLog, KeyOf(c, a, begun[c][a]), "NotApplied")

WhereItIs(c) == Stopped(c) /\ Bound(c) /\ WalkClear(c)
WhatItKnows(c) == AloneAt(c) /\ NotAhead(c) /\ Knows(c) /\ Landings(c)
WhatItDid(c) == Intends(c) /\ Delivered(c) /\ Settled(c)

ControllerInv(c) == WhereItIs(c) /\ WhatItKnows(c) /\ WhatItDid(c)

(* What the log says, alone and against what was handed off. *)
OneUncertainIn(l) ==
    \A j, k \in Key : (j.action = k.action /\ IsUncertain(l, j) /\ IsUncertain(l, k)) => j = k

AlwaysOneUncertain == CatchesUp => \A n \in 0..Len(log) : OneUncertainIn(SubSeq(log, 1, n))

(* Nothing is unknown of an event that has landed. *)
LandingEndsIn(l) ==
    \A j, k \in Key : j.input \in EventInput /\ Says(l, j, "Applied") => ~IsUncertain(l, k)

LandingEnds == OneEvent => \A n \in 0..Len(log) : LandingEndsIn(SubSeq(log, 1, n))

AppliedWasHanded == \A k \in Key : Says(log, k, "Applied") => k \in handed

UnknownFits == OneAction => \A k \in Key : IsUncertain(log, k) => Len(log) < Capacity

RecordInv ==
    /\ LadderOrder /\ HandedIsDurable /\ AlwaysOneUncertain
    /\ LandingEnds /\ AppliedWasHanded /\ UnknownFits

SafeInv == KernelInv /\ RecordInv /\ \A c \in Controller : ControllerInv(c)

-----------------------------------------------------------------------------
(* A step keeps what is durably said, and only a lost suffix takes back    *)
(* anything else.                                                          *)
LEMMA DurablySaidStays ==
    ASSUME KernelInv, JournalStep, NEW k, NEW v, Says(DurableLog, k, v)
    PROVE  Says(DurableLog, k, v)'
<1>1. JournalInv
  BY InvParts
<1>2. JournalInv' /\ durable <= durable' /\ DurableLog = SubSeq(log', 1, durable)
  BY <1>1, JournalStepKeepsInv, JournalStepKeepsDurable DEF JournalStep
<1>3. /\ log' \in Seq(EffectEvent(Key)) /\ durable' \in 0..Len(log') /\ durable \in 0..durable'
      /\ durable' \in Nat
  BY <1>1, <1>2 DEF JournalInv, JournalTypeOK, JournalBounds
<1>4. /\ DurableLog' = SubSeq(log', 1, durable')
      /\ DurableLog' \in Seq(EffectEvent(Key)) /\ Len(DurableLog') = durable'
      /\ DurableLog = SubSeq(DurableLog', 1, durable)
  BY <1>2, <1>3, SubSeqFacts DEF DurableLog
<1>5. Says(DurableLog', k, v)
  <2> DEFINE d == DurableLog'
  <2>1. Says(SubSeq(d, 1, durable), k, v)
    BY <1>4
  <2>2. d \in Seq(EffectEvent(Key)) /\ durable \in 0..Len(d)
    BY <1>3, <1>4
  <2> HIDE DEF d
  <2>3. Says(d, k, v)
    BY <2>1, <2>2, PrefixSays
  <2>4. QED
    BY <2>3 DEF d
<1>6. QED
  BY <1>5 DEF Says, DurableLog

LEMMA DurablySaidIsSaid ==
    ASSUME KernelInv, NEW k, NEW v, Says(DurableLog, k, v)
    PROVE  Says(log, k, v)
  BY LogTypes, PrefixSays DEF DurableLog

LEMMA HandedIsWalked ==
    ASSUME KernelInv, HandedIsDurable, NEW k \in handed
    PROVE  k \in Key /\ IsHandedOff(log, k)
<1>1. IsHandedOff(DurableLog, k) /\ k \in Key
  BY DEF HandedIsDurable, KernelInv, TypeOK
<1>2. log \in Seq(EffectEvent(Key)) /\ durable \in 0..Len(log)
  BY LogTypes
<1>3. Walked(SubSeq(log, 1, durable), k) \subseteq Walked(log, k)
  BY <1>2, PrefixSays
<1>4. QED
  BY <1>1, <1>3 DEF IsHandedOff, DurableLog

(* What is walked has an outcome of one kind or the other. *)
LEMMA OutcomeSays ==
    ASSUME NEW l \in Seq(EffectEvent(Key)), NEW k, HasOutcome(l, k)
    PROVE  \E v \in Evidence : Says(l, k, v)
<1>1. PICK i \in 1..Len(l) : l[i].key = k /\ l[i].kind = "OutcomeObserved"
  BY DEF HasOutcome, Walked
<1>2. l[i] \in EffectEvent(Key)
  OBVIOUS
<1>3. l[i] = OutcomeObserved(k, l[i].says) /\ l[i].says \in Evidence
  BY <1>1, <1>2 DEF EffectEvent, OutcomeObserved
<1>4. QED
  BY <1>3 DEF Says

LEMMA OutcomeIsWhere ==
    ASSUME NEW l \in Seq(EffectEvent(Key)), NEW k, HasOutcome(l, k)
    PROVE  /\ OutcomeAt(l, k) \in 1..Len(l)
           /\ l[OutcomeAt(l, k)].kind = "OutcomeObserved"
           /\ l[OutcomeAt(l, k)].key = k
<1>1. \E i \in 1..Len(l) : l[i].kind = "OutcomeObserved" /\ l[i].key = k
  BY DEF HasOutcome, Walked
<1>2. QED
  BY <1>1 DEF OutcomeAt

(* The record of an attempt says one thing. *)
LEMMA SaysOneThing ==
    ASSUME JournalInv, LadderOrder, NEW k, NEW v, NEW w, Says(log, k, v), Says(log, k, w)
    PROVE  v = w
<1>1. PICK i \in 1..Len(log) : log[i] = OutcomeObserved(k, v)
  BY DEF Says
<1>2. PICK j \in 1..Len(log) : log[j] = OutcomeObserved(k, w)
  BY DEF Says
<1>3. ~(i < j) /\ ~(j < i)
  BY <1>1, <1>2, OutcomeIsWalkedOnce DEF OutcomeObserved
<1>4. i = j
  BY <1>3 DEF JournalInv, JournalTypeOK
<1>5. QED
  BY <1>1, <1>2, <1>4 DEF OutcomeObserved

-----------------------------------------------------------------------------
(* The settlement write: what it leaves in the journal and in the fold. *)

LEMMA SafeParts ==
    ASSUME SafeInv
    PROVE  /\ KernelInv /\ JournalInv /\ RecordInv
           /\ \A c \in Controller : ControllerInv(c)
           /\ log \in Seq(EffectEvent(Key)) /\ Len(log) \in Nat
           /\ durable \in 0..Len(log)
           /\ \A c \in Controller : tail[c] \in Seq(EffectEvent(Key))
           /\ handed \subseteq Key
  BY InvParts, LogTypes DEF SafeInv, MemoryOK, TailTypeOK, WorldTypeOK

LEMMA SettlementWrites ==
    ASSUME SafeInv, NEW c \in Controller, NEW k, NEW e \in Evidence, NEW ok \in BOOLEAN,
           EnsureOutcome(c, k, e, ok)
    PROVE  /\ \/ log' = log
              \/ /\ tail[c] = log /\ k \in Key
                 /\ OutcomeObserved(k, e) \in EffectEvent(Key)
                 /\ InOrder(log, OutcomeObserved(k, e))
                 /\ log' = Append(log, OutcomeObserved(k, e))
           /\ ok /\ log' = log => Says(log, k, e) /\ OutcomeAt(log, k) = Len(log)
           /\ ok => tail'[c] = log' /\ k \in Key /\ Says(DurableLog, k, e)'
           /\ ~ok => tail' = tail /\ landedEvent' = landedEvent
<1>1. log \in Seq(EffectEvent(Key)) /\ durable \in 0..Len(log) /\ Len(log) \in Nat
      /\ tail \in [Controller -> Seq(EffectEvent(Key))]
  BY SafeParts, LogTypes DEF MemoryOK, TailTypeOK
<1>2. CASE ~ok /\ UNCHANGED <<log, durable, tail, fold>>
  BY <1>2 DEF fold
<1>3. CASE /\ Says(log, k, e)
           /\ durable' = Larger(durable, OutcomeAt(log, k))
           /\ ok = (OutcomeAt(log, k) = Len(log))
           /\ IF ok
              THEN tail' = [tail EXCEPT ![c] = log] /\ FoldOutcome(c, k, e)
              ELSE UNCHANGED <<tail, fold>>
           /\ UNCHANGED log
  <2>1. k \in Key /\ HasOutcome(log, k)
    BY <1>1, <1>3, SaysIsOutcome
  <2>2. CASE ok
    <3>0. OutcomeAt(log, k) = Len(log)
      BY <1>3, <2>2
    <3>1. durable' = Len(log)
      BY <1>1, <1>3, <3>0 DEF Larger
    <3>2. SubSeq(log', 1, durable') = log
      BY <1>1, <1>3, <3>1
    <3>3. Says(DurableLog, k, e)'
      BY <1>3, <3>2 DEF DurableLog, Says
    <3>4. QED
      BY <1>1, <1>3, <2>1, <2>2, <3>0, <3>3
  <2>3. CASE ~ok
    BY <1>3, <2>3 DEF fold
  <2>4. QED
    BY <2>2, <2>3
<1>4. CASE ~ok /\ Fenced(c, OutcomeObserved(k, e), FALSE) /\ UNCHANGED <<tail, fold>>
  BY <1>1, <1>4, LaterRungIsEvent DEF Fenced, Commit, fold
<1>5. CASE /\ ok
           /\ Fenced(c, OutcomeObserved(k, e), TRUE)
           /\ tail' = [tail EXCEPT ![c] = log']
           /\ FoldOutcome(c, k, e)
  <2> DEFINE o == OutcomeObserved(k, e)
  <2>1. /\ k \in Key /\ o \in EffectEvent(Key) /\ InOrder(log, o) /\ tail[c] = log
        /\ log' = Append(log, o) /\ durable' = Len(log) + 1
    BY <1>1, <1>5, LaterRungIsEvent DEF Fenced, Commit
  <2>2. /\ log' \in Seq(EffectEvent(Key)) /\ Len(log') = durable' /\ log' # log
        /\ Says(log', k, e)
    BY <1>1, <2>1, AppendFacts, SaysAppend
  <2>3. SubSeq(log', 1, durable') = log'
    BY <2>2
  <2>4. Says(DurableLog, k, e)'
    BY <2>2, <2>3 DEF DurableLog, Says
  <2>5. QED
    BY <1>1, <1>5, <2>1, <2>2, <2>4
<1>6. QED
  BY <1>2, <1>3, <1>4, <1>5 DEF EnsureOutcome

LEMMA SettlementFolds ==
    ASSUME SafeInv, NEW c \in Controller, NEW k, NEW e \in Evidence, NEW ok \in BOOLEAN,
           EnsureOutcome(c, k, e, ok)
    PROVE  /\ landedEvent[c] \subseteq landedEvent'[c]
           /\ ok /\ e = "Applied" => <<k.action, k.input>> \in landedEvent'[c]
           /\ \A d \in Controller : d # c =>
                  tail'[d] = tail[d] /\ landedEvent'[d] = landedEvent[d]
<1>1. FoldTypeOK /\ TailTypeOK
  BY SafeParts, LogTypes DEF MemoryOK
<1>2. CASE UNCHANGED <<tail, fold>> /\ ~ok
  BY <1>2 DEF fold
<1>3. CASE /\ FoldOutcome(c, k, e)
           /\ tail' = [tail EXCEPT ![c] = log] \/ tail' = [tail EXCEPT ![c] = log']
  BY <1>1, <1>3 DEF FoldOutcome, FoldTypeOK, TailTypeOK
<1>4. QED
  BY <1>2, <1>3 DEF EnsureOutcome

(* A journal of one action that ends in an outcome has no unknown one. *)
LEMMA NothingUnknownAtOutcome ==
    ASSUME SafeInv, OneAction, NEW k \in Key, NEW v, Says(log, k, v),
           OutcomeAt(log, k) = Len(log), NEW j \in Key
    PROVE  ~IsUncertain(log, j)
<1> SUFFICES ASSUME IsUncertain(log, j) PROVE FALSE
  OBVIOUS
<1> DEFINE n == Len(log)
           last == log[n]
           p == SubSeq(log, 1, n - 1)
<1>1. /\ log \in Seq(EffectEvent(Key)) /\ n \in Nat
      /\ LadderOrder /\ AlwaysOneUncertain
  BY SafeParts DEF RecordInv
<1>2. HasOutcome(log, k)
  BY <1>1, SaysIsOutcome
<1>3. n \in 1..n /\ last.kind = "OutcomeObserved" /\ last.key = k
  BY <1>1, <1>2, OutcomeIsWhere
<1>4. last \in EffectEvent(Key)
  BY <1>1, <1>3
<1>5. p \in Seq(EffectEvent(Key)) /\ log = Append(p, last) /\ n - 1 \in 0..n
  BY <1>1, <1>3
<1>6. InOrder(p, last) /\ OneUncertainIn(p)
  BY <1>1, <1>3, <1>5 DEF LadderOrder, AlwaysOneUncertain, CatchesUp
<1>7. last = OutcomeObserved(k, last.says)
  BY <1>3, <1>4 DEF EffectEvent, OutcomeObserved
<1> HIDE DEF p, last
<1>8. Walked(p, k) = {"IntentAdmitted", "DispatchPrepared"}
  BY <1>6, <1>7, RungsBefore
<1>9. j # k
  BY <1>2 DEF IsUncertain
<1>10. Walked(log, j) = Walked(p, j)
  <2>1. Walked(Append(p, last), j) = Walked(p, j) \cup (IF last.key = j THEN {last.kind} ELSE {})
    BY <1>4, <1>5, WalkedAppend
  <2>2. QED
    BY <1>3, <1>5, <1>9, <2>1
<1>11. IsUncertain(p, j) /\ IsUncertain(p, k)
  BY <1>8, <1>10 DEF IsUncertain, IsHandedOff, HasOutcome
<1>12. j.action = k.action
  BY KeyFields DEF OneAction
<1>13. QED
  BY <1>6, <1>9, <1>11, <1>12 DEF OneUncertainIn

(* A journal of one event that ends in an outcome, and says somewhere that *)
(* the event landed, says so at its end.                                   *)
LEMMA LandedAtOutcome ==
    ASSUME SafeInv, OneEvent, NEW k \in Key, NEW v, Says(log, k, v),
           OutcomeAt(log, k) = Len(log),
           NEW j \in Key, j.input \in EventInput, Says(log, j, "Applied")
    PROVE  v = "Applied"
<1> DEFINE n == Len(log)
           last == log[n]
           p == SubSeq(log, 1, n - 1)
<1>1. /\ log \in Seq(EffectEvent(Key)) /\ n \in Nat
      /\ JournalInv /\ LadderOrder /\ LandingEnds
  BY SafeParts DEF RecordInv
<1>2. HasOutcome(log, k)
  BY <1>1, SaysIsOutcome
<1>3. n \in 1..n /\ last.kind = "OutcomeObserved" /\ last.key = k
  BY <1>1, <1>2, OutcomeIsWhere
<1>4. last \in EffectEvent(Key)
  BY <1>1, <1>3
<1>5. p \in Seq(EffectEvent(Key)) /\ log = Append(p, last) /\ n - 1 \in 0..n
  BY <1>1, <1>3
<1>6. InOrder(p, last) /\ LandingEndsIn(p)
  BY <1>1, <1>3, <1>5 DEF LadderOrder, LandingEnds
<1>7. last = OutcomeObserved(k, last.says)
  BY <1>3, <1>4 DEF EffectEvent, OutcomeObserved
<1> HIDE DEF p, last
<1>8. Walked(p, k) = {"IntentAdmitted", "DispatchPrepared"}
  BY <1>6, <1>7, RungsBefore
<1>9. IsUncertain(p, k)
  BY <1>8 DEF IsUncertain, IsHandedOff, HasOutcome
<1>10. ~Says(p, j, "Applied")
  BY <1>6, <1>9 DEF LandingEndsIn
<1>11. last = OutcomeObserved(j, "Applied")
  BY <1>4, <1>5, <1>10, SaysAppend
<1>12. j = k
  BY <1>7, <1>11 DEF OutcomeObserved
<1>13. QED
  BY <1>1, <1>12, SaysOneThing

(* What is unknown of a log that a settlement brought the fence to was     *)
(* unknown at the fence before, and an event it says has landed is one the *)
(* fence had, or the one that is settled.                                  *)
LEMMA CaughtUp ==
    ASSUME SafeInv, NEW c \in Controller, c \in up, NEW k \in Key, NEW e \in Evidence,
           Says(log, k, e), OutcomeAt(log, k) = Len(log), NEW j \in Key
    PROVE  /\ CatchesUp /\ IsUncertain(log, j) => IsUncertain(tail[c], j)
           /\ (KeepsUp /\ j.input \in EventInput /\ Says(log, j, "Applied")) =>
                  \/ Says(tail[c], j, "Applied")
                  \/ e = "Applied" /\ j.action = k.action /\ j.input = k.input
<1>1. /\ log \in Seq(EffectEvent(Key)) /\ tail[c] \in Seq(EffectEvent(Key)) /\ Len(log) \in Nat
      /\ AloneAt(c) /\ LadderOrder /\ JournalInv
  BY SafeParts DEF RecordInv, ControllerInv, WhatItKnows
<1>2. CASE ~Exclusive
  <2>1. (CatchesUp => OneAction) /\ (KeepsUp => OneEvent)
    BY <1>2 DEF CatchesUp, KeepsUp
  <2>2. OneAction => ~IsUncertain(log, j)
    BY NothingUnknownAtOutcome
  <2>3. ASSUME OneEvent, j.input \in EventInput, Says(log, j, "Applied")
        PROVE  e = "Applied" /\ j.action = k.action /\ j.input = k.input
    <3>1. e = "Applied"
      BY <2>3, LandedAtOutcome
    <3>2. QED
      BY <2>3, <3>1, KeyFields DEF OneEvent, OneAction
  <2>4. QED
    BY <2>1, <2>2, <2>3
<1>3. CASE tail[c] = log
  BY <1>3
<1>4. CASE \E x \in EffectEvent(Key) : log = Append(tail[c], x)
  <2>1. PICK x \in EffectEvent(Key) : log = Append(tail[c], x)
    BY <1>4
  <2>2. HasOutcome(log, k)
    BY <1>1, SaysIsOutcome
  <2>3. Len(log) \in 1..Len(log) /\ log[Len(log)].kind = "OutcomeObserved" /\ log[Len(log)].key = k
    BY <1>1, <2>2, OutcomeIsWhere
  <2>4. log[Len(log)] = x
    BY <1>1, <2>1, AppendFacts
  <2>5. ASSUME IsUncertain(log, j) PROVE IsUncertain(tail[c], j)
    <3>1. j # k
      BY <2>2, <2>5 DEF IsUncertain
    <3>2. Walked(log, j) = Walked(tail[c], j) \cup (IF x.key = j THEN {x.kind} ELSE {})
      BY <1>1, <2>1, WalkedAppend
    <3>3. Walked(log, j) = Walked(tail[c], j)
      BY <2>3, <2>4, <3>1, <3>2
    <3>4. QED
      BY <2>5, <3>3 DEF IsUncertain, IsHandedOff, HasOutcome
  <2>6. ASSUME Says(log, j, "Applied"), ~Says(tail[c], j, "Applied") PROVE j = k /\ e = "Applied"
    <3>1. x = OutcomeObserved(j, "Applied")
      BY <1>1, <2>1, <2>6, SaysAppend
    <3>2. j = k
      BY <2>3, <2>4, <3>1 DEF OutcomeObserved
    <3>3. QED
      BY <1>1, <2>6, <3>2, SaysOneThing
  <2>7. QED
    BY <2>5, <2>6
<1>5. QED
  BY <1>1, <1>2, <1>3, <1>4 DEF AloneAt

(* What an append leaves unknown. *)
LEMMA UnknownAfterAppend ==
    ASSUME NEW l \in Seq(EffectEvent(Key)), NEW e \in EffectEvent(Key), NEW j
    PROVE  /\ HasOutcome(l, j) => HasOutcome(Append(l, e), j)
           /\ IsUncertain(Append(l, e), j) =>
                  \/ IsUncertain(l, j)
                  \/ e.key = j /\ e.kind = "DispatchPrepared"
           /\ e.kind = "OutcomeObserved" => ~IsUncertain(Append(l, e), e.key)
<1>1. /\ Walked(Append(l, e), j) = Walked(l, j) \cup (IF e.key = j THEN {e.kind} ELSE {})
      /\ Walked(Append(l, e), e.key) = Walked(l, e.key) \cup {e.kind}
  BY WalkedAppend
<1>2. QED
  BY <1>1 DEF IsUncertain, IsHandedOff, HasOutcome

LEMMA SettlementKnows ==
    ASSUME SafeInv, NEW c \in Controller, c \in up, NEW k, NEW e \in Evidence,
           NEW ok \in BOOLEAN, EnsureOutcome(c, k, e, ok),
           \A j \in Key : Holds(c, j) /\ (ok => j # k) => Holds(c, j)'
    PROVE  Knows(c)'
<1>1. /\ log \in Seq(EffectEvent(Key)) /\ tail[c] \in Seq(EffectEvent(Key)) /\ Knows(c)
  BY SafeParts DEF ControllerInv, WhatItKnows
<1> DEFINE o == OutcomeObserved(k, e)
<1>2. \/ log' = log
      \/ tail[c] = log /\ o \in EffectEvent(Key) /\ k \in Key /\ log' = Append(log, o)
  BY SettlementWrites
<1>3. o.kind = "OutcomeObserved" /\ o.key = k
  BY DEF OutcomeObserved
<1> HIDE DEF o
<1>4. \A j : HasOutcome(log, j) => HasOutcome(log', j)
  BY <1>1, <1>2, UnknownAfterAppend
<1>5. SUFFICES ASSUME CatchesUp, NEW j \in Key, IsUncertain(tail'[c], j)
               PROVE  Holds(c, j)' \/ HasOutcome(log', j)
  BY DEF Knows, CatchesUp, OneAction
<1>6. CASE ~ok
  <2>1. tail'[c] = tail[c]
    BY <1>6, SettlementWrites
  <2>2. QED
    BY <1>1, <1>4, <1>5, <1>6, <2>1 DEF Knows
<1>7. CASE ok
  <2>1. tail'[c] = log' /\ k \in Key /\ Says(DurableLog, k, e)'
    BY <1>7, SettlementWrites
  <2>2. IsUncertain(tail[c], j) /\ j # k
    <3>1. CASE log' = log
      <4>1. Says(log, k, e) /\ OutcomeAt(log, k) = Len(log)
        BY <1>7, <3>1, SettlementWrites
      <4>2. HasOutcome(log, k)
        BY <1>1, <4>1, SaysIsOutcome
      <4>3. IsUncertain(log, j)
        BY <1>5, <2>1, <3>1
      <4>4. QED
        BY <1>5, <2>1, <4>1, <4>2, <4>3, CaughtUp DEF IsUncertain
    <3>2. CASE tail[c] = log /\ o \in EffectEvent(Key) /\ log' = Append(log, o)
      BY <1>1, <1>3, <1>5, <2>1, <3>2, UnknownAfterAppend
    <3>3. QED
      BY <1>2, <3>1, <3>2
  <2>3. Holds(c, j) \/ HasOutcome(log, j)
    BY <1>1, <1>5, <2>2 DEF Knows
  <2>4. QED
    BY <1>4, <2>2, <2>3
<1>8. QED
  BY <1>6, <1>7

LEMMA SettlementLands ==
    ASSUME SafeInv, NEW c \in Controller, c \in up, NEW k, NEW e \in Evidence,
           NEW ok \in BOOLEAN, EnsureOutcome(c, k, e, ok), recording'[c] = recording[c]
    PROVE  Landings(c)'
<1>1. /\ log \in Seq(EffectEvent(Key)) /\ tail[c] \in Seq(EffectEvent(Key)) /\ Landings(c)
  BY SafeParts DEF ControllerInv, WhatItKnows
<1> DEFINE o == OutcomeObserved(k, e)
<1>2. \/ log' = log
      \/ tail[c] = log /\ o \in EffectEvent(Key) /\ k \in Key /\ log' = Append(log, o)
  BY SettlementWrites
<1>3. SUFFICES ASSUME KeepsUp, NEW j \in Key, j.input \in EventInput,
                      Says(tail'[c], j, "Applied")
               PROVE  \/ <<j.action, j.input>> \in landedEvent'[c]
                      \/ <<j, "Applied">> \in recording[c]
  BY DEF Landings, KeepsUp, OneEvent, OneAction
<1>4. /\ landedEvent[c] \subseteq landedEvent'[c]
      /\ ok /\ e = "Applied" => <<k.action, k.input>> \in landedEvent'[c]
  BY SettlementFolds
<1>5. \/ Says(tail[c], j, "Applied")
      \/ ok /\ e = "Applied" /\ j.action = k.action /\ j.input = k.input
  <2>1. CASE ~ok
    <3>1. tail'[c] = tail[c]
      BY <2>1, SettlementWrites
    <3>2. QED
      BY <1>3, <3>1
  <2>2. CASE ok
    <3>1. tail'[c] = log' /\ k \in Key
      BY <2>2, SettlementWrites
    <3>2. CASE log' = log
      <4>1. Says(log, k, e) /\ OutcomeAt(log, k) = Len(log)
        BY <2>2, <3>2, SettlementWrites
      <4>2. Says(log, j, "Applied")
        BY <1>3, <3>1, <3>2
      <4>3. QED
        BY <1>3, <2>2, <3>1, <4>1, <4>2, CaughtUp
    <3>3. CASE tail[c] = log /\ o \in EffectEvent(Key) /\ log' = Append(log, o)
      <4>1. Says(log, j, "Applied") \/ o = OutcomeObserved(j, "Applied")
        BY <1>1, <1>3, <3>1, <3>3, SaysAppend
      <4>2. o = OutcomeObserved(j, "Applied") => j = k /\ e = "Applied"
        BY DEF OutcomeObserved
      <4>3. QED
        BY <2>2, <3>3, <4>1, <4>2
    <3>4. QED
      BY <1>2, <3>2, <3>3
  <2>3. QED
    BY <2>1, <2>2
<1>6. QED
  BY <1>1, <1>3, <1>4, <1>5 DEF Landings

LEMMA SettlementAlone ==
    ASSUME SafeInv, NEW c \in Controller, c \in up, NEW k, NEW e \in Evidence,
           NEW ok \in BOOLEAN, EnsureOutcome(c, k, e, ok), up' = up,
           pc'[c].at \notin {"intent", "running"}
    PROVE  AloneAt(c)' /\ NotAhead(c)'
<1>1. /\ log \in Seq(EffectEvent(Key)) /\ tail[c] \in Seq(EffectEvent(Key))
      /\ AloneAt(c) /\ NotAhead(c)
  BY SafeParts DEF ControllerInv, WhatItKnows
<1> DEFINE o == OutcomeObserved(k, e)
<1>2. \/ log' = log
      \/ tail[c] = log /\ o \in EffectEvent(Key) /\ log' = Append(log, o)
  BY SettlementWrites
<1> HIDE DEF o
<1>3. \/ tail'[c] = log'
      \/ tail'[c] = tail[c]
  BY SettlementWrites
<1>4. NotAhead(c)'
  <2>1. Len(log') \in Nat /\ Len(log) \in Nat /\ Len(tail[c]) \in Nat /\ Len(log) <= Len(log')
    BY <1>1, <1>2, AppendFacts
  <2>2. QED
    BY <1>1, <1>3, <2>1 DEF NotAhead
<1>5. SUFFICES ASSUME Exclusive
               PROVE  /\ \A d \in up : d = c
                      /\ \/ tail'[c] = log'
                         \/ \E x \in EffectEvent(Key) : log' = Append(tail'[c], x)
  BY <1>4 DEF AloneAt
<1>6. QED
  BY <1>1, <1>2, <1>3, <1>5 DEF AloneAt

LEMMA SettlementKeeps ==
    ASSUME SafeInv, NEW c \in Controller, c \in up, NEW k, NEW e \in Evidence,
           NEW ok \in BOOLEAN, EnsureOutcome(c, k, e, ok), up' = up,
           pc'[c].at \notin {"intent", "running"}, recording'[c] = recording[c],
           \A j \in Key : Holds(c, j) /\ (ok => j # k) => Holds(c, j)'
    PROVE  WhatItKnows(c)'
  BY SettlementKnows, SettlementLands, SettlementAlone DEF WhatItKnows

-----------------------------------------------------------------------------
(* Where a walk is. *)

(* Entries of a chain are actions of that chain, each at one place. *)
LEMMA EntryFacts ==
    ASSUME NEW ch \in Chain
    PROVE  /\ Len(Entries[ch]) \in Nat
           /\ \A i \in 1..Len(Entries[ch]) :
                  /\ Entries[ch][i] \in Action /\ Entries[ch][i] \in ActionsOf(ch)
                  /\ ChainOf(Entries[ch][i]) = ch
           /\ \A i, j \in 1..Len(Entries[ch]) : Entries[ch][i] = Entries[ch][j] => i = j
<1>1. Entries[ch] \in Seq(Action)
  BY KernelAssumption
<1>2. \A i \in 1..Len(Entries[ch]) : ChainOf(Entries[ch][i]) = ch
  BY ChainOfEntry
<1>3. \A i, j \in 1..Len(Entries[ch]) : Entries[ch][i] = Entries[ch][j] => i = j
  BY OneEntryPerAction
<1>4. QED
  BY <1>1, <1>2, <1>3 DEF ActionsOf

LEMMA ActionFacts ==
    ASSUME NEW ch \in Chain, NEW a, a \in ActionsOf(ch)
    PROVE  a \in Action /\ ChainOf(a) = ch
<1>1. PICK i \in 1..Len(Entries[ch]) : Entries[ch][i] = a
  BY DEF ActionsOf
<1>2. QED
  BY <1>1, EntryFacts

(* A controller on a walk is at an entry of its chain. *)
LEMMA WalkFacts ==
    ASSUME SafeInv, NEW c \in Controller, pc[c] # Idle
    PROVE  /\ pc[c].chain \in Chain /\ pc[c].next \in 1..Len(Entries[pc[c].chain])
           /\ pc[c].next \in Nat /\ pc[c].upto \in Nat
           /\ pc[c].next \in 1..pc[c].upto /\ pc[c].upto <= Len(Entries[pc[c].chain])
           /\ pc[c].at \in {"walk", "intent", "running"}
           /\ Here(c) \in Action /\ ChainOf(Here(c)) = pc[c].chain
           /\ Here(c) \in ActionsOf(pc[c].chain)
           /\ bound[c][pc[c].chain] \in Input /\ ~Blocks(c, Here(c))
           /\ c \in up /\ WalkClear(c)
<1>1. MemoryOK /\ WhereItIs(c)
  BY SafeParts, LogTypes DEF ControllerInv
<1>2. pc[c] \in [at : {"walk", "intent", "running"}, chain : Chain, next : Nat \ {0}, upto : Nat]
  BY <1>1 DEF MemoryOK, PcTypeOK, PC
<1>3. Within(pc[c]) /\ WalkClear(c) /\ c \in up
  BY <1>1 DEF MemoryOK, PcTypeOK, WalkBound, WhereItIs, Stopped
<1>4. /\ pc[c].next \in 1..pc[c].upto /\ pc[c].upto <= Len(Entries[pc[c].chain])
      /\ bound[c][pc[c].chain] # NoInput /\ ~Blocks(c, Here(c))
  BY <1>2, <1>3 DEF WalkClear, Within, Here
<1>5. pc[c].next \in 1..Len(Entries[pc[c].chain])
  BY <1>2, <1>4, EntryFacts
<1>6. bound[c][pc[c].chain] \in Input
  BY <1>1, <1>2, <1>4 DEF MemoryOK, TransitionTypeOK
<1>7. QED
  BY <1>2, <1>3, <1>4, <1>5, <1>6, EntryFacts DEF Here

LEMMA WalkFromFacts ==
    ASSUME NEW c, NEW ch, NEW n \in Nat \ {0}, NEW upto \in Nat,
           WalkFrom(c, ch, n, upto) # Idle
    PROVE  \E m \in n..upto :
            /\ WalkFrom(c, ch, n, upto) = Walking(ch, m, upto)
            /\ ~IsDone(state[c][Entries[ch][m]])
            /\ \A i \in n..upto : i < m => IsDone(state[c][Entries[ch][i]])
<1> DEFINE left == {i \in n..upto : ~IsDone(state[c][Entries[ch][i]])}
           first == CHOOSE i \in left : \A j \in left : i <= j
<1>1. left # {} /\ WalkFrom(c, ch, n, upto) = Walking(ch, first, upto)
  BY DEF WalkFrom
<1>2. left \subseteq Nat
  OBVIOUS
<1>3. \E i \in left : \A j \in left : i <= j
  <2> HIDE DEF left
  <2>1. QED
    BY <1>1, <1>2, Least
<1>4. first \in left /\ \A j \in left : first <= j
  <2> HIDE DEF left
  <2>1. QED
    BY <1>3
<1>5. first \in n..upto /\ ~IsDone(state[c][Entries[ch][first]])
  <2> HIDE DEF first
  <2>1. QED
    BY <1>4
<1>6. ASSUME NEW i \in n..upto, i < first PROVE IsDone(state[c][Entries[ch][i]])
  <2>1. i \notin left
    <3> HIDE DEF left, first
    <3>1. first \in Nat /\ i \in Nat
      BY <1>2, <1>4, <1>5
    <3>2. QED
      BY <1>4, <1>6, <3>1
  <2>2. QED
    BY <2>1
<1> HIDE DEF first
<1>7. QED
  BY <1>1, <1>5, <1>6

LEMMA StandsStill ==
    ASSUME NEW c, pc'[c] = Idle
    PROVE  WalkClear(c)' /\ Intends(c)' /\ pc'[c].at \notin {"intent", "running"}
  BY DEF WalkClear, Intends, Idle

LEMMA SameBlocks ==
    ASSUME NEW c, unsettled'[c] = unsettled[c], recording'[c] = recording[c]
    PROVE  \A a : Blocks(c, a)' <=> Blocks(c, a)
  BY DEF Blocks

(* Past an entry that is decided the walk is as clear as before. *)
LEMMA WalksOnClear ==
    ASSUME SafeInv, NEW c \in Controller, pc[c] # Idle, pc'[c] = WalkOn(c),
           bound'[c] = bound[c], unsettled'[c] = unsettled[c], recording'[c] = recording[c],
           state'[c][Here(c)] \in PassedStates,
           \A b \in Action : b # Here(c) => state'[c][b] = state[c][b]
    PROVE  /\ WalkClear(c)' /\ Intends(c)'
           /\ pc'[c].at \notin {"intent", "running"}
<1>1. CASE pc'[c] = Idle
  BY <1>1, StandsStill
<1>2. CASE pc'[c] # Idle
  <2>0. PICK ch, n, upto : ch = pc[c].chain /\ n = pc[c].next /\ upto = pc[c].upto
    OBVIOUS
  <2>1. /\ ch \in Chain /\ n \in Nat \ {0} /\ upto \in Nat /\ n \in 1..upto
        /\ upto <= Len(Entries[ch]) /\ Len(Entries[ch]) \in Nat /\ WalkClear(c)
    BY <2>0, WalkFacts, EntryFacts
  <2>2. PICK m \in n + 1..upto :
            /\ pc'[c] = Walking(ch, m, upto)
            /\ \A i \in n + 1..upto : i < m => IsDone(state[c][Entries[ch][i]])
    <3>1. /\ n + 1 \in Nat \ {0}
          /\ pc'[c] = WalkFrom(c, ch, n + 1, upto) /\ WalkFrom(c, ch, n + 1, upto) # Idle
      BY <1>2, <2>0, <2>1 DEF WalkOn
    <3>2. \E m \in n + 1..upto :
            /\ WalkFrom(c, ch, n + 1, upto) = Walking(ch, m, upto)
            /\ ~IsDone(state[c][Entries[ch][m]])
            /\ \A i \in n + 1..upto : i < m => IsDone(state[c][Entries[ch][i]])
      BY <2>1, <3>1, WalkFromFacts
    <3>3. QED
      BY <3>1, <3>2
  <2>3. pc'[c].chain = ch /\ pc'[c].next = m /\ pc'[c].upto = upto /\ pc'[c].at = "walk"
    BY <2>2 DEF Walking
  <2>4. m \in 1..upto /\ n < m /\ m \in Nat
    BY <2>1, <2>2
  <2>5. \A i \in 1..upto : i # n => state'[c][Entries[ch][i]] = state[c][Entries[ch][i]]
    <3> SUFFICES ASSUME NEW i \in 1..upto, i # n
                 PROVE  state'[c][Entries[ch][i]] = state[c][Entries[ch][i]]
      OBVIOUS
    <3>1. i \in 1..Len(Entries[ch]) /\ n \in 1..Len(Entries[ch])
      BY <2>1
    <3>2. Entries[ch][i] # Entries[ch][n] /\ Entries[ch][i] \in Action
      BY <2>1, <3>1, EntryFacts
    <3>3. QED
      BY <2>0, <3>2 DEF Here
  <2>6. state'[c][Entries[ch][n]] \in PassedStates
    BY <2>0 DEF Here
  <2>a. \A i \in 1..upto :
            /\ ~Blocks(c, Entries[ch][i])
            /\ i < n => state[c][Entries[ch][i]] \in PassedStates
            /\ i > n => state[c][Entries[ch][i]] \in AheadStates
    BY <2>0, <2>1 DEF WalkClear, StateOf
  <2>7. \A i \in 1..upto : i < m => state'[c][Entries[ch][i]] \in PassedStates
    <3> SUFFICES ASSUME NEW i \in 1..upto, i < m
                 PROVE  state'[c][Entries[ch][i]] \in PassedStates
      OBVIOUS
    <3>1. CASE i < n
      <4>1. i # n
        BY <2>1, <3>1
      <4>2. state[c][Entries[ch][i]] \in PassedStates
        BY <2>a, <3>1
      <4>3. QED
        BY <2>5, <4>1, <4>2
    <3>2. CASE i = n
      BY <2>6, <3>2
    <3>3. CASE i > n
      <4>1. i \in n + 1..upto
        BY <2>1, <3>3
      <4>2. IsDone(state[c][Entries[ch][i]])
        BY <2>2, <4>1
      <4>3. QED
        BY <2>1, <2>5, <3>3, <4>2 DEF IsDone, PassedStates
    <3>4. QED
      BY <2>1, <3>1, <3>2, <3>3
  <2>8. \A i \in 1..upto : i >= m => state'[c][Entries[ch][i]] \in AheadStates
    <3> SUFFICES ASSUME NEW i \in 1..upto, i >= m
                 PROVE  state'[c][Entries[ch][i]] \in AheadStates
      OBVIOUS
    <3>1. i # n /\ i > n
      BY <2>1, <2>4
    <3>2. state[c][Entries[ch][i]] \in AheadStates
      BY <2>a, <3>1
    <3>3. QED
      BY <2>5, <3>1, <3>2
  <2>9. \A i \in 1..upto : ~Blocks(c, Entries[ch][i])'
    BY <2>0, <2>1, SameBlocks DEF WalkClear
  <2>10. bound'[c][ch] # NoInput
    BY <2>0, <2>1 DEF WalkClear
  <2>11. WalkClear(c)'
    BY <2>3, <2>4, <2>7, <2>8, <2>9, <2>10 DEF WalkClear, StateOf
  <2>12. Intends(c)' /\ pc'[c].at \notin {"intent", "running"}
    BY <2>3 DEF Intends
  <2>13. QED
    BY <2>11, <2>12
<1>3. QED
  BY <1>1, <1>2

(* The plan stops before the first entry that is blocked or undecided. *)
LEMMA PlansClear ==
    ASSUME SafeInv, NEW c \in Controller, NEW ch \in Chain, Plan(c, ch)
    PROVE  WalkClear(c)' /\ Intends(c)' /\ pc'[c].at \notin {"intent", "running"}
<1>1. PICK upto \in PlanEnds(c, ch) :
          /\ WalkFrom(c, ch, 1, upto) # Idle
          /\ pc' = [pc EXCEPT ![c] = WalkFrom(c, ch, 1, upto)]
  BY DEF Plan
<1>2. /\ upto \in Nat /\ upto <= Len(Entries[ch])
      /\ \A i \in 1..upto : Passable(c, Entries[ch][i])
  BY EntryFacts DEF PlanEnds
<1>3. PICK m \in 1..upto :
          /\ WalkFrom(c, ch, 1, upto) = Walking(ch, m, upto)
          /\ \A i \in 1..upto : i < m => IsDone(state[c][Entries[ch][i]])
  <2>1. upto \in Nat /\ 1 \in Nat \ {0} /\ WalkFrom(c, ch, 1, upto) # Idle
    BY <1>1, <1>2
  <2>2. \E m \in 1..upto :
            /\ WalkFrom(c, ch, 1, upto) = Walking(ch, m, upto)
            /\ ~IsDone(state[c][Entries[ch][m]])
            /\ \A i \in 1..upto : i < m => IsDone(state[c][Entries[ch][i]])
    BY <2>1, WalkFromFacts
  <2>3. QED
    BY <2>2
<1>4. pc'[c] = Walking(ch, m, upto)
  BY <1>1, <1>3, SafeParts, LogTypes DEF MemoryOK, PcTypeOK
<1>5. pc'[c].chain = ch /\ pc'[c].next = m /\ pc'[c].upto = upto /\ pc'[c].at = "walk"
  BY <1>4 DEF Walking
<1>6. UNCHANGED <<bound, unsettled, recording, state>> /\ bound[c][ch] # NoInput
  BY DEF Plan, memory, held, transition
<1>7. \A i \in 1..upto :
          /\ ~Blocks(c, Entries[ch][i])
          /\ state[c][Entries[ch][i]] \in AheadStates
          /\ i < m => state[c][Entries[ch][i]] \in PassedStates
  BY <1>2, <1>3 DEF Passable, IsDone, IsRecordingFailed, AheadStates, PassedStates
<1>8. WalkClear(c)'
  BY <1>5, <1>6, <1>7, SameBlocks DEF WalkClear, StateOf
<1>9. QED
  BY <1>5, <1>8 DEF Intends

-----------------------------------------------------------------------------
(* One entry of a controller moves, or none does. *)

Moves(c, a) ==
    /\ bound'[c] = bound[c] /\ begun'[c] = begun[c]
    /\ \A b \in Action : b # a => state'[c][b] = state[c][b]

FailedStates == {"DefinitelyFailed", "Exhausted", "GivenUp"}

LEMMA StateMoves ==
    ASSUME SafeInv, NEW c \in Controller, NEW a \in Action, NEW s, StateBecomes(c, a, s)
    PROVE  /\ Moves(c, a) /\ state'[c][a] = s
           /\ UNCHANGED <<bound, begun>>
           /\ \A d \in Controller : d # c => state'[d] = state[d]
<1>1. TransitionTypeOK
  BY SafeParts, LogTypes DEF MemoryOK
<1>2. QED
  BY <1>1 DEF TransitionTypeOK, StateBecomes, Moves

LEMMA MovedHolds ==
    ASSUME NEW c, NEW a, Moves(c, a), NEW j \in Key, Holds(c, j),
           j \in unsettled[c] => j \in unsettled'[c],
           /\ KeyOf(c, a, begun[c][a]) = j /\ state[c][a] \in HeldStates
              => state'[c][a] \in HeldStates
    PROVE  Holds(c, j)'
<1>1. j.action \in Action
  BY KeyFields
<1>2. CASE j \in unsettled[c]
  BY <1>2 DEF Holds
<1>3. CASE KeyOf(c, j.action, begun[c][j.action]) = j /\ state[c][j.action] \in HeldStates
  <2>1. KeyOf(c, j.action, begun[c][j.action])' = j
    BY <1>3 DEF Moves, KeyOf
  <2>2. state'[c][j.action] \in HeldStates
    BY <1>1, <1>3 DEF Moves
  <2>3. QED
    BY <2>1, <2>2 DEF Holds
<1>4. QED
  BY <1>2, <1>3 DEF Holds

LEMMA EntryMoves ==
    ASSUME SafeInv, JournalStep, NEW c \in Controller, NEW ch \in Chain, NEW a,
           a \in ActionsOf(ch), bound[c][ch] # NoInput, Moves(c, a), handed \subseteq handed',
           state'[c][a] = "AppliedUnrecorded" => KeyOf(c, a, begun[c][a]) \in handed',
           state'[c][a] = "Succeeded" /\ begun[c][a] # 0 =>
               Says(DurableLog, KeyOf(c, a, begun[c][a]), "Applied")',
           state'[c][a] \in FailedStates /\ begun[c][a] # 0 =>
               Says(DurableLog, KeyOf(c, a, begun[c][a]), "NotApplied")'
    PROVE  Bound(c)' /\ Delivered(c)' /\ Settled(c)'
<1>1. Bound(c) /\ Delivered(c) /\ Settled(c) /\ KernelInv
  BY SafeParts DEF ControllerInv, WhereItIs, WhatItDid
<1>2. a \in Action
  BY ActionFacts
<1>3. \A b \in Action : KeyOf(c, b, begun[c][b])' = KeyOf(c, b, begun[c][b])
  BY DEF Moves, KeyOf
<1>4. Bound(c)'
  BY <1>1 DEF Bound, Moves
<1>5. Delivered(c)'
  BY <1>1, <1>3 DEF Delivered, Moves
<1>6. Settled(c)'
  <2> SUFFICES ASSUME NEW b \in Action, begun'[c][b] # 0
               PROVE  /\ state'[c][b] = "Succeeded" =>
                            Says(DurableLog, KeyOf(c, b, begun[c][b]), "Applied")'
                      /\ state'[c][b] \in FailedStates =>
                            Says(DurableLog, KeyOf(c, b, begun[c][b]), "NotApplied")'
    BY DEF Settled, FailedStates
  <2>1. CASE b = a
    BY <1>3, <2>1 DEF Moves
  <2>2. CASE b # a
    <3>1. state'[c][b] = state[c][b] /\ begun[c][b] # 0
      BY <2>2 DEF Moves
    <3>2. ASSUME NEW v, Says(DurableLog, KeyOf(c, b, begun[c][b]), v)
          PROVE  Says(DurableLog, KeyOf(c, b, begun[c][b]), v)'
      <4>1. PICK k : k = KeyOf(c, b, begun[c][b])
        OBVIOUS
      <4>2. Says(DurableLog, k, v)'
        BY <1>1, <3>2, <4>1, DurablySaidStays
      <4>3. k = KeyOf(c, b, begun[c][b])'
        BY <1>3, <4>1
      <4>4. QED
        BY <4>2, <4>3 DEF Says
    <3>3. QED
      BY <1>1, <3>1, <3>2 DEF Settled, FailedStates
  <2>3. QED
    BY <2>1, <2>2
<1>7. QED
  BY <1>4, <1>5, <1>6

LEMMA NoEntryMoves ==
    ASSUME SafeInv, JournalStep, NEW c \in Controller, handed \subseteq handed',
           bound'[c] = bound[c], begun'[c] = begun[c], state'[c] = state[c]
    PROVE  /\ Bound(c)' /\ Delivered(c)' /\ Settled(c)'
           /\ unsettled[c] \subseteq unsettled'[c] =>
                  \A j \in Key : Holds(c, j) => Holds(c, j)'
<1>1. Bound(c) /\ Delivered(c) /\ Settled(c) /\ KernelInv
  BY SafeParts DEF ControllerInv, WhereItIs, WhatItDid
<1>2. \A b : KeyOf(c, b, begun[c][b])' = KeyOf(c, b, begun[c][b])
  BY DEF KeyOf
<1>3. Bound(c)' /\ Delivered(c)'
  BY <1>1, <1>2 DEF Bound, Delivered
<1>4. ASSUME NEW b \in Action, NEW v, Says(DurableLog, KeyOf(c, b, begun[c][b]), v)
      PROVE  Says(DurableLog, KeyOf(c, b, begun[c][b]), v)'
  <2>1. PICK k : k = KeyOf(c, b, begun[c][b])
    OBVIOUS
  <2>2. Says(DurableLog, k, v)'
    BY <1>1, <1>4, <2>1, DurablySaidStays
  <2>3. k = KeyOf(c, b, begun[c][b])'
    BY <1>2, <2>1
  <2>4. QED
    BY <2>2, <2>3 DEF Says
<1>5. Settled(c)'
  BY <1>1, <1>4 DEF Settled
<1>6. ASSUME unsettled[c] \subseteq unsettled'[c], NEW j \in Key, Holds(c, j)
      PROVE  Holds(c, j)'
  BY <1>2, <1>6 DEF Holds
<1>7. QED
  BY <1>3, <1>5, <1>6

(* A step that leaves the record alone leaves what is known of it alone. *)
LEMMA QuietKnows ==
    ASSUME SafeInv, NEW c \in Controller, log' = log, tail'[c] = tail[c], up' = up,
           recording'[c] = recording[c], landedEvent'[c] = landedEvent[c],
           pc'[c].at \notin {"intent", "running"},
           \A j \in Key : Holds(c, j) => Holds(c, j)'
    PROVE  WhatItKnows(c)'
<1>1. WhatItKnows(c)
  BY SafeParts DEF ControllerInv
<1>2. AloneAt(c)' /\ NotAhead(c)'
  BY <1>1 DEF WhatItKnows, AloneAt, NotAhead
<1>3. Knows(c)'
  BY <1>1 DEF WhatItKnows, Knows, CatchesUp, OneAction
<1>4. Landings(c)'
  BY <1>1 DEF WhatItKnows, Landings, KeepsUp, OneEvent, OneAction
<1>5. QED
  BY <1>2, <1>3, <1>4 DEF WhatItKnows

-----------------------------------------------------------------------------
(* The steps that leave the record alone. *)

LEMMA ObserveKeeps ==
    ASSUME SafeInv, JournalStep, NEW c \in Controller, NEW ch \in Chain,
           NEW i \in Delivers[ch], Observe(c, ch, i)
    PROVE  ControllerInv(c)'
<1>1. /\ ControllerInv(c) /\ KernelInv
      /\ bound \in [Controller -> [Chain -> Input \cup {NoInput}]]
      /\ state \in [Controller -> [Action -> EntryState]]
      /\ begun \in [Controller -> [Action -> 0..MaxAttempt]]
  BY SafeParts, LogTypes DEF MemoryOK, TransitionTypeOK
<1>2. i \in Input /\ i # NoInput
  BY KernelAssumption, NoInputAssumption
<1>3. /\ bound'[c] = [bound[c] EXCEPT ![ch] = i]
      /\ \A a \in Action : state'[c][a] = IF a \in ActionsOf(ch) /\ ~IsAbandoned(state[c][a])
                                          THEN "NotStarted" ELSE state[c][a]
      /\ \A a \in Action : begun'[c][a] = IF a \in ActionsOf(ch) THEN 0 ELSE begun[c][a]
      /\ UNCHANGED <<log, durable, up, tail, unsettled, recording, landedEvent, pc, handed>>
  BY <1>1 DEF Observe, memory, held, fold, world
<1>4. c \in up /\ pc[c] = Idle
  BY DEF Observe, AtRest
<1>5. ASSUME NEW a \in Action, state[c][a] # "NotStarted", a \notin ActionsOf(ch), NEW n
      PROVE  KeyOf(c, a, n)' = KeyOf(c, a, n)
  <2>1. PICK other \in Chain : a \in ActionsOf(other)
    BY <1>1, <1>5 DEF ControllerInv, WhereItIs, Bound
  <2>2. ChainOf(a) = other /\ other # ch
    BY <1>5, <2>1, ActionFacts
  <2>3. bound'[c][other] = bound[c][other]
    BY <1>1, <1>3, <2>2
  <2>4. QED
    BY <2>2, <2>3 DEF KeyOf
<1>6. Bound(c)'
  <2> SUFFICES ASSUME NEW a \in Action, state'[c][a] # "NotStarted"
               PROVE  \E other \in Chain : a \in ActionsOf(other) /\ bound'[c][other] # NoInput
    BY DEF Bound
  <2>1. CASE a \in ActionsOf(ch)
    BY <1>1, <1>2, <1>3, <2>1
  <2>2. CASE a \notin ActionsOf(ch)
    <3>1. PICK other \in Chain : a \in ActionsOf(other) /\ bound[c][other] # NoInput
      BY <1>1, <1>3, <2>2 DEF ControllerInv, WhereItIs, Bound
    <3>2. QED
      BY <1>1, <1>3, <2>2, <3>1
  <2>3. QED
    BY <2>1, <2>2
<1>7. WhereItIs(c)'
  BY <1>3, <1>4, <1>6, StandsStill DEF WhereItIs, Stopped
<1>8. Delivered(c)'
  BY <1>1, <1>3, <1>5 DEF ControllerInv, WhatItDid, Delivered, IsAbandoned
<1>9. Settled(c)'
  <2> SUFFICES ASSUME NEW a \in Action, begun'[c][a] # 0
               PROVE  /\ state'[c][a] = "Succeeded" =>
                            Says(DurableLog, KeyOf(c, a, begun[c][a]), "Applied")'
                      /\ state'[c][a] \in {"DefinitelyFailed", "Exhausted", "GivenUp"} =>
                            Says(DurableLog, KeyOf(c, a, begun[c][a]), "NotApplied")'
    BY DEF Settled
  <2>1. a \notin ActionsOf(ch) /\ state'[c][a] = state[c][a] /\ begun'[c][a] = begun[c][a]
    BY <1>3
  <2>2. DurableLog' = DurableLog
    BY <1>3 DEF DurableLog
  <2>3. CASE state[c][a] # "NotStarted"
    <3>1. KeyOf(c, a, begun[c][a])' = KeyOf(c, a, begun[c][a])
      BY <1>5, <2>1, <2>3 DEF KeyOf
    <3>2. QED
      BY <1>1, <2>1, <2>2, <3>1 DEF ControllerInv, WhatItDid, Settled, Says
  <2>4. QED
    BY <2>1, <2>3
<1>10. WhatItDid(c)'
  BY <1>3, <1>4, <1>8, <1>9, StandsStill DEF WhatItDid
<1>11. ASSUME NEW j \in Key, Holds(c, j) PROVE Holds(c, j)'
  <2>1. CASE j \in unsettled[c]
    BY <1>3, <2>1 DEF Holds
  <2>2. CASE KeyOf(c, j.action, begun[c][j.action]) = j /\ state[c][j.action] \in HeldStates
    <3>1. j.action \in Action /\ j.input \in Input
      BY KeyFields
    <3>2. j.action \notin ActionsOf(ch)
      <4> SUFFICES ASSUME j.action \in ActionsOf(ch) PROVE FALSE
        OBVIOUS
      <4>1. IsOpen(state[c][j.action])
        BY <2>2 DEF IsOpen, HeldStates
      <4>2. bound[c][ch] = NoInput
        BY <4>1 DEF Observe
      <4>3. ChainOf(j.action) = ch
        BY ActionFacts
      <4>4. j.input = NoInput
        BY <2>2, <4>2, <4>3 DEF KeyOf
      <4>5. QED
        BY <3>1, <4>4, NoInputAssumption
    <3>3. KeyOf(c, j.action, begun[c][j.action])' = j
      BY <1>3, <1>5, <2>2, <3>1, <3>2 DEF KeyOf, HeldStates
    <3>4. QED
      BY <1>3, <2>2, <3>1, <3>2, <3>3 DEF Holds
  <2>3. QED
    BY <1>11, <2>1, <2>2 DEF Holds
<1>12. WhatItKnows(c)'
  BY <1>3, <1>4, <1>11, QuietKnows, StandsStill
<1>13. QED
  BY <1>7, <1>10, <1>12 DEF ControllerInv

LEMMA ReleaseKeeps ==
    ASSUME SafeInv, JournalStep, NEW c \in Controller, NEW ch \in Chain, Release(c, ch)
    PROVE  ControllerInv(c)'
<1>1. /\ ControllerInv(c) /\ KernelInv
      /\ bound \in [Controller -> [Chain -> Input \cup {NoInput}]]
      /\ state \in [Controller -> [Action -> EntryState]]
      /\ begun \in [Controller -> [Action -> 0..MaxAttempt]]
  BY SafeParts, LogTypes DEF MemoryOK, TransitionTypeOK
<1>2. /\ bound'[c] = [bound[c] EXCEPT ![ch] = NoInput]
      /\ \A a \in Action : state'[c][a] = IF a \in ActionsOf(ch) THEN "NotStarted" ELSE state[c][a]
      /\ \A a \in Action : begun'[c][a] = IF a \in ActionsOf(ch) THEN 0 ELSE begun[c][a]
      /\ UNCHANGED <<log, durable, up, tail, unsettled, recording, landedEvent, pc, handed>>
  BY <1>1 DEF Release, memory, held, fold, world
<1>3. c \in up /\ pc[c] = Idle
  BY DEF Release, AtRest
<1>4. ASSUME NEW a \in Action, state[c][a] # "NotStarted", a \notin ActionsOf(ch)
      PROVE  /\ \A n : KeyOf(c, a, n)' = KeyOf(c, a, n)
             /\ \E other \in Chain : a \in ActionsOf(other) /\ bound'[c][other] # NoInput
  <2>1. PICK other \in Chain : a \in ActionsOf(other) /\ bound[c][other] # NoInput
    BY <1>1, <1>4 DEF ControllerInv, WhereItIs, Bound
  <2>2. ChainOf(a) = other /\ other # ch
    BY <1>4, <2>1, ActionFacts
  <2>3. bound'[c][other] = bound[c][other]
    BY <1>1, <1>2, <2>2
  <2>4. QED
    BY <2>1, <2>2, <2>3 DEF KeyOf
<1>5. WhereItIs(c)'
  <2>1. Bound(c)'
    BY <1>2, <1>4 DEF Bound
  <2>2. QED
    BY <1>2, <1>3, <2>1, StandsStill DEF WhereItIs, Stopped
<1>6. Delivered(c)'
  BY <1>1, <1>2, <1>4 DEF ControllerInv, WhatItDid, Delivered, KeyOf
<1>7. Settled(c)'
  <2> SUFFICES ASSUME NEW a \in Action, begun'[c][a] # 0
               PROVE  /\ state'[c][a] = "Succeeded" =>
                            Says(DurableLog, KeyOf(c, a, begun[c][a]), "Applied")'
                      /\ state'[c][a] \in {"DefinitelyFailed", "Exhausted", "GivenUp"} =>
                            Says(DurableLog, KeyOf(c, a, begun[c][a]), "NotApplied")'
    BY DEF Settled
  <2>1. a \notin ActionsOf(ch) /\ state'[c][a] = state[c][a] /\ begun'[c][a] = begun[c][a]
    BY <1>2
  <2>2. DurableLog' = DurableLog
    BY <1>2 DEF DurableLog
  <2>3. CASE state[c][a] # "NotStarted"
    <3>1. KeyOf(c, a, begun[c][a])' = KeyOf(c, a, begun[c][a])
      BY <1>4, <2>1, <2>3 DEF KeyOf
    <3>2. QED
      BY <1>1, <2>1, <2>2, <3>1 DEF ControllerInv, WhatItDid, Settled, Says
  <2>4. QED
    BY <2>1, <2>3
<1>8. WhatItDid(c)'
  BY <1>2, <1>3, <1>6, <1>7, StandsStill DEF WhatItDid
<1>9. ASSUME NEW j \in Key, Holds(c, j) PROVE Holds(c, j)'
  <2>1. CASE j \in unsettled[c]
    BY <1>2, <2>1 DEF Holds
  <2>2. CASE KeyOf(c, j.action, begun[c][j.action]) = j /\ state[c][j.action] \in HeldStates
    <3>1. j.action \in Action
      BY KeyFields
    <3>2. j.action \notin ActionsOf(ch)
      BY <2>2 DEF Release, IsDone, HeldStates
    <3>3. KeyOf(c, j.action, begun[c][j.action])' = j
      BY <1>2, <1>4, <2>2, <3>1, <3>2 DEF KeyOf, HeldStates
    <3>4. QED
      BY <1>2, <2>2, <3>1, <3>2, <3>3 DEF Holds
  <2>3. QED
    BY <1>9, <2>1, <2>2 DEF Holds
<1>10. WhatItKnows(c)'
  BY <1>2, <1>3, <1>9, QuietKnows, StandsStill
<1>11. QED
  BY <1>5, <1>8, <1>10 DEF ControllerInv

LEMMA PlanKeeps ==
    ASSUME SafeInv, JournalStep, NEW c \in Controller, NEW ch \in Chain, Plan(c, ch)
    PROVE  ControllerInv(c)'
<1>1. /\ WalkClear(c)' /\ Intends(c)' /\ pc'[c].at \notin {"intent", "running"}
  BY PlansClear
<1>2. /\ UNCHANGED <<log, durable, up, tail, unsettled, recording, landedEvent, handed>>
      /\ UNCHANGED <<bound, state, begun>>
      /\ c \in up
  BY DEF Plan, AtRest, memory, held, fold, world, transition
<1>3. /\ Bound(c)' /\ Delivered(c)' /\ Settled(c)'
      /\ \A j \in Key : Holds(c, j) => Holds(c, j)'
  BY <1>2, NoEntryMoves
<1>4. WhatItKnows(c)'
  BY <1>1, <1>2, <1>3, QuietKnows
<1>5. QED
  BY <1>1, <1>2, <1>3, <1>4 DEF ControllerInv, WhereItIs, WhatItDid, Stopped

(* A tick that stops with nothing changed. *)
LEMMA DropKeeps ==
    ASSUME SafeInv, JournalStep, NEW c \in Controller, DropTick(c)
    PROVE  ControllerInv(c)'
<1>1. pc'[c] = Idle
  BY SafeParts, LogTypes DEF DropTick, Stop, MemoryOK, PcTypeOK
<1>2. /\ UNCHANGED <<log, durable, up, tail, unsettled, recording, landedEvent, handed>>
      /\ UNCHANGED <<bound, state, begun>>
      /\ c \in up
  BY DEF DropTick, Startable, Reached, memory, held, fold, world, transition
<1>3. /\ Bound(c)' /\ Delivered(c)' /\ Settled(c)'
      /\ \A j \in Key : Holds(c, j) => Holds(c, j)'
  BY <1>2, NoEntryMoves
<1>4. WhatItKnows(c)'
  BY <1>1, <1>2, <1>3, QuietKnows, StandsStill
<1>5. QED
  BY <1>1, <1>2, <1>3, <1>4, StandsStill DEF ControllerInv, WhereItIs, WhatItDid, Stopped

LEMMA SkipKeeps ==
    ASSUME SafeInv, JournalStep, NEW c \in Controller, SkipEntry(c)
    PROVE  ControllerInv(c)'
<1> DEFINE a == Here(c)
<1>1. pc[c] # Idle /\ pc[c].at = "walk" /\ c \in up
  BY DEF SkipEntry, Reached, Idle
<1>2. /\ pc[c].chain \in Chain /\ a \in Action /\ a \in ActionsOf(pc[c].chain)
      /\ bound[c][pc[c].chain] \in Input /\ WalkClear(c)
  BY <1>1, WalkFacts
<1>3. /\ UNCHANGED <<log, durable, up, tail, unsettled, recording, landedEvent, handed>>
      /\ UNCHANGED <<bound, begun>>
      /\ pc'[c] = WalkOn(c)
  BY SafeParts, LogTypes DEF SkipEntry, StateBecomes, memory, held, fold, world,
      MemoryOK, PcTypeOK
<1>4. Moves(c, a) /\ state'[c][a] = "Skipped"
  BY <1>2, StateMoves DEF SkipEntry
<1>5. state[c][a] \notin HeldStates
  <2>1. state[c][a] \in AheadStates
    BY <1>1, <1>2 DEF WalkClear, StateOf, Here
  <2>2. QED
    BY <2>1 DEF SkipEntry, AheadStates, HeldStates, IsRecordingFailed
<1> HIDE DEF a
<1>6. Bound(c)' /\ Delivered(c)' /\ Settled(c)'
  BY <1>2, <1>3, <1>4, EntryMoves, NoInputAssumption DEF FailedStates
<1>7. \A j \in Key : Holds(c, j) => Holds(c, j)'
  BY <1>3, <1>4, <1>5, MovedHolds
<1>8. /\ WalkClear(c)' /\ Intends(c)'
      /\ pc'[c].at \notin {"intent", "running"}
  BY <1>1, <1>3, <1>4, WalksOnClear DEF Moves, a, PassedStates
<1>9. WhatItKnows(c)'
  BY <1>3, <1>7, <1>8, QuietKnows
<1>10. QED
  BY <1>1, <1>3, <1>6, <1>8, <1>9 DEF ControllerInv, WhereItIs, WhatItDid, Stopped

LEMMA ExpireKeeps ==
    ASSUME SafeInv, JournalStep, NEW c \in Controller, Expire(c)
    PROVE  ControllerInv(c)'
<1>0. PICK a : a = Here(c)
  OBVIOUS
<1>1. pc[c] # Idle /\ pc[c].at = "walk" /\ c \in up
  BY DEF Expire, Startable, Reached, Idle
<1>2. /\ pc[c].chain \in Chain /\ a \in Action /\ a \in ActionsOf(pc[c].chain)
      /\ bound[c][pc[c].chain] \in Input
  BY <1>0, <1>1, WalkFacts
<1>3. /\ UNCHANGED <<log, durable, up, tail, unsettled, recording, landedEvent, handed>>
      /\ UNCHANGED <<bound, begun>>
      /\ pc'[c] = Idle
  BY SafeParts, LogTypes DEF Expire, Stop, StateBecomes, memory, held, fold, world,
      MemoryOK, PcTypeOK
<1>4. Moves(c, a) /\ state'[c][a] = "GivenUp" /\ state[c][a] = "DefinitelyFailed"
  BY <1>0, <1>2, StateMoves DEF Expire
<1>5. begun[c][a] # 0 => Says(DurableLog, KeyOf(c, a, begun[c][a]), "NotApplied")
  BY <1>2, <1>4, SafeParts DEF ControllerInv, WhatItDid, Settled
<1>6. begun[c][a] # 0 => Says(DurableLog, KeyOf(c, a, begun[c][a]), "NotApplied")'
  BY <1>3, <1>5 DEF DurableLog, Says, KeyOf
<1>7. Bound(c)' /\ Delivered(c)' /\ Settled(c)'
  BY <1>2, <1>3, <1>4, <1>6, EntryMoves, NoInputAssumption DEF FailedStates
<1>8. \A j \in Key : Holds(c, j) => Holds(c, j)'
  BY <1>3, <1>4, MovedHolds DEF HeldStates
<1>9. WhatItKnows(c)'
  BY <1>3, <1>8, QuietKnows, StandsStill
<1>10. QED
  BY <1>1, <1>3, <1>7, <1>9, StandsStill DEF ControllerInv, WhereItIs, WhatItDid, Stopped

LEMMA UnsettledKeeps ==
    ASSUME SafeInv, JournalStep, NEW c \in Controller, ReturnUnsettled(c)
    PROVE  ControllerInv(c)'
<1> DEFINE a == Here(c)
<1>1. pc[c] # Idle /\ pc[c].at = "running" /\ c \in up
  BY DEF ReturnUnsettled, Running, Idle
<1>2. /\ pc[c].chain \in Chain /\ a \in Action /\ a \in ActionsOf(pc[c].chain)
      /\ bound[c][pc[c].chain] \in Input
  BY <1>1, WalkFacts
<1>3. /\ UNCHANGED <<log, durable, up, tail, unsettled, recording, landedEvent, handed>>
      /\ UNCHANGED <<bound, begun>>
      /\ pc'[c] = Idle
  BY SafeParts, LogTypes DEF ReturnUnsettled, Stop, StateBecomes, memory, held, fold, world,
      MemoryOK, PcTypeOK
<1>4. Moves(c, a) /\ state'[c][a] = "OutcomeUnknown"
  BY <1>2, StateMoves DEF ReturnUnsettled
<1> HIDE DEF a
<1>5. Bound(c)' /\ Delivered(c)' /\ Settled(c)'
  BY <1>2, <1>3, <1>4, EntryMoves, NoInputAssumption DEF FailedStates
<1>6. \A j \in Key : Holds(c, j) => Holds(c, j)'
  BY <1>3, <1>4, MovedHolds DEF HeldStates
<1>7. WhatItKnows(c)'
  BY <1>3, <1>6, QuietKnows, StandsStill
<1>8. QED
  BY <1>1, <1>3, <1>5, <1>7, StandsStill DEF ControllerInv, WhereItIs, WhatItDid, Stopped

-----------------------------------------------------------------------------
(* The steps that settle an attempt, or fail to. *)

LEMMA SettlementMoves ==
    ASSUME SafeInv, JournalStep, NEW c \in Controller, c \in up, up' = up,
           NEW ch \in Chain, NEW a, a \in ActionsOf(ch), bound[c][ch] # NoInput,
           NEW k, k = KeyOf(c, a, begun[c][a]), NEW e \in Evidence, NEW ok \in BOOLEAN,
           EnsureOutcome(c, k, e, ok), Moves(c, a), handed' = handed,
           unsettled'[c] = unsettled[c], recording'[c] = recording[c],
           pc'[c].at \notin {"intent", "running"},
           ok => \/ e = "Applied" /\ state'[c][a] = "Succeeded"
                 \/ e = "NotApplied" /\ state'[c][a] \in FailedStates \cup {"NotStarted"},
           ~ok => /\ state'[c][a] \in HeldStates
                  /\ state'[c][a] = "AppliedUnrecorded" => k \in handed
    PROVE  Bound(c)' /\ Delivered(c)' /\ Settled(c)' /\ WhatItKnows(c)'
<1>1. ok => Says(DurableLog, k, e)'
  BY SettlementWrites
<1>2. KeyOf(c, a, begun[c][a])' = k
  BY DEF Moves, KeyOf
<1>3. ok => Says(DurableLog, KeyOf(c, a, begun[c][a]), e)'
  BY <1>1, <1>2 DEF Says
<1>4. Bound(c)' /\ Delivered(c)' /\ Settled(c)'
  <2>1. CASE ok
    <3>1. /\ state'[c][a] # "AppliedUnrecorded"
          /\ state'[c][a] = "Succeeded" => e = "Applied"
          /\ state'[c][a] \in FailedStates => e = "NotApplied"
      BY <2>1 DEF FailedStates
    <3>2. begun'[c] = begun[c]
      BY DEF Moves
    <3>3. /\ state'[c][a] = "Succeeded" =>
               Says(DurableLog, KeyOf(c, a, begun[c][a]), "Applied")'
          /\ state'[c][a] \in FailedStates =>
               Says(DurableLog, KeyOf(c, a, begun[c][a]), "NotApplied")'
      BY <1>3, <2>1, <3>1
    <3>4. QED
      BY <3>1, <3>3, EntryMoves
  <2>2. CASE ~ok
    BY <2>2, EntryMoves DEF HeldStates, FailedStates
  <2>3. QED
    BY <2>1, <2>2
<1>5. ASSUME NEW j \in Key, Holds(c, j), ok => j # k PROVE Holds(c, j)'
  BY <1>5, MovedHolds
<1>6. WhatItKnows(c)'
  BY <1>5, SettlementKeeps
<1>7. QED
  BY <1>4, <1>6

(* A settlement that did not come through and moved no entry. *)
LEMMA SettlementRests ==
    ASSUME SafeInv, JournalStep, NEW c \in Controller, c \in up, up' = up,
           NEW k, NEW e \in Evidence, NEW ok \in BOOLEAN,
           EnsureOutcome(c, k, e, ok), handed' = handed,
           bound'[c] = bound[c], begun'[c] = begun[c], state'[c] = state[c],
           recording'[c] = recording[c],
           \A j \in unsettled[c] : ~(ok /\ j = k) => j \in unsettled'[c],
           pc'[c].at \notin {"intent", "running"}
    PROVE  Bound(c)' /\ Delivered(c)' /\ Settled(c)' /\ WhatItKnows(c)'
<1>1. Bound(c)' /\ Delivered(c)' /\ Settled(c)'
  BY NoEntryMoves
<1>2. ASSUME NEW j \in Key, Holds(c, j), ok => j # k PROVE Holds(c, j)'
  BY <1>2 DEF Holds, KeyOf
<1>3. WhatItKnows(c)'
  BY <1>2, SettlementKeeps
<1>4. QED
  BY <1>1, <1>3

LEMMA RetryKeeps ==
    ASSUME SafeInv, JournalStep, NEW c \in Controller, RetryRecording(c)
    PROVE  ControllerInv(c)'
<1>0. PICK a, ch, k, e : /\ a = Here(c) /\ ch = pc[c].chain
                         /\ k = KeyOf(c, a, begun[c][a]) /\ e = HeldEvidence(state[c][a])
  OBVIOUS
<1>1. pc[c] # Idle /\ pc[c].at = "walk" /\ c \in up
  BY DEF RetryRecording, Reached, Idle
<1>2. /\ ch \in Chain /\ a \in Action /\ a \in ActionsOf(ch)
      /\ bound[c][ch] \in Input /\ bound[c][ch] # NoInput
  BY <1>0, <1>1, WalkFacts, NoInputAssumption
<1>3. e \in Evidence
  BY <1>0 DEF HeldEvidence, Evidence
<1>4. PICK ok \in BOOLEAN :
          /\ EnsureOutcome(c, k, e, ok)
          /\ IF ~ok
             THEN Stop(c) /\ UNCHANGED transition
             ELSE /\ IF e = "Applied"
                     THEN StateBecomes(c, a, "Succeeded")
                     ELSE \E s \in AfterDefiniteFailure(begun[c][a]) : StateBecomes(c, a, s)
                  /\ pc' = [pc EXCEPT ![c] = WalkOn(c)]
  BY <1>0 DEF RetryRecording
<1>5. up' = up /\ handed' = handed /\ unsettled' = unsettled /\ recording' = recording
  BY DEF RetryRecording, held, world
<1>6. pc \in [Controller -> PC]
  BY SafeParts, LogTypes DEF MemoryOK, PcTypeOK
<1>7. CASE ~ok
  <2>1. pc'[c] = Idle /\ bound' = bound /\ begun' = begun /\ state' = state
    BY <1>4, <1>6, <1>7 DEF Stop, transition
  <2>2. Bound(c)' /\ Delivered(c)' /\ Settled(c)' /\ WhatItKnows(c)'
    BY <1>1, <1>3, <1>4, <1>5, <2>1, SettlementRests, StandsStill
  <2>3. QED
    BY <1>1, <1>5, <2>1, <2>2, StandsStill DEF ControllerInv, WhereItIs, WhatItDid, Stopped
<1>8. CASE ok
  <2>1. PICK s : /\ StateBecomes(c, a, s)
                 /\ \/ e = "Applied" /\ s = "Succeeded"
                    \/ e = "NotApplied" /\ s \in FailedStates
    BY <1>3, <1>4, <1>8 DEF AfterDefiniteFailure, FailedStates, Evidence
  <2>2. Moves(c, a) /\ state'[c][a] = s
    BY <1>2, <2>1, StateMoves
  <2>3. s \in PassedStates
    BY <2>1 DEF FailedStates, PassedStates
  <2>4. pc'[c] = WalkOn(c)
    BY <1>4, <1>6, <1>8
  <2>5. WalkClear(c)' /\ Intends(c)' /\ pc'[c].at \notin {"intent", "running"}
    BY <1>0, <1>1, <1>5, <2>2, <2>3, <2>4, WalksOnClear DEF Moves
  <2>6. Bound(c)' /\ Delivered(c)' /\ Settled(c)' /\ WhatItKnows(c)'
    BY <1>0, <1>1, <1>2, <1>3, <1>4, <1>5, <1>8, <2>1, <2>2, <2>5, SettlementMoves
  <2>7. QED
    BY <1>1, <1>5, <2>5, <2>6 DEF ControllerInv, WhereItIs, WhatItDid, Stopped
<1>9. QED
  BY <1>7, <1>8

LEMMA ReturnKeeps ==
    ASSUME SafeInv, JournalStep, NEW c \in Controller, ReturnOk(c) \/ ReturnNotApplied(c)
    PROVE  ControllerInv(c)'
<1>0. PICK a, ch, k : a = Here(c) /\ ch = pc[c].chain /\ k = InFlight(c)
  OBVIOUS
<1>1. pc[c] # Idle /\ pc[c].at = "running" /\ c \in up
  BY DEF ReturnOk, ReturnNotApplied, Running, Idle
<1>2. /\ ch \in Chain /\ a \in Action /\ a \in ActionsOf(ch)
      /\ bound[c][ch] \in Input /\ bound[c][ch] # NoInput
      /\ k = KeyOf(c, a, begun[c][a]) /\ k \in handed
  BY <1>0, <1>1, WalkFacts, NoInputAssumption DEF WalkClear, InFlight
<1>3. up' = up /\ handed' = handed /\ unsettled' = unsettled /\ recording' = recording
  BY DEF ReturnOk, ReturnNotApplied, held
<1>4. pc \in [Controller -> PC]
  BY SafeParts, LogTypes DEF MemoryOK, PcTypeOK
<1>5. CASE ReturnOk(c)
  <2>1. PICK ok \in BOOLEAN :
            /\ EnsureOutcome(c, k, "Applied", ok)
            /\ IF ok
               THEN /\ StateBecomes(c, a, "Succeeded")
                    /\ pc' = [pc EXCEPT ![c] = WalkOn(c)]
               ELSE StateBecomes(c, a, "AppliedUnrecorded") /\ Stop(c)
    BY <1>0, <1>5 DEF ReturnOk
  <2>2. /\ Moves(c, a)
        /\ state'[c][a] = IF ok THEN "Succeeded" ELSE "AppliedUnrecorded"
    BY <1>2, <2>1, StateMoves
  <2>3. WalkClear(c)' /\ Intends(c)' /\ pc'[c].at \notin {"intent", "running"}
    <3>1. CASE ok
      <4>1. pc'[c] = WalkOn(c)
        BY <1>4, <2>1, <3>1
      <4>2. state'[c][a] \in PassedStates
        BY <2>2, <3>1 DEF PassedStates
      <4>3. QED
        BY <1>0, <1>1, <1>3, <2>2, <4>1, <4>2, WalksOnClear DEF Moves
    <3>2. CASE ~ok
      <4>1. pc'[c] = Idle
        BY <1>4, <2>1, <3>2 DEF Stop
      <4>2. QED
        BY <4>1, StandsStill
    <3>3. QED
      BY <3>1, <3>2
  <2>4. Bound(c)' /\ Delivered(c)' /\ Settled(c)' /\ WhatItKnows(c)'
    <3>1. "Applied" \in Evidence
      BY DEF Evidence
    <3>2. /\ ok => state'[c][a] = "Succeeded"
          /\ ~ok => state'[c][a] \in HeldStates /\ k \in handed
      BY <1>2, <2>2 DEF HeldStates
    <3>3. QED
      BY <1>1, <1>2, <1>3, <2>1, <2>2, <2>3, <3>1, <3>2, SettlementMoves
  <2>5. QED
    BY <1>1, <1>3, <2>3, <2>4 DEF ControllerInv, WhereItIs, WhatItDid, Stopped
<1>6. CASE ReturnNotApplied(c)
  <2>1. PICK ok \in BOOLEAN :
            /\ EnsureOutcome(c, k, "NotApplied", ok)
            /\ IF ok
               THEN \E s \in AfterDefiniteFailure(begun[c][a]) \cup {"GivenUp"} :
                        StateBecomes(c, a, s)
               ELSE StateBecomes(c, a, "NotAppliedUnrecorded")
    BY <1>0, <1>6 DEF ReturnNotApplied
  <2>2. PICK s : /\ StateBecomes(c, a, s)
                 /\ ok => s \in FailedStates
                 /\ ~ok => s = "NotAppliedUnrecorded"
    BY <2>1 DEF AfterDefiniteFailure, FailedStates
  <2>3. Moves(c, a) /\ state'[c][a] = s
    BY <1>2, <2>2, StateMoves
  <2>4. pc'[c] = Idle
    BY <1>4, <1>6 DEF ReturnNotApplied, Stop
  <2>5. Bound(c)' /\ Delivered(c)' /\ Settled(c)' /\ WhatItKnows(c)'
    <3>1. "NotApplied" \in Evidence
      BY DEF Evidence
    <3>2. ~ok => state'[c][a] \in HeldStates /\ state'[c][a] # "AppliedUnrecorded"
      BY <2>2, <2>3 DEF HeldStates
    <3>3. ok => state'[c][a] \in FailedStates
      BY <2>2, <2>3
    <3>4. QED
      BY <1>1, <1>2, <1>3, <2>1, <2>3, <2>4, <3>1, <3>2, <3>3, SettlementMoves, StandsStill
  <2>6. QED
    BY <1>1, <1>3, <2>4, <2>5, StandsStill DEF ControllerInv, WhereItIs, WhatItDid, Stopped
<1>7. QED
  BY <1>5, <1>6

LEMMA ResolveRecordingKeeps ==
    ASSUME SafeInv, JournalStep, NEW c \in Controller, NEW k \in Key, NEW e \in Evidence,
           ResolveRecording(c, k, e)
    PROVE  ControllerInv(c)'
<1>1. /\ pc'[c] = Idle /\ c \in up /\ up' = up
      /\ UNCHANGED <<log, tail, unsettled, handed, bound, state, begun>>
  BY DEF ResolveRecording, Offered, AtRest, transition
<1>2. FoldTypeOK /\ HeldTypeOK /\ WhatItKnows(c)
  BY SafeParts, LogTypes DEF MemoryOK, ControllerInv
<1>3. recording'[c] = recording[c] \ {<<k, e>>}
  BY <1>2 DEF ResolveRecording, HeldTypeOK
<1>4. /\ landedEvent[c] \subseteq landedEvent'[c]
      /\ e = "Applied" => <<k.action, k.input>> \in landedEvent'[c]
  BY <1>2 DEF ResolveRecording, FoldOutcome, FoldTypeOK
<1>5. /\ Bound(c)' /\ Delivered(c)' /\ Settled(c)'
      /\ \A j \in Key : Holds(c, j) => Holds(c, j)'
  BY <1>1, NoEntryMoves
<1>6. AloneAt(c)' /\ NotAhead(c)'
  BY <1>1, <1>2, StandsStill DEF WhatItKnows, AloneAt, NotAhead
<1>7. Knows(c)'
  BY <1>1, <1>2, <1>5 DEF WhatItKnows, Knows, CatchesUp, OneAction
<1>8. Landings(c)'
  <2> SUFFICES ASSUME KeepsUp, NEW j \in Key, j.input \in EventInput,
                      Says(tail'[c], j, "Applied")
               PROVE  \/ <<j.action, j.input>> \in landedEvent'[c]
                      \/ <<j, "Applied">> \in recording'[c]
    BY DEF Landings, KeepsUp, OneEvent, OneAction
  <2>1. \/ <<j.action, j.input>> \in landedEvent[c]
        \/ <<j, "Applied">> \in recording[c]
    BY <1>1, <1>2 DEF WhatItKnows, Landings
  <2>2. CASE <<j, "Applied">> = <<k, e>>
    BY <1>4, <2>2
  <2>3. CASE <<j, "Applied">> # <<k, e>>
    BY <1>3, <1>4, <2>1, <2>3
  <2>4. QED
    BY <2>2, <2>3
<1>9. QED
  BY <1>1, <1>5, <1>6, <1>7, <1>8, StandsStill
     DEF ControllerInv, WhereItIs, WhatItKnows, WhatItDid, Stopped

LEMMA ResolveKeeps ==
    ASSUME SafeInv, JournalStep, NEW c \in Controller, Resolve(c)
    PROVE  ControllerInv(c)'
<1>1. PICK k \in Key, e \in Evidence :
          \/ ResolveRecovered(c, k, e) \/ ResolveRecording(c, k, e)
          \/ ResolveHeld(c, k, e) \/ ResolveRepeated(c, k, e)
  BY DEF Resolve
<1>2. /\ pc'[c] = Idle /\ c \in up /\ up' = up /\ handed' = handed
  BY <1>1 DEF ResolveRecovered, ResolveRecording, ResolveHeld, ResolveRepeated, Classified,
      Offered, AtRest
<1>3. HeldTypeOK /\ Bound(c)
  BY SafeParts, LogTypes DEF MemoryOK, ControllerInv, WhereItIs
<1>4. SUFFICES ASSUME ~ResolveRecording(c, k, e)
               PROVE  Bound(c)' /\ Delivered(c)' /\ Settled(c)' /\ WhatItKnows(c)'
  BY <1>2, ResolveRecordingKeeps, StandsStill
     DEF ControllerInv, WhereItIs, WhatItDid, Stopped
<1>5. CASE ResolveRecovered(c, k, e)
  <2>1. PICK ok \in BOOLEAN :
            /\ EnsureOutcome(c, k, e, ok)
            /\ unsettled' = IF ok THEN [unsettled EXCEPT ![c] = @ \ {k}] ELSE unsettled
    BY <1>5 DEF ResolveRecovered
  <2>2. UNCHANGED <<recording, bound, state, begun>>
    BY <1>5 DEF ResolveRecovered, transition
  <2>3. \A j \in unsettled[c] : ~(ok /\ j = k) => j \in unsettled'[c]
    BY <1>3, <2>1 DEF HeldTypeOK
  <2>4. QED
    BY <1>2, <2>1, <2>2, <2>3, SettlementRests, StandsStill
<1>6. CASE ResolveHeld(c, k, e)
  <2>1. PICK a : a = k.action
    OBVIOUS
  <2>2. PICK ok \in BOOLEAN :
            /\ EnsureOutcome(c, k, e, ok)
            /\ IF ok
               THEN StateBecomes(c, a, IF e = "Applied" THEN "Succeeded" ELSE "NotStarted")
               ELSE UNCHANGED transition
    BY <1>6, <2>1 DEF ResolveHeld
  <2>3. unsettled' = unsettled /\ recording' = recording
    BY <1>6 DEF ResolveHeld, held
  <2>4. CASE ok
    <3>1. a \in Action /\ state[c][a] # "NotStarted"
      BY <1>6, <2>1, KeyFields DEF ResolveHeld, IsSettleable, IsAbandoned
    <3>2. PICK ch \in Chain : a \in ActionsOf(ch) /\ bound[c][ch] # NoInput
      BY <1>3, <3>1 DEF Bound
    <3>3. k = KeyOf(c, a, begun[c][a])
      <4>1. k = [action |-> k.action, input |-> k.input, attempt |-> k.attempt]
        BY KernelAssumption
      <4>2. bound[c][ChainOf(a)] = k.input /\ begun[c][a] = k.attempt
        BY <1>6, <2>1 DEF ResolveHeld
      <4>3. QED
        BY <2>1, <4>1, <4>2 DEF KeyOf
    <3>4. Moves(c, a) /\ state'[c][a] = IF e = "Applied" THEN "Succeeded" ELSE "NotStarted"
      BY <2>2, <2>4, <3>1, StateMoves
    <3>5. \/ e = "Applied" /\ state'[c][a] = "Succeeded"
          \/ e = "NotApplied" /\ state'[c][a] \in FailedStates \cup {"NotStarted"}
      BY <3>4 DEF Evidence
    <3>6. QED
      BY <1>2, <2>2, <2>3, <2>4, <3>2, <3>3, <3>4, <3>5, SettlementMoves, StandsStill
  <2>5. CASE ~ok
    <3>1. UNCHANGED <<bound, state, begun>>
      BY <2>2, <2>5 DEF transition
    <3>2. QED
      BY <1>2, <2>2, <2>3, <2>5, <3>1, SettlementRests, StandsStill
  <2>6. QED
    BY <2>4, <2>5
<1>7. CASE ResolveRepeated(c, k, e)
  <2>1. PICK ok \in BOOLEAN : EnsureOutcome(c, k, e, ok)
    BY <1>7 DEF ResolveRepeated
  <2>2. UNCHANGED <<unsettled, recording, bound, state, begun>>
    BY <1>7 DEF ResolveRepeated, held, transition
  <2>3. QED
    BY <1>2, <2>1, <2>2, SettlementRests, StandsStill
<1>8. QED
  BY <1>1, <1>4, <1>5, <1>6, <1>7

-----------------------------------------------------------------------------
(* The steps that walk an attempt up its ladder, one append at the fence.  *)

LEMMA RungKnows ==
    ASSUME SafeInv, NEW c \in Controller, NEW e \in EffectEvent(Key),
           tail[c] = log, log' = Append(log, e), tail'[c] \in {log, log'}, up' = up,
           e.kind \in {"IntentAdmitted", "DispatchPrepared"},
           recording'[c] = recording[c], landedEvent'[c] = landedEvent[c],
           \A j \in Key : Holds(c, j) => Holds(c, j)',
           tail'[c] = log' /\ e.kind = "DispatchPrepared" => Holds(c, e.key)',
           pc'[c].at \in {"intent", "running"} => tail'[c] = log'
    PROVE  WhatItKnows(c)'
<1>1. /\ log \in Seq(EffectEvent(Key)) /\ WhatItKnows(c)
      /\ log' \in Seq(EffectEvent(Key)) /\ Len(log') = Len(log) + 1 /\ Len(log) \in Nat
  BY SafeParts, AppendFacts DEF ControllerInv
<1>2. \A j : ~HasOutcome(log', j) => ~HasOutcome(log, j)
  BY <1>1, UnknownAfterAppend
<1>3. AloneAt(c)'
  BY <1>1 DEF WhatItKnows, AloneAt
<1>4. NotAhead(c)'
  BY <1>1 DEF NotAhead
<1>5. ASSUME CatchesUp, NEW j \in Key, IsUncertain(tail'[c], j), ~HasOutcome(log', j)
      PROVE  Holds(c, j)'
  <2>1. CASE IsUncertain(log, j)
    <3>1. Holds(c, j)
      BY <1>1, <1>5, <2>1 DEF WhatItKnows, Knows, IsUncertain
    <3>2. QED
      BY <3>1
  <2>2. CASE ~IsUncertain(log, j)
    <3>1. tail'[c] = log'
      BY <1>5, <2>2
    <3>2. IsUncertain(Append(log, e), j)
      BY <1>5, <3>1
    <3>3. e.key = j /\ e.kind = "DispatchPrepared"
      BY <1>1, <2>2, <3>2, UnknownAfterAppend
    <3>4. QED
      BY <3>1, <3>3
  <2>3. QED
    BY <2>1, <2>2
<1>6. Knows(c)'
  BY <1>5 DEF Knows, CatchesUp, OneAction
<1>7. Landings(c)'
  <2>1. ASSUME NEW j, Says(log', j, "Applied") PROVE Says(log, j, "Applied")
    <3>1. e # OutcomeObserved(j, "Applied")
      BY DEF OutcomeObserved
    <3>2. QED
      BY <1>1, <2>1, <3>1, SaysAppend
  <2>2. QED
    BY <1>1, <2>1 DEF WhatItKnows, Landings, KeepsUp, OneEvent, OneAction
<1>8. QED
  BY <1>3, <1>4, <1>6, <1>7 DEF WhatItKnows

(* An entry an attempt may start for. *)
LEMMA StartFacts ==
    ASSUME SafeInv, NEW c \in Controller, Startable(c), Mint(c, Here(c)) <= MaxAttempt
    PROVE  /\ pc[c] # Idle /\ pc[c].at = "walk" /\ c \in up
           /\ KeyOf(c, Here(c), Mint(c, Here(c))) \in Key
           /\ IntentAdmitted(KeyOf(c, Here(c), Mint(c, Here(c)))) \in EffectEvent(Key)
           /\ WalkClear(c) /\ bound[c][pc[c].chain] \in Input
<1>1. pc[c] # Idle /\ pc[c].at = "walk" /\ c \in up
  BY DEF Startable, Reached, Idle
<1>2. KeyOf(c, Here(c), Mint(c, Here(c))) \in Key
  BY SafeParts, MintIsKey
<1>3. QED
  BY <1>1, <1>2, WalkFacts, IntentIsEvent

LEMMA BeginKeeps ==
    ASSUME SafeInv, JournalStep, NEW c \in Controller, BeginAttempt(c)
    PROVE  ControllerInv(c)'
<1>0. PICK e : e = IntentAdmitted(KeyOf(c, Here(c), Mint(c, Here(c))))
  OBVIOUS
<1>1. /\ pc[c] # Idle /\ pc[c].at = "walk" /\ c \in up
      /\ e \in EffectEvent(Key) /\ e.kind = "IntentAdmitted"
      /\ WalkClear(c) /\ bound[c][pc[c].chain] \in Input
  BY <1>0, StartFacts DEF BeginAttempt, IntentAdmitted
<1>2. /\ tail[c] = log /\ log' = Append(log, e) /\ durable' = Len(log) + 1
      /\ Len(log) + 3 <= Capacity
  BY <1>0 DEF BeginAttempt, Fenced, Commit, ReserveHandoffCapacity, HandoffRungs
<1>3. /\ UNCHANGED <<up, unsettled, recording, landedEvent, bound, state, begun, handed>>
  BY DEF BeginAttempt, held, transition, world
<1>4. /\ pc'[c] = [at |-> "intent", chain |-> pc[c].chain, next |-> pc[c].next, upto |-> pc[c].upto]
      /\ tail'[c] = log'
  BY SafeParts, LogTypes DEF BeginAttempt, Advance, MemoryOK, PcTypeOK, TailTypeOK
<1>5. /\ Bound(c)' /\ Delivered(c)' /\ Settled(c)'
      /\ \A j \in Key : Holds(c, j) => Holds(c, j)'
  BY <1>3, NoEntryMoves
<1>6. WhatItKnows(c)'
  BY <1>1, <1>2, <1>3, <1>4, <1>5, RungKnows
<1>7. WalkClear(c)'
  <2>1. state[c][Here(c)] \in {"NotStarted", "DefinitelyFailed"}
    BY DEF BeginAttempt, Startable
  <2>2. pc'[c] # Idle /\ pc'[c].at = "intent"
    BY <1>4 DEF Idle
  <2>3. /\ pc'[c].chain = pc[c].chain /\ pc'[c].next = pc[c].next /\ pc'[c].upto = pc[c].upto
    BY <1>4
  <2>4. \A i : StateOf(c, i)' = StateOf(c, i)
    BY <1>3, <2>3 DEF StateOf
  <2>5. \A a : Blocks(c, a)' <=> Blocks(c, a)
    BY <1>3, SameBlocks
  <2>6. StateOf(c, pc[c].next) \in {"NotStarted", "DefinitelyFailed"}
    BY <2>1 DEF StateOf, Here
  <2>7. QED
    BY <1>1, <1>3, <2>2, <2>3, <2>4, <2>5, <2>6 DEF WalkClear
<1>8. Intends(c)'
  <2>1. ~Retired(c)
    BY DEF BeginAttempt, Startable
  <2>2. bound[c][pc[c].chain] \in EventInput => <<Here(c), bound[c][pc[c].chain]>> \notin landedEvent[c]
    BY <2>1 DEF Retired, AppliedIn
  <2>3. Len(log') = Len(log) + 1 /\ Len(log) \in Nat
    BY <1>1, <1>2, SafeParts, AppendFacts
  <2>4. Here(c)' = Here(c) /\ pc'[c].chain = pc[c].chain
    BY <1>4 DEF Here
  <2>5. durable' = Len(log')
    BY <1>2, <2>3
  <2>6. Len(log') + 2 <= Capacity
    BY <1>2, <2>3, JournalAssumption
  <2>7. QED
    BY <1>3, <2>2, <2>4, <2>5, <2>6 DEF Intends
<1>9. QED
  BY <1>1, <1>3, <1>5, <1>6, <1>7, <1>8 DEF ControllerInv, WhereItIs, WhatItDid, Stopped

(* An append that landed and was not taken as a durable fact. *)
LEMMA UnacceptedKeeps ==
    ASSUME SafeInv, JournalStep, NEW c \in Controller, c \in up,
           NEW e \in EffectEvent(Key), e.kind \in {"IntentAdmitted", "DispatchPrepared"},
           tail[c] = log, log' = Append(log, e), Stop(c),
           UNCHANGED <<up, tail, unsettled, recording, landedEvent, bound, state, begun, handed>>
    PROVE  ControllerInv(c)'
<1>1. pc'[c] = Idle
  BY SafeParts, LogTypes DEF Stop, MemoryOK, PcTypeOK
<1>2. /\ WalkClear(c)' /\ Intends(c)' /\ pc'[c].at \notin {"intent", "running"}
  BY <1>1, StandsStill
<1>3. /\ Bound(c)' /\ Delivered(c)' /\ Settled(c)'
      /\ \A j \in Key : Holds(c, j) => Holds(c, j)'
  BY NoEntryMoves
<1>4. Len(log') # Len(log)
  BY SafeParts, AppendFacts
<1>5. WhatItKnows(c)'
  <2>1. tail'[c] = log /\ tail'[c] # log'
    BY <1>4
  <2>2. QED
    BY <1>2, <1>3, <2>1, RungKnows
<1>6. QED
  BY <1>2, <1>3, <1>5 DEF ControllerInv, WhereItIs, WhatItDid, Stopped

LEMMA IntentUnacceptedKeeps ==
    ASSUME SafeInv, JournalStep, NEW c \in Controller, IntentUnaccepted(c)
    PROVE  ControllerInv(c)'
<1>0. PICK e : e = IntentAdmitted(KeyOf(c, Here(c), Mint(c, Here(c))))
  OBVIOUS
<1>1. c \in up /\ e \in EffectEvent(Key) /\ e.kind = "IntentAdmitted"
  BY <1>0, StartFacts DEF IntentUnaccepted, IntentAdmitted
<1>2. tail[c] = log /\ log' = Append(log, e) /\ Stop(c)
  BY <1>0 DEF IntentUnaccepted, Fenced, Commit
<1>3. UNCHANGED <<up, tail, unsettled, recording, landedEvent, bound, state, begun, handed>>
  BY DEF IntentUnaccepted, held, transition, world
<1>4. QED
  BY <1>1, <1>2, <1>3, UnacceptedKeeps

(* What is prepared is the attempt the entry is at. *)
LEMMA PrepareFacts ==
    ASSUME SafeInv, NEW c \in Controller, c \in up, pc[c].at = "intent",
           NEW strong, Fenced(c, DispatchPrepared(Preparing(c)), strong)
    PROVE  /\ pc[c] # Idle /\ Here(c) \in Action /\ Preparing(c) \in Key
           /\ Preparing(c).action = Here(c)
           /\ Preparing(c).input = bound[c][pc[c].chain]
           /\ DispatchPrepared(Preparing(c)) \in EffectEvent(Key)
           /\ tail[c] = log /\ log' = Append(log, DispatchPrepared(Preparing(c)))
           /\ WalkClear(c) /\ Intends(c)
           /\ state[c][Here(c)] \in {"NotStarted", "DefinitelyFailed"}
<1>1. pc[c] # Idle
  BY DEF Idle
<1>2. Here(c) \in Action /\ ChainOf(Here(c)) = pc[c].chain /\ WalkClear(c)
  BY <1>1, WalkFacts
<1>3. /\ tail[c] = log /\ log' = Append(log, DispatchPrepared(Preparing(c)))
      /\ InOrder(log, DispatchPrepared(Preparing(c)))
  BY DEF Fenced, Commit
<1>4. Preparing(c) \in Key /\ DispatchPrepared(Preparing(c)) \in EffectEvent(Key)
  BY <1>3, SafeParts, LaterRungIsEvent DEF Evidence
<1>5. Preparing(c).action = Here(c) /\ Preparing(c).input = bound[c][pc[c].chain]
  BY <1>2 DEF Preparing, KeyOf
<1>6. StateOf(c, pc[c].next) \in {"NotStarted", "DefinitelyFailed"}
  BY <1>1, <1>2 DEF WalkClear
<1>7. QED
  BY <1>1, <1>2, <1>3, <1>4, <1>5, <1>6, SafeParts
     DEF StateOf, Here, ControllerInv, WhatItDid

LEMMA DispatchUnacceptedKeeps ==
    ASSUME SafeInv, JournalStep, NEW c \in Controller, DispatchUnaccepted(c)
    PROVE  ControllerInv(c)'
<1>0. PICK e : e = DispatchPrepared(Preparing(c))
  OBVIOUS
<1>1. PICK strong \in BOOLEAN : Fenced(c, e, strong)
  BY <1>0 DEF DispatchUnaccepted
<1>2. c \in up /\ pc[c].at = "intent" /\ Stop(c)
  BY DEF DispatchUnaccepted
<1>3. /\ e \in EffectEvent(Key) /\ tail[c] = log /\ log' = Append(log, e)
      /\ e.kind = "DispatchPrepared"
  BY <1>0, <1>1, <1>2, PrepareFacts DEF DispatchPrepared
<1>4. UNCHANGED <<up, tail, unsettled, recording, landedEvent, bound, state, begun, handed>>
  BY DEF DispatchUnaccepted, memory, held, fold, transition, world
<1>5. QED
  BY <1>2, <1>3, <1>4, UnacceptedKeeps

LEMMA DispatchKeeps ==
    ASSUME SafeInv, JournalStep, NEW c \in Controller, Dispatch(c)
    PROVE  ControllerInv(c)'
<1>0. PICK a, ch, k, e : /\ a = Here(c) /\ ch = pc[c].chain /\ k = Preparing(c)
                         /\ e = DispatchPrepared(k)
  OBVIOUS
<1>1. c \in up /\ pc[c].at = "intent" /\ pc[c] # Idle
  BY DEF Dispatch, Idle
<1>2. /\ a \in Action /\ ch \in Chain /\ a \in ActionsOf(ch) /\ ChainOf(a) = ch
      /\ bound[c][ch] \in Input /\ bound[c][ch] # NoInput
      /\ pc[c].next \in 1..pc[c].upto /\ pc[c].upto <= Len(Entries[ch])
      /\ Len(Entries[ch]) \in Nat /\ pc[c].upto \in Nat
  BY <1>0, <1>1, WalkFacts, EntryFacts, NoInputAssumption
<1>3. /\ k \in Key /\ k.action = a /\ k.input = bound[c][ch]
      /\ e \in EffectEvent(Key) /\ tail[c] = log /\ log' = Append(log, e)
      /\ e.key = k /\ e.kind = "DispatchPrepared"
      /\ WalkClear(c) /\ state[c][a] \in {"NotStarted", "DefinitelyFailed"}
  BY <1>0, <1>1, PrepareFacts DEF Dispatch, DispatchPrepared
<1>4. TransitionTypeOK /\ PcTypeOK /\ TailTypeOK
  BY SafeParts, LogTypes DEF MemoryOK
<1>5. /\ UNCHANGED <<up, unsettled, recording, landedEvent, bound>>
      /\ handed' = handed \cup {k}
      /\ tail'[c] = log'
      /\ begun'[c][a] = k.attempt /\ state'[c][a] = "Unrecorded"
      /\ \A b \in Action : b # a => begun'[c][b] = begun[c][b] /\ state'[c][b] = state[c][b]
  BY <1>0, <1>2, <1>4 DEF Dispatch, held, fold, TransitionTypeOK, TailTypeOK
<1>6. /\ pc'[c].at = "running" /\ pc'[c] # Idle
      /\ pc'[c].chain = ch /\ pc'[c].next = pc[c].next /\ pc'[c].upto = pc[c].upto
  BY <1>0, <1>4 DEF Dispatch, Advance, PcTypeOK, Idle
<1>7. KeyOf(c, a, begun[c][a])' = k
  <2>1. k = [action |-> k.action, input |-> k.input, attempt |-> k.attempt]
    BY <1>3, KernelAssumption
  <2>2. begun'[c][a] = k.attempt /\ bound'[c][ChainOf(a)] = k.input
    BY <1>2, <1>3, <1>5
  <2>3. QED
    BY <1>3, <2>1, <2>2 DEF KeyOf
<1>8. \A b \in Action : b # a => KeyOf(c, b, begun[c][b])' = KeyOf(c, b, begun[c][b])
  BY <1>5 DEF KeyOf
<1>9. ASSUME NEW j \in Key, Holds(c, j) PROVE Holds(c, j)'
  <2>1. CASE j \in unsettled[c]
    BY <1>5, <2>1 DEF Holds
  <2>2. CASE KeyOf(c, j.action, begun[c][j.action]) = j /\ state[c][j.action] \in HeldStates
    <3>1. j.action \in Action /\ j.action # a
      BY <1>3, <2>2, KeyFields DEF HeldStates
    <3>2. QED
      BY <1>5, <1>8, <2>2, <3>1 DEF Holds
  <2>3. QED
    BY <1>9, <2>1, <2>2 DEF Holds
<1>10. Holds(c, k)'
  BY <1>3, <1>5, <1>7 DEF Holds, HeldStates
<1>11. WhatItKnows(c)'
  BY <1>1, <1>3, <1>5, <1>9, <1>10, RungKnows
<1>12. Bound(c)'
  <2>1. Bound(c)
    BY SafeParts DEF ControllerInv, WhereItIs
  <2>2. QED
    BY <1>2, <1>5, <2>1 DEF Bound
<1>13. Delivered(c)'
  <2>1. Delivered(c)
    BY SafeParts DEF ControllerInv, WhatItDid
  <2>2. QED
    BY <1>5, <1>8, <2>1 DEF Delivered
<1>14. Settled(c)'
  <2>1. Settled(c) /\ KernelInv
    BY SafeParts DEF ControllerInv, WhatItDid
  <2>2. ASSUME NEW b \in Action, b # a, begun'[c][b] # 0, NEW v,
               Says(DurableLog, KeyOf(c, b, begun[c][b]), v)
        PROVE  Says(DurableLog, KeyOf(c, b, begun[c][b]), v)'
    <3>1. PICK x : x = KeyOf(c, b, begun[c][b])
      OBVIOUS
    <3>2. Says(DurableLog, x, v)'
      BY <2>1, <2>2, <3>1, DurablySaidStays
    <3>3. x = KeyOf(c, b, begun[c][b])'
      BY <1>8, <2>2, <3>1
    <3>4. QED
      BY <3>2, <3>3 DEF Says, DurableLog
  <2>3. QED
    BY <1>5, <2>1, <2>2 DEF Settled
<1>15. WalkClear(c)'
  <2>1. \A b : Blocks(c, b)' <=> Blocks(c, b)
    BY <1>5, SameBlocks
  <2>2. ASSUME NEW i \in 1..pc[c].upto, i # pc[c].next
        PROVE  StateOf(c, i)' = StateOf(c, i)
    <3>1. i \in 1..Len(Entries[ch]) /\ pc[c].next \in 1..Len(Entries[ch])
      BY <1>2
    <3>2. Entries[ch][i] \in Action /\ Entries[ch][i] # a
      BY <1>0, <1>2, <2>2, <3>1, EntryFacts DEF Here
    <3>3. QED
      BY <1>0, <1>5, <1>6, <3>2 DEF StateOf
  <2>3. StateOf(c, pc[c].next)' = "Unrecorded"
    BY <1>0, <1>5, <1>6 DEF StateOf, Here
  <2>4. Here(c)' = a
    BY <1>0, <1>6 DEF Here
  <2>5. InFlight(c)' = KeyOf(c, a, begun[c][a])'
    BY <2>4 DEF InFlight, KeyOf
  <2>6. InFlight(c)' \in handed'
    BY <1>5, <1>7, <2>5
  <2>7. /\ bound[c][ch] # NoInput
        /\ \A i \in 1..pc[c].upto :
            /\ ~Blocks(c, Entries[ch][i])
            /\ i < pc[c].next => StateOf(c, i) \in PassedStates
            /\ i > pc[c].next => StateOf(c, i) \in AheadStates
    BY <1>0, <1>1, <1>2, <1>3 DEF WalkClear
  <2>8. \A i \in 1..pc[c].upto :
            /\ ~Blocks(c, Entries[ch][i])'
            /\ i < pc[c].next => StateOf(c, i)' \in PassedStates
            /\ i > pc[c].next => StateOf(c, i)' \in AheadStates
    BY <1>2, <2>1, <2>2, <2>7
  <2>9. StateOf(c, pc[c].next)' = "Unrecorded" /\ bound'[c][ch] # NoInput
    BY <1>5, <2>3, <2>7
  <2>10. QED
    BY <1>2, <1>6, <2>6, <2>8, <2>9 DEF WalkClear
<1>16. Intends(c)'
  BY <1>6 DEF Intends
<1>17. QED
  BY <1>1, <1>5, <1>11, <1>12, <1>13, <1>14, <1>15, <1>16
     DEF ControllerInv, WhereItIs, WhatItDid, Stopped

-----------------------------------------------------------------------------
(* A controller that stops, and one that is assembled.                     *)

LEMMA CrashKeeps ==
    ASSUME SafeInv, NEW c \in Controller, Crash(c)
    PROVE  ControllerInv(c)'
<1>1. MemoryOK /\ log \in Seq(EffectEvent(Key))
  BY SafeParts, LogTypes
<1>2. /\ tail'[c] = <<>> /\ unsettled'[c] = {} /\ pc'[c] = Idle /\ c \notin up'
      /\ \A a \in Action : state'[c][a] = "NotStarted" /\ begun'[c][a] = 0
      /\ log' = log
  BY <1>1 DEF Crash, Blank, MemoryOK, TailTypeOK, HeldTypeOK, PcTypeOK, TransitionTypeOK
<1>3. WalkClear(c)' /\ Intends(c)'
  BY <1>2, StandsStill
<1>4. Stopped(c)' /\ Bound(c)'
  BY <1>2 DEF Stopped, Bound
<1>5. AloneAt(c)' /\ NotAhead(c)'
  <2>1. Len(<<>>) = 0 /\ Len(log) \in Nat
    BY <1>1
  <2>2. QED
    BY <1>2, <2>1 DEF AloneAt, NotAhead
<1>6. Knows(c)' /\ Landings(c)'
  <2>1. \A k : Walked(<<>>, k) = {} /\ ~Says(<<>>, k, "Applied")
    BY DEF Walked, Says
  <2>2. QED
    BY <1>2, <2>1 DEF Knows, Landings, IsUncertain, IsHandedOff
<1>7. Delivered(c)' /\ Settled(c)'
  BY <1>2 DEF Delivered, Settled
<1>8. QED
  BY <1>3, <1>4, <1>5, <1>6, <1>7 DEF ControllerInv, WhereItIs, WhatItKnows, WhatItDid

LEMMA AssembleKeeps ==
    ASSUME SafeInv, JournalStep, NEW c \in Controller, NEW refused \in SUBSET Recorded,
           Assemble(c, refused)
    PROVE  ControllerInv(c)'
<1>1. /\ MemoryOK /\ log \in Seq(EffectEvent(Key)) /\ ControllerInv(c)
  BY SafeParts, LogTypes
<1>2. /\ c \notin up /\ up' = up \cup {c} /\ (Exclusive => up = {})
      /\ UNCHANGED <<log, bound, state, begun, pc, handed>> /\ tail'[c] = log
      /\ unsettled'[c] = {k \in Recovered : IsUncertain(log, k)}
      /\ recording'[c] = {r \in refused \X Evidence : Says(log, r[1], r[2])}
      /\ landedEvent'[c] = {<<k.action, k.input>> : k \in
                              {j \in Recorded \ refused : Says(log, j, "Applied")}}
  BY <1>1 DEF Assemble, transition, world, MemoryOK, TailTypeOK, HeldTypeOK, FoldTypeOK
<1>3. pc'[c] = Idle
  BY <1>1, <1>2 DEF ControllerInv, WhereItIs, Stopped
<1>4. WalkClear(c)' /\ Intends(c)' /\ pc'[c].at \notin {"intent", "running"}
  BY <1>3, StandsStill
<1>5. Bound(c)' /\ Delivered(c)' /\ Settled(c)'
  BY <1>2, NoEntryMoves
<1>6. Stopped(c)'
  BY <1>2 DEF Stopped
<1>7. AloneAt(c)' /\ NotAhead(c)'
  <2>1. Len(log) \in Nat
    BY <1>1
  <2>2. QED
    BY <1>2, <1>4, <2>1 DEF AloneAt, NotAhead
<1>8. Knows(c)'
  <2>1. \A k \in Key : IsUncertain(log, k) => k \in unsettled'[c]
    BY <1>2 DEF Recovered, IsUncertain, IsHandedOff
  <2>2. QED
    BY <1>2, <2>1 DEF Knows, Holds
<1>9. Landings(c)'
  <2>1. ASSUME NEW k \in Key, Says(log, k, "Applied")
        PROVE  \/ <<k.action, k.input>> \in landedEvent'[c]
               \/ <<k, "Applied">> \in recording'[c]
    <3>1. k \in Recorded
      BY <1>1, <2>1, SaysIsOutcome DEF Recorded
    <3>2. CASE k \in refused
      <4>1. <<k, "Applied">> \in refused \X Evidence
        BY <3>2 DEF Evidence
      <4>2. QED
        BY <1>2, <2>1, <4>1
    <3>3. CASE k \notin refused
      BY <1>2, <2>1, <3>1, <3>3
    <3>4. QED
      BY <3>2, <3>3
  <2>2. QED
    BY <1>2, <2>1 DEF Landings
<1>10. QED
  BY <1>4, <1>5, <1>6, <1>7, <1>8, <1>9 DEF ControllerInv, WhereItIs, WhatItKnows, WhatItDid

LEMMA LoseKeeps ==
    ASSUME SafeInv, JournalStep, LoseSuffix, NEW c \in Controller
    PROVE  ControllerInv(c)'
<1>1. ControllerInv(c) /\ log' \in Seq(EffectEvent(Key))
  <2>1. PICK n \in durable..Len(log) : log' = SubSeq(log, 1, n)
    BY DEF LoseSuffix, Lose
  <2>2. n \in 0..Len(log)
    BY SafeParts
  <2>3. QED
    BY <2>1, <2>2, SafeParts, SubSeqFacts
<1>2. /\ up = {} /\ up' = up
      /\ UNCHANGED <<tail, unsettled, recording, landedEvent, bound, state, begun, pc, handed>>
  BY DEF LoseSuffix, memory, held, fold, transition, world
<1>3. pc'[c] = Idle /\ tail'[c] = <<>> /\ Stopped(c)'
  BY <1>1, <1>2 DEF ControllerInv, WhereItIs, Stopped
<1>4. WalkClear(c)' /\ Intends(c)'
  BY <1>3, StandsStill
<1>5. Bound(c)' /\ Delivered(c)' /\ Settled(c)'
  BY <1>2, NoEntryMoves
<1>6. AloneAt(c)' /\ NotAhead(c)'
  <2>1. Len(<<>>) = 0 /\ Len(log') \in Nat
    BY <1>1
  <2>2. QED
    BY <1>2, <1>3, <2>1 DEF AloneAt, NotAhead
<1>7. Knows(c)' /\ Landings(c)'
  <2>1. \A k : Walked(<<>>, k) = {} /\ ~Says(<<>>, k, "Applied")
    BY DEF Walked, Says
  <2>2. QED
    BY <1>3, <2>1 DEF Knows, Landings, IsUncertain, IsHandedOff
<1>8. QED
  BY <1>3, <1>4, <1>5, <1>6, <1>7 DEF ControllerInv, WhereItIs, WhatItKnows, WhatItDid

-----------------------------------------------------------------------------
(* What a step adds to the record, and whom it leaves alone. *)

Intended(k) ==
    log' = Append(log, IntentAdmitted(k)) /\ Len(log) + 3 <= Capacity

(* Nothing is unknown of the action that is prepared, and where there is   *)
(* one event it has not landed.                                            *)
Prepared(k) ==
    /\ log' = Append(log, DispatchPrepared(k))
    /\ CatchesUp => \A j \in Key : j.action = k.action => ~IsUncertain(log, j)
    /\ OneEvent => \A j \in Key : j.input \in EventInput => ~Says(log, j, "Applied")
    /\ OneAction => Len(log) + 2 <= Capacity

Observed(k, v) ==
    /\ log' = Append(log, OutcomeObserved(k, v))
    /\ InOrder(log, OutcomeObserved(k, v))
    /\ v = "Applied" => k \in handed

RecordMove ==
    \/ log' = log
    \/ \E k \in Key : Intended(k) \/ Prepared(k) \/ \E v \in Evidence : Observed(k, v)

(* Nothing of d's has moved. *)
SameFor(d) ==
    /\ tail'[d] = tail[d] /\ unsettled'[d] = unsettled[d] /\ recording'[d] = recording[d]
    /\ landedEvent'[d] = landedEvent[d] /\ pc'[d] = pc[d]
    /\ bound'[d] = bound[d] /\ state'[d] = state[d] /\ begun'[d] = begun[d]
    /\ d \in up' <=> d \in up

LeavesOthers(c) == \A d \in Controller : d # c => SameFor(d)

LEMMA MemoryFunctions ==
    ASSUME SafeInv
    PROVE  /\ tail \in [Controller -> Seq(EffectEvent(Key))]
           /\ unsettled \in [Controller -> SUBSET Key]
           /\ recording \in [Controller -> SUBSET (Key \X Evidence)]
           /\ landedEvent \in [Controller -> SUBSET (Action \X Input)]
           /\ bound \in [Controller -> [Chain -> Input \cup {NoInput}]]
           /\ state \in [Controller -> [Action -> EntryState]]
           /\ begun \in [Controller -> [Action -> 0..MaxAttempt]]
           /\ pc \in [Controller -> PC]
  BY SafeParts, LogTypes DEF MemoryOK, TailTypeOK, HeldTypeOK, FoldTypeOK, TransitionTypeOK, PcTypeOK

LEMMA QuietSteps ==
    ASSUME SafeInv, NEW c \in Controller,
           \/ \E ch \in Chain : \/ \E i \in Delivers[ch] : Observe(c, ch, i)
                                \/ Release(c, ch)
                                \/ Plan(c, ch)
           \/ SkipEntry(c) \/ Expire(c) \/ DropTick(c) \/ ReturnUnsettled(c)
    PROVE  c \in up /\ log' = log /\ LeavesOthers(c)
<1>1. CASE \E ch \in Chain : \E i \in Delivers[ch] : Observe(c, ch, i)
  BY <1>1, MemoryFunctions DEF Observe, AtRest, memory, held, fold, LeavesOthers, SameFor
<1>2. CASE \E ch \in Chain : Release(c, ch)
  BY <1>2, MemoryFunctions DEF Release, AtRest, memory, held, fold, LeavesOthers, SameFor
<1>3. CASE \E ch \in Chain : Plan(c, ch)
  BY <1>3, MemoryFunctions DEF Plan, AtRest, memory, held, fold, transition, LeavesOthers, SameFor
<1>4. CASE SkipEntry(c)
  BY <1>4, MemoryFunctions
     DEF SkipEntry, Reached, StateBecomes, memory, held, fold, LeavesOthers, SameFor
<1>5. CASE Expire(c)
  BY <1>5, MemoryFunctions
     DEF Expire, Startable, Reached, StateBecomes, Stop, memory, held, fold, LeavesOthers, SameFor
<1>6. CASE DropTick(c)
  BY <1>6, MemoryFunctions
     DEF DropTick, Startable, Reached, Stop, memory, held, fold, transition, LeavesOthers, SameFor
<1>7. CASE ReturnUnsettled(c)
  BY <1>7, MemoryFunctions
     DEF ReturnUnsettled, Running, StateBecomes, Stop, memory, held, fold, LeavesOthers, SameFor
<1>8. QED
  BY <1>1, <1>2, <1>3, <1>4, <1>5, <1>6, <1>7

LEMMA IntentSteps ==
    ASSUME SafeInv, NEW c \in Controller, BeginAttempt(c) \/ IntentUnaccepted(c)
    PROVE  c \in up /\ (\E k \in Key : Intended(k)) /\ LeavesOthers(c)
<1> DEFINE k == KeyOf(c, Here(c), Mint(c, Here(c)))
<1>1. k \in Key /\ c \in up
  BY StartFacts DEF BeginAttempt, IntentUnaccepted
<1>2. log' = Append(log, IntentAdmitted(k)) /\ Len(log) + 3 <= Capacity
  BY DEF BeginAttempt, IntentUnaccepted, Fenced, Commit, ReserveHandoffCapacity, HandoffRungs
<1>3. LeavesOthers(c)
  BY MemoryFunctions DEF BeginAttempt, IntentUnaccepted, Advance, Stop, held, transition,
      LeavesOthers, SameFor
<1>4. QED
  BY <1>1, <1>2, <1>3 DEF Intended

(* A prepared action has no unknown outcome: the fold is current, and an   *)
(* attempt it holds would have been a barrier to the walk.                 *)
LEMMA PreparesAlone ==
    ASSUME SafeInv, NEW c \in Controller, c \in up, pc[c].at = "intent",
           NEW strong, Fenced(c, DispatchPrepared(Preparing(c)), strong)
    PROVE  Preparing(c) \in Key /\ Prepared(Preparing(c))
<1>1. PICK a, k : a = Here(c) /\ k = Preparing(c)
  OBVIOUS
<1>2. /\ pc[c] # Idle /\ a \in Action /\ k \in Key /\ k.action = a
      /\ tail[c] = log /\ log' = Append(log, DispatchPrepared(k)) /\ Intends(c)
      /\ state[c][a] \in {"NotStarted", "DefinitelyFailed"}
      /\ k.input = bound[c][pc[c].chain]
  BY <1>1, PrepareFacts
<1>3. ~Blocks(c, a) /\ Knows(c) /\ Landings(c)
  BY <1>1, <1>2, WalkFacts, SafeParts DEF ControllerInv, WhatItKnows
<1>4. ASSUME CatchesUp, NEW j \in Key, j.action = k.action, IsUncertain(log, j)
      PROVE  FALSE
  <2>1. Holds(c, j)
    BY <1>2, <1>3, <1>4 DEF Knows, IsUncertain
  <2>2. state[c][j.action] \notin HeldStates
    BY <1>2, <1>4 DEF HeldStates
  <2>3. j \in unsettled[c]
    BY <2>1, <2>2 DEF Holds
  <2>4. QED
    BY <1>2, <1>3, <1>4, <2>3 DEF Blocks
<1>5. OneAction => Len(log) + 2 <= Capacity
  BY <1>2 DEF Intends
<1>6. ASSUME OneEvent, NEW j \in Key, j.input \in EventInput, Says(log, j, "Applied")
      PROVE  FALSE
  <2>1. j.action = k.action /\ j.input = k.input
    BY <1>2, <1>6, KeyFields DEF OneEvent, OneAction
  <2>2. <<j.action, j.input>> \notin landedEvent[c]
    BY <1>1, <1>2, <1>6, <2>1 DEF Intends
  <2>3. <<j, "Applied">> \in recording[c]
    BY <1>2, <1>3, <1>6, <2>2 DEF Landings, KeepsUp
  <2>4. <<j, "Applied">>[1] = j
    OBVIOUS
  <2>5. QED
    BY <1>2, <1>3, <2>1, <2>3, <2>4 DEF Blocks
<1>7. QED
  BY <1>1, <1>2, <1>4, <1>5, <1>6 DEF Prepared

LEMMA PrepareSteps ==
    ASSUME SafeInv, NEW c \in Controller, Dispatch(c) \/ DispatchUnaccepted(c)
    PROVE  c \in up /\ (\E k \in Key : Prepared(k)) /\ LeavesOthers(c)
<1>1. c \in up /\ pc[c].at = "intent"
  BY DEF Dispatch, DispatchUnaccepted
<1>2. PICK strong \in BOOLEAN : Fenced(c, DispatchPrepared(Preparing(c)), strong)
  BY DEF Dispatch, DispatchUnaccepted
<1>3. LeavesOthers(c)
  BY MemoryFunctions DEF Dispatch, DispatchUnaccepted, Advance, Stop, memory, held, fold,
      transition, LeavesOthers, SameFor
<1>4. QED
  BY <1>1, <1>2, <1>3, PreparesAlone

(* A settlement records an outcome in order, and Applied of nothing that   *)
(* was not handed off.                                                     *)
LEMMA SettlementRecords ==
    ASSUME SafeInv, NEW c \in Controller, NEW k, NEW e \in Evidence, NEW ok \in BOOLEAN,
           EnsureOutcome(c, k, e, ok), e = "Applied" => k \in handed
    PROVE  RecordMove
  BY SettlementWrites DEF RecordMove, Observed

LEMMA OutcomeSteps ==
    ASSUME SafeInv, NEW c \in Controller,
           RetryRecording(c) \/ ReturnOk(c) \/ ReturnNotApplied(c)
    PROVE  c \in up /\ RecordMove /\ LeavesOthers(c)
<1>0. "Applied" \in Evidence /\ "NotApplied" \in Evidence
  BY DEF Evidence
<1>1. CASE RetryRecording(c)
  <2>1. PICK a, k, e : a = Here(c) /\ k = KeyOf(c, a, begun[c][a]) /\ e = HeldEvidence(state[c][a])
    OBVIOUS
  <2>2. PICK ok \in BOOLEAN :
            /\ EnsureOutcome(c, k, e, ok)
            /\ IF ~ok
               THEN Stop(c) /\ UNCHANGED transition
               ELSE /\ IF e = "Applied"
                       THEN StateBecomes(c, a, "Succeeded")
                       ELSE \E s \in AfterDefiniteFailure(begun[c][a]) : StateBecomes(c, a, s)
                    /\ pc' = [pc EXCEPT ![c] = WalkOn(c)]
    BY <1>1, <2>1 DEF RetryRecording
  <2>3. c \in up /\ pc[c] # Idle /\ UNCHANGED <<up, unsettled, recording>>
    BY <1>1 DEF RetryRecording, Reached, held, Idle
  <2>4. e \in Evidence
    BY <2>1 DEF HeldEvidence, Evidence
  <2>5. e = "Applied" => k \in handed
    <3>1. a \in Action /\ Delivered(c)
      BY <2>1, <2>3, WalkFacts, SafeParts DEF ControllerInv, WhatItDid
    <3>2. QED
      BY <2>1, <3>1 DEF HeldEvidence, Delivered
  <2>6. RecordMove
    BY <2>2, <2>4, <2>5, SettlementRecords
  <2>7. \A d \in Controller : d # c => tail'[d] = tail[d] /\ landedEvent'[d] = landedEvent[d]
    BY <2>2, <2>4, SettlementFolds
  <2>8. \A d \in Controller : d # c =>
            bound'[d] = bound[d] /\ state'[d] = state[d] /\ begun'[d] = begun[d] /\ pc'[d] = pc[d]
    BY <2>2, MemoryFunctions DEF Stop, StateBecomes, transition
  <2>9. QED
    BY <2>3, <2>6, <2>7, <2>8 DEF LeavesOthers, SameFor
<1>2. CASE ReturnOk(c) \/ ReturnNotApplied(c)
  <2>0. PICK k : k = InFlight(c)
    OBVIOUS
  <2>1. PICK e \in Evidence, ok \in BOOLEAN : EnsureOutcome(c, k, e, ok)
    BY <1>0, <1>2, <2>0 DEF ReturnOk, ReturnNotApplied
  <2>2. c \in up /\ pc[c] # Idle /\ pc[c].at = "running" /\ UNCHANGED <<up, unsettled, recording>>
    BY <1>2 DEF ReturnOk, ReturnNotApplied, Running, held, Idle
  <2>3. k \in handed
    BY <2>0, <2>2, WalkFacts DEF WalkClear
  <2>4. RecordMove
    BY <2>1, <2>3, SettlementRecords
  <2>5. \A d \in Controller : d # c => tail'[d] = tail[d] /\ landedEvent'[d] = landedEvent[d]
    BY <2>1, SettlementFolds
  <2>6. \A d \in Controller : d # c =>
            bound'[d] = bound[d] /\ state'[d] = state[d] /\ begun'[d] = begun[d] /\ pc'[d] = pc[d]
    BY <1>2, MemoryFunctions DEF ReturnOk, ReturnNotApplied, Stop, StateBecomes
  <2>7. QED
    BY <2>2, <2>4, <2>5, <2>6 DEF LeavesOthers, SameFor
<1>3. QED
  BY <1>1, <1>2

LEMMA ResolveSettles ==
    ASSUME SafeInv, NEW c \in Controller, Resolve(c)
    PROVE  c \in up /\ RecordMove /\ LeavesOthers(c)
<1>1. PICK k \in Key, e \in Evidence :
          \/ ResolveRecovered(c, k, e) \/ ResolveRecording(c, k, e)
          \/ ResolveHeld(c, k, e) \/ ResolveRepeated(c, k, e)
  BY DEF Resolve
<1>2. /\ c \in up /\ up' = up /\ pc' = pc
      /\ e = "Applied" => k \in handed
  BY <1>1 DEF ResolveRecovered, ResolveRecording, ResolveHeld, ResolveRepeated, Classified,
      Offered, AtRest
<1>3. CASE ResolveRecording(c, k, e)
  <2>1. UNCHANGED <<log, tail, unsettled, bound, state, begun>>
    BY <1>3 DEF ResolveRecording, transition
  <2>2. \A d \in Controller : d # c =>
            recording'[d] = recording[d] /\ landedEvent'[d] = landedEvent[d]
    BY <1>3, MemoryFunctions DEF ResolveRecording, FoldOutcome
  <2>3. QED
    BY <1>2, <2>1, <2>2 DEF RecordMove, LeavesOthers, SameFor
<1>4. CASE ~ResolveRecording(c, k, e)
  <2>1. PICK ok \in BOOLEAN : EnsureOutcome(c, k, e, ok)
    BY <1>1, <1>4 DEF ResolveRecovered, ResolveHeld, ResolveRepeated
  <2>2. RecordMove
    BY <1>2, <2>1, SettlementRecords
  <2>3. \A d \in Controller : d # c => tail'[d] = tail[d] /\ landedEvent'[d] = landedEvent[d]
    BY <2>1, SettlementFolds
  <2>4. \A d \in Controller : d # c =>
            unsettled'[d] = unsettled[d] /\ recording'[d] = recording[d]
    <3>1. CASE ResolveRecovered(c, k, e)
      BY <3>1, MemoryFunctions DEF ResolveRecovered
    <3>2. CASE ResolveHeld(c, k, e) \/ ResolveRepeated(c, k, e)
      BY <3>2 DEF ResolveHeld, ResolveRepeated, held
    <3>3. QED
      BY <1>1, <1>4, <3>1, <3>2
  <2>5. \A d \in Controller : d # c =>
            bound'[d] = bound[d] /\ state'[d] = state[d] /\ begun'[d] = begun[d]
    <3>1. CASE ResolveRecovered(c, k, e) \/ ResolveRepeated(c, k, e)
      BY <3>1 DEF ResolveRecovered, ResolveRepeated, transition
    <3>2. CASE ResolveHeld(c, k, e)
      BY <3>2, MemoryFunctions DEF ResolveHeld, StateBecomes, transition
    <3>3. QED
      BY <1>1, <1>4, <3>1, <3>2
  <2>6. QED
    BY <1>2, <2>2, <2>3, <2>4, <2>5 DEF LeavesOthers, SameFor
<1>5. QED
  BY <1>3, <1>4

LEMMA LifetimeSteps ==
    ASSUME SafeInv, NEW c \in Controller,
           Crash(c) \/ \E refused \in SUBSET Recorded : Assemble(c, refused)
    PROVE  /\ c \in up \/ (Exclusive => up = {})
           /\ log' = log /\ LeavesOthers(c)
<1>1. c \in up \/ (Exclusive => up = {})
  BY DEF Crash, Assemble
<1>2. log' = log /\ LeavesOthers(c)
  BY MemoryFunctions DEF Crash, Blank, Assemble, transition, LeavesOthers, SameFor
<1>3. QED
  BY <1>1, <1>2

(* One step of one controller. *)
StepOf(c) ==
    \/ \E ch \in Chain : \/ \E i \in Delivers[ch] : Observe(c, ch, i)
                         \/ Release(c, ch)
                         \/ Plan(c, ch)
    \/ WalkStep(c)
    \/ Resolve(c)
    \/ Crash(c)
    \/ \E refused \in SUBSET Recorded : Assemble(c, refused)

LEMMA StepFrame ==
    ASSUME SafeInv, NEW c \in Controller, StepOf(c)
    PROVE  /\ c \in up \/ (Exclusive => up = {})
           /\ RecordMove /\ LeavesOthers(c)
<1>1. CASE \/ \E ch \in Chain : \/ \E i \in Delivers[ch] : Observe(c, ch, i)
                                \/ Release(c, ch)
                                \/ Plan(c, ch)
           \/ SkipEntry(c) \/ Expire(c) \/ DropTick(c) \/ ReturnUnsettled(c)
  BY <1>1, QuietSteps DEF RecordMove
<1>2. CASE BeginAttempt(c) \/ IntentUnaccepted(c) \/ Dispatch(c) \/ DispatchUnaccepted(c)
  BY <1>2, IntentSteps, PrepareSteps DEF RecordMove
<1>3. CASE RetryRecording(c) \/ ReturnOk(c) \/ ReturnNotApplied(c) \/ Resolve(c)
  BY <1>3, OutcomeSteps, ResolveSettles
<1>4. CASE Crash(c) \/ \E refused \in SUBSET Recorded : Assemble(c, refused)
  BY <1>4, LifetimeSteps DEF RecordMove
<1>5. QED
  BY <1>1, <1>2, <1>3, <1>4 DEF StepOf, WalkStep

LEMMA ActorKeeps ==
    ASSUME SafeInv, JournalStep, NEW c \in Controller, StepOf(c)
    PROVE  ControllerInv(c)'
<1>1. CASE \E ch \in Chain : \/ \E i \in Delivers[ch] : Observe(c, ch, i)
                             \/ Release(c, ch)
                             \/ Plan(c, ch)
  BY <1>1, ObserveKeeps, ReleaseKeeps, PlanKeeps
<1>2. CASE WalkStep(c)
  BY <1>2, SkipKeeps, RetryKeeps, ExpireKeeps, BeginKeeps, IntentUnacceptedKeeps, DispatchKeeps,
     DispatchUnacceptedKeeps, DropKeeps, ReturnKeeps, UnsettledKeeps DEF WalkStep
<1>3. CASE Resolve(c) \/ Crash(c) \/ \E refused \in SUBSET Recorded : Assemble(c, refused)
  BY <1>3, ResolveKeeps, CrashKeeps, AssembleKeeps
<1>4. QED
  BY <1>1, <1>2, <1>3 DEF StepOf

(* The record a step leaves is the record before it and perhaps one event. *)
LEMMA RecordGrows ==
    ASSUME SafeInv, RecordMove
    PROVE  \/ log' = log
           \/ \E e \in EffectEvent(Key) : log' = Append(log, e)
<1>1. SUFFICES ASSUME NEW k \in Key, Intended(k) \/ Prepared(k) \/ \E v \in Evidence : Observed(k, v)
               PROVE  \E e \in EffectEvent(Key) : log' = Append(log, e)
  BY DEF RecordMove
<1>2. CASE Intended(k)
  BY <1>2, IntentIsEvent DEF Intended
<1>3. CASE Prepared(k)
  <2>1. DispatchPrepared(k) \in EffectEvent(Key)
    BY DEF DispatchPrepared, EffectEvent
  <2>2. QED
    BY <1>3, <2>1 DEF Prepared
<1>4. CASE \E v \in Evidence : Observed(k, v)
  <2>1. PICK v \in Evidence : Observed(k, v)
    BY <1>4
  <2>2. OutcomeObserved(k, v) \in EffectEvent(Key)
    BY DEF OutcomeObserved, EffectEvent
  <2>3. QED
    BY <2>1, <2>2 DEF Observed
<1>5. QED
  BY <1>1, <1>2, <1>3, <1>4

(* A controller is left where it was by every step of another. *)
LEMMA OthersKeep ==
    ASSUME SafeInv, JournalStep, NEW c \in Controller, StepOf(c), handed \subseteq handed',
           NEW d \in Controller, d # c
    PROVE  ControllerInv(d)'
<1>1. /\ ControllerInv(d) /\ SameFor(d) /\ RecordMove
      /\ c \in up \/ (Exclusive => up = {})
  BY SafeParts, StepFrame DEF LeavesOthers
<1>2. /\ log \in Seq(EffectEvent(Key)) /\ log' \in Seq(EffectEvent(Key))
      /\ Len(log) \in Nat /\ Len(log') \in Nat /\ tail[d] \in Seq(EffectEvent(Key))
      /\ log' = log \/ Len(log') = Len(log) + 1
  BY <1>1, SafeParts, RecordGrows, AppendFacts
<1>3. Exclusive => d \notin up'
  BY <1>1 DEF SameFor, ControllerInv, WhatItKnows, AloneAt
<1>4. Bound(d)' /\ Delivered(d)' /\ Settled(d)' /\ \A j \in Key : Holds(d, j) => Holds(d, j)'
  BY <1>1, NoEntryMoves DEF SameFor
<1>5. Stopped(d)'
  BY <1>1 DEF SameFor, ControllerInv, WhereItIs, Stopped
<1>6. WalkClear(d)'
  <2>1. WalkClear(d)
    BY <1>1 DEF ControllerInv, WhereItIs
  <2>2. \A a : Blocks(d, a)' <=> Blocks(d, a)
    BY <1>1, SameBlocks DEF SameFor
  <2>3. \A i : StateOf(d, i)' = StateOf(d, i)
    BY <1>1 DEF SameFor, StateOf
  <2>4. InFlight(d)' = InFlight(d)
    BY <1>1 DEF SameFor, InFlight, KeyOf, Here
  <2>5. pc'[d] = pc[d] /\ bound'[d] = bound[d]
    BY <1>1 DEF SameFor
  <2>6. QED
    BY <2>1, <2>2, <2>3, <2>4, <2>5 DEF WalkClear
<1>7. AloneAt(d)'
  BY <1>3 DEF AloneAt
<1>8. NotAhead(d)'
  <2>1. Len(tail[d]) <= Len(log) /\ Len(tail[d]) \in Nat
    BY <1>1, <1>2 DEF ControllerInv, WhatItKnows, NotAhead
  <2>2. QED
    BY <1>1, <1>2, <2>1 DEF SameFor, NotAhead
<1>9. Knows(d)'
  <2>1. Knows(d) /\ tail'[d] = tail[d]
    BY <1>1 DEF SameFor, ControllerInv, WhatItKnows
  <2>2. \A j : HasOutcome(log, j) => HasOutcome(log', j)
    <3>1. CASE log' = log
      BY <3>1
    <3>2. CASE log' # log
      <4>1. PICK e \in EffectEvent(Key) : log' = Append(log, e)
        BY <1>1, <3>2, RecordGrows
      <4>2. QED
        BY <1>2, <4>1, UnknownAfterAppend
    <3>3. QED
      BY <3>1, <3>2
  <2>3. QED
    BY <1>4, <2>1, <2>2 DEF Knows, CatchesUp, OneAction
<1>10. Landings(d)'
  BY <1>1 DEF SameFor, ControllerInv, WhatItKnows, Landings, KeepsUp, OneEvent, OneAction
<1>11. Intends(d)'
  <2>1. /\ Intends(d) /\ pc'[d] = pc[d] /\ tail'[d] = tail[d] /\ bound'[d] = bound[d]
        /\ landedEvent'[d] = landedEvent[d] /\ Len(tail[d]) <= Len(log)
    BY <1>1 DEF SameFor, ControllerInv, WhatItDid, WhatItKnows, NotAhead
  <2>2. tail'[d] = log' => log' = log
    BY <1>2, <2>1
  <2>3. durable = Len(log) /\ log' = log => durable' = Len(log')
    <3>1. JournalInv /\ JournalInv' /\ durable <= durable'
      BY SafeParts, JournalStepKeepsInv, JournalStepKeepsDurable DEF JournalStep
    <3>2. QED
      BY <1>2, <3>1 DEF JournalInv, JournalTypeOK, JournalBounds
  <2>4. Here(d)' = Here(d)
    BY <2>1 DEF Here
  <2>5. QED
    BY <2>1, <2>2, <2>3, <2>4 DEF Intends, OneAction
<1>12. QED
  BY <1>4, <1>5, <1>6, <1>7, <1>8, <1>9, <1>10, <1>11
     DEF ControllerInv, WhereItIs, WhatItKnows, WhatItDid

-----------------------------------------------------------------------------
(* What the record says after a step. *)

(* The unknown outcomes after one more event. *)
LEMMA UnknownAfterMove ==
    ASSUME SafeInv, RecordMove, NEW j \in Key, IsUncertain(log', j)
    PROVE  /\ IsUncertain(log, j) \/ Prepared(j)
           /\ \A k \in Key, v \in Evidence : Observed(k, v) => k # j
<1>1. log \in Seq(EffectEvent(Key))
  BY SafeParts
<1>2. ASSUME ~IsUncertain(log, j) PROVE Prepared(j)
  <2>1. PICK k \in Key : Intended(k) \/ Prepared(k) \/ \E v \in Evidence : Observed(k, v)
    BY <1>2 DEF RecordMove
  <2>2. CASE Intended(k)
    <3>1. PICK e : e = IntentAdmitted(k)
      OBVIOUS
    <3>2. e \in EffectEvent(Key) /\ e.kind = "IntentAdmitted" /\ log' = Append(log, e)
      BY <2>2, <3>1, IntentIsEvent DEF Intended, IntentAdmitted
    <3>3. QED
      BY <1>1, <1>2, <3>2, UnknownAfterAppend
  <2>3. CASE Prepared(k)
    <3>1. PICK e : e = DispatchPrepared(k)
      OBVIOUS
    <3>2. e \in EffectEvent(Key) /\ e.key = k /\ log' = Append(log, e)
      BY <2>3, <3>1 DEF Prepared, DispatchPrepared, EffectEvent
    <3>3. e.key = j
      BY <1>1, <1>2, <3>2, UnknownAfterAppend
    <3>4. QED
      BY <2>3, <3>2, <3>3
  <2>4. CASE \E v \in Evidence : Observed(k, v)
    <3>1. PICK v \in Evidence : Observed(k, v)
      BY <2>4
    <3>2. PICK e : e = OutcomeObserved(k, v)
      OBVIOUS
    <3>3. e \in EffectEvent(Key) /\ e.kind = "OutcomeObserved" /\ log' = Append(log, e)
      BY <3>1, <3>2 DEF Observed, OutcomeObserved, EffectEvent
    <3>4. QED
      BY <1>1, <1>2, <3>3, UnknownAfterAppend
  <2>5. QED
    BY <2>1, <2>2, <2>3, <2>4
<1>3. ASSUME NEW k \in Key, NEW v \in Evidence, Observed(k, v) PROVE k # j
  <2>1. PICK e : e = OutcomeObserved(k, v)
    OBVIOUS
  <2>2. e \in EffectEvent(Key) /\ e.kind = "OutcomeObserved" /\ e.key = k /\ log' = Append(log, e)
    BY <1>3, <2>1 DEF Observed, OutcomeObserved, EffectEvent
  <2>3. ~IsUncertain(log', k)
    BY <1>1, <2>2, UnknownAfterAppend
  <2>4. QED
    BY <2>3
<1>4. QED
  BY <1>2, <1>3

LEMMA WholeLog ==
    ASSUME SafeInv
    PROVE  SubSeq(log, 1, Len(log)) = log /\ Len(log) \in 0..Len(log)
  BY SafeParts

LEMMA OneUncertainNow ==
    ASSUME SafeInv, CatchesUp
    PROVE  OneUncertainIn(log)
  BY WholeLog, SafeParts DEF RecordInv, AlwaysOneUncertain

LEMMA MoveKeepsOneUncertain ==
    ASSUME SafeInv, RecordMove, CatchesUp
    PROVE  OneUncertainIn(log')
<1> SUFFICES ASSUME NEW j \in Key, NEW k \in Key, j.action = k.action,
                    IsUncertain(log', j), IsUncertain(log', k)
             PROVE  j = k
  BY DEF OneUncertainIn
<1>1. CASE IsUncertain(log, j) /\ IsUncertain(log, k)
  BY <1>1, OneUncertainNow DEF OneUncertainIn
<1>2. ASSUME NEW x \in Key, NEW y \in Key, x.action = y.action, ~IsUncertain(log, x),
             IsUncertain(log', x), IsUncertain(log', y)
      PROVE  x = y
  <2>1. Prepared(x)
    BY <1>2, UnknownAfterMove
  <2>2. ~IsUncertain(log, y)
    BY <1>2, <2>1 DEF Prepared
  <2>3. Prepared(y)
    BY <1>2, <2>2, UnknownAfterMove
  <2>4. Append(log, DispatchPrepared(x)) = Append(log, DispatchPrepared(y))
    BY <2>1, <2>3 DEF Prepared
  <2>5. \A e \in EffectEvent(Key) : Append(log, e)[Len(log) + 1] = e
    BY SafeParts, AppendFacts
  <2>6. DispatchPrepared(x) \in EffectEvent(Key) /\ DispatchPrepared(y) \in EffectEvent(Key)
    BY DEF DispatchPrepared, EffectEvent
  <2>7. DispatchPrepared(x) = DispatchPrepared(y)
    BY <2>4, <2>5, <2>6
  <2>8. QED
    BY <2>7 DEF DispatchPrepared
<1>3. QED
  BY <1>1, <1>2

LEMMA MoveKeepsRoom ==
    ASSUME SafeInv, RecordMove, OneAction, NEW j \in Key, IsUncertain(log', j)
    PROVE  Len(log') < Capacity
<1>1. /\ log \in Seq(EffectEvent(Key)) /\ Len(log) \in Nat /\ Capacity \in Nat
      /\ UnknownFits
  BY SafeParts, JournalAssumption DEF RecordInv
<1>2. CASE log' = log
  BY <1>1, <1>2 DEF UnknownFits
<1>3. CASE log' # log
  <2>1. PICK k \in Key : Intended(k) \/ Prepared(k) \/ \E v \in Evidence : Observed(k, v)
    BY <1>3 DEF RecordMove
  <2>2. Len(log') = Len(log) + 1
    BY <1>1, <1>3, RecordGrows, AppendFacts
  <2>3. CASE Intended(k) \/ Prepared(k)
    BY <1>1, <2>2, <2>3 DEF Intended, Prepared
  <2>4. CASE \E v \in Evidence : Observed(k, v)
    <3>1. PICK v \in Evidence : Observed(k, v)
      BY <2>4
    <3>2. k # j /\ (IsUncertain(log, j) \/ Prepared(j))
      BY <3>1, UnknownAfterMove
    <3>3. ~Prepared(j)
      <4>1. \A e \in EffectEvent(Key) : Append(log, e)[Len(log) + 1] = e
        BY SafeParts, AppendFacts
      <4>2. DispatchPrepared(j) \in EffectEvent(Key) /\ OutcomeObserved(k, v) \in EffectEvent(Key)
        BY DEF DispatchPrepared, OutcomeObserved, EffectEvent
      <4>3. DispatchPrepared(j) # OutcomeObserved(k, v)
        BY DEF DispatchPrepared, OutcomeObserved
      <4>4. QED
        BY <3>1, <4>1, <4>2, <4>3 DEF Prepared, Observed
    <3>4. IsUncertain(log, k)
      <4>1. Walked(log, k) = {"IntentAdmitted", "DispatchPrepared"}
        BY <3>1, RungsBefore DEF Observed
      <4>2. QED
        BY <4>1 DEF IsUncertain, IsHandedOff, HasOutcome
    <3>5. j.action = k.action
      BY KeyFields DEF OneAction
    <3>6. QED
      BY <3>2, <3>3, <3>4, <3>5, OneUncertainNow DEF CatchesUp, OneUncertainIn
  <2>5. QED
    BY <2>1, <2>3, <2>4
<1>4. QED
  BY <1>2, <1>3

(* A new Applied is the outcome just observed. *)
LEMMA AppliedByMove ==
    ASSUME SafeInv, RecordMove, NEW j \in Key, Says(log', j, "Applied"), ~Says(log, j, "Applied")
    PROVE  Observed(j, "Applied")
<1>1. log \in Seq(EffectEvent(Key)) /\ log' # log
  BY SafeParts
<1>2. PICK e \in EffectEvent(Key) : log' = Append(log, e)
  BY <1>1, RecordGrows
<1>3. e = OutcomeObserved(j, "Applied")
  BY <1>1, <1>2, SaysAppend
<1>4. PICK k \in Key : Intended(k) \/ Prepared(k) \/ \E v \in Evidence : Observed(k, v)
  BY <1>1 DEF RecordMove
<1>5. log'[Len(log) + 1] = e
  BY <1>1, <1>2, AppendFacts
<1>6. ~Intended(k)
  <2>1. IntentAdmitted(k) \in EffectEvent(Key) /\ IntentAdmitted(k) # e
    BY <1>3, IntentIsEvent DEF IntentAdmitted, OutcomeObserved
  <2>2. QED
    BY <1>1, <1>5, <2>1, AppendFacts DEF Intended
<1>7. ~Prepared(k)
  <2>1. DispatchPrepared(k) \in EffectEvent(Key) /\ DispatchPrepared(k) # e
    BY <1>3 DEF DispatchPrepared, OutcomeObserved, EffectEvent
  <2>2. QED
    BY <1>1, <1>5, <2>1, AppendFacts DEF Prepared
<1>8. PICK v \in Evidence : Observed(k, v)
  BY <1>4, <1>6, <1>7
<1>9. OutcomeObserved(k, v) = e
  <2>1. OutcomeObserved(k, v) \in EffectEvent(Key)
    BY DEF OutcomeObserved, EffectEvent
  <2>2. QED
    BY <1>1, <1>5, <1>8, <2>1, AppendFacts DEF Observed
<1>10. k = j /\ v = "Applied"
  BY <1>3, <1>9 DEF OutcomeObserved
<1>11. QED
  BY <1>8, <1>10

LEMMA MoveKeepsApplied ==
    ASSUME SafeInv, RecordMove, handed \subseteq handed'
    PROVE  AppliedWasHanded'
<1>1. AppliedWasHanded
  BY SafeParts DEF RecordInv
<1>2. ASSUME NEW j \in Key, Says(log', j, "Applied") PROVE j \in handed
  <2>1. CASE Says(log, j, "Applied")
    BY <1>1, <2>1 DEF AppliedWasHanded
  <2>2. CASE ~Says(log, j, "Applied")
    BY <1>2, <2>2, AppliedByMove DEF Observed
  <2>3. QED
    BY <2>1, <2>2
<1>3. QED
  BY <1>2 DEF AppliedWasHanded

(* An event that lands settles the one attempt of unknown outcome, and no  *)
(* attempt is prepared after it.                                           *)
LEMMA MoveKeepsLanding ==
    ASSUME SafeInv, RecordMove, OneEvent
    PROVE  LandingEndsIn(log')
<1> SUFFICES ASSUME NEW j \in Key, NEW k \in Key, j.input \in EventInput,
                    Says(log', j, "Applied"), IsUncertain(log', k)
             PROVE  FALSE
  BY DEF LandingEndsIn
<1>1. LandingEndsIn(log) /\ OneUncertainIn(log)
  BY WholeLog, SafeParts, OneUncertainNow
     DEF RecordInv, LandingEnds, OneEvent, CatchesUp
<1>2. IsUncertain(log, k) \/ Prepared(k)
  BY UnknownAfterMove
<1>3. CASE Says(log, j, "Applied")
  BY <1>1, <1>2, <1>3 DEF LandingEndsIn, Prepared
<1>4. CASE ~Says(log, j, "Applied")
  <2>1. Observed(j, "Applied")
    BY <1>4, AppliedByMove
  <2>2. j # k
    BY <2>1, UnknownAfterMove DEF Evidence
  <2>3. Walked(log, j) = {"IntentAdmitted", "DispatchPrepared"}
    BY <2>1, RungsBefore DEF Observed
  <2>4. IsUncertain(log, j)
    BY <2>3 DEF IsUncertain, IsHandedOff, HasOutcome
  <2>5. j.action = k.action
    BY KeyFields DEF OneEvent, OneAction
  <2>6. ~IsUncertain(log, k)
    BY <1>1, <2>2, <2>4, <2>5 DEF OneUncertainIn
  <2>7. ~Prepared(k)
    BY <2>4, <2>5 DEF Prepared, OneEvent, CatchesUp
  <2>8. QED
    BY <1>2, <2>6, <2>7
<1>5. QED
  BY <1>3, <1>4

(* The prefixes of a log that has moved: those it had, and itself. *)
LEMMA PrefixAfterMove ==
    ASSUME SafeInv, RecordMove, NEW n \in 0..Len(log')
    PROVE  \/ n \in 0..Len(log) /\ SubSeq(log', 1, n) = SubSeq(log, 1, n)
           \/ SubSeq(log', 1, n) = log'
<1>1. log \in Seq(EffectEvent(Key)) /\ Len(log) \in Nat
  BY SafeParts
<1>2. CASE log' = log
  BY <1>2
<1>3. CASE log' # log
  <2>1. PICK e \in EffectEvent(Key) : log' = Append(log, e)
    BY <1>3, RecordGrows
  <2>2. /\ log' \in Seq(EffectEvent(Key)) /\ Len(log') = Len(log) + 1
        /\ \A m \in 0..Len(log) : SubSeq(log', 1, m) = SubSeq(log, 1, m)
    BY <1>1, <2>1, AppendFacts
  <2>3. SubSeq(log', 1, Len(log')) = log'
    BY <2>2
  <2>4. n \in 0..Len(log) \/ n = Len(log')
    BY <1>1, <2>2
  <2>5. QED
    BY <2>2, <2>3, <2>4
<1>4. QED
  BY <1>2, <1>3

LEMMA MoveKeepsRecord ==
    ASSUME SafeInv, RecordMove, handed \subseteq handed'
    PROVE  AlwaysOneUncertain' /\ LandingEnds' /\ AppliedWasHanded' /\ UnknownFits'
<1>1. AlwaysOneUncertain'
  <2>1. ASSUME CatchesUp, NEW n \in 0..Len(log') PROVE OneUncertainIn(SubSeq(log', 1, n))
    <3>1. OneUncertainIn(log') /\ \A m \in 0..Len(log) : OneUncertainIn(SubSeq(log, 1, m))
      BY <2>1, MoveKeepsOneUncertain, SafeParts DEF RecordInv, AlwaysOneUncertain
    <3>2. QED
      BY <3>1, PrefixAfterMove
  <2>2. QED
    BY <2>1 DEF AlwaysOneUncertain, CatchesUp, OneAction
<1>2. LandingEnds'
  <2>1. ASSUME OneEvent, NEW n \in 0..Len(log') PROVE LandingEndsIn(SubSeq(log', 1, n))
    <3>1. LandingEndsIn(log') /\ \A m \in 0..Len(log) : LandingEndsIn(SubSeq(log, 1, m))
      BY <2>1, MoveKeepsLanding, SafeParts DEF RecordInv, LandingEnds
    <3>2. QED
      BY <3>1, PrefixAfterMove
  <2>2. QED
    BY <2>1 DEF LandingEnds, OneEvent, OneAction
<1>3. UnknownFits'
  BY MoveKeepsRoom DEF UnknownFits, OneAction
<1>4. QED
  BY <1>1, <1>2, <1>3, MoveKeepsApplied

LEMMA LossKeepsRecord ==
    ASSUME SafeInv, LoseSuffix
    PROVE  AlwaysOneUncertain' /\ LandingEnds' /\ AppliedWasHanded' /\ UnknownFits'
<1>1. /\ log \in Seq(EffectEvent(Key)) /\ Len(log) \in Nat /\ durable \in 0..Len(log)
      /\ Len(log) <= Capacity /\ Capacity \in Nat
      /\ AlwaysOneUncertain /\ LandingEnds /\ AppliedWasHanded /\ UnknownFits
  BY SafeParts, JournalAssumption DEF RecordInv, JournalInv, JournalBounds
<1>2. PICK n \in 0..Len(log) : n < Len(log) /\ log' = SubSeq(log, 1, n)
  BY <1>1 DEF LoseSuffix, Lose
<1>3. /\ log' \in Seq(EffectEvent(Key)) /\ Len(log') = n
      /\ \A m \in 0..n : SubSeq(log', 1, m) = SubSeq(log, 1, m)
  BY <1>1, <1>2, SubSeqFacts
<1>4. AlwaysOneUncertain' /\ LandingEnds'
  <2>1. \A m \in 0..Len(log') : m \in 0..Len(log) /\ SubSeq(log', 1, m) = SubSeq(log, 1, m)
    BY <1>1, <1>2, <1>3
  <2>2. (CatchesUp' <=> CatchesUp) /\ (OneEvent' <=> OneEvent)
    BY DEF CatchesUp, OneEvent, OneAction
  <2>3. QED
    BY <1>1, <2>1, <2>2 DEF AlwaysOneUncertain, LandingEnds
<1>5. AppliedWasHanded'
  <2>1. \A k : Says(log', k, "Applied") => Says(log, k, "Applied")
    BY <1>1, <1>2, PrefixSays
  <2>2. handed' = handed
    BY DEF LoseSuffix, world
  <2>3. QED
    BY <1>1, <2>1, <2>2 DEF AppliedWasHanded
<1>6. UnknownFits'
  <2>1. Len(log') < Capacity
    BY <1>1, <1>2, <1>3
  <2>2. QED
    BY <2>1 DEF UnknownFits
<1>7. QED
  BY <1>4, <1>5, <1>6

-----------------------------------------------------------------------------
LEMMA NextSplits ==
    Next => LoseSuffix \/ \E c \in Controller : StepOf(c)
  BY DEF Next, StepOf

LEMMA HandedGrows ==
    ASSUME SafeInv, [Next]_vars
    PROVE  handed \subseteq handed'
  BY SafeParts, OnlyDispatchHands DEF Dispatch, vars, world

LEMMA StepKeepsSafe ==
    ASSUME SafeInv, [Next]_vars
    PROVE  SafeInv'
<1>1. JournalStep /\ KernelInv' /\ handed \subseteq handed'
  BY StepKeepsKernel, HandedGrows DEF SafeInv
<1>2. LadderOrder' /\ HandedIsDurable'
  BY <1>1, SafeParts, JournalStepKeepsOrder, StepKeepsHanded DEF RecordInv, JournalStep
<1>3. CASE \E c \in Controller : StepOf(c)
  <2>1. PICK c \in Controller : StepOf(c)
    BY <1>3
  <2>2. AlwaysOneUncertain' /\ LandingEnds' /\ AppliedWasHanded' /\ UnknownFits'
    BY <1>1, <2>1, StepFrame, MoveKeepsRecord
  <2>3. \A d \in Controller : ControllerInv(d)'
    BY <1>1, <2>1, ActorKeeps, OthersKeep
  <2>4. QED
    BY <1>1, <1>2, <2>2, <2>3 DEF SafeInv, RecordInv
<1>4. CASE LoseSuffix
  <2>1. AlwaysOneUncertain' /\ LandingEnds' /\ AppliedWasHanded' /\ UnknownFits'
    BY <1>4, LossKeepsRecord
  <2>2. \A d \in Controller : ControllerInv(d)'
    BY <1>1, <1>4, LoseKeeps
  <2>3. QED
    BY <1>1, <1>2, <2>1, <2>2 DEF SafeInv, RecordInv
<1>5. CASE UNCHANGED vars
  <2>0. UNCHANGED <<log, durable, up, tail, unsettled, recording, landedEvent, bound, state,
                    begun, pc, handed>>
    BY <1>5 DEF vars, memory, held, fold, transition, world
  <2>1. AlwaysOneUncertain' /\ LandingEnds' /\ AppliedWasHanded' /\ UnknownFits'
    BY <1>1, <2>0, MoveKeepsRecord DEF RecordMove
  <2>2. ASSUME NEW d \in Controller PROVE ControllerInv(d)'
    <3>1. WhereItIs(d) /\ WhatItKnows(d) /\ WhatItDid(d)
      BY SafeParts DEF ControllerInv
    <3>2. WhereItIs(d)'
      <4>1. Stopped(d)' /\ Bound(d)'
        BY <2>0, <3>1 DEF WhereItIs, Stopped, Bound
      <4>2. WalkClear(d)'
        BY <2>0, <3>1 DEF WhereItIs, WalkClear, Blocks, StateOf, InFlight, KeyOf, Here
      <4>3. QED
        BY <4>1, <4>2 DEF WhereItIs
    <3>3. WhatItKnows(d)'
      <4>1. AloneAt(d)' /\ NotAhead(d)' /\ Landings(d)'
        BY <2>0, <3>1 DEF WhatItKnows, AloneAt, NotAhead, Landings, KeepsUp, OneEvent,
            OneAction
      <4>2. Knows(d)'
        BY <2>0, <3>1 DEF WhatItKnows, Knows, CatchesUp, OneAction, Holds, KeyOf
      <4>3. QED
        BY <4>1, <4>2 DEF WhatItKnows
    <3>4. WhatItDid(d)'
      BY <2>0, <3>1 DEF WhatItDid, Intends, OneAction, Delivered, Settled, DurableLog, KeyOf, Here
    <3>5. QED
      BY <3>2, <3>3, <3>4 DEF ControllerInv
  <2>3. QED
    BY <1>1, <1>2, <2>1, <2>2 DEF SafeInv, RecordInv
<1>6. QED
  BY <1>3, <1>4, <1>5, NextSplits

LEMMA InitIsSafe == Init => SafeInv
<1> SUFFICES ASSUME Init PROVE SafeInv
  OBVIOUS
<1>1. KernelInv
  BY InitIsTyped
<1>2. log = <<>> /\ durable = 0 /\ handed = {} /\ Len(log) = 0 /\ \A k : Walked(log, k) = {}
  BY DEF Init, JournalInit, Walked
<1>3. \A k, v : ~Says(log, k, v)
  BY <1>2 DEF Says
<1>4. RecordInv
  <2>1. LadderOrder /\ HandedIsDurable /\ AppliedWasHanded
    BY <1>2, <1>3 DEF LadderOrder, HandedIsDurable, AppliedWasHanded
  <2>2. AlwaysOneUncertain /\ LandingEnds /\ UnknownFits
    <3>1. \A n \in 0..Len(log) : SubSeq(log, 1, n) = log
      BY <1>2
    <3>2. QED
      BY <1>2, <3>1 DEF AlwaysOneUncertain, LandingEnds, UnknownFits, OneUncertainIn,
          LandingEndsIn, IsUncertain, IsHandedOff
  <2>3. QED
    BY <2>1, <2>2 DEF RecordInv
<1>5. ASSUME NEW c \in Controller PROVE ControllerInv(c)
  <2>1. /\ up = {} /\ pc[c] = Idle /\ tail[c] = <<>>
        /\ \A a \in Action : state[c][a] = "NotStarted" /\ begun[c][a] = 0
    BY DEF Init
  <2>2. WhereItIs(c)
    BY <2>1 DEF WhereItIs, Stopped, Bound, WalkClear
  <2>3. WhatItKnows(c)
    BY <1>2, <1>3, <2>1 DEF WhatItKnows, AloneAt, NotAhead, Knows, Landings, IsUncertain, IsHandedOff
  <2>4. WhatItDid(c)
    BY <2>1 DEF WhatItDid, Intends, Delivered, Settled, Idle
  <2>5. QED
    BY <2>2, <2>3, <2>4 DEF ControllerInv
<1>6. QED
  BY <1>1, <1>4, <1>5 DEF SafeInv

LEMMA KernelIsSafe == Spec => []SafeInv
  BY InitIsSafe, StepKeepsSafe, PTL DEF Spec

-----------------------------------------------------------------------------
(* An entry never moves on an outcome the journal could still lose: one    *)
(* that succeeded, or failed for good or for now, has exactly that outcome *)
(* in the durable prefix (Ledger::apply_settlement).                       *)
THEOREM SettledStaysRecorded == Spec => []SettledIsRecorded
<1>1. SafeInv => SettledIsRecorded
  <2> SUFFICES ASSUME SafeInv, NEW c \in up, NEW a \in Action, begun[c][a] # 0
               PROVE  LET k == KeyOf(c, a, begun[c][a])
                      IN  /\ state[c][a] = "Succeeded" => Says(DurableLog, k, "Applied")
                          /\ state[c][a] \in {"DefinitelyFailed", "Exhausted", "GivenUp"} =>
                                  Says(DurableLog, k, "NotApplied")
    BY DEF SettledIsRecorded
  <2>1. c \in Controller
    BY SafeParts, LogTypes DEF MemoryOK
  <2>2. Settled(c)
    BY <2>1, SafeParts DEF ControllerInv, WhatItDid
  <2>3. QED
    BY <2>2 DEF Settled
<1>2. QED
  BY <1>1, KernelIsSafe, PTL

(* At most one attempt at an action has an unknown outcome, whichever      *)
(* controller made it (Ledger::begin_attempt, Effects::blocks), when the   *)
(* journal admits one controller or there is one action.                   *)
THEOREM OneOutcomeIsUncertain ==
    ASSUME Exclusive \/ OneAction
    PROVE  Spec => []OneUncertain
<1>1. CatchesUp
  BY DEF CatchesUp
<1>2. SafeInv => OneUncertain
  BY <1>1, OneUncertainNow DEF OneUncertainIn, OneUncertain
<1>3. QED
  BY <1>2, KernelIsSafe, PTL

(* A controller whose fold is current holds every unknown outcome: none    *)
(* can be walked past, settled by nobody or forgotten by a change of input *)
(* (assemble, plan_chain, Transition::resumed).                            *)
THEOREM EveryUnknownIsHeld ==
    ASSUME Exclusive \/ OneAction
    PROVE  Spec => []UnknownIsHeld
<1>1. CatchesUp
  BY DEF CatchesUp
<1>2. SafeInv => UnknownIsHeld
  <2> SUFFICES ASSUME SafeInv, NEW c \in up, tail[c] = log, NEW k \in Key, IsUncertain(log, k)
               PROVE  Holds(c, k)
    BY DEF UnknownIsHeld, Holds, HeldStates
  <2>1. c \in Controller
    BY SafeParts, LogTypes DEF MemoryOK
  <2>2. Knows(c)
    BY <2>1, SafeParts DEF ControllerInv, WhatItKnows
  <2>3. QED
    BY <1>1, <2>2 DEF Knows, IsUncertain
<1>3. QED
  BY <1>2, KernelIsSafe, PTL

(* While an entry runs, no entry before it in its chain has an attempt of  *)
(* unknown outcome (plan_chain's barrier), when no other controller can    *)
(* have made one.                                                          *)
THEOREM NothingUnknownAhead ==
    ASSUME Exclusive
    PROVE  Spec => []NoUnknownAhead
<1>1. SafeInv => NoUnknownAhead
  <2> SUFFICES ASSUME SafeInv, NEW c \in up, pc[c].at = "running",
                      NEW i \in 1..(pc[c].next - 1), NEW k \in Key,
                      k.action = Entries[pc[c].chain][i], IsUncertain(log, k)
               PROVE  FALSE
    BY DEF NoUnknownAhead
  <2>1. c \in Controller /\ pc[c] # Idle
    BY SafeParts, LogTypes DEF MemoryOK, Idle
  <2>2. /\ WalkClear(c) /\ pc[c].next \in 1..pc[c].upto /\ pc[c].upto \in Nat
        /\ AloneAt(c) /\ Knows(c)
    BY <2>1, SafeParts, WalkFacts DEF ControllerInv, WhatItKnows
  <2>3. i \in 1..pc[c].upto /\ i < pc[c].next
    BY <2>2
  <2>4. ~Blocks(c, k.action) /\ state[c][k.action] \in PassedStates
    BY <2>1, <2>2, <2>3 DEF WalkClear, StateOf
  <2>5. Holds(c, k)
    BY <2>2 DEF AloneAt, Knows, CatchesUp, IsUncertain
  <2>6. QED
    BY <2>4, <2>5 DEF Holds, Blocks, HeldStates, PassedStates
<1>2. QED
  BY <1>1, KernelIsSafe, PTL

(* Every attempt of unknown outcome can still be settled: the journal has  *)
(* room for its outcome (reserve_handoff_capacity), when there is one      *)
(* action.  With two the reservations of both can be of the same room.     *)
THEOREM RoomToSettle ==
    ASSUME OneAction
    PROVE  Spec => []SettlementRoom
<1>1. SafeInv => SettlementRoom
  <2> SUFFICES ASSUME SafeInv PROVE SettlementRoom
    OBVIOUS
  <2>1. /\ Len(log) \in Nat /\ Capacity \in Nat /\ Len(log) <= Capacity /\ UnknownFits
    BY SafeParts, JournalAssumption DEF RecordInv, JournalInv, JournalBounds
  <2> DEFINE unknown == {k \in Key : IsUncertain(log, k)}
  <2>2. CASE unknown = {}
    <3>1. Cardinality(unknown) = 0
      BY <2>2, FS_EmptySet
    <3>2. QED
      BY <2>1, <3>1 DEF SettlementRoom
  <2>3. CASE unknown # {}
    <3>1. PICK k \in Key : IsUncertain(log, k)
      BY <2>3
    <3>2. \A j \in Key : IsUncertain(log, j) => j = k
      BY <3>1, OneUncertainNow, KeyFields DEF CatchesUp, OneAction, OneUncertainIn
    <3>3. unknown = {k}
      BY <3>1, <3>2
    <3>4. Cardinality(unknown) = 1
      BY <3>3, FS_Singleton
    <3>5. Len(log) < Capacity
      BY <2>1, <3>1 DEF UnknownFits
    <3>6. QED
      BY <2>1, <3>4, <3>5 DEF SettlementRoom
  <2>4. QED
    BY <2>2, <2>3
<1>2. QED
  BY <1>1, KernelIsSafe, PTL

-----------------------------------------------------------------------------
(* The handoff contract.                                                   *)

(* The verdict of an attempt is what its durable record says. *)
VerdictsAgree ==
    \A k \in Key :
        /\ Verdict(k) \in Evidence \cup {"Unanswered"}
        /\ \A v \in Evidence : Verdict(k) = v <=> Says(DurableLog, k, v)

LEMMA VerdictsAreDurable == SafeInv => VerdictsAgree
<1> SUFFICES ASSUME SafeInv, NEW k \in Key
             PROVE  /\ Verdict(k) \in Evidence \cup {"Unanswered"}
                    /\ \A v \in Evidence : Verdict(k) = v <=> Says(DurableLog, k, v)
  BY DEF VerdictsAgree
<1>1. KernelInv /\ JournalInv /\ LadderOrder
  BY SafeParts DEF RecordInv
<1>2. CASE \E v \in Evidence : Says(DurableLog, k, v)
  <2>1. Verdict(k) \in Evidence /\ Says(DurableLog, k, Verdict(k))
    BY <1>2 DEF Verdict
  <2>2. ASSUME NEW v \in Evidence, Says(DurableLog, k, v) PROVE Verdict(k) = v
    <3>1. Says(log, k, v) /\ Says(log, k, Verdict(k))
      BY <1>1, <2>1, <2>2, DurablySaidIsSaid
    <3>2. QED
      BY <1>1, <3>1, SaysOneThing
  <2>3. QED
    BY <2>1, <2>2
<1>3. CASE ~ \E v \in Evidence : Says(DurableLog, k, v)
  BY <1>3 DEF Verdict, Evidence
<1>4. QED
  BY <1>2, <1>3

(* What is handed off is new, and alone, and no event's second landing. *)
LEMMA HandsOffAsAgreed ==
    ASSUME SafeInv, KeepsUp, NEW c \in Controller, Dispatch(c),
           NEW k, k = Preparing(c)
    PROVE  /\ k \in Key /\ k \notin handed /\ Verdict(k) = "Unanswered"
           /\ \A j \in handed : j.action = k.action => Verdict(j) # "Unanswered"
           /\ \A j \in handed : (j.action = k.action /\ j.input = k.input /\ k.input \in EventInput)
                  => Verdict(j) # "Applied"
           /\ handed' = handed \cup {k}
<1>1. c \in up /\ pc[c].at = "intent" /\ Fenced(c, DispatchPrepared(k), TRUE)
  BY DEF Dispatch
<1>2. /\ pc[c] # Idle /\ k \in Key /\ k.action = Here(c) /\ k.input = bound[c][pc[c].chain]
      /\ tail[c] = log /\ Intends(c)
  BY <1>1, PrepareFacts
<1>3. Prepared(k) /\ VerdictsAgree
  BY <1>1, PreparesAlone, VerdictsAreDurable
<1>4. Walked(log, k) = {"IntentAdmitted"}
  BY <1>1, RungsBefore DEF Fenced, Commit
<1>5. /\ KernelInv /\ HandedIsDurable /\ log \in Seq(EffectEvent(Key)) /\ handed \subseteq Key
      /\ Landings(c)
  BY SafeParts DEF RecordInv, ControllerInv, WhatItKnows
<1>6. DurableLog = log
  BY <1>1, <1>2, <1>5 DEF Intends, DurableLog
<1>7. k \notin handed
  BY <1>4, <1>5, HandedIsWalked DEF IsHandedOff
<1>8. Verdict(k) = "Unanswered"
  <2>1. \A v \in Evidence : ~Says(log, k, v)
    BY <1>4, <1>5, SaysIsOutcome DEF HasOutcome
  <2>2. QED
    BY <1>2, <1>3, <1>6, <2>1 DEF VerdictsAgree
<1>9. ASSUME NEW j \in handed, j.action = k.action PROVE Verdict(j) # "Unanswered"
  <2>1. j \in Key /\ IsHandedOff(log, j)
    BY <1>5, HandedIsWalked
  <2>2. HasOutcome(log, j)
    BY <1>3, <1>9, <2>1 DEF Prepared, KeepsUp, OneEvent, CatchesUp, IsUncertain
  <2>3. PICK v \in Evidence : Says(DurableLog, j, v)
    BY <1>5, <1>6, <2>2, OutcomeSays
  <2>4. QED
    BY <1>3, <2>1, <2>3 DEF VerdictsAgree, Evidence
<1>10. ASSUME NEW j \in handed, j.action = k.action, j.input = k.input, k.input \in EventInput,
              Verdict(j) = "Applied"
       PROVE  FALSE
  <2>1. j \in Key /\ Says(log, j, "Applied")
    BY <1>3, <1>5, <1>6, <1>10 DEF VerdictsAgree, Evidence
  <2>2. <<j.action, j.input>> \notin landedEvent[c]
    BY <1>1, <1>2, <1>10 DEF Intends
  <2>3. <<j, "Applied">> \in recording[c]
    BY <1>2, <1>5, <1>10, <2>1, <2>2 DEF Landings
  <2>4. ~Blocks(c, Here(c))
    BY <1>2, WalkFacts
  <2>5. <<j, "Applied">>[1] = j
    OBVIOUS
  <2>6. QED
    BY <1>2, <1>10, <2>3, <2>4, <2>5 DEF Blocks
<1>11. handed' = handed \cup {k}
  BY DEF Dispatch
<1>12. QED
  BY <1>2, <1>7, <1>8, <1>9, <1>10, <1>11

(* A dispatch records no outcome. *)
LEMMA HandOffAnswersNothing ==
    ASSUME SafeInv, VerdictsAgree, VerdictsAgree', NEW c \in Controller, Dispatch(c),
           NEW x \in Key
    PROVE  Verdict(x)' = Verdict(x)
<1>1. PICK e : e = DispatchPrepared(Preparing(c))
  OBVIOUS
<1>2. /\ c \in up /\ pc[c].at = "intent" /\ Fenced(c, e, TRUE)
  BY <1>1 DEF Dispatch
<1>3. /\ e \in EffectEvent(Key) /\ log' = Append(log, e) /\ tail[c] = log /\ Intends(c)
  BY <1>1, <1>2, PrepareFacts
<1>4. log \in Seq(EffectEvent(Key)) /\ durable' = Len(log) + 1 /\ durable = Len(log)
  BY <1>2, <1>3, SafeParts DEF Fenced, Commit, Intends
<1>5. DurableLog = log /\ DurableLog' = log'
  BY <1>3, <1>4, AppendFacts DEF DurableLog
<1>6. ASSUME NEW v \in Evidence PROVE Says(DurableLog, x, v)' <=> Says(DurableLog, x, v)
  <2>1. e # OutcomeObserved(x, v)
    BY <1>1 DEF DispatchPrepared, OutcomeObserved
  <2>2. Says(log', x, v) <=> Says(log, x, v)
    BY <1>3, <1>4, <2>1, SaysAppend
  <2>3. Says(DurableLog', x, v) <=> Says(DurableLog, x, v)
    BY <1>5, <2>2
  <2>4. QED
    BY <2>3 DEF Says, DurableLog
<1>7. QED
  BY <1>6 DEF VerdictsAgree

(* The contract's own words, read in the kernel. *)
LEMMA SameWords ==
    /\ Contract!Evidence = Evidence /\ Contract!Unanswered = "Unanswered"
    /\ \A j, k : Contract!SameEvent(j, k) <=>
                     j.action = k.action /\ j.input = k.input /\ k.input \in EventInput
  BY DEF Contract!Evidence, Evidence, Contract!Unanswered, Contract!SameEvent

LEMMA DispatchIsHandOff ==
    ASSUME SafeInv, VerdictsAgree, VerdictsAgree', KeepsUp, NEW c \in Controller, Dispatch(c)
    PROVE  Contract!ContractNext
<1> DEFINE k == Preparing(c)
<1>1. /\ k \in Key /\ k \notin handed /\ Verdict(k) = "Unanswered"
      /\ \A j \in handed : j.action = k.action => Verdict(j) # "Unanswered"
      /\ \A j \in handed : (j.action = k.action /\ j.input = k.input /\ k.input \in EventInput)
             => Verdict(j) # "Applied"
      /\ handed' = handed \cup {k}
  BY HandsOffAsAgreed
<1>2. handed \subseteq Key
  BY SafeParts
<1>3. [x \in Key |-> Verdict(x)]' = [x \in Key |-> Verdict(x)]
  BY HandOffAnswersNothing
<1> HIDE DEF k
<1>4. Contract!HandOff(k)
  BY <1>1, <1>2, <1>3, SameWords DEF Contract!HandOff
<1>5. QED
  BY <1>1, <1>4 DEF Contract!ContractNext

LEMMA OtherStepIsAnswer ==
    ASSUME SafeInv, SafeInv', VerdictsAgree, VerdictsAgree', JournalStep, handed' = handed
    PROVE  Contract!Answer
<1>1. ASSUME NEW k \in Key, Verdict(k) # "Unanswered" PROVE Verdict(k)' = Verdict(k)
  <2>1. PICK v : v = Verdict(k)
    OBVIOUS
  <2>2. v \in Evidence /\ Says(DurableLog, k, v)
    BY <1>1, <2>1 DEF VerdictsAgree
  <2>3. Says(DurableLog, k, v)'
    BY <2>2, SafeParts, DurablySaidStays
  <2>4. Verdict(k)' = v
    BY <2>2, <2>3 DEF VerdictsAgree
  <2>5. QED
    BY <2>1, <2>4
<1>2. ASSUME NEW k \in Key, Verdict(k)' = "Applied" PROVE k \in handed
  <2>1. Says(DurableLog, k, "Applied")'
    BY <1>2 DEF VerdictsAgree, Evidence
  <2>2. log' \in Seq(EffectEvent(Key)) /\ durable' \in 0..Len(log') /\ AppliedWasHanded'
    BY DEF SafeInv, KernelInv, TypeOK, JournalTypeOK, JournalBounds, RecordInv
  <2>3. Says(SubSeq(log', 1, durable'), k, "Applied")
    BY <2>1 DEF Says, DurableLog
  <2>4. Says(log', k, "Applied")
    BY <2>2, <2>3, PrefixSays
  <2>5. QED
    BY <2>2, <2>4 DEF AppliedWasHanded, Says
<1>3. \A k \in Key : Verdict(k)' \in Evidence \cup {"Unanswered"}
  BY DEF VerdictsAgree
<1>4. QED
  BY <1>1, <1>2, <1>3, SameWords DEF Contract!Answer

(* Whatever crashes, lost replies, restarts and repeated evidence do, the  *)
(* attempts handed to the world are those the contract allows, when the    *)
(* journal admits one controller, or any number of them act on one event:  *)
(* every step of the kernel is a handoff, an answer or nothing to the      *)
(* contract (Effects::prepare, applied_in).                                *)
THEOREM KernelKeepsContract ==
    ASSUME Exclusive \/ OneEvent
    PROVE  Spec => KeepsContract
<1>1. SafeInv => VerdictsAgree
  BY VerdictsAreDurable
<1>2. Init /\ VerdictsAgree => Contract!ContractInit
  <2> SUFFICES ASSUME Init, VerdictsAgree PROVE Contract!ContractInit
    OBVIOUS
  <2>1. \A k, v : ~Says(DurableLog, k, v)
    BY DEF Init, JournalInit, DurableLog, Says
  <2>2. \A k \in Key : Verdict(k) = "Unanswered"
    BY <2>1 DEF Verdict
  <2>3. QED
    BY <2>2, SameWords DEF Init, Contract!ContractInit
<1>3. SafeInv /\ SafeInv' /\ VerdictsAgree /\ VerdictsAgree' /\ [Next]_vars
        => [Contract!ContractNext]_(Contract!contractVars)
  <2> SUFFICES ASSUME SafeInv, SafeInv', VerdictsAgree, VerdictsAgree', [Next]_vars
               PROVE  Contract!ContractNext
    OBVIOUS
  <2>1. JournalStep
    BY StepKeepsKernel, SafeParts
  <2>2. CASE \E c \in Controller : Dispatch(c)
    BY <2>2, DispatchIsHandOff DEF KeepsUp
  <2>3. CASE handed' = handed
    BY <2>1, <2>3, OtherStepIsAnswer DEF Contract!ContractNext
  <2>4. QED
    BY <2>2, <2>3, OnlyDispatchHands
<1>4. QED
  BY <1>1, <1>2, <1>3, InitIsSafe, KernelIsSafe, PTL
     DEF Spec, KeepsContract, Contract!ContractSpec
=============================================================================
