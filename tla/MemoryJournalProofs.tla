------------------------ MODULE MemoryJournalProofs ------------------------
(***************************************************************************)
(* The in-memory adapter, proved for every set of keys and writers and     *)
(* every capacity: the rung index it checks appends against says what the  *)
(* log says, and so the adapter implements the journal's contract.         *)
(***************************************************************************)
EXTENDS MemoryJournal, Extremes

-----------------------------------------------------------------------------
LEMMA AppendFacts ==
    ASSUME NEW S, NEW s \in Seq(S), NEW e \in S
    PROVE  /\ Append(s, e) \in Seq(S)
           /\ Len(Append(s, e)) = Len(s) + 1
           /\ \A i \in 1..Len(s) : Append(s, e)[i] = s[i]
           /\ Append(s, e)[Len(s) + 1] = e
  OBVIOUS

LEMMA EventFields ==
    ASSUME NEW e \in EffectEvent(Key)
    PROVE  /\ e.key \in Key
           /\ e.kind \in Kind
           /\ e.kind = "OutcomeObserved" => e.says \in Evidence
  BY DEF EffectEvent, Kind

(* Recording an event adds its kind to what its own key has walked, and    *)
(* nothing to what any other key has.                                      *)
LEMMA WalkedAppend ==
    ASSUME NEW l \in Seq(EffectEvent(Key)), NEW e \in EffectEvent(Key), NEW k \in Key
    PROVE  Walked(Append(l, e), k) =
               IF e.key = k THEN Walked(l, k) \cup {e.kind} ELSE Walked(l, k)
<1> DEFINE m == Append(l, e)
<1>1. /\ Len(m) = Len(l) + 1
      /\ \A i \in 1..Len(l) : m[i] = l[i]
      /\ m[Len(l) + 1] = e
  BY AppendFacts
<1>2. ASSUME NEW x
      PROVE  x \in Walked(m, k) <=> x \in Walked(l, k) \/ (e.key = k /\ x = e.kind)
  <2>1. ASSUME x \in Walked(m, k)
        PROVE  x \in Walked(l, k) \/ (e.key = k /\ x = e.kind)
    <3>1. PICK i \in 1..Len(m) : m[i].key = k /\ x = m[i].kind
      BY <2>1 DEF Walked
    <3>2. CASE i \in 1..Len(l)
      BY <1>1, <3>1, <3>2 DEF Walked
    <3>3. CASE i = Len(l) + 1
      BY <1>1, <3>1, <3>3
    <3>4. QED
      BY <1>1, <3>1, <3>2, <3>3
  <2>2. ASSUME x \in Walked(l, k)
        PROVE  x \in Walked(m, k)
    <3>1. PICK i \in 1..Len(l) : l[i].key = k /\ x = l[i].kind
      BY <2>2 DEF Walked
    <3>2. i \in 1..Len(m) /\ m[i].key = k /\ x = m[i].kind
      BY <1>1, <3>1
    <3>3. QED
      BY <3>2 DEF Walked
  <2>3. ASSUME e.key = k, x = e.kind
        PROVE  x \in Walked(m, k)
    <3>1. Len(l) + 1 \in 1..Len(m)
      BY <1>1
    <3>2. QED
      BY <1>1, <2>3, <3>1 DEF Walked
  <2>4. QED
    BY <2>1, <2>2, <2>3
<1>3. CASE e.key = k
  BY <1>2, <1>3
<1>4. CASE e.key # k
  BY <1>2, <1>4
<1>5. QED
  BY <1>3, <1>4

(* The rungs below a kind, and the kind, are the rungs up to it. *)
LEMMA NextRung ==
    ASSUME NEW last \in Kind \cup {NoKind}
    PROVE  UpTo(NextAllowed[last]) = UpTo(last) \cup {NextAllowed[last]}
  BY DEF UpTo, NextAllowed, Rung, Kind, NoKind

(* A key not in the log has walked nothing: the index says NoKind. *)
LEMMA NothingWalked ==
    ASSUME NEW k
    PROVE  Walked(<<>>, k) = UpTo(NoKind)
<1>1. Walked(<<>>, k) = {}
  BY DEF Walked
<1>2. UpTo(NoKind) = {}
  BY DEF UpTo, Rung, Kind, NoKind
<1>3. QED
  BY <1>1, <1>2

-----------------------------------------------------------------------------
Inv == TypeOK /\ IndexAgrees /\ Len(committed) <= Capacity

(* The adapter's state has its type in every behaviour. *)
THEOREM InductiveInvariant == Spec => []Inv
<1>1. Init => Inv
  BY CapacityAssumption, NothingWalked DEF Init, Inv, TypeOK, IndexAgrees
<1>2. Inv /\ [Next]_vars => Inv'
  <2> SUFFICES ASSUME Inv, [Next]_vars PROVE Inv'
    OBVIOUS
  <2> USE DEF Inv, TypeOK
  <2>1. ASSUME NEW w \in Writer, NEW e \in EffectEvent(Key), CompareAndAppend(w, e)
        PROVE  Inv'
    <3>1. /\ committed' = Append(committed, e)
          /\ committed' \in Seq(EffectEvent(Key))
          /\ Len(committed') = Len(committed) + 1
      BY <2>1, AppendFacts DEF CompareAndAppend
    <3>2. TypeOK'
      BY <2>1, <3>1, EventFields DEF CompareAndAppend, OutcomeEntry
    <3>3. ASSUME NEW k \in Key
          PROVE  Walked(committed', k) = UpTo(ladder'[k])
      <4>1. Walked(committed', k) =
                IF e.key = k THEN Walked(committed, k) \cup {e.kind} ELSE Walked(committed, k)
        BY <3>1, WalkedAppend
      <4>2. Walked(committed, k) = UpTo(ladder[k])
        BY DEF IndexAgrees
      <4>3. CASE e.key = k
        <5>1. e.kind = NextAllowed[ladder[k]] /\ ladder'[k] = e.kind
          BY <2>1, <4>3 DEF CompareAndAppend, CheckAppendOrder
        <5>2. QED
          BY <4>1, <4>2, <4>3, <5>1, NextRung
      <4>4. CASE e.key # k
        BY <2>1, <4>1, <4>2, <4>4 DEF CompareAndAppend
      <4>5. QED
        BY <4>3, <4>4
    <3>4. Len(committed') <= Capacity
      BY <2>1, <3>1, CapacityAssumption DEF CompareAndAppend, BoundEvents
    <3>5. QED
      BY <3>2, <3>3, <3>4 DEF IndexAgrees
  <2>2. ASSUME NEW w \in Writer, ReadTail(w)
        PROVE  Inv'
    BY <2>2 DEF ReadTail, IndexAgrees
  <2>3. CASE Crash
    BY <2>3, CapacityAssumption, NothingWalked DEF Crash, IndexAgrees
  <2>4. CASE UNCHANGED vars
    BY <2>4 DEF vars, IndexAgrees
  <2>5. QED
    BY <2>1, <2>2, <2>3, <2>4 DEF Next
<1>3. QED
  BY <1>1, <1>2, PTL DEF Spec

THEOREM TypeCorrect == Spec => []TypeOK
  BY InductiveInvariant, PTL DEF Inv

(* The index every append is checked against never disagrees with the log. *)
THEOREM IndexAlwaysAgrees == Spec => []IndexAgrees
  BY InductiveInvariant, PTL DEF Inv

-----------------------------------------------------------------------------
(* The contract reads its own log with the definitions the adapter uses. *)
LEMMA SameReading ==
    /\ Journal!EffectEvent(Key) = EffectEvent(Key)
    /\ \A l, e : Journal!InOrder(l, e) = InOrder(l, e)
<1>1. Journal!EffectEvent(Key) = EffectEvent(Key)
  BY DEF Journal!EffectEvent, EffectEvent, Journal!Evidence, Evidence,
         Journal!Verification, Verification
<1>2. ASSUME NEW l, NEW e
      PROVE  Journal!InOrder(l, e) = InOrder(l, e)
  BY DEF Journal!InOrder, InOrder, Journal!Walked, Walked, Journal!UpTo, UpTo,
         Journal!Kind, Kind, Journal!NoKind, NoKind, Journal!Rung, Rung,
         Journal!NextAllowed, NextAllowed
<1>3. QED
  BY <1>1, <1>2

(* Checking the index is checking the log. *)
LEMMA CheckedIsInOrder ==
    ASSUME Inv, NEW w \in Writer, NEW e \in EffectEvent(Key), CompareAndAppend(w, e)
    PROVE  Journal!Commit(e, FALSE)
<1>1. e.key \in Key /\ ladder[e.key] \in Kind \cup {NoKind}
  BY EventFields DEF Inv, TypeOK
<1>2. Walked(committed, e.key) = UpTo(ladder[e.key]) /\ NextAllowed[ladder[e.key]] = e.kind
  BY <1>1 DEF Inv, IndexAgrees, CompareAndAppend, CheckAppendOrder
<1>3. InOrder(committed, e)
  BY <1>1, <1>2 DEF InOrder
<1>4. Len(committed) < Capacity
  BY CapacityAssumption DEF Inv, TypeOK, CompareAndAppend, BoundEvents
<1>5. committed' = Append(committed, e)
  BY DEF CompareAndAppend
<1>6. QED
  BY <1>3, <1>4, <1>5, SameReading DEF Journal!Commit

(* The adapter implements the contract: an append is the contract's, and   *)
(* the loss of everything is the loss of a suffix that was never durable.  *)
THEOREM Refinement == Spec => Implements
<1>1. Init => Journal!JournalInit
  BY DEF Init, Journal!JournalInit
<1>2. Inv /\ [Next]_vars => [Journal!JournalNext]_(Journal!journalVars)
  <2> SUFFICES ASSUME Inv, [Next]_vars
               PROVE  [Journal!JournalNext]_(Journal!journalVars)
    OBVIOUS
  <2>1. ASSUME NEW w \in Writer, NEW e \in EffectEvent(Key), CompareAndAppend(w, e)
        PROVE  Journal!JournalNext
    BY <2>1, CheckedIsInOrder, SameReading DEF Journal!JournalNext
  <2>2. ASSUME NEW w \in Writer, ReadTail(w)
        PROVE  UNCHANGED Journal!journalVars
    BY <2>2 DEF ReadTail, Journal!journalVars
  <2>3. CASE Crash
    <3>1. Journal!Lose(0)
      BY <2>3 DEF Crash, Journal!Lose, Inv, TypeOK
    <3>2. QED
      BY <3>1 DEF Journal!JournalNext, Inv, TypeOK
  <2>4. CASE UNCHANGED vars
    BY <2>4 DEF vars, Journal!journalVars
  <2>5. QED
    BY <2>1, <2>2, <2>3, <2>4 DEF Next
<1>3. QED
  BY <1>1, <1>2, InductiveInvariant, PTL DEF Spec, Implements, Journal!JournalSpec

-----------------------------------------------------------------------------
(* Every event of the adapter's log stands on the rungs below it, though   *)
(* no append ever looks at the log.                                        *)
THEOREM LadderInOrder == Spec => []LadderOrder
<1>1. Init => LadderOrder
  BY DEF Init, LadderOrder, Journal!LadderOrder
<1>2. Inv /\ LadderOrder /\ [Next]_vars => LadderOrder'
  <2> SUFFICES ASSUME Inv, LadderOrder, [Next]_vars PROVE LadderOrder'
    OBVIOUS
  <2> USE DEF LadderOrder, Journal!LadderOrder
  <2>1. ASSUME NEW w \in Writer, NEW e \in EffectEvent(Key), CompareAndAppend(w, e)
        PROVE  LadderOrder'
    <3>1. Journal!InOrder(committed, e) /\ committed' = Append(committed, e)
      BY <2>1, CheckedIsInOrder DEF Journal!Commit
    <3>2. committed \in Seq(EffectEvent(Key))
      BY DEF Inv, TypeOK
    <3>3. ASSUME NEW i \in 1..Len(committed')
          PROVE  Journal!InOrder(SubSeq(committed', 1, i - 1), committed'[i])
      <4>1. CASE i \in 1..Len(committed)
        <5>1. /\ SubSeq(committed', 1, i - 1) = SubSeq(committed, 1, i - 1)
              /\ committed'[i] = committed[i]
          BY <3>1, <3>2, <4>1
        <5>2. QED
          BY <4>1, <5>1
      <4>2. CASE i = Len(committed) + 1
        <5>1. SubSeq(committed', 1, i - 1) = committed /\ committed'[i] = e
          BY <3>1, <3>2, <4>2
        <5>2. QED
          BY <3>1, <5>1
      <4>3. QED
        BY <3>1, <3>2, <4>1, <4>2
    <3>4. QED
      BY <3>3
  <2>2. ASSUME NEW w \in Writer, ReadTail(w)
        PROVE  LadderOrder'
    BY <2>2 DEF ReadTail
  <2>3. CASE Crash
    BY <2>3 DEF Crash
  <2>4. CASE UNCHANGED vars
    BY <2>4 DEF vars
  <2>5. QED
    BY <2>1, <2>2, <2>3, <2>4 DEF Next
<1>3. QED
  BY <1>1, <1>2, InductiveInvariant, PTL DEF Spec

-----------------------------------------------------------------------------
(* Replay, one event at a time                                             *)

NothingSeen == [k \in Key |-> NotSeen]

Replayed(l, f, n) ==
    IF n = 0 THEN NothingSeen
    ELSE [f[n - 1] EXCEPT ![l[n].key] = StatusAfter(l[n])]

(* f holds the replay of each of the first N prefixes of l. *)
Replays(l, N, f) == f = [n \in 0..N |-> Replayed(l, f, n)]

LEMMA ReplayIsUnique ==
    ASSUME NEW l, NEW N \in Nat, NEW f, NEW g, Replays(l, N, f), Replays(l, N, g)
    PROVE  f = g
<1>1. /\ \A n \in 0..N : f[n] = Replayed(l, f, n) /\ g[n] = Replayed(l, g, n)
      /\ f = [n \in 0..N |-> f[n]] /\ g = [n \in 0..N |-> g[n]]
  BY DEF Replays
<1> DEFINE T == {n \in 0..N : f[n] # g[n]}
<1>2. T = {}
  <2> SUFFICES ASSUME T # {} PROVE FALSE
    OBVIOUS
  <2>1. T \subseteq Nat
    OBVIOUS
  <2>2. PICK n \in T : \A m \in T : n <= m
    <3> HIDE DEF T
    <3> QED
      BY <2>1, Least
  <2>3. n \in 0..N /\ f[n] # g[n]
    BY <2>2
  <2>4. CASE n = 0
    BY <1>1, <2>3, <2>4 DEF Replayed
  <2>5. CASE n # 0
    <3>1. n - 1 \in 0..N /\ ~(n <= n - 1)
      BY <2>3, <2>5
    <3>2. f[n - 1] = g[n - 1]
      BY <2>2, <3>1
    <3>3. Replayed(l, f, n) = Replayed(l, g, n)
      BY <2>5, <3>2 DEF Replayed
    <3>4. f[n] = Replayed(l, f, n) /\ g[n] = Replayed(l, g, n)
      BY <1>1, <2>3
    <3>5. QED
      BY <2>3, <3>3, <3>4
  <2>6. QED
    BY <2>4, <2>5
<1>3. \A n \in 0..N : f[n] = g[n]
  BY <1>2
<1>4. QED
  BY <1>1, <1>3

LEMMA ReplayExists ==
    ASSUME NEW l, NEW N \in Nat
    PROVE  \E f : Replays(l, N, f)
<1> DEFINE T == {n \in Nat : ~\E f : Replays(l, n, f)}
<1>1. T = {}
  <2> SUFFICES ASSUME T # {} PROVE FALSE
    OBVIOUS
  <2>1. PICK n \in T : \A m \in T : n <= m
    <3>1. T \subseteq Nat
      OBVIOUS
    <3> HIDE DEF T
    <3> QED
      BY <3>1, Least
  <2>2. n \in Nat /\ ~\E f : Replays(l, n, f)
    BY <2>1
  <2>3. CASE n = 0
    <3> DEFINE f == [i \in 0..n |-> NothingSeen]
    <3>1. \A i \in 0..n : Replayed(l, f, i) = NothingSeen
      BY <2>3 DEF Replayed
    <3>2. f = [i \in 0..n |-> Replayed(l, f, i)]
      BY <3>1
    <3> HIDE DEF f
    <3>3. Replays(l, n, f)
      BY <3>2 DEF Replays
    <3>4. QED
      BY <2>2, <3>3
  <2>4. CASE n # 0
    <3>1. n - 1 \in Nat /\ ~(n <= n - 1)
      BY <2>2, <2>4
    <3>2. PICK f : Replays(l, n - 1, f)
      BY <2>1, <3>1
    <3>3. \A i \in 0..(n - 1) : f[i] = Replayed(l, f, i)
      BY <3>2 DEF Replays
    <3> DEFINE last == [f[n - 1] EXCEPT ![l[n].key] = StatusAfter(l[n])]
               g == [i \in 0..n |-> IF i = n THEN last ELSE f[i]]
    <3>4. \A i \in 0..n : g[i] = Replayed(l, g, i)
      <4> SUFFICES ASSUME NEW i \in 0..n PROVE g[i] = Replayed(l, g, i)
        OBVIOUS
      <4>1. CASE i = n
        <5>1. g[n] = last /\ g[n - 1] = f[n - 1]
          BY <2>2, <3>1
        <5> HIDE DEF g
        <5>2. QED
          BY <2>4, <4>1, <5>1 DEF Replayed
      <4>2. CASE i # n
        <5>1. i \in 0..(n - 1) /\ g[i] = f[i] /\ f[i] = Replayed(l, f, i)
          BY <2>2, <3>3, <4>2
        <5>2. i # 0 => g[i - 1] = f[i - 1]
          BY <2>2, <5>1
        <5> HIDE DEF g
        <5>3. QED
          BY <5>1, <5>2 DEF Replayed
      <4>3. QED
        BY <4>1, <4>2
    <3>5. g = [i \in 0..n |-> Replayed(l, g, i)]
      <4>1. g = [i \in 0..n |-> g[i]]
        OBVIOUS
      <4> HIDE DEF g
      <4>2. QED
        BY <3>4, <4>1
    <3> HIDE DEF g
    <3>6. QED
      BY <2>2, <3>5 DEF Replays
  <2>5. QED
    BY <2>3, <2>4
<1>2. QED
  BY <1>1

LEMMA RecoverIsReplay ==
    ASSUME NEW l, Len(l) \in Nat
    PROVE  \E f : Replays(l, Len(l), f) /\ Recover(Key, l) = f[Len(l)]
<1> DEFINE fold == CHOOSE f : Replays(l, Len(l), f)
<1>1. Replays(l, Len(l), fold)
  BY ReplayExists
<1>2. Recover(Key, l) = fold[Len(l)]
  BY DEF Recover, Replays, Replayed, NothingSeen
<1>3. QED
  BY <1>1, <1>2

(* An event overwrites the status of its key, and of no other. *)
LEMMA RecoverAppend ==
    ASSUME NEW l \in Seq(EffectEvent(Key)), NEW e \in EffectEvent(Key)
    PROVE  Recover(Key, Append(l, e)) =
               [Recover(Key, l) EXCEPT ![e.key] = StatusAfter(e)]
<1> DEFINE m == Append(l, e)
           n == Len(l)
<1>1. /\ n \in Nat /\ Len(m) = n + 1 /\ m[n + 1] = e /\ n + 1 \in Nat
      /\ \A i \in 1..n : m[i] = l[i]
  OBVIOUS
<1> HIDE DEF m
<1>2. PICK f : Replays(l, n, f) /\ Recover(Key, l) = f[n]
  BY <1>1, RecoverIsReplay
<1>3. PICK g : Replays(m, n + 1, g) /\ Recover(Key, m) = g[n + 1]
  BY <1>1, RecoverIsReplay
<1> DEFINE h == [i \in 0..n |-> g[i]]
<1>4. \A i \in 0..(n + 1) : g[i] = Replayed(m, g, i)
  BY <1>3 DEF Replays
<1>5. \A i \in 0..n : h[i] = Replayed(l, h, i)
  <2> SUFFICES ASSUME NEW i \in 0..n PROVE h[i] = Replayed(l, h, i)
    OBVIOUS
  <2>1. h[i] = g[i] /\ g[i] = Replayed(m, g, i)
    BY <1>1, <1>4
  <2>2. i # 0 => h[i - 1] = g[i - 1] /\ m[i] = l[i]
    BY <1>1
  <2> HIDE DEF h
  <2>3. QED
    BY <2>1, <2>2 DEF Replayed
<1>6. Replays(l, n, h)
  <2>1. h = [i \in 0..n |-> h[i]]
    OBVIOUS
  <2> HIDE DEF h
  <2>2. QED
    BY <1>5, <2>1 DEF Replays
<1>7. h = f
  <2> HIDE DEF h
  <2> QED
    BY <1>1, <1>2, <1>6, ReplayIsUnique
<1>8. g[n] = Recover(Key, l)
  <2>1. h[n] = g[n]
    BY <1>1
  <2> HIDE DEF h
  <2>2. QED
    BY <1>2, <1>7, <2>1
<1>9. g[n + 1] = [g[n] EXCEPT ![e.key] = StatusAfter(e)]
  <2>1. n + 1 \in 0..(n + 1) /\ n + 1 # 0 /\ (n + 1) - 1 = n
    BY <1>1
  <2>2. QED
    BY <1>1, <1>4, <2>1 DEF Replayed
<1>10. QED
  BY <1>3, <1>8, <1>9 DEF m

LEMMA RecoverNothing == Recover(Key, <<>>) = NothingSeen
<1>1. Len(<<>>) = 0
  OBVIOUS
<1>2. PICK f : Replays(<<>>, 0, f) /\ Recover(Key, <<>>) = f[0]
  BY <1>1, RecoverIsReplay
<1>3. QED
  BY <1>2 DEF Replays, Replayed

-----------------------------------------------------------------------------
(* The outcome index against replay *)

(* What replay and the outcome index say of a key on each of its rungs. *)
RungTells(rung, status, outcome) ==
    /\ rung = "NoKind" => status = NotSeen
    /\ rung = "IntentAdmitted" => status = "Prepared"
    /\ rung = "DispatchPrepared" => status = "OutcomeUnknown"
    /\ rung = "OutcomeObserved" => status = outcome.says
    /\ rung = "Verified" => status \in {"Verified", "VerificationFailed"}
    /\ outcome = NoOutcome <=>
          rung \in {"NoKind", "IntentAdmitted", "DispatchPrepared"}

RungsTell ==
    \A k \in Key : RungTells(ladder[k], Recover(Key, committed)[k], outcomes[k])

OutcomeNamed ==
    \A k \in Key :
        outcomes[k] # NoOutcome =>
            /\ outcomes[k].at \in 1..Len(committed)
            /\ committed[outcomes[k].at] = OutcomeObserved(k, outcomes[k].says)

OutcomeInv ==
    Recover(Key, committed) \in [Key -> Status \cup {NotSeen}]
    /\ RungsTell /\ OutcomeNamed

LEMMA EventStatus ==
    ASSUME NEW e \in EffectEvent(Key)
    PROVE  /\ StatusAfter(e) \in Status
           /\ e.kind = "IntentAdmitted" => StatusAfter(e) = "Prepared"
           /\ e.kind = "DispatchPrepared" => StatusAfter(e) = "OutcomeUnknown"
           /\ e.kind = "OutcomeObserved" =>
                 /\ StatusAfter(e) = e.says /\ e.says \in Evidence
                 /\ e = OutcomeObserved(e.key, e.says)
           /\ e.kind = "Verified" =>
                 StatusAfter(e) \in {"Verified", "VerificationFailed"}
<1>1. CASE e \in [kind : {"IntentAdmitted", "DispatchPrepared"}, key : Key,
                  says : {"Nothing"}]
  BY <1>1 DEF StatusAfter, Status
<1>2. CASE e \in [kind : {"OutcomeObserved"}, key : Key, says : Evidence]
  BY <1>2 DEF StatusAfter, Status, Evidence, OutcomeObserved
<1>3. CASE e \in [kind : {"Verified"}, key : Key, says : Verification]
  BY <1>3 DEF StatusAfter, Status
<1>4. QED
  BY <1>1, <1>2, <1>3 DEF EffectEvent

LEMMA OutcomeInvStart ==
    ASSUME committed = <<>>, ladder = [k \in Key |-> NoKind],
           outcomes = [k \in Key |-> NoOutcome]
    PROVE  OutcomeInv
BY RecoverNothing
   DEF OutcomeInv, RungsTell, RungTells, OutcomeNamed, NothingSeen, NoKind

LEMMA OutcomeInvAppend ==
    ASSUME Inv, OutcomeInv, NEW w \in Writer, NEW e \in EffectEvent(Key),
           CompareAndAppend(w, e)
    PROVE  OutcomeInv'
<1>1. /\ committed \in Seq(EffectEvent(Key)) /\ e.key \in Key
      /\ ladder \in [Key -> Kind \cup {NoKind}]
      /\ outcomes \in [Key -> OutcomeEntry \cup {NoOutcome}]
  BY EventFields DEF Inv, TypeOK
<1>2. /\ committed' = Append(committed, e)
      /\ ladder' = [ladder EXCEPT ![e.key] = e.kind]
      /\ NextAllowed[ladder[e.key]] = e.kind
  BY DEF CompareAndAppend, CheckAppendOrder
<1>3. Recover(Key, committed') = [Recover(Key, committed) EXCEPT ![e.key] = StatusAfter(e)]
  BY <1>1, <1>2, RecoverAppend
<1>4. Recover(Key, committed) \in [Key -> Status \cup {NotSeen}]
  BY DEF OutcomeInv
<1>5. Recover(Key, committed') \in [Key -> Status \cup {NotSeen}]
  BY <1>3, <1>4, EventStatus
<1>6. ASSUME NEW k \in Key
      PROVE  RungTells(ladder'[k], Recover(Key, committed')[k], outcomes'[k])
  <2>1. RungTells(ladder[k], Recover(Key, committed)[k], outcomes[k])
    BY DEF OutcomeInv, RungsTell
  <2>2. CASE k # e.key
    <3>1. ladder'[k] = ladder[k] /\ outcomes'[k] = outcomes[k]
          /\ Recover(Key, committed')[k] = Recover(Key, committed)[k]
      BY <1>1, <1>2, <1>3, <1>4, <2>2 DEF CompareAndAppend
    <3>2. QED
      BY <2>1, <3>1
  <2>3. CASE k = e.key
    <3>1. /\ ladder'[k] = e.kind /\ Recover(Key, committed')[k] = StatusAfter(e)
          /\ ladder[k] \in Kind \cup {NoKind}
      BY <1>1, <1>2, <1>3, <1>4, <2>3
    <3>2. CASE e.kind = "OutcomeObserved"
      <4>1. outcomes'[k] = [at |-> Len(committed) + 1, says |-> e.says]
        BY <1>1, <2>3, <3>2 DEF CompareAndAppend
      <4>2. outcomes'[k] # NoOutcome /\ outcomes'[k].says = e.says
        BY <1>1, <4>1 DEF NoOutcome
      <4>3. QED
        BY <3>1, <3>2, <4>2, EventStatus DEF RungTells
    <3>3. CASE e.kind # "OutcomeObserved"
      <4>1. outcomes'[k] = outcomes[k]
        BY <3>3 DEF CompareAndAppend
      <4>2. /\ e.kind = "IntentAdmitted" <=> ladder[k] = "NoKind"
            /\ e.kind = "DispatchPrepared" <=> ladder[k] = "IntentAdmitted"
            /\ e.kind = "Verified" <=> ladder[k] \in {"OutcomeObserved", "Verified"}
            /\ e.kind \in {"IntentAdmitted", "DispatchPrepared", "Verified"}
        BY <1>2, <2>3, <3>1, <3>3, EventFields DEF NextAllowed, Kind, NoKind
      <4>3. QED
        BY <2>1, <3>1, <4>1, <4>2, EventStatus DEF RungTells
    <3>4. QED
      BY <3>2, <3>3
  <2>4. QED
    BY <2>2, <2>3
<1>7. ASSUME NEW k \in Key, outcomes'[k] # NoOutcome
      PROVE  /\ outcomes'[k].at \in 1..Len(committed')
             /\ committed'[outcomes'[k].at] = OutcomeObserved(k, outcomes'[k].says)
  <2>1. /\ Len(committed') = Len(committed) + 1 /\ Len(committed) \in Nat
        /\ committed'[Len(committed) + 1] = e
        /\ \A i \in 1..Len(committed) : committed'[i] = committed[i]
    BY <1>1, <1>2
  <2>2. CASE k = e.key /\ e.kind = "OutcomeObserved"
    <3>1. outcomes'[k] = [at |-> Len(committed) + 1, says |-> e.says]
      BY <1>1, <2>2 DEF CompareAndAppend
    <3>2. outcomes'[k].at = Len(committed) + 1 /\ outcomes'[k].says = e.says
      BY <3>1
    <3>3. QED
      BY <2>1, <2>2, <3>2, EventStatus
  <2>3. CASE ~(k = e.key /\ e.kind = "OutcomeObserved")
    <3>1. outcomes'[k] = outcomes[k]
      BY <1>1, <2>3 DEF CompareAndAppend
    <3>2. /\ outcomes[k].at \in 1..Len(committed)
          /\ committed[outcomes[k].at] = OutcomeObserved(k, outcomes[k].says)
      BY <1>7, <3>1 DEF OutcomeInv, OutcomeNamed
    <3>3. QED
      BY <2>1, <3>1, <3>2
  <2>4. QED
    BY <2>2, <2>3
<1>8. QED
  BY <1>5, <1>6, <1>7 DEF OutcomeInv, RungsTell, OutcomeNamed

(* outcome_at answers from an index and recovery folds the log: the two    *)
(* never disagree about a key.  Why: both move with its rung.              *)
THEOREM OutcomeIndexAlwaysAgrees == Spec => []OutcomeIndexAgrees
<1>1. Init => OutcomeInv
  BY OutcomeInvStart DEF Init
<1>2. Inv /\ OutcomeInv /\ [Next]_vars => OutcomeInv'
  <2> SUFFICES ASSUME Inv, OutcomeInv, [Next]_vars PROVE OutcomeInv'
    OBVIOUS
  <2>1. ASSUME NEW w \in Writer, NEW e \in EffectEvent(Key), CompareAndAppend(w, e)
        PROVE  OutcomeInv'
    BY <2>1, OutcomeInvAppend
  <2>2. CASE UNCHANGED <<committed, ladder, outcomes>>
    BY <2>2 DEF OutcomeInv, RungsTell, OutcomeNamed
  <2>3. CASE Crash
    <3>1. committed' = <<>> /\ ladder' = [k \in Key |-> NoKind]
          /\ outcomes' = [k \in Key |-> NoOutcome]
      BY <2>3 DEF Crash
    <3>2. Recover(Key, committed') = NothingSeen
      BY <3>1, RecoverNothing
    <3>3. QED
      BY <3>1, <3>2
         DEF OutcomeInv, RungsTell, RungTells, OutcomeNamed, NothingSeen, NoKind
  <2>4. QED
    BY <2>1, <2>2, <2>3 DEF Next, ReadTail, vars
<1>3. Inv /\ OutcomeInv => OutcomeIndexAgrees
  <2> SUFFICES ASSUME Inv, OutcomeInv, NEW k \in Key
               PROVE  LET recovered == Recover(Key, committed)
                      IN  IF outcomes[k] = NoOutcome
                          THEN recovered[k] \in {NotSeen, "Prepared", "OutcomeUnknown"}
                          ELSE /\ outcomes[k].at \in 1..Len(committed)
                               /\ committed[outcomes[k].at]
                                      = OutcomeObserved(k, outcomes[k].says)
                               /\ \/ recovered[k] = outcomes[k].says
                                  \/ recovered[k] \in {"Verified", "VerificationFailed"}
    BY DEF OutcomeIndexAgrees
  <2>1. RungTells(ladder[k], Recover(Key, committed)[k], outcomes[k])
        /\ ladder[k] \in Kind \cup {NoKind}
    BY DEF OutcomeInv, RungsTell, Inv, TypeOK
  <2>2. QED
    BY <2>1 DEF OutcomeInv, OutcomeNamed, RungTells, Kind, NoKind
<1>4. Spec => []OutcomeInv
  BY <1>1, <1>2, InductiveInvariant, PTL DEF Spec
<1>5. QED
  BY <1>3, <1>4, InductiveInvariant, PTL
=============================================================================
