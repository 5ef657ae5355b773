------------------------- MODULE ContinuationProofs -------------------------
(***************************************************************************)
(* Proofs about the continuation of a file journal, for every set of       *)
(* actions, every number of attempts and files, and every trigger and      *)
(* limit.                                                                  *)
(*                                                                         *)
(* The argument looks at the chain: the frames of all files, h, and the    *)
(* last file of it, t.  Every file before t ends in its own seal and hands *)
(* it to the next, no file behind t holds a frame, and whoever may still   *)
(* write an event holds t.  What a file carries it has from the fold of    *)
(* the one before, so a fact of all files is kept by showing it for t when *)
(* an event is appended to it, and for t + 1 when that becomes the last.   *)
(***************************************************************************)
EXTENDS Continuation, Extremes

Chain == [Generation -> Seq(Frame)]

FramesOf(fs) == [g \in Generation |-> fs[g].frames]

Frames == FramesOf(files)

CheckpointOf(f) ==
    [k \in Key |-> IF Kept(Fold(f), k) THEN Fold(f)[k] ELSE NoKind]

Linked(h, g) ==
    /\ OwnSeal(h[g])
    /\ h[g + 1] # <<>> /\ h[g + 1][1] = h[g][Len(h[g])]

(* An event of k, of this kind, is in file g. *)
Records(h, g, k, kind) ==
    \E i \in EventsOf(h[g]) : h[g][i].key = k /\ h[g][i].kind = kind

Names(h, g, k) == \E kind \in Kind : Records(h, g, k, kind)

WrittenIn(h, k, g) ==
    LET naming == {p \in 1..g : LastRung(h[p], k) # NoKind}
    IN  IF naming = {} THEN NoKind
        ELSE LastRung(h[CHOOSE p \in naming : \A q \in naming : q <= p], k)

-----------------------------------------------------------------------------
(* The parts of the invariant that the files alone make true. *)

LinkedTo(h, t) ==
    /\ \A g \in 1..(t - 1) : Linked(h, g)
    /\ \A g \in (t + 1)..MaxGeneration : h[g] = <<>>

(* A seal carries the fold of what is before it. *)
SealsCarry(h) ==
    /\ h[1] # <<>> => h[1][1].is = "event"
    /\ \A g \in Generation :
          OwnSeal(h[g]) => h[g][Len(h[g])].carries = CheckpointOf(h[g])

(* A carried rung is on record, in a file before. *)
CarriedIsRecorded(h, t) ==
    \A g \in 1..t, k \in Key :
        Carried(h[g])[k] # NoKind =>
            \E p \in 1..(g - 1) : Records(h, p, k, Carried(h[g])[k])

(* A settled attempt that is carried gets no unsettled rung again. *)
SettledStays(h, t) ==
    \A g \in 1..t, k \in Key, kind \in Kind :
        IsSettled(Carried(h[g])[k]) /\ Records(h, g, k, kind)
            => IsSettled(kind)

(* An attempt that was forgotten is at or below a settled one that is not. *)
ForgottenIsBelow(h, t) ==
    \A g \in 1..t, k \in Key :
        Carried(h[g])[k] = NoKind /\ (\E p \in 1..(g - 1) : Names(h, p, k)) =>
            \E w \in Key : /\ w.action = k.action /\ k.attempt <= w.attempt
                           /\ IsSettled(Carried(h[g])[w])

FoldIsKept(h, t) ==
    \A g \in 1..t, k \in Key :
        \/ Fold(h[g])[k] = WrittenIn(h, k, g)
        \/ /\ Fold(h[g])[k] = NoKind /\ IsSettled(WrittenIn(h, k, g))
           /\ \E w \in Key : /\ w.action = k.action
                             /\ w.attempt > k.attempt
                             /\ WrittenIn(h, w, g) # NoKind

Once(h) ==
    \A k \in Key, g, p \in Generation :
        \A i \in 1..Len(h[g]), j \in 1..Len(h[p]) :
            /\ h[g][i] = Event(k, "IntentAdmitted")
            /\ h[p][j] = Event(k, "IntentAdmitted")
            => g = p /\ i = j

Precedes(h, p, j, g, i) ==
    /\ p = g => j < i
    /\ h[p][j].key = h[g][i].key
    /\ Rung[h[p][j].kind] >= Rung[h[g][i].kind] - 1

StepByStep(h) ==
    \A g \in Generation : \A i \in EventsOf(h[g]) :
        h[g][i].kind = "IntentAdmitted" \/
        \E p \in 1..g : \E j \in EventsOf(h[p]) : Precedes(h, p, j, g, i)

History(h, t) ==
    /\ LinkedTo(h, t) /\ SealsCarry(h)
    /\ CarriedIsRecorded(h, t) /\ SettledStays(h, t)
    /\ ForgottenIsBelow(h, t) /\ FoldIsKept(h, t)
    /\ Once(h) /\ StepByStep(h)

-----------------------------------------------------------------------------
(* The handle against the last file. *)
Held(t) ==
    /\ handle # Closed => handle.gen \in 1..t
    /\ Usable => handle.gen = t /\ Untouched
    /\ sealing # "idle" =>
          /\ handle # Closed /\ ~handle.sealedBy /\ ~handle.poisoned
          /\ Len(files[handle.gen].frames) = handle.view + 1
    /\ sealing = "sealed" =>
          /\ handle.gen = t /\ t < MaxGeneration
          /\ OwnSeal(files[t].frames)
    /\ sealing = "written" =>
          /\ handle.gen + 1 = t
          /\ Len(files[t].frames) = 1 /\ ~files[t].cut

AckedIn(t) ==
    \A a \in acked : a[1] <= t /\ a[2] <= Len(files[a[1]].frames)

(* What a handle of file g that writes may believe of each attempt. *)
FenceFits(h, g, fence) ==
    \A k \in Key :
        /\ fence[k] # NoKind => \E p \in 1..g : Records(h, p, k, fence[k])
        /\ fence[k] = NoKind => ~Names(h, g, k) /\ Carried(h[g])[k] = NoKind
        /\ IsSettled(Carried(h[g])[k]) => IsSettled(fence[k])

Fenced == Usable => FenceFits(Frames, handle.gen, handle.fence)

SealedOnlyWhenResumed ==
    ~resumed =>
        /\ \A g \in Generation : ~Corrupt(files[g].frames)
        /\ Usable => ~OwnSeal(files[handle.gen].frames)

IsLast(t) == History(Frames, t) /\ Held(t) /\ AckedIn(t)

-----------------------------------------------------------------------------
(* Frames, and what a file says of an attempt *)

(* A frame is an event of an attempt, or a seal that carries rungs. *)
LEMMA FrameFacts ==
    ASSUME NEW x \in Frame
    PROVE  /\ x.is \in {"event", "seal"}
           /\ x.is = "event" => x.key \in Key /\ x.kind \in Kind
           /\ x.is = "seal" => x.after \in Nat /\ x.carries \in Rungs
BY DEF Frame

LEMMA EventIsFrame ==
    ASSUME NEW k \in Key, NEW kind \in Kind
    PROVE  Event(k, kind) \in Frame
BY DEF Frame, Event

LEMMA SealIsFrame ==
    ASSUME NEW n \in Nat, NEW r \in Rungs
    PROVE  Seal(n, r) \in Frame
BY DEF Frame, Seal

LEMMA EventFacts ==
    ASSUME NEW f \in Seq(Frame), NEW i \in EventsOf(f)
    PROVE  i \in 1..Len(f) /\ f[i].key \in Key /\ f[i].kind \in Kind
BY FrameFacts DEF EventsOf

(* The rung of an attempt is that of its last event in the file. *)
LEMMA LastRungFacts ==
    ASSUME NEW f \in Seq(Frame), NEW k
    PROVE  \/ /\ LastRung(f, k) = NoKind
              /\ \A i \in EventsOf(f) : f[i].key # k
           \/ /\ LastRung(f, k) \in Kind
              /\ \E i \in EventsOf(f) :
                    /\ f[i].key = k /\ f[i].kind = LastRung(f, k)
                    /\ \A j \in EventsOf(f) : f[j].key = k => j <= i
<1> DEFINE own == {i \in EventsOf(f) : f[i].key = k}
<1>1. CASE own = {}
  BY <1>1 DEF LastRung
<1>2. CASE own # {}
  <2>1. Len(f) \in Nat /\ own \subseteq 0..Len(f)
    BY DEF EventsOf
  <2>2. \E i \in own : \A j \in own : j <= i
    <3> HIDE DEF own
    <3> QED
      BY <1>2, <2>1, Greatest
  <2> DEFINE last == CHOOSE i \in own : \A j \in own : j <= i
  <2>3. last \in own /\ \A j \in own : j <= last
    <3> HIDE DEF own
    <3> QED
      BY <2>2
  <2>4. LastRung(f, k) = f[last].kind
    BY <1>2 DEF LastRung
  <2>5. last \in EventsOf(f) /\ f[last].key = k
    BY <2>3
  <2>6. f[last].kind \in Kind
    BY <2>5, EventFacts
  <2> HIDE DEF last
  <2>7. QED
    BY <2>3, <2>4, <2>5, <2>6
<1>3. QED
  BY <1>1, <1>2

LEMMA KindIsNotNone == NoKind \notin Kind
BY DEF NoKind, Kind

(* And the last event alone decides it. *)
LEMMA LastRungIs ==
    ASSUME NEW f \in Seq(Frame), NEW i \in EventsOf(f),
           \A j \in EventsOf(f) : f[j].key = f[i].key => j <= i
    PROVE  LastRung(f, f[i].key) = f[i].kind
<1>1. PICK m \in EventsOf(f) :
          /\ f[m].key = f[i].key /\ f[m].kind = LastRung(f, f[i].key)
          /\ \A j \in EventsOf(f) : f[j].key = f[i].key => j <= m
  BY LastRungFacts
<1>2. m = i
  <2>1. m <= i /\ i <= m
    BY <1>1
  <2>2. m \in Nat /\ i \in Nat
    BY DEF EventsOf
  <2>3. QED
    BY <2>1, <2>2
<1>3. QED
  BY <1>1, <1>2

LEMMA EmptySays ==
    ASSUME NEW k
    PROVE  /\ LastRung(<<>>, k) = NoKind /\ EventsOf(<<>>) = {}
           /\ \A l \in Key : Carried(<<>>)[l] = NoKind
BY DEF LastRung, EventsOf, Carried

(* An appended event is the last of its attempt and of no other. *)
LEMMA AppendedSays ==
    ASSUME NEW f \in Seq(Frame), NEW k \in Key, NEW kind \in Kind, NEW l
    PROVE  LastRung(Append(f, Event(k, kind)), l) =
               IF l = k THEN kind ELSE LastRung(f, l)
<1> DEFINE e == Event(k, kind)
           g == Append(f, e)
           n == Len(f) + 1
<1>1. /\ e \in Frame /\ e.is = "event" /\ e.key = k /\ e.kind = kind
  BY EventIsFrame DEF Event
<1> HIDE DEF e
<1>2. /\ g \in Seq(Frame) /\ Len(g) = n /\ g[n] = e /\ n \in Nat
      /\ \A i \in 1..Len(f) : g[i] = f[i]
  BY <1>1
<1> HIDE DEF g
<1>3. EventsOf(g) = EventsOf(f) \cup {n}
  BY <1>1, <1>2 DEF EventsOf
<1>4. \A i \in EventsOf(f) : g[i] = f[i] /\ i < n /\ i \in Nat
  BY <1>2 DEF EventsOf
<1>5. CASE l = k
  <2>1. n \in EventsOf(g) /\ \A j \in EventsOf(g) : j <= n
    <3>1. n <= n
      BY <1>2
    <3>2. QED
      BY <1>2, <1>3, <1>4, <3>1
  <2>2. LastRung(g, g[n].key) = g[n].kind
    BY <1>2, <2>1, LastRungIs
  <2>3. QED
    BY <1>1, <1>2, <1>5, <2>2 DEF g, e
<1>6. CASE l # k
  <2>1. CASE LastRung(f, l) = NoKind
    <3>1. \A i \in EventsOf(f) : f[i].key # l
      BY <2>1, LastRungFacts, KindIsNotNone
    <3>2. \A i \in EventsOf(g) : g[i].key # l
      BY <1>1, <1>2, <1>3, <1>4, <1>6, <3>1
    <3>3. LastRung(g, l) = NoKind
      BY <1>2, <3>2, LastRungFacts
    <3>4. QED
      BY <1>6, <2>1, <3>3 DEF g, e
  <2>2. CASE LastRung(f, l) # NoKind
    <3>1. PICK i \in EventsOf(f) :
              /\ f[i].key = l /\ f[i].kind = LastRung(f, l)
              /\ \A j \in EventsOf(f) : f[j].key = l => j <= i
      BY <2>2, LastRungFacts
    <3>2. i \in EventsOf(g) /\ g[i].key = l /\ g[i].kind = LastRung(f, l)
      BY <1>3, <1>4, <3>1
    <3>3. \A j \in EventsOf(g) : g[j].key = g[i].key => j <= i
      BY <1>1, <1>2, <1>3, <1>4, <1>6, <3>1, <3>2
    <3>4. LastRung(g, g[i].key) = g[i].kind
      BY <1>2, <3>2, <3>3, LastRungIs
    <3>5. QED
      BY <1>6, <3>2, <3>4 DEF g, e
  <2>3. QED
    BY <2>1, <2>2
<1>7. QED
  BY <1>5, <1>6

(* A seal says nothing of an attempt by itself. *)
LEMMA SealSaysNothing ==
    ASSUME NEW f \in Seq(Frame), NEW s \in Frame, s.is = "seal"
    PROVE  /\ EventsOf(Append(f, s)) = EventsOf(f)
           /\ \A i \in 1..Len(f) : Append(f, s)[i] = f[i]
           /\ \A l : LastRung(Append(f, s), l) = LastRung(f, l)
<1> DEFINE g == Append(f, s)
<1>1. /\ g \in Seq(Frame) /\ Len(g) = Len(f) + 1 /\ g[Len(f) + 1] = s
      /\ Len(f) \in Nat /\ \A i \in 1..Len(f) : g[i] = f[i]
  OBVIOUS
<1>2. EventsOf(g) = EventsOf(f)
  BY <1>1 DEF EventsOf
<1>3. \A i \in EventsOf(f) : g[i] = f[i]
  BY <1>1 DEF EventsOf
<1>4. ASSUME NEW l PROVE LastRung(g, l) = LastRung(f, l)
  <2> HIDE DEF g
  <2>1. CASE LastRung(f, l) = NoKind
    <3>1. \A i \in EventsOf(f) : f[i].key # l
      BY <2>1, LastRungFacts, KindIsNotNone
    <3>2. \A i \in EventsOf(g) : g[i].key # l
      BY <1>2, <1>3, <3>1
    <3>3. QED
      BY <1>1, <2>1, <3>2, LastRungFacts
  <2>2. CASE LastRung(f, l) # NoKind
    <3>1. PICK i \in EventsOf(f) :
              /\ f[i].key = l /\ f[i].kind = LastRung(f, l)
              /\ \A j \in EventsOf(f) : f[j].key = l => j <= i
      BY <2>2, LastRungFacts
    <3>2. i \in EventsOf(g) /\ g[i].key = l /\ g[i].kind = LastRung(f, l)
      BY <1>2, <1>3, <3>1
    <3>3. \A j \in EventsOf(g) : g[j].key = g[i].key => j <= i
      BY <1>2, <1>3, <3>1, <3>2
    <3>4. QED
      BY <1>1, <3>2, <3>3, LastRungIs
  <2>3. QED
    BY <2>1, <2>2
<1>5. QED
  BY <1>1, <1>2, <1>4

LEMMA CarriedFacts ==
    ASSUME NEW f \in Seq(Frame)
    PROVE  /\ Carried(f) \in Rungs
           /\ Fold(f) \in Rungs /\ FenceOf(f) \in Rungs
           /\ \A k \in Key : LastRung(f, k) \in Kind \cup {NoKind}
<1>1. Carried(f) \in Rungs
  <2>1. CASE f # <<>> /\ f[1].is = "seal"
    <3>1. f[1] \in Frame
      BY <2>1
    <3>2. QED
      BY <2>1, <3>1, FrameFacts DEF Carried
  <2>2. CASE ~(f # <<>> /\ f[1].is = "seal")
    <3>1. Carried(f) = [k \in Key |-> NoKind]
      BY <2>2 DEF Carried
    <3>2. QED
      BY <3>1 DEF Rungs
  <2>3. QED
    BY <2>1, <2>2
<1>2. \A k \in Key : LastRung(f, k) \in Kind \cup {NoKind}
  BY LastRungFacts
<1>3. \A k \in Key : Carried(f)[k] \in Kind \cup {NoKind}
  BY <1>1 DEF Rungs
<1>4. Fold(f) \in Rungs
  BY <1>2, <1>3 DEF Fold, Rungs
<1>5. FenceOf(f) \in Rungs
  BY <1>2, <1>3 DEF FenceOf, Rungs
<1>6. QED
  BY <1>1, <1>2, <1>4, <1>5

LEMMA CheckpointFacts ==
    ASSUME NEW f \in Seq(Frame)
    PROVE  CheckpointOf(f) \in Rungs
BY CarriedFacts DEF CheckpointOf, Rungs

(* Appending leaves what was carried, except a seal to an empty file. *)
LEMMA AppendedCarries ==
    ASSUME NEW f \in Seq(Frame), NEW x \in Frame,
           f = <<>> => x.is = "event"
    PROVE  Carried(Append(f, x)) = Carried(f)
<1>1. CASE f = <<>>
  <2>1. Append(f, x) # <<>> /\ Append(f, x)[1] = x
    BY <1>1
  <2>2. QED
    BY <1>1, <2>1 DEF Carried
<1>2. CASE f # <<>>
  <2>1. Append(f, x) # <<>> /\ Append(f, x)[1] = f[1]
    BY <1>2
  <2>2. QED
    BY <1>2, <2>1 DEF Carried
<1>3. QED
  BY <1>1, <1>2

LEMMA NamesIsLastRung ==
    ASSUME NEW h \in Chain, NEW g \in Generation, NEW k
    PROVE  /\ Names(h, g, k) <=> LastRung(h[g], k) # NoKind
           /\ LastRung(h[g], k) # NoKind => Records(h, g, k, LastRung(h[g], k))
           /\ \A kind : Records(h, g, k, kind) => kind \in Kind
<1>1. h[g] \in Seq(Frame)
  BY DEF Chain
<1>2. \A i \in EventsOf(h[g]) : h[g][i].kind \in Kind
  BY <1>1, EventFacts
<1>3. LastRung(h[g], k) # NoKind => Records(h, g, k, LastRung(h[g], k))
  BY <1>1, LastRungFacts DEF Records
<1>4. LastRung(h[g], k) # NoKind => LastRung(h[g], k) \in Kind
  BY <1>1, LastRungFacts
<1>5. LastRung(h[g], k) = NoKind => \A i \in EventsOf(h[g]) : h[g][i].key # k
  BY <1>1, LastRungFacts, KindIsNotNone
<1>6. QED
  BY <1>2, <1>3, <1>4, <1>5 DEF Names, Records

(* What a chain of files says of an attempt is what the last file that     *)
(* names it says.                                                          *)
LEMMA WrittenFacts ==
    ASSUME NEW h, NEW g \in Generation, NEW k
    PROVE  \/ /\ WrittenIn(h, k, g) = NoKind
              /\ \A p \in 1..g : LastRung(h[p], k) = NoKind
           \/ \E p \in 1..g :
                /\ LastRung(h[p], k) # NoKind
                /\ WrittenIn(h, k, g) = LastRung(h[p], k)
                /\ \A q \in 1..g : LastRung(h[q], k) # NoKind => q <= p
<1> DEFINE naming == {p \in 1..g : LastRung(h[p], k) # NoKind}
<1>1. CASE naming = {}
  BY <1>1 DEF WrittenIn
<1>2. CASE naming # {}
  <2>1. g \in Nat /\ naming \subseteq 0..g
    BY DEF Generation
  <2>2. \E p \in naming : \A q \in naming : q <= p
    <3> HIDE DEF naming
    <3> QED
      BY <1>2, <2>1, Greatest
  <2> DEFINE last == CHOOSE p \in naming : \A q \in naming : q <= p
  <2>3. last \in naming /\ \A q \in naming : q <= last
    <3> HIDE DEF naming
    <3> QED
      BY <2>2
  <2>4. WrittenIn(h, k, g) = LastRung(h[last], k)
    BY <1>2 DEF WrittenIn
  <2> HIDE DEF last
  <2>5. QED
    BY <2>3, <2>4
<1>3. QED
  BY <1>1, <1>2

LEMMA WrittenTop ==
    ASSUME NEW h, NEW g \in Generation, NEW k, LastRung(h[g], k) # NoKind
    PROVE  WrittenIn(h, k, g) = LastRung(h[g], k)
<1>1. g \in Nat /\ g \in 1..g
  BY DEF Generation
<1>2. PICK p \in 1..g :
          /\ WrittenIn(h, k, g) = LastRung(h[p], k)
          /\ \A q \in 1..g : LastRung(h[q], k) # NoKind => q <= p
  BY <1>1, WrittenFacts
<1>3. p = g
  BY <1>1, <1>2
<1>4. QED
  BY <1>2, <1>3

LEMMA WrittenBelow ==
    ASSUME NEW h, NEW g \in Generation, g + 1 \in Generation, NEW k,
           LastRung(h[g + 1], k) = NoKind
    PROVE  WrittenIn(h, k, g + 1) = WrittenIn(h, k, g)
<1>1. g \in Nat
  BY DEF Generation
<1>2. /\ \A p \in 1..(g + 1) : p \in 1..g \/ p = g + 1
      /\ \A p \in 1..g : p \in 1..(g + 1)
  BY <1>1
<1>3. CASE \A p \in 1..g : LastRung(h[p], k) = NoKind
  BY <1>2, <1>3, WrittenFacts
<1>4. CASE \E p \in 1..g : LastRung(h[p], k) # NoKind
  <2>1. PICK p \in 1..g :
            /\ LastRung(h[p], k) # NoKind
            /\ WrittenIn(h, k, g) = LastRung(h[p], k)
            /\ \A q \in 1..g : LastRung(h[q], k) # NoKind => q <= p
    BY <1>4, WrittenFacts
  <2>2. PICK q \in 1..(g + 1) :
            /\ LastRung(h[q], k) # NoKind
            /\ WrittenIn(h, k, g + 1) = LastRung(h[q], k)
            /\ \A r \in 1..(g + 1) : LastRung(h[r], k) # NoKind => r <= q
    BY <1>2, <1>4, WrittenFacts
  <2>3. q \in 1..g
    BY <1>2, <2>2
  <2>4. q <= p /\ p <= q
    BY <1>2, <2>1, <2>2, <2>3
  <2>5. p = q
    BY <2>4
  <2>6. QED
    BY <2>1, <2>2, <2>5
<1>5. QED
  BY <1>3, <1>4

SameTo(i, h, k, g) == \A p \in 1..g : LastRung(i[p], k) = LastRung(h[p], k)

LEMMA WrittenSame ==
    ASSUME NEW h, NEW i, NEW g \in Generation, NEW k, SameTo(i, h, k, g)
    PROVE  WrittenIn(i, k, g) = WrittenIn(h, k, g)
<1> USE DEF SameTo
<1>1. CASE \A p \in 1..g : LastRung(h[p], k) = NoKind
  BY <1>1, WrittenFacts
<1>2. CASE \E p \in 1..g : LastRung(h[p], k) # NoKind
  <2>1. PICK p \in 1..g :
            /\ LastRung(h[p], k) # NoKind
            /\ WrittenIn(h, k, g) = LastRung(h[p], k)
            /\ \A q \in 1..g : LastRung(h[q], k) # NoKind => q <= p
    BY <1>2, WrittenFacts
  <2>2. PICK q \in 1..g :
            /\ LastRung(i[q], k) # NoKind
            /\ WrittenIn(i, k, g) = LastRung(i[q], k)
            /\ \A r \in 1..g : LastRung(i[r], k) # NoKind => r <= q
    BY <1>2, WrittenFacts
  <2>3. q <= p /\ p <= q
    BY <2>1, <2>2
  <2>4. p = q
    BY <2>3
  <2>5. QED
    BY <2>1, <2>2, <2>4
<1>3. QED
  BY <1>1, <1>2

(* Places of the chain. *)
LEMMA Places ==
    ASSUME NEW t \in Generation
    PROVE  /\ t \in Nat /\ 1 <= t /\ MaxGeneration \in Nat
           /\ 1 \in Generation /\ t \in 1..t
           /\ \A g \in 1..t : g \in Generation /\ g <= t
           /\ \A g \in 1..(t - 1) :
                /\ g \in Generation /\ g + 1 \in 1..t /\ g < t /\ g # t
                /\ g \in 1..t /\ g + 1 \in Generation
           /\ \A g \in Generation : g \in 1..t \/ g \in (t + 1)..MaxGeneration
           /\ \A g \in (t + 1)..MaxGeneration : g \in Generation /\ g # t
           /\ \A g \in 1..t : g = t \/ g \in 1..(t - 1)
           /\ t < MaxGeneration => t + 1 \in Generation
           /\ \A g \in 1..t : \A p \in 1..(g - 1) : p \in Generation /\ p # t
           /\ \A g \in 1..t : \A p \in 1..g : p \in Generation
BY ContinuationAssumption DEF Generation

-----------------------------------------------------------------------------
(* An event appended to the last file *)

LEMMA RungFacts ==
    /\ Kind = {"IntentAdmitted", "DispatchPrepared", "OutcomeObserved", "Verified"}
    /\ \A kind \in Kind, rung \in Kind \cup {NoKind} :
          NextAllowed[rung] = kind =>
              /\ Rung[rung] >= Rung[kind] - 1
              /\ kind = "IntentAdmitted" <=> rung = NoKind
              /\ IsSettled(rung) => IsSettled(kind)
    /\ ~IsSettled(NoKind)
BY DEF Kind, NoKind, NextAllowed, Rung, IsSettled

LEMMA EventLinks ==
    ASSUME NEW h \in Chain, NEW t \in Generation, LinkedTo(h, t),
           NEW x \in Frame, h[t] = <<>> => t = 1,
           NEW i \in Chain, i = [h EXCEPT ![t] = Append(@, x)]
    PROVE  LinkedTo(i, t)
<1>1. /\ i[t] = Append(h[t], x) /\ h[t] \in Seq(Frame)
      /\ \A g \in Generation : g # t => i[g] = h[g]
  BY DEF Chain
<1>2. ASSUME NEW g \in 1..(t - 1) PROVE Linked(i, g)
  <2>1. /\ g \in Generation /\ g + 1 \in Generation /\ g # t /\ Linked(h, g)
    BY Places DEF LinkedTo
  <2>2. i[g] = h[g]
    BY <1>1, <2>1
  <2>3. CASE g + 1 # t
    <3>1. i[g + 1] = h[g + 1]
      BY <1>1, <2>1, <2>3
    <3>2. QED
      BY <2>1, <2>2, <3>1 DEF Linked
  <2>4. CASE g + 1 = t
    <3>1. h[t] # <<>> /\ h[t][1] = h[g][Len(h[g])]
      BY <2>1, <2>4 DEF Linked
    <3>2. i[t] # <<>> /\ i[t][1] = h[t][1]
      BY <1>1, <3>1
    <3>3. QED
      BY <2>1, <2>2, <2>4, <3>1, <3>2 DEF Linked
  <2>5. QED
    BY <2>3, <2>4
<1>3. ASSUME NEW g \in (t + 1)..MaxGeneration PROVE i[g] = <<>>
  <2>1. g \in Generation /\ g # t
    BY Places
  <2>2. QED
    BY <1>1, <2>1 DEF LinkedTo
<1>4. QED
  BY <1>2, <1>3 DEF LinkedTo

(* What the last file says after an event, the files before standing. *)
EventIsIn(h, i, t, k, kind) ==
    /\ \A g \in Generation : Carried(i[g]) = Carried(h[g])
    /\ \A g \in Generation, l \in Key :
          LastRung(i[g], l) =
              IF g = t /\ l = k THEN kind ELSE LastRung(h[g], l)
    /\ \A g \in Generation, l \in Key :
          Fold(i[g])[l] = IF g = t /\ l = k THEN kind ELSE Fold(h[g])[l]
    /\ \A g \in Generation, l \in Key, r \in Kind :
          Records(i, g, l, r) <=>
              Records(h, g, l, r) \/ (g = t /\ l = k /\ r = kind)

LEMMA EventSays ==
    ASSUME NEW h \in Chain, NEW t \in Generation,
           NEW k \in Key, NEW kind \in Kind,
           NEW i \in Chain, i = [h EXCEPT ![t] = Append(@, Event(k, kind))]
    PROVE  EventIsIn(h, i, t, k, kind)
<1>1. /\ i[t] = Append(h[t], Event(k, kind)) /\ h[t] \in Seq(Frame)
      /\ \A g \in Generation : g # t => i[g] = h[g]
  BY DEF Chain
<1>2. Event(k, kind) \in Frame /\ Event(k, kind).is = "event"
  BY EventIsFrame DEF Event
<1>3. Carried(i[t]) = Carried(h[t])
  BY <1>1, <1>2, AppendedCarries
<1>4. \A g \in Generation : Carried(i[g]) = Carried(h[g])
  BY <1>1, <1>3
<1>5. \A l \in Key : LastRung(i[t], l) =
                         IF l = k THEN kind ELSE LastRung(h[t], l)
  BY <1>1, AppendedSays
<1>6. \A g \in Generation, l \in Key :
          LastRung(i[g], l) =
              IF g = t /\ l = k THEN kind ELSE LastRung(h[g], l)
  BY <1>1, <1>5
<1>7. \A g \in Generation, l \in Key :
          Fold(i[g])[l] = IF g = t /\ l = k THEN kind ELSE Fold(h[g])[l]
  BY <1>4, <1>6, KindIsNotNone DEF Fold
<1>8. ASSUME NEW g \in Generation, NEW l \in Key, NEW r \in Kind
      PROVE  Records(i, g, l, r) <=>
                 Records(h, g, l, r) \/ (g = t /\ l = k /\ r = kind)
  <2>1. CASE g # t
    BY <1>1, <2>1 DEF Records
  <2>2. CASE g = t
    <3> DEFINE n == Len(h[t]) + 1
    <3>1. /\ EventsOf(i[t]) = EventsOf(h[t]) \cup {n}
          /\ i[t][n] = Event(k, kind)
          /\ \A j \in EventsOf(h[t]) : i[t][j] = h[t][j]
      BY <1>1, <1>2 DEF EventsOf
    <3>2. i[t][n].key = k /\ i[t][n].kind = kind
      BY <3>1 DEF Event
    <3> HIDE DEF n
    <3>3. QED
      BY <2>2, <3>1, <3>2 DEF Records
  <2>3. QED
    BY <2>1, <2>2
<1>9. QED
  BY <1>4, <1>6, <1>7, <1>8 DEF EventIsIn

LEMMA LaterFilesBegin ==
    ASSUME NEW h \in Chain, NEW t \in Generation, LinkedTo(h, t)
    PROVE  h[t] = <<>> => t = 1
<1>1. ASSUME t # 1 PROVE h[t] # <<>>
  <2>1. t - 1 \in 1..(t - 1) /\ (t - 1) + 1 = t
    BY Places, <1>1
  <2>2. Linked(h, t - 1)
    BY <2>1 DEF LinkedTo
  <2>3. QED
    BY <2>1, <2>2 DEF Linked
<1>2. QED
  BY <1>1

LEMMA EventSeals ==
    ASSUME NEW h \in Chain, NEW t \in Generation, SealsCarry(h),
           NEW k \in Key, NEW kind \in Kind,
           NEW i \in Chain, i = [h EXCEPT ![t] = Append(@, Event(k, kind))]
    PROVE  SealsCarry(i)
<1>1. /\ i[t] = Append(h[t], Event(k, kind)) /\ h[t] \in Seq(Frame)
      /\ \A g \in Generation : g # t => i[g] = h[g]
  BY DEF Chain
<1>2. Event(k, kind).is = "event" /\ Event(k, kind) \in Frame
  BY EventIsFrame DEF Event
<1>3. ~OwnSeal(i[t])
  <2>1. Len(i[t]) = Len(h[t]) + 1 /\ i[t][Len(h[t]) + 1] = Event(k, kind)
    BY <1>1, <1>2
  <2>2. QED
    BY <1>2, <2>1 DEF OwnSeal
<1>4. i[1] # <<>> => i[1][1].is = "event"
  <2>1. CASE t # 1
    BY <1>1, <2>1, Places DEF SealsCarry
  <2>2. CASE t = 1 /\ h[t] = <<>>
    <3>1. i[t][1] = Event(k, kind)
      BY <1>1, <1>2, <2>2
    <3>2. QED
      BY <1>2, <2>2, <3>1
  <2>3. CASE t = 1 /\ h[t] # <<>>
    <3>1. i[t][1] = h[t][1]
      BY <1>1, <1>2, <2>3
    <3>2. QED
      BY <2>3, <3>1 DEF SealsCarry
  <2>4. QED
    BY <2>1, <2>2, <2>3
<1>5. QED
  BY <1>1, <1>3, <1>4 DEF SealsCarry

LEMMA EventFolds ==
    ASSUME NEW h \in Chain, NEW t \in Generation, FoldIsKept(h, t),
           NEW k \in Key, NEW kind \in Kind,
           NEW i \in Chain, i = [h EXCEPT ![t] = Append(@, Event(k, kind))]
    PROVE  FoldIsKept(i, t)
<1>1. EventIsIn(h, i, t, k, kind)
  BY EventSays
<1>2. \A g \in 1..t : g \in Generation
  BY Places
<1>3. ASSUME NEW g \in 1..t, NEW l \in Key
      PROVE  WrittenIn(i, l, g) =
                 IF g = t /\ l = k THEN kind ELSE WrittenIn(h, l, g)
  <2>1. CASE g = t /\ l = k
    <3>1. LastRung(i[g], l) = kind /\ kind # NoKind
      BY <1>1, <1>2, <2>1, KindIsNotNone DEF EventIsIn
    <3>2. LastRung(i[g], l) # NoKind /\ g \in Generation
      BY <1>2, <3>1
    <3>3. WrittenIn(i, l, g) = LastRung(i[g], l)
      BY <3>2, WrittenTop
    <3>4. QED
      BY <2>1, <3>1, <3>3
  <2>2. CASE ~(g = t /\ l = k)
    <3>1. \A p \in 1..g : p \in Generation /\ (p = t => g = t)
      BY Places, <1>2
    <3>2. \A p \in 1..g : LastRung(i[p], l) = LastRung(h[p], l)
      BY <1>1, <2>2, <3>1 DEF EventIsIn
    <3>3. WrittenIn(i, l, g) = WrittenIn(h, l, g)
      <4>1. SameTo(i, h, l, g)
        BY <3>2 DEF SameTo
      <4>2. QED
        BY <1>2, <4>1, WrittenSame
    <3>4. QED
      BY <2>2, <3>3
  <2>3. QED
    BY <2>1, <2>2
<1>4. ASSUME NEW g \in 1..t, NEW w \in Key, WrittenIn(h, w, g) # NoKind
      PROVE  WrittenIn(i, w, g) # NoKind
  BY <1>3, <1>4, KindIsNotNone
<1>5. ASSUME NEW g \in 1..t, NEW l \in Key
      PROVE  \/ Fold(i[g])[l] = WrittenIn(i, l, g)
             \/ /\ Fold(i[g])[l] = NoKind /\ IsSettled(WrittenIn(i, l, g))
                /\ \E w \in Key : /\ w.action = l.action
                                  /\ w.attempt > l.attempt
                                  /\ WrittenIn(i, w, g) # NoKind
  <2>1. CASE g = t /\ l = k
    BY <1>1, <1>2, <1>3, <2>1 DEF EventIsIn
  <2>2. CASE ~(g = t /\ l = k)
    <3>1. /\ Fold(i[g])[l] = Fold(h[g])[l]
          /\ WrittenIn(i, l, g) = WrittenIn(h, l, g)
      BY <1>1, <1>2, <1>3, <2>2 DEF EventIsIn
    <3>2. QED
      BY <1>4, <3>1 DEF FoldIsKept
  <2>3. QED
    BY <2>1, <2>2
<1>6. QED
  BY <1>5 DEF FoldIsKept

LEMMA EventOnce ==
    ASSUME NEW h \in Chain, NEW t \in Generation, LinkedTo(h, t), Once(h),
           NEW k \in Key, NEW kind \in Kind,
           kind = "IntentAdmitted" => \A p \in 1..t : ~Names(h, p, k),
           NEW i \in Chain, i = [h EXCEPT ![t] = Append(@, Event(k, kind))]
    PROVE  Once(i)
<1> DEFINE n == Len(h[t]) + 1
           At(j, g, a, l) == a \in 1..Len(j[g]) /\ j[g][a] = Event(l, "IntentAdmitted")
<1>1. /\ i[t] = Append(h[t], Event(k, kind)) /\ h[t] \in Seq(Frame)
      /\ \A g \in Generation : g # t => i[g] = h[g]
  BY DEF Chain
<1>2. /\ Len(i[t]) = n /\ i[t][n] = Event(k, kind) /\ Len(h[t]) \in Nat
      /\ \A a \in 1..Len(h[t]) : i[t][a] = h[t][a]
  BY <1>1, EventIsFrame
<1>3. ASSUME NEW g \in Generation, NEW a, NEW l \in Key, At(i, g, a, l)
      PROVE  \/ At(h, g, a, l)
             \/ g = t /\ a = n /\ l = k /\ kind = "IntentAdmitted"
  <2>1. CASE g # t
    BY <1>1, <1>3, <2>1
  <2>2. CASE g = t /\ a \in 1..Len(h[t])
    BY <1>2, <1>3, <2>2
  <2>3. CASE g = t /\ a = n
    <3>1. Event(k, kind) = Event(l, "IntentAdmitted")
      BY <1>2, <1>3, <2>3
    <3>2. QED
      BY <2>3, <3>1 DEF Event
  <2>4. g = t => a \in 1..Len(h[t]) \/ a = n
    BY <1>2, <1>3
  <2>5. QED
    BY <2>1, <2>2, <2>3, <2>4
<1>4. ASSUME NEW g \in Generation, NEW a, At(h, g, a, k) PROVE Names(h, g, k)
  <2>1. a \in EventsOf(h[g]) /\ h[g][a].key = k /\ h[g][a].kind = "IntentAdmitted"
    BY <1>4 DEF EventsOf, Event
  <2>2. QED
    BY <2>1, RungFacts DEF Names, Records
<1>5. ASSUME NEW g \in Generation, NEW a, kind = "IntentAdmitted"
      PROVE  ~At(h, g, a, k)
  <2>1. CASE g \in 1..t
    BY <1>4, <1>5, <2>1
  <2>2. CASE g \in (t + 1)..MaxGeneration
    <3>1. h[g] = <<>>
      BY <2>2 DEF LinkedTo
    <3>2. QED
      BY <3>1
  <2>3. QED
    BY <2>1, <2>2, Places
<1>6. ASSUME NEW l \in Key, NEW g \in Generation, NEW p \in Generation,
             NEW a, NEW b, At(i, g, a, l), At(i, p, b, l)
      PROVE  g = p /\ a = b
  <2>1. At(h, g, a, l) /\ At(h, p, b, l) => g = p /\ a = b
    BY DEF Once
  <2>2. \/ At(h, g, a, l)
        \/ g = t /\ a = n /\ l = k /\ kind = "IntentAdmitted"
    BY <1>3, <1>6
  <2>3. \/ At(h, p, b, l)
        \/ p = t /\ b = n /\ l = k /\ kind = "IntentAdmitted"
    BY <1>3, <1>6
  <2>4. kind = "IntentAdmitted" /\ l = k => ~At(h, g, a, l) /\ ~At(h, p, b, l)
    BY <1>5
  <2> HIDE DEF At, n
  <2>5. QED
    BY <2>1, <2>2, <2>3, <2>4
<1>7. QED
  BY <1>6 DEF Once

LEMMA EventSteps ==
    ASSUME NEW h \in Chain, NEW t \in Generation, StepByStep(h),
           NEW k \in Key, NEW kind \in Kind,
           kind # "IntentAdmitted" =>
               \E p \in 1..t, r \in Kind :
                   Records(h, p, k, r) /\ Rung[r] >= Rung[kind] - 1,
           NEW i \in Chain, i = [h EXCEPT ![t] = Append(@, Event(k, kind))]
    PROVE  StepByStep(i)
<1> DEFINE n == Len(h[t]) + 1
           e == Event(k, kind)
<1>1. /\ e.is = "event" /\ e.key = k /\ e.kind = kind /\ e \in Frame
  BY EventIsFrame DEF Event
<1> HIDE DEF e
<1>2. /\ i[t] = Append(h[t], e) /\ h[t] \in Seq(Frame)
      /\ \A g \in Generation : g # t => i[g] = h[g]
  BY DEF Chain, e
<1>3. /\ Len(i[t]) = n /\ i[t][n] = e /\ Len(h[t]) \in Nat
      /\ \A a \in 1..Len(h[t]) : i[t][a] = h[t][a]
  BY <1>1, <1>2
<1>4. \A g \in Generation : \A a \in EventsOf(h[g]) :
          a \in EventsOf(i[g]) /\ i[g][a] = h[g][a] /\ (g = t => a < n)
  BY <1>2, <1>3 DEF EventsOf
<1>5. \A g \in Generation : \A a \in EventsOf(i[g]) :
          a \in EventsOf(h[g]) \/ (g = t /\ a = n)
  BY <1>2, <1>3 DEF EventsOf
<1> HIDE DEF n
<1>6. ASSUME NEW g \in Generation, NEW a \in EventsOf(i[g]),
             i[g][a].kind # "IntentAdmitted"
      PROVE  \E p \in 1..g : \E j \in EventsOf(i[p]) :
                 Precedes(i, p, j, g, a)
  <2>1. CASE a \in EventsOf(h[g])
    <3>1. i[g][a] = h[g][a]
      BY <1>4, <2>1
    <3>2. PICK p \in 1..g : \E j \in EventsOf(h[p]) : Precedes(h, p, j, g, a)
      BY <1>6, <2>1, <3>1 DEF StepByStep
    <3>3. PICK j \in EventsOf(h[p]) : Precedes(h, p, j, g, a)
      BY <3>2
    <3>4. p \in Generation
      BY Places
    <3>5. j \in EventsOf(i[p]) /\ i[p][j] = h[p][j]
      BY <1>4, <3>4
    <3>6. Precedes(i, p, j, g, a)
      BY <3>1, <3>3, <3>5 DEF Precedes
    <3>7. QED
      BY <3>5, <3>6
  <2>2. CASE g = t /\ a = n
    <3>1. i[g][a].key = k /\ i[g][a].kind = kind
      BY <1>1, <1>3, <2>2
    <3>2. PICK p \in 1..t, r \in Kind :
              Records(h, p, k, r) /\ Rung[r] >= Rung[kind] - 1
      BY <1>6, <3>1
    <3>3. PICK j \in EventsOf(h[p]) : h[p][j].key = k /\ h[p][j].kind = r
      BY <3>2 DEF Records
    <3>4. p \in Generation
      BY Places
    <3>5. /\ j \in EventsOf(i[p]) /\ i[p][j] = h[p][j] /\ (p = t => j < n)
      BY <1>4, <3>3, <3>4
    <3>6. Precedes(i, p, j, g, a)
      BY <2>2, <3>1, <3>2, <3>3, <3>5 DEF Precedes
    <3>7. QED
      BY <2>2, <3>5, <3>6
  <2>3. QED
    BY <1>5, <2>1, <2>2
<1>7. QED
  BY <1>6 DEF StepByStep

(* What an admitted event must be for the history to stay one. *)
Admissible(h, t, k, kind) ==
    /\ IsSettled(Carried(h[t])[k]) => IsSettled(kind)
    /\ kind # "IntentAdmitted" =>
          \E p \in 1..t, r \in Kind :
              Records(h, p, k, r) /\ Rung[r] >= Rung[kind] - 1
    /\ kind = "IntentAdmitted" => \A p \in 1..t : ~Names(h, p, k)

LEMMA EventCarries ==
    ASSUME NEW h \in Chain, NEW t \in Generation,
           CarriedIsRecorded(h, t), SettledStays(h, t), ForgottenIsBelow(h, t),
           NEW k \in Key, NEW kind \in Kind, Admissible(h, t, k, kind),
           NEW i \in Chain, i = [h EXCEPT ![t] = Append(@, Event(k, kind))]
    PROVE  CarriedIsRecorded(i, t) /\ SettledStays(i, t) /\ ForgottenIsBelow(i, t)
<1>1. EventIsIn(h, i, t, k, kind)
  BY EventSays
<1>2. \A g \in 1..t : g \in Generation /\ h[g] \in Seq(Frame)
  BY Places DEF Chain
<1>3. \A g \in 1..t : \A p \in 1..(g - 1) : p \in Generation /\ p # t
  BY Places
<1>4. \A g \in 1..t : Carried(i[g]) = Carried(h[g])
  BY <1>1, <1>2 DEF EventIsIn
<1>5. \A g \in Generation, l \in Key, r \in Kind :
          g # t => (Records(i, g, l, r) <=> Records(h, g, l, r))
  BY <1>1 DEF EventIsIn
<1>6. CarriedIsRecorded(i, t)
  <2> SUFFICES ASSUME NEW g \in 1..t, NEW l \in Key, Carried(i[g])[l] # NoKind
               PROVE  \E p \in 1..(g - 1) : Records(i, p, l, Carried(i[g])[l])
    BY DEF CarriedIsRecorded
  <2>1. PICK p \in 1..(g - 1) : Records(h, p, l, Carried(h[g])[l])
    BY <1>4 DEF CarriedIsRecorded
  <2>2. Carried(h[g])[l] \in Kind
    BY <1>2, <1>4, CarriedFacts DEF Rungs
  <2>3. QED
    BY <1>3, <1>4, <1>5, <2>1, <2>2
<1>7. SettledStays(i, t)
  <2> SUFFICES ASSUME NEW g \in 1..t, NEW l \in Key, NEW r \in Kind,
                      IsSettled(Carried(i[g])[l]), Records(i, g, l, r)
               PROVE  IsSettled(r)
    BY DEF SettledStays
  <2>1. IsSettled(Carried(h[g])[l])
    BY <1>4
  <2>2. Records(h, g, l, r) \/ (g = t /\ l = k /\ r = kind)
    BY <1>1, <1>2 DEF EventIsIn
  <2>3. QED
    BY <2>1, <2>2 DEF SettledStays, Admissible
<1>8. ForgottenIsBelow(i, t)
  <2> SUFFICES ASSUME NEW g \in 1..t, NEW l \in Key,
                      Carried(i[g])[l] = NoKind,
                      \E p \in 1..(g - 1) : Names(i, p, l)
               PROVE  \E w \in Key : /\ w.action = l.action
                                     /\ l.attempt <= w.attempt
                                     /\ IsSettled(Carried(i[g])[w])
    BY DEF ForgottenIsBelow
  <2>1. \E p \in 1..(g - 1) : Names(h, p, l)
    BY <1>3, <1>5 DEF Names
  <2>2. QED
    BY <1>4, <2>1 DEF ForgottenIsBelow
<1>9. QED
  BY <1>6, <1>7, <1>8

(* An admissible event keeps all of the history. *)
LEMMA EventKeepsHistory ==
    ASSUME NEW h \in Chain, NEW t \in Generation, History(h, t),
           NEW k \in Key, NEW kind \in Kind, Admissible(h, t, k, kind),
           NEW i \in Chain, i = [h EXCEPT ![t] = Append(@, Event(k, kind))]
    PROVE  History(i, t)
<1>1. LinkedTo(i, t)
  <2>1. Event(k, kind) \in Frame /\ LinkedTo(h, t)
    BY EventIsFrame DEF History
  <2>2. h[t] = <<>> => t = 1
    BY <2>1, LaterFilesBegin
  <2>3. QED
    BY <2>1, <2>2, EventLinks
<1>2. SealsCarry(i)
  BY EventSeals DEF History
<1>3. CarriedIsRecorded(i, t) /\ SettledStays(i, t) /\ ForgottenIsBelow(i, t)
  BY EventCarries DEF History
<1>4. FoldIsKept(i, t)
  BY EventFolds DEF History
<1>5. Once(i)
  BY EventOnce DEF History, Admissible
<1>6. StepByStep(i)
  BY EventSteps DEF History, Admissible
<1>7. QED
  BY <1>1, <1>2, <1>3, <1>4, <1>5, <1>6 DEF History

(* Histories that hold the same events are alike in what is told of each. *)
LEMMA SameEvents ==
    ASSUME NEW h \in Chain, NEW i \in Chain,
           \A g \in Generation : /\ EventsOf(i[g]) = EventsOf(h[g])
                                 /\ \A j \in EventsOf(h[g]) : i[g][j] = h[g][j],
           Once(h), StepByStep(h)
    PROVE  Once(i) /\ StepByStep(i)
<1>1. Once(i)
  <2>1. ASSUME NEW l \in Key, NEW g \in Generation, NEW a \in 1..Len(i[g]),
               i[g][a] = Event(l, "IntentAdmitted")
        PROVE  a \in 1..Len(h[g]) /\ h[g][a] = Event(l, "IntentAdmitted")
    <3>1. a \in EventsOf(i[g])
      BY <2>1 DEF EventsOf, Event
    <3>2. a \in EventsOf(h[g]) /\ i[g][a] = h[g][a]
      BY <3>1
    <3>3. QED
      BY <2>1, <3>2 DEF EventsOf
  <2>2. QED
    BY <2>1 DEF Once
<1>2. StepByStep(i)
  <2>1. ASSUME NEW g \in Generation, NEW a \in EventsOf(i[g]),
               i[g][a].kind # "IntentAdmitted"
        PROVE  \E p \in 1..g : \E j \in EventsOf(i[p]) : Precedes(i, p, j, g, a)
    <3>1. a \in EventsOf(h[g]) /\ i[g][a] = h[g][a]
      OBVIOUS
    <3>2. PICK p \in 1..g : \E j \in EventsOf(h[p]) : Precedes(h, p, j, g, a)
      BY <2>1, <3>1 DEF StepByStep
    <3>3. PICK j \in EventsOf(h[p]) : Precedes(h, p, j, g, a)
      BY <3>2
    <3>4. p \in Generation
      BY Places
    <3>5. j \in EventsOf(i[p]) /\ i[p][j] = h[p][j]
      BY <3>4
    <3>6. Precedes(i, p, j, g, a)
      BY <3>1, <3>3, <3>5 DEF Precedes
    <3>7. QED
      BY <3>5, <3>6
  <2>2. QED
    BY <2>1 DEF StepByStep
<1>3. QED
  BY <1>1, <1>2

-----------------------------------------------------------------------------
(* A seal put behind the last file *)

(* Nothing that the files say of an attempt is changed. *)
SaysTheSame(h, i) ==
    /\ \A g \in Generation : /\ Carried(i[g]) = Carried(h[g])
                             /\ EventsOf(i[g]) = EventsOf(h[g])
                             /\ Fold(i[g]) = Fold(h[g])
                             /\ \A l : LastRung(i[g], l) = LastRung(h[g], l)
                             /\ \A j \in EventsOf(h[g]) : i[g][j] = h[g][j]
    /\ \A g, l, r : g \in Generation => (Records(i, g, l, r) <=> Records(h, g, l, r))

LEMMA SealSays ==
    ASSUME NEW h \in Chain, NEW t \in Generation, h[t] # <<>>,
           NEW s \in Frame, s.is = "seal",
           NEW i \in Chain, i = [h EXCEPT ![t] = Append(@, s)]
    PROVE  SaysTheSame(h, i)
<1>1. /\ i[t] = Append(h[t], s) /\ h[t] \in Seq(Frame)
      /\ \A g \in Generation : g # t => i[g] = h[g]
  BY DEF Chain
<1>2. Carried(i[t]) = Carried(h[t])
  BY <1>1, AppendedCarries
<1>3. /\ EventsOf(i[t]) = EventsOf(h[t])
      /\ \A j \in 1..Len(h[t]) : i[t][j] = h[t][j]
      /\ \A l : LastRung(i[t], l) = LastRung(h[t], l)
  BY <1>1, SealSaysNothing
<1>4. Fold(i[t]) = Fold(h[t])
  BY <1>2, <1>3 DEF Fold
<1>5. \A j \in EventsOf(h[t]) : i[t][j] = h[t][j]
  BY <1>3 DEF EventsOf
<1>6. \A g \in Generation : /\ Carried(i[g]) = Carried(h[g])
                            /\ EventsOf(i[g]) = EventsOf(h[g])
                            /\ Fold(i[g]) = Fold(h[g])
                            /\ \A l : LastRung(i[g], l) = LastRung(h[g], l)
                            /\ \A j \in EventsOf(h[g]) : i[g][j] = h[g][j]
  BY <1>1, <1>2, <1>3, <1>4, <1>5
<1>7. \A g, l, r : g \in Generation => (Records(i, g, l, r) <=> Records(h, g, l, r))
  BY <1>6 DEF Records
<1>8. QED
  BY <1>6, <1>7 DEF SaysTheSame

LEMMA SealKeepsHistory ==
    ASSUME NEW h \in Chain, NEW t \in Generation, History(h, t), h[t] # <<>>,
           NEW s \in Frame, s.is = "seal", s.carries = CheckpointOf(h[t]),
           NEW i \in Chain, i = [h EXCEPT ![t] = Append(@, s)]
    PROVE  History(i, t)
<1>1. SaysTheSame(h, i)
  BY SealSays
<1>2. LinkedTo(i, t)
  <2>1. LinkedTo(h, t)
    BY DEF History
  <2>2. QED
    BY <2>1, EventLinks
<1>3. /\ i[t] = Append(h[t], s) /\ h[t] \in Seq(Frame)
      /\ \A g \in Generation : g # t => i[g] = h[g]
  BY DEF Chain
<1>4. \A g \in 1..t : g \in Generation /\ \A p \in 1..(g - 1) : p \in Generation
  BY Places
<1>5. SealsCarry(i)
  <2>1. Len(i[t]) = Len(h[t]) + 1 /\ i[t][Len(h[t]) + 1] = s /\ i[t][1] = h[t][1]
    BY <1>3
  <2>2. CheckpointOf(i[t]) = CheckpointOf(h[t])
    BY <1>1 DEF SaysTheSame, CheckpointOf
  <2>3. i[t][Len(i[t])].carries = CheckpointOf(i[t])
    BY <2>1, <2>2
  <2>4. \A g \in Generation :
            OwnSeal(i[g]) => i[g][Len(i[g])].carries = CheckpointOf(i[g])
    BY <1>3, <2>3 DEF SealsCarry, History
  <2>5. i[1] # <<>> => i[1][1].is = "event"
    <3>1. h[1] # <<>> => h[1][1].is = "event"
      BY DEF SealsCarry, History
    <3>2. CASE t = 1
      BY <2>1, <3>1, <3>2
    <3>3. CASE t # 1
      BY <1>3, <3>1, <3>3, Places
    <3>4. QED
      BY <3>2, <3>3
  <2>6. QED
    BY <2>4, <2>5 DEF SealsCarry
<1>6. CarriedIsRecorded(i, t)
  BY <1>1, <1>4 DEF SaysTheSame, CarriedIsRecorded, History
<1>7. SettledStays(i, t)
  BY <1>1, <1>4 DEF SaysTheSame, SettledStays, History
<1>8. ForgottenIsBelow(i, t)
  <2>1. \A g, l : g \in Generation => (Names(i, g, l) <=> Names(h, g, l))
    BY <1>1 DEF SaysTheSame, Names
  <2>2. \A g \in 1..t : Carried(i[g]) = Carried(h[g])
    BY <1>1, <1>4 DEF SaysTheSame
  <2>3. ASSUME NEW g \in 1..t, NEW l \in Key,
               \E p \in 1..(g - 1) : Names(i, p, l)
        PROVE  \E p \in 1..(g - 1) : Names(h, p, l)
    BY <1>4, <2>1, <2>3
  <2>4. ForgottenIsBelow(h, t)
    BY DEF History
  <2>5. QED
    BY <2>2, <2>3, <2>4 DEF ForgottenIsBelow
<1>9. FoldIsKept(i, t)
  <2>1. ASSUME NEW g \in 1..t, NEW l PROVE WrittenIn(i, l, g) = WrittenIn(h, l, g)
    <3>1. \A p \in 1..g : p \in Generation
      BY <1>4 DEF Generation
    <3>2. SameTo(i, h, l, g)
      BY <1>1, <3>1 DEF SaysTheSame, SameTo
    <3>3. QED
      BY <1>4, <3>2, WrittenSame
  <2>2. \A g \in 1..t : Fold(i[g]) = Fold(h[g])
    BY <1>1, <1>4 DEF SaysTheSame
  <2>3. FoldIsKept(h, t)
    BY DEF History
  <2>4. ASSUME NEW g \in 1..t, NEW l \in Key
        PROVE  \/ Fold(i[g])[l] = WrittenIn(i, l, g)
               \/ /\ Fold(i[g])[l] = NoKind /\ IsSettled(WrittenIn(i, l, g))
                  /\ \E w \in Key : /\ w.action = l.action
                                    /\ w.attempt > l.attempt
                                    /\ WrittenIn(i, w, g) # NoKind
    <3>1. \/ Fold(h[g])[l] = WrittenIn(h, l, g)
          \/ /\ Fold(h[g])[l] = NoKind /\ IsSettled(WrittenIn(h, l, g))
             /\ \E w \in Key : /\ w.action = l.action
                               /\ w.attempt > l.attempt
                               /\ WrittenIn(h, w, g) # NoKind
      BY <2>3 DEF FoldIsKept
    <3>2. QED
      BY <2>1, <2>2, <3>1
  <2>5. QED
    BY <2>4 DEF FoldIsKept
<1>10. Once(i) /\ StepByStep(i)
  <2>1. \A g \in Generation : /\ EventsOf(i[g]) = EventsOf(h[g])
                              /\ \A j \in EventsOf(h[g]) : i[g][j] = h[g][j]
    BY <1>1 DEF SaysTheSame
  <2>2. Once(h) /\ StepByStep(h)
    BY DEF History
  <2>3. QED
    BY <2>1, <2>2, SameEvents
<1>11. QED
  BY <1>2, <1>5, <1>6, <1>7, <1>8, <1>9, <1>10 DEF History

-----------------------------------------------------------------------------
(* The seal of the last file begins the next one *)

(* The latest settled attempt of an action is always carried. *)
LEMMA LatestIsKept ==
    ASSUME NEW fold \in Rungs, NEW k \in Key, IsSettled(fold[k])
    PROVE  \E w \in Key : /\ w.action = k.action /\ k.attempt <= w.attempt
                          /\ IsSettled(fold[w]) /\ Kept(fold, w)
<1> DEFINE at(n) == [action |-> k.action, attempt |-> n]
           settled == {n \in 1..MaxAttempt : IsSettled(fold[at(n)])}
<1>1. /\ k.action \in Action /\ k.attempt \in 1..MaxAttempt /\ k = at(k.attempt)
      /\ MaxAttempt \in Nat
  BY ContinuationAssumption DEF Key
<1>2. k.attempt \in settled
  BY <1>1
<1>3. settled \subseteq 0..MaxAttempt
  BY <1>1
<1>4. PICK n \in settled : \A m \in settled : m <= n
  <2> HIDE DEF settled
  <2>1. QED
    BY <1>1, <1>2, <1>3, Greatest
<1>5. at(n) \in Key /\ at(n).action = k.action /\ at(n).attempt = n
  BY <1>1 DEF Key
<1>6. ASSUME NEW w \in Key, w.action = k.action, IsSettled(fold[w])
      PROVE  w.attempt <= n
  <2>1. w = at(w.attempt) /\ w.attempt \in 1..MaxAttempt
    BY <1>6 DEF Key
  <2>2. w.attempt \in settled
    BY <1>6, <2>1
  <2>3. QED
    BY <1>4, <2>2
<1>7. IsSettled(fold[at(n)]) /\ k.attempt <= n
  BY <1>2, <1>4
<1>8. fold[at(n)] # NoKind
  BY <1>7, RungFacts
<1> HIDE DEF at, settled
<1>9. Kept(fold, at(n))
  BY <1>5, <1>6, <1>8 DEF Kept
<1>10. QED
  BY <1>5, <1>7, <1>9

(* The next file after it begins with the seal of the last. *)
BeginsNext(h, i, t) ==
    /\ \A g \in 1..t : i[g] = h[g]
    /\ i[t + 1] = <<h[t][Len(h[t])]>>
    /\ Carried(i[t + 1]) = CheckpointOf(h[t])
    /\ Fold(i[t + 1]) = CheckpointOf(h[t])
    /\ EventsOf(i[t + 1]) = {}
    /\ \A k : LastRung(i[t + 1], k) = NoKind
    /\ \A g \in Generation : /\ EventsOf(i[g]) = EventsOf(h[g])
                             /\ \A j \in EventsOf(h[g]) : i[g][j] = h[g][j]
    /\ ~OwnSeal(i[t + 1])

LEMMA SuccessorSays ==
    ASSUME NEW h \in Chain, NEW t \in Generation, t < MaxGeneration,
           LinkedTo(h, t), SealsCarry(h), OwnSeal(h[t]),
           NEW i \in Chain,
           i = [h EXCEPT ![t + 1] = <<h[t][Len(h[t])]>>]
    PROVE  BeginsNext(h, i, t)
<1> DEFINE s == h[t][Len(h[t])]
<1>1. /\ h[t] \in Seq(Frame) /\ Len(h[t]) \in Nat /\ Len(h[t]) > 1
      /\ s.is = "seal" /\ s.carries = CheckpointOf(h[t])
  BY DEF Chain, OwnSeal, SealsCarry
<1>2. s \in Frame
  BY <1>1
<1>3. /\ t + 1 \in Generation /\ i[t + 1] = <<s>>
      /\ \A g \in Generation : g # t + 1 => i[g] = h[g]
      /\ h[t + 1] = <<>>
  <2>1. t + 1 \in Generation /\ t + 1 \in (t + 1)..MaxGeneration
    BY Places
  <2>2. QED
    BY <2>1 DEF Chain, LinkedTo
<1> HIDE DEF s
<1>4. /\ i[t + 1] \in Seq(Frame) /\ Len(i[t + 1]) = 1 /\ i[t + 1][1] = s
      /\ i[t + 1] # <<>>
  <2>1. i[t + 1] \in Seq(Frame) /\ Len(i[t + 1]) = 1 /\ i[t + 1][1] = s
    BY <1>2, <1>3
  <2>2. Len(<<>>) = 0
    OBVIOUS
  <2>3. QED
    BY <2>1, <2>2
<1>5. EventsOf(i[t + 1]) = {} /\ EventsOf(h[t + 1]) = {}
  BY <1>1, <1>3, <1>4 DEF EventsOf
<1>6. \A k : LastRung(i[t + 1], k) = NoKind
  BY <1>4, <1>5, LastRungFacts
<1>7. Carried(i[t + 1]) = CheckpointOf(h[t])
  BY <1>1, <1>4 DEF Carried
<1>8. Fold(i[t + 1]) = CheckpointOf(h[t])
  <2>1. Fold(i[t + 1]) = [k \in Key |-> CheckpointOf(h[t])[k]]
    BY <1>6, <1>7 DEF Fold
  <2>2. QED
    BY <2>1 DEF CheckpointOf
<1>9. ~OwnSeal(i[t + 1])
  BY <1>4 DEF OwnSeal
<1>10. \A g \in 1..t : g \in Generation /\ g # t + 1
  BY Places
<1>11. QED
  BY <1>3, <1>5, <1>6, <1>7, <1>8, <1>9, <1>10 DEF BeginsNext, s

(* Places of the chain that grew by a file. *)
LEMMA NextPlaces ==
    ASSUME NEW t \in Generation, t < MaxGeneration
    PROVE  /\ t + 1 \in Generation
           /\ \A g \in 1..(t + 1) : g \in 1..t \/ g = t + 1
           /\ \A g \in 1..t : /\ g \in 1..(t + 1) /\ g \in Generation
                              /\ g = t \/ (g \in 1..(t - 1) /\ g + 1 \in 1..t)
                              /\ \A p \in 1..g : p \in 1..t
                              /\ \A p \in 1..(g - 1) : p \in 1..t
           /\ (t + 1) - 1 = t /\ t \in 1..t /\ t # t + 1
           /\ \A p \in 1..(t - 1) : p \in 1..t
           /\ \A p \in 1..t : p \in 1..(t - 1) \/ p = t
           /\ \A g \in (t + 2)..MaxGeneration :
                  g \in (t + 1)..MaxGeneration /\ g # t + 1 /\ g \in Generation
           /\ (t + 1) + 1 = t + 2
BY ContinuationAssumption DEF Generation

LEMMA SuccessorLinks ==
    ASSUME NEW h \in Chain, NEW t \in Generation, t < MaxGeneration,
           LinkedTo(h, t), SealsCarry(h), OwnSeal(h[t]),
           NEW i \in Chain,
           i = [h EXCEPT ![t + 1] = <<h[t][Len(h[t])]>>]
    PROVE  LinkedTo(i, t + 1) /\ SealsCarry(i)
<1>1. BeginsNext(h, i, t)
  BY SuccessorSays
<1>2. ASSUME NEW g \in 1..t PROVE Linked(i, g)
  <2>1. CASE g = t
    BY <1>1, <2>1, NextPlaces DEF BeginsNext, Linked
  <2>2. CASE g \in 1..(t - 1) /\ g + 1 \in 1..t
    BY <1>1, <2>2 DEF BeginsNext, Linked, LinkedTo
  <2>3. QED
    BY <2>1, <2>2, NextPlaces
<1>3. \A g \in Generation : g # t + 1 => i[g] = h[g]
  BY DEF Chain
<1>4. ASSUME NEW g \in (t + 2)..MaxGeneration PROVE i[g] = <<>>
  BY <1>3, NextPlaces DEF LinkedTo
<1>5. LinkedTo(i, t + 1)
  BY <1>2, <1>4, NextPlaces DEF LinkedTo
<1>6. i[1] # <<>> => i[1][1].is = "event"
  <2>1. 1 # t + 1 /\ 1 \in Generation
    BY Places
  <2>2. QED
    BY <1>3, <2>1 DEF SealsCarry
<1>7. SealsCarry(i)
  BY <1>1, <1>3, <1>6 DEF SealsCarry, BeginsNext
<1>8. QED
  BY <1>5, <1>7

LEMMA SuccessorCarries ==
    ASSUME NEW h \in Chain, NEW t \in Generation, t < MaxGeneration,
           History(h, t), NEW i \in Chain, BeginsNext(h, i, t)
    PROVE  CarriedIsRecorded(i, t + 1) /\ SettledStays(i, t + 1)
<1>1. h[t] \in Seq(Frame) /\ t \in Generation
  BY DEF Chain
<1>2. \A g \in Generation : \A l, r :
          Records(i, g, l, r) <=> Records(h, g, l, r)
  BY DEF BeginsNext, Records
<1>3. CarriedIsRecorded(i, t + 1)
  <2> SUFFICES ASSUME NEW g \in 1..(t + 1), NEW l \in Key, Carried(i[g])[l] # NoKind
               PROVE  \E p \in 1..(g - 1) : Records(i, p, l, Carried(i[g])[l])
    BY DEF CarriedIsRecorded
  <2>1. CASE g \in 1..t
    <3>1. i[g] = h[g]
      BY <2>1 DEF BeginsNext
    <3>2. PICK p \in 1..(g - 1) : Records(h, p, l, Carried(h[g])[l])
      BY <2>1, <3>1 DEF History, CarriedIsRecorded
    <3>3. p \in Generation
      BY <2>1, Places
    <3>4. QED
      BY <1>2, <3>1, <3>2, <3>3
  <2>2. CASE g = t + 1
    <3>1. Carried(i[g])[l] = Fold(h[t])[l]
      BY <2>2 DEF BeginsNext, CheckpointOf
    <3>2. CASE LastRung(h[t], l) # NoKind
      <4>1. Fold(h[t])[l] = LastRung(h[t], l)
        BY <3>2 DEF Fold
      <4>2. Records(h, t, l, LastRung(h[t], l))
        BY <3>2, NamesIsLastRung
      <4>3. t \in 1..(g - 1)
        BY <2>2, NextPlaces
      <4>4. QED
        BY <1>2, <3>1, <4>1, <4>2, <4>3
    <3>3. CASE LastRung(h[t], l) = NoKind
      <4>1. Fold(h[t])[l] = Carried(h[t])[l]
        BY <3>3 DEF Fold
      <4>2. PICK p \in 1..(t - 1) : Records(h, p, l, Carried(h[t])[l])
        BY <3>1, <4>1, NextPlaces DEF History, CarriedIsRecorded
      <4>3. p \in Generation /\ p \in 1..(g - 1)
        BY <2>2, NextPlaces
      <4>4. QED
        BY <1>2, <3>1, <4>1, <4>2, <4>3
    <3>4. QED
      BY <3>2, <3>3
  <2>3. QED
    BY <2>1, <2>2, NextPlaces
<1>4. SettledStays(i, t + 1)
  <2> SUFFICES ASSUME NEW g \in 1..(t + 1), NEW l \in Key, NEW r \in Kind,
                      IsSettled(Carried(i[g])[l]), Records(i, g, l, r)
               PROVE  IsSettled(r)
    BY DEF SettledStays
  <2>1. CASE g \in 1..t
    BY <1>2, <2>1, NextPlaces DEF History, SettledStays, BeginsNext
  <2>2. CASE g = t + 1
    BY <2>2 DEF BeginsNext, Records
  <2>3. QED
    BY <2>1, <2>2, NextPlaces
<1>5. QED
  BY <1>3, <1>4

(* What the next file does not carry, it has forgotten for a later one. *)
LEMMA SuccessorForgets ==
    ASSUME NEW h \in Chain, NEW t \in Generation, t < MaxGeneration,
           History(h, t), NEW i \in Chain, BeginsNext(h, i, t)
    PROVE  ForgottenIsBelow(i, t + 1)
<1>1. h[t] \in Seq(Frame) /\ Fold(h[t]) \in Rungs
  BY CarriedFacts DEF Chain
<1>2. \A g \in 1..(t + 1) : \A l : \A p \in 1..(g - 1) :
          p \in 1..t /\ (Names(i, p, l) <=> Names(h, p, l))
  <2>1. \A g \in 1..(t + 1) : \A p \in 1..(g - 1) : p \in 1..t /\ p \in Generation
    BY ContinuationAssumption DEF Generation
  <2>2. \A p \in 1..t : i[p] = h[p]
    BY DEF BeginsNext
  <2>3. QED
    BY <2>1, <2>2 DEF Names, Records
<1>3. ASSUME NEW k \in Key, IsSettled(Fold(h[t])[k])
      PROVE  \E w \in Key : /\ w.action = k.action /\ k.attempt <= w.attempt
                            /\ IsSettled(CheckpointOf(h[t])[w])
  <2>1. PICK w \in Key : /\ w.action = k.action /\ k.attempt <= w.attempt
                         /\ IsSettled(Fold(h[t])[w]) /\ Kept(Fold(h[t]), w)
    BY <1>1, <1>3, LatestIsKept
  <2>2. CheckpointOf(h[t])[w] = Fold(h[t])[w]
    BY <2>1 DEF CheckpointOf
  <2>3. QED
    BY <2>1, <2>2
<1>4. ASSUME NEW w \in Key, IsSettled(Carried(h[t])[w])
      PROVE  IsSettled(Fold(h[t])[w])
  <2>1. CASE LastRung(h[t], w) = NoKind
    BY <1>4, <2>1 DEF Fold
  <2>2. CASE LastRung(h[t], w) # NoKind
    <3>1. /\ Records(h, t, w, LastRung(h[t], w)) /\ LastRung(h[t], w) \in Kind
          /\ t \in 1..t
      BY <2>2, NamesIsLastRung, NextPlaces
    <3>2. IsSettled(LastRung(h[t], w))
      BY <1>4, <3>1 DEF History, SettledStays
    <3>3. QED
      BY <2>2, <3>2 DEF Fold
  <2>3. QED
    BY <2>1, <2>2
<1>5. ASSUME NEW g \in 1..(t + 1), NEW k \in Key, Carried(i[g])[k] = NoKind,
             NEW p \in 1..(g - 1), Names(i, p, k)
      PROVE  \E w \in Key : /\ w.action = k.action /\ k.attempt <= w.attempt
                            /\ IsSettled(Carried(i[g])[w])
  <2>1. p \in 1..t /\ Names(h, p, k)
    BY <1>2, <1>5
  <2>2. CASE g \in 1..t
    <3>1. i[g] = h[g]
      BY <2>2 DEF BeginsNext
    <3>2. QED
      BY <1>5, <2>1, <2>2, <3>1 DEF History, ForgottenIsBelow
  <2>3. CASE g = t + 1
    <3>1. Carried(i[g]) = CheckpointOf(h[t])
      BY <2>3 DEF BeginsNext
    <3>2. CASE Fold(h[t])[k] # NoKind
      <4>1. ~Kept(Fold(h[t]), k)
        BY <1>5, <3>1, <3>2 DEF CheckpointOf
      <4>2. IsSettled(Fold(h[t])[k])
        BY <3>2, <4>1 DEF Kept
      <4>3. QED
        BY <1>3, <3>1, <4>2
    <3>3. CASE Fold(h[t])[k] = NoKind
      <4>1. LastRung(h[t], k) = NoKind /\ Carried(h[t])[k] = NoKind
        BY <3>3 DEF Fold
      <4>2. p # t
        BY <2>1, <4>1, NamesIsLastRung
      <4>3. p \in 1..(t - 1) /\ t \in 1..t
        BY <2>1, <4>2, NextPlaces
      <4>4. PICK w \in Key : /\ w.action = k.action /\ k.attempt <= w.attempt
                             /\ IsSettled(Carried(h[t])[w])
        BY <2>1, <4>1, <4>3 DEF History, ForgottenIsBelow
      <4>5. PICK v \in Key : /\ v.action = w.action /\ w.attempt <= v.attempt
                             /\ IsSettled(CheckpointOf(h[t])[v])
        BY <1>3, <1>4, <4>4
      <4>6. k.attempt <= v.attempt
        BY <4>4, <4>5, ContinuationAssumption DEF Key
      <4>7. QED
        BY <3>1, <4>4, <4>5, <4>6
    <3>4. QED
      BY <3>2, <3>3
  <2>4. QED
    BY <2>2, <2>3, NextPlaces
<1>6. QED
  BY <1>5 DEF ForgottenIsBelow

LEMMA SuccessorFolds ==
    ASSUME NEW h \in Chain, NEW t \in Generation, t < MaxGeneration,
           History(h, t), NEW i \in Chain, BeginsNext(h, i, t)
    PROVE  FoldIsKept(i, t + 1)
<1> DEFINE Said(j, g, k) ==
               \/ Fold(j[g])[k] = WrittenIn(j, k, g)
               \/ /\ Fold(j[g])[k] = NoKind /\ IsSettled(WrittenIn(j, k, g))
                  /\ \E w \in Key : /\ w.action = k.action
                                    /\ w.attempt > k.attempt
                                    /\ WrittenIn(j, w, g) # NoKind
<1>1. ASSUME NEW g \in 1..t, NEW k PROVE WrittenIn(i, k, g) = WrittenIn(h, k, g)
  <2>1. g \in Generation /\ \A p \in 1..g : p \in 1..t
    BY NextPlaces
  <2>2. SameTo(i, h, k, g)
    BY <2>1 DEF SameTo, BeginsNext
  <2>3. QED
    BY <2>1, <2>2, WrittenSame
<1>2. ASSUME NEW k PROVE WrittenIn(i, k, t + 1) = WrittenIn(h, k, t)
  <2>1. LastRung(i[t + 1], k) = NoKind /\ t + 1 \in Generation
    BY NextPlaces DEF BeginsNext
  <2>2. WrittenIn(i, k, t + 1) = WrittenIn(i, k, t)
    BY <2>1, WrittenBelow
  <2>3. QED
    BY <1>1, <2>2, NextPlaces
<1>3. \A g \in 1..t, k \in Key : Said(h, g, k)
  BY DEF History, FoldIsKept
<1>4. ASSUME NEW g \in 1..t, NEW k \in Key PROVE Said(i, g, k)
  <2>1. Said(h, g, k)
    BY <1>3
  <2>2. i[g] = h[g]
    BY DEF BeginsNext
  <2>3. QED
    BY <1>1, <2>1, <2>2
<1>5. ASSUME NEW k \in Key PROVE Said(i, t + 1, k)
  <2>1. Said(h, t, k)
    BY <1>3, NextPlaces
  <2>2. Fold(i[t + 1])[k] = IF Kept(Fold(h[t]), k) THEN Fold(h[t])[k] ELSE NoKind
    BY DEF BeginsNext, CheckpointOf
  <2>3. CASE Fold(i[t + 1])[k] = Fold(h[t])[k]
    BY <1>2, <2>1, <2>3
  <2>4. CASE Fold(i[t + 1])[k] # Fold(h[t])[k]
    <3>1. ~Kept(Fold(h[t]), k) /\ Fold(i[t + 1])[k] = NoKind
          /\ Fold(h[t])[k] # NoKind
      BY <2>2, <2>4
    <3>2. /\ IsSettled(Fold(h[t])[k])
          /\ \E w \in Key : /\ w.action = k.action /\ IsSettled(Fold(h[t])[w])
                            /\ ~(w.attempt <= k.attempt)
      BY <3>1 DEF Kept
    <3>3. PICK w \in Key : /\ w.action = k.action /\ IsSettled(Fold(h[t])[w])
                           /\ ~(w.attempt <= k.attempt)
      BY <3>2
    <3>4. w.attempt > k.attempt
      BY <3>3, ContinuationAssumption DEF Key
    <3>5. Fold(h[t])[w] # NoKind
      BY <3>3, RungFacts
    <3>6. Fold(h[t])[w] = WrittenIn(h, w, t)
      <4>1. Said(h, t, w)
        BY <1>3, NextPlaces
      <4>2. QED
        BY <3>5, <4>1
    <3>7. Fold(h[t])[k] = WrittenIn(h, k, t)
      BY <2>1, <3>1
    <3>8. /\ Fold(i[t + 1])[k] = NoKind /\ IsSettled(WrittenIn(i, k, t + 1))
          /\ w.action = k.action /\ w.attempt > k.attempt
          /\ WrittenIn(i, w, t + 1) # NoKind
      BY <1>2, <3>1, <3>2, <3>3, <3>4, <3>5, <3>6, <3>7
    <3>9. QED
      BY <3>8
  <2>5. QED
    BY <2>3, <2>4
<1> HIDE DEF Said
<1>6. \A g \in 1..(t + 1), k \in Key : Said(i, g, k)
  BY <1>4, <1>5, NextPlaces
<1>7. QED
  BY <1>6 DEF FoldIsKept, Said

LEMMA SuccessorKeepsHistory ==
    ASSUME NEW h \in Chain, NEW t \in Generation, t < MaxGeneration,
           History(h, t), OwnSeal(h[t]),
           NEW i \in Chain,
           i = [h EXCEPT ![t + 1] = <<h[t][Len(h[t])]>>]
    PROVE  History(i, t + 1) /\ Len(i[t + 1]) = 1
<1>1. LinkedTo(h, t) /\ SealsCarry(h)
  BY DEF History
<1>2. BeginsNext(h, i, t)
  BY <1>1, SuccessorSays
<1>3. LinkedTo(i, t + 1) /\ SealsCarry(i)
  BY <1>1, SuccessorLinks
<1>4. CarriedIsRecorded(i, t + 1) /\ SettledStays(i, t + 1)
  BY <1>2, SuccessorCarries
<1>5. ForgottenIsBelow(i, t + 1) /\ FoldIsKept(i, t + 1)
  BY <1>2, SuccessorForgets, SuccessorFolds
<1>6. Once(i) /\ StepByStep(i)
  <2>1. Once(h) /\ StepByStep(h)
    BY DEF History
  <2>2. \A g \in Generation : /\ EventsOf(i[g]) = EventsOf(h[g])
                              /\ \A j \in EventsOf(h[g]) : i[g][j] = h[g][j]
    BY <1>2 DEF BeginsNext
  <2>3. QED
    BY <2>1, <2>2, SameEvents
<1>7. Len(i[t + 1]) = 1
  <2>1. i[t + 1] = <<h[t][Len(h[t])]>>
    BY <1>2 DEF BeginsNext
  <2>2. QED
    BY <2>1
<1>8. QED
  BY <1>3, <1>4, <1>5, <1>6, <1>7 DEF History

-----------------------------------------------------------------------------
(* The live file *)

LEMMA LiveFacts ==
    /\ Live \in Generation /\ ~Superseded(Live)
    /\ \A p \in 1..(Live - 1) : Superseded(p)
<1> DEFINE T == {g \in Generation : ~Superseded(g)}
<1>1. MaxGeneration \in T /\ T \subseteq Nat
  BY ContinuationAssumption DEF Generation, Superseded
<1>2. PICK g \in T : \A p \in T : g <= p
  <2> HIDE DEF T
  <2> QED
    BY <1>1, Least
<1>3. /\ g \in Generation /\ ~Superseded(g)
      /\ \A p \in 1..(g - 1) : Superseded(p)
  <2>1. g \in Generation
    BY <1>2
  <2>2. \A p \in 1..(g - 1) : p \in Generation /\ ~(g <= p)
    BY <2>1, ContinuationAssumption DEF Generation
  <2>3. QED
    BY <1>2, <2>1, <2>2
<1>4. QED
  BY <1>3 DEF Live

LEMMA FramesTyped == files \in [Generation -> File] => Frames \in Chain
BY DEF Frames, FramesOf, Chain, File

(* While no walk is refused, the live file is the last of the chain. *)
LEMMA LiveIsLast ==
    ASSUME TypeOK, NEW t \in Generation, LinkedTo(Frames, t), ~Refused
    PROVE  Live = t
<1>1. /\ Live \in Generation /\ ~Superseded(Live)
      /\ \A p \in 1..(Live - 1) : Superseded(p)
  BY LiveFacts
<1>2. ~Corrupt(files[Live].frames)
  BY DEF Refused
<1>3. \A g \in Generation : Frames[g] = files[g].frames
  BY DEF Frames, FramesOf
<1>4. ~(Live < t)
  <2> SUFFICES ASSUME Live < t PROVE FALSE
    OBVIOUS
  <2>1. /\ Live \in 1..(t - 1) /\ Live + 1 \in Generation
        /\ Live < MaxGeneration
    BY <1>1, Places DEF Generation
  <2>2. Linked(Frames, Live)
    BY <2>1 DEF LinkedTo
  <2>3. /\ OwnSeal(files[Live].frames) /\ files[Live + 1].frames # <<>>
        /\ files[Live + 1].frames[1]
               = files[Live].frames[Len(files[Live].frames)]
    BY <1>1, <1>3, <2>1, <2>2 DEF Linked
  <2>4. Complete(files[Live + 1].frames,
                 files[Live].frames[Len(files[Live].frames)])
    BY <2>3 DEF Complete, OwnSeal
  <2>5. QED
    BY <1>1, <1>2, <2>1, <2>3, <2>4 DEF Superseded
<1>5. ~(Live > t)
  <2> SUFFICES ASSUME Live > t PROVE FALSE
    OBVIOUS
  <2>1. t \in 1..(Live - 1)
    BY <1>1, Places DEF Generation
  <2>2. Superseded(t)
    BY <1>1, <2>1
  <2>3. /\ t + 1 \in Generation /\ t + 1 \in (t + 1)..MaxGeneration
        /\ files[t + 1].frames # <<>>
    BY <2>2, Places DEF Superseded, Complete
  <2>4. Frames[t + 1] = <<>>
    BY <2>3 DEF LinkedTo
  <2>5. QED
    BY <1>3, <2>3, <2>4
<1>6. Live \in Nat /\ t \in Nat
  BY <1>1, Places
<1>7. QED
  BY <1>4, <1>5, <1>6

-----------------------------------------------------------------------------
(* Types *)

LEMMA OpenedTyped ==
    ASSUME files \in [Generation -> File], NEW g \in Generation
    PROVE  /\ Opened(g) \in Handle
           /\ Opened(g).gen = g /\ Opened(g).view = Len(files[g].frames)
           /\ Opened(g).view <= Len(files[g].frames)
           /\ ~Opened(g).sealedBy /\ ~Opened(g).poisoned
           /\ Opened(g).fence = FenceOf(files[g].frames)
<1>1. files[g].frames \in Seq(Frame)
  BY DEF File
<1>2. Len(files[g].frames) \in Nat /\ FenceOf(files[g].frames) \in Rungs
  BY <1>1, CarriedFacts
<1>3. QED
  BY <1>2 DEF Opened, Handle

LEMMA ExtendedTyped ==
    ASSUME files \in [Generation -> File], handle.gen \in Generation,
           NEW x \in Frame
    PROVE  /\ Extended(x) \in [Generation -> File]
           /\ Len(Extended(x)[handle.gen].frames)
                  = Len(files[handle.gen].frames) + 1
           /\ ~Extended(x)[handle.gen].cut
           /\ FramesOf(Extended(x)) = [Frames EXCEPT ![handle.gen] = Append(@, x)]
<1>1. \A g \in Generation : files[g].frames \in Seq(Frame)
  BY DEF File
<1>2. Extended(x)[handle.gen] = [frames |-> Append(files[handle.gen].frames, x),
                                 cut |-> FALSE]
  BY DEF Extended
<1>3. /\ Append(files[handle.gen].frames, x) \in Seq(Frame)
      /\ Len(Append(files[handle.gen].frames, x))
             = Len(files[handle.gen].frames) + 1
  BY <1>1
<1>4. \A g \in Generation \ {handle.gen} : Extended(x)[g] = files[g]
  BY DEF Extended
<1>5. Extended(x) \in [Generation -> File]
  BY <1>2, <1>3, <1>4 DEF Extended, File
<1>6. FramesOf(Extended(x)) = [Frames EXCEPT ![handle.gen] = Append(@, x)]
  <2>1. \A g \in Generation :
            Extended(x)[g].frames =
                IF g = handle.gen THEN Append(files[g].frames, x)
                ELSE files[g].frames
    <3> SUFFICES ASSUME NEW g \in Generation
                 PROVE  Extended(x)[g].frames =
                            IF g = handle.gen THEN Append(files[g].frames, x)
                            ELSE files[g].frames
      OBVIOUS
    <3>1. CASE g = handle.gen
      BY <1>2, <3>1
    <3>2. CASE g # handle.gen
      BY <1>4, <3>2
    <3>3. QED
      BY <3>1, <3>2
  <2>2. \A g \in Generation : Frames[g] = files[g].frames
    BY DEF Frames, FramesOf
  <2>3. FramesOf(Extended(x)) =
            [g \in Generation |-> IF g = handle.gen
                                 THEN Append(files[g].frames, x)
                                 ELSE files[g].frames]
    BY <2>1 DEF FramesOf
  <2>4. Frames = [g \in Generation |-> files[g].frames]
    BY DEF Frames, FramesOf
  <2> HIDE DEF Extended
  <2>5. QED
    BY <2>3, <2>4
<1>7. QED
  BY <1>2, <1>3, <1>5, <1>6

LEMMA PoisonedTyped ==
    ASSUME handle \in Handle
    PROVE  /\ Poisoned \in Handle /\ Poisoned.poisoned
           /\ Poisoned.gen = handle.gen /\ Poisoned.view = handle.view
BY DEF Poisoned, Handle

-----------------------------------------------------------------------------
(* The fence *)

LEMMA OpenedFits ==
    ASSUME NEW h \in Chain, NEW t \in Generation, CarriedIsRecorded(h, t)
    PROVE  FenceFits(h, t, FenceOf(h[t]))
<1> SUFFICES ASSUME NEW k \in Key
             PROVE  LET rung == FenceOf(h[t])[k]
                    IN /\ rung # NoKind => \E p \in 1..t : Records(h, p, k, rung)
                       /\ rung = NoKind =>
                             ~Names(h, t, k) /\ Carried(h[t])[k] = NoKind
                       /\ IsSettled(Carried(h[t])[k]) => IsSettled(rung)
  BY DEF FenceFits
<1>1. CASE Carried(h[t])[k] # NoKind
  <2>1. FenceOf(h[t])[k] = Carried(h[t])[k]
    BY <1>1 DEF FenceOf
  <2>2. PICK p \in 1..(t - 1) : Records(h, p, k, Carried(h[t])[k])
    BY <1>1, Places DEF CarriedIsRecorded
  <2>3. p \in 1..t
    BY Places
  <2>4. QED
    BY <1>1, <2>1, <2>2, <2>3
<1>2. CASE Carried(h[t])[k] = NoKind
  <2>1. FenceOf(h[t])[k] = LastRung(h[t], k)
    BY <1>2 DEF FenceOf
  <2>2. QED
    BY <1>2, <2>1, NamesIsLastRung, Places, RungFacts
<1>3. QED
  BY <1>1, <1>2

LEMMA AppendedFits ==
    ASSUME NEW h \in Chain, NEW t \in Generation, NEW fence \in Rungs,
           FenceFits(h, t, fence),
           NEW k \in Key, NEW kind \in Kind, NextAllowed[fence[k]] = kind,
           NEW i \in Chain, i = [h EXCEPT ![t] = Append(@, Event(k, kind))]
    PROVE  FenceFits(i, t, [fence EXCEPT ![k] = kind])
<1>1. EventIsIn(h, i, t, k, kind)
  BY EventSays
<1>2. t \in 1..t /\ \A p \in 1..t : p \in Generation
  BY Places
<1>3. ASSUME NEW l \in Key
      PROVE  LET rung == [fence EXCEPT ![k] = kind][l]
             IN /\ rung # NoKind => \E p \in 1..t : Records(i, p, l, rung)
                /\ rung = NoKind => ~Names(i, t, l) /\ Carried(i[t])[l] = NoKind
                /\ IsSettled(Carried(i[t])[l]) => IsSettled(rung)
  <2>1. Carried(i[t]) = Carried(h[t]) /\ fence[l] \in Kind \cup {NoKind}
    BY <1>1 DEF EventIsIn, Rungs
  <2>2. CASE l = k
    <3>1. [fence EXCEPT ![k] = kind][l] = kind
      BY <2>2 DEF Rungs
    <3>2. Records(i, t, l, kind)
      BY <1>1, <2>2 DEF EventIsIn
    <3>3. IsSettled(Carried(i[t])[l]) => IsSettled(kind)
      BY <2>1, <2>2, RungFacts DEF FenceFits
    <3>4. QED
      BY <1>2, <3>1, <3>2, <3>3, KindIsNotNone
  <2>3. CASE l # k
    <3>1. [fence EXCEPT ![k] = kind][l] = fence[l]
      BY <2>3 DEF Rungs
    <3>2. \A p \in 1..t, r \in Kind : Records(i, p, l, r) <=> Records(h, p, l, r)
      BY <1>1, <1>2, <2>3 DEF EventIsIn
    <3>3. Names(i, t, l) <=> Names(h, t, l)
      BY <1>2, <3>2 DEF Names
    <3>4. /\ fence[l] # NoKind => \E p \in 1..t : Records(h, p, l, fence[l])
          /\ fence[l] = NoKind => ~Names(h, t, l) /\ Carried(h[t])[l] = NoKind
          /\ IsSettled(Carried(h[t])[l]) => IsSettled(fence[l])
      BY DEF FenceFits
    <3>5. fence[l] # NoKind => \E p \in 1..t : Records(i, p, l, fence[l])
      BY <2>1, <3>2, <3>4
    <3>6. QED
      BY <2>1, <3>1, <3>3, <3>4, <3>5
  <2>4. QED
    BY <2>2, <2>3
<1>4. QED
  BY <1>3 DEF FenceFits

(* The ladder over the fence, and refuse_walked, let only such events by. *)
LEMMA FenceAdmits ==
    ASSUME NEW h \in Chain, NEW t \in Generation, NEW fence \in Rungs,
           ForgottenIsBelow(h, t), FenceFits(h, t, fence),
           NEW k \in Key, NEW kind \in Kind, NextAllowed[fence[k]] = kind,
           fence[k] = NoKind =>
               \A w \in Key : w.action = k.action /\ k.attempt <= w.attempt
                                  => ~IsSettled(Carried(h[t])[w])
    PROVE  Admissible(h, t, k, kind)
<1>1. fence[k] \in Kind \cup {NoKind}
  BY DEF Rungs
<1>2. /\ Rung[fence[k]] >= Rung[kind] - 1
      /\ kind = "IntentAdmitted" <=> fence[k] = NoKind
      /\ IsSettled(fence[k]) => IsSettled(kind)
  BY <1>1, RungFacts
<1>3. IsSettled(Carried(h[t])[k]) => IsSettled(kind)
  BY <1>2 DEF FenceFits
<1>4. ASSUME kind # "IntentAdmitted"
      PROVE  \E p \in 1..t, r \in Kind :
                 Records(h, p, k, r) /\ Rung[r] >= Rung[kind] - 1
  <2>1. fence[k] \in Kind
    BY <1>1, <1>2, <1>4
  <2>2. \E p \in 1..t : Records(h, p, k, fence[k])
    BY <1>2, <1>4 DEF FenceFits
  <2>3. QED
    BY <1>2, <2>1, <2>2
<1>5. ASSUME kind = "IntentAdmitted", NEW p \in 1..t PROVE ~Names(h, p, k)
  <2>1. fence[k] = NoKind
    BY <1>2, <1>5
  <2>2. ~Names(h, t, k) /\ Carried(h[t])[k] = NoKind
    BY <2>1 DEF FenceFits
  <2>3. CASE p = t
    BY <2>2, <2>3
  <2>4. CASE p # t
    <3>1. p \in 1..(t - 1) /\ t \in 1..t
      BY <2>4, Places
    <3>2. QED
      BY <2>1, <2>2, <3>1 DEF ForgottenIsBelow
  <2>5. QED
    BY <2>3, <2>4
<1>6. QED
  BY <1>3, <1>4, <1>5 DEF Admissible

(* A file is corrupted only by what is put behind its own seal. *)
LEMMA AppendedIsSound ==
    ASSUME NEW f \in Seq(Frame), NEW x \in Frame, ~Corrupt(f), ~OwnSeal(f)
    PROVE  ~Corrupt(Append(f, x))
<1> DEFINE g == Append(f, x)
<1>1. /\ Len(g) = Len(f) + 1 /\ Len(f) \in Nat
      /\ \A i \in 1..Len(f) : g[i] = f[i]
  OBVIOUS
<1> HIDE DEF g
<1>2. ASSUME NEW i \in 2..(Len(g) - 1) PROVE g[i].is # "seal"
  <2>1. i \in 2..Len(f) /\ i \in 1..Len(f)
    BY <1>1
  <2>2. CASE i = Len(f)
    BY <1>1, <2>1, <2>2 DEF OwnSeal
  <2>3. CASE i # Len(f)
    <3>1. i \in 2..(Len(f) - 1)
      BY <1>1, <2>1, <2>3
    <3>2. QED
      BY <1>1, <2>1, <3>1 DEF Corrupt
  <2>4. QED
    BY <2>2, <2>3
<1>3. QED
  BY <1>2 DEF Corrupt, g

(* An untouched file is all seen. *)
LEMMA AllSeen ==
    ASSUME files \in [Generation -> File], handle.gen \in Generation, Untouched
    PROVE  Seen = files[handle.gen].frames
<1>1. files[handle.gen].frames \in Seq(Frame)
  BY DEF File
<1>2. Seen = SubSeq(files[handle.gen].frames, 1, Len(files[handle.gen].frames))
  BY DEF Seen, Untouched
<1>3. QED
  BY <1>1, <1>2

-----------------------------------------------------------------------------
(* The steps, from a state whose chain ends in t *)

Sound(t) == TypeOK /\ Fenced /\ SealedOnlyWhenResumed /\ IsLast(t)

IInv == \E t \in Generation : Sound(t)

LEMMA SoundFacts ==
    ASSUME NEW t \in Generation, Sound(t)
    PROVE  /\ files \in [Generation -> File] /\ Frames \in Chain
           /\ History(Frames, t) /\ LinkedTo(Frames, t)
           /\ \A g \in Generation :
                /\ Frames[g] = files[g].frames
                /\ files[g].frames \in Seq(Frame)
                /\ Len(files[g].frames) \in Nat
           /\ handle # Closed =>
                 /\ handle \in Handle /\ handle.gen \in Generation
                 /\ handle.view \in Nat /\ handle.fence \in Rungs
                 /\ handle.view <= Len(files[handle.gen].frames)
           /\ Usable => handle.gen = t /\ Seen = files[t].frames
                        /\ Len(files[t].frames) = handle.view
                        /\ handle # Closed
<1>1. files \in [Generation -> File] /\ Frames \in Chain
  BY FramesTyped DEF Sound, TypeOK
<1>2. History(Frames, t) /\ LinkedTo(Frames, t)
  BY DEF Sound, IsLast, History
<1>3. \A g \in Generation : /\ Frames[g] = files[g].frames
                            /\ files[g].frames \in Seq(Frame)
                            /\ Len(files[g].frames) \in Nat
  BY <1>1 DEF Frames, FramesOf, File
<1>4. handle # Closed =>
          /\ handle \in Handle /\ handle.gen \in Generation
          /\ handle.view \in Nat /\ handle.fence \in Rungs
          /\ handle.view <= Len(files[handle.gen].frames)
  BY DEF Sound, TypeOK, Handle
<1>5. Usable => handle.gen = t /\ Untouched /\ handle # Closed
  BY DEF Sound, IsLast, Held, Usable
<1>6. Usable => Seen = files[t].frames
  BY <1>1, <1>5, AllSeen
<1>7. QED
  BY <1>1, <1>2, <1>3, <1>4, <1>5, <1>6 DEF Untouched

(* A step that leaves every frame, and no handle that may write. *)
LEMMA StandingStep ==
    ASSUME NEW t \in Generation, Sound(t), Frames' = Frames,
           files' \in [Generation -> File],
           UNCHANGED <<acked, resumed>>, sealing' = "idle",
           \/ handle' = Closed
           \/ /\ handle' \in Handle /\ handle'.gen \in 1..t
              /\ handle'.view <= Len(files[handle'.gen].frames)
              /\ handle'.poisoned \/ handle'.sealedBy
    PROVE  Sound(t)'
<1>1. \A g \in Generation : files'[g].frames = files[g].frames
  BY DEF Frames, FramesOf
<1>2. ~Usable'
  BY DEF Usable
<1>3. TypeOK'
  <2>1. acked' \subseteq Generation \X Nat /\ resumed' \in BOOLEAN
    BY DEF Sound, TypeOK
  <2>2. handle' \in Handle \cup {Closed}
    OBVIOUS
  <2>3. handle' # Closed => handle'.view <= Len(files'[handle'.gen].frames)
    BY <1>1, Places
  <2>4. QED
    BY <2>1, <2>2, <2>3 DEF TypeOK
<1>4. Fenced'
  BY <1>2 DEF Fenced
<1>5. SealedOnlyWhenResumed'
  BY <1>1, <1>2 DEF Sound, SealedOnlyWhenResumed
<1>6. History(Frames, t)'
  BY DEF Sound, IsLast
<1>7. Held(t)'
  BY <1>2 DEF Held
<1>8. AckedIn(t)'
  <2>1. \A a \in acked : a[1] \in Generation
    BY DEF Sound, TypeOK
  <2>2. QED
    BY <1>1, <2>1 DEF Sound, IsLast, AckedIn
<1>9. QED
  BY <1>3, <1>4, <1>5, <1>6, <1>7, <1>8 DEF Sound, IsLast

LEMMA DieStep ==
    ASSUME NEW t \in Generation, Sound(t), Die
    PROVE  Sound(t)'
<1>1. files' = files /\ handle' = Closed /\ sealing' = "idle"
      /\ UNCHANGED <<acked, resumed>>
  BY DEF Die
<1>2. Frames' = Frames /\ files' \in [Generation -> File]
  BY <1>1, SoundFacts DEF Frames
<1>3. QED
  BY <1>1, <1>2, StandingStep

(* A file is opened, as the last of the chain. *)
LEMMA OpeningStep ==
    ASSUME NEW t \in Generation, Sound(t), Frames' = Frames,
           files' \in [Generation -> File], ~files'[t].cut,
           handle' = Opened(t), sealing' = "idle", UNCHANGED acked,
           resumed' \in BOOLEAN, resumed => resumed',
           OwnSeal(files[t].frames) => resumed'
    PROVE  Sound(t)'
<1>1. \A g \in Generation : files'[g].frames = files[g].frames
  BY DEF Frames, FramesOf
<1>2. /\ handle' \in Handle /\ handle'.gen = t
      /\ handle'.view = Len(files[t].frames)
      /\ handle'.view <= Len(files[t].frames)
      /\ handle'.fence = FenceOf(files[t].frames)
  BY SoundFacts, OpenedTyped
<1>3. TypeOK'
  <2>1. acked' \subseteq Generation \X Nat
    BY DEF Sound, TypeOK
  <2>2. QED
    BY <1>1, <1>2, <2>1 DEF TypeOK
<1>4. Fenced'
  <2>1. FenceFits(Frames, t, FenceOf(Frames[t]))
    BY SoundFacts, OpenedFits DEF History
  <2>2. FenceFits(Frames', handle'.gen, handle'.fence)
    BY <1>2, <2>1, SoundFacts
  <2>3. QED
    BY <2>2 DEF Fenced
<1>5. SealedOnlyWhenResumed'
  BY <1>1, <1>2 DEF Sound, SealedOnlyWhenResumed
<1>6. History(Frames, t)'
  BY DEF Sound, IsLast
<1>7. Held(t)'
  BY <1>1, <1>2, Places DEF Held, Untouched
<1>8. AckedIn(t)'
  <2>1. \A a \in acked : a[1] \in Generation
    BY DEF Sound, TypeOK
  <2>2. QED
    BY <1>1, <2>1 DEF Sound, IsLast, AckedIn
<1>9. QED
  BY <1>3, <1>4, <1>5, <1>6, <1>7, <1>8 DEF Sound, IsLast

LEMMA OpenStep ==
    ASSUME NEW t \in Generation, Sound(t), Open
    PROVE  Sound(t)'
<1>1. Live = t
  BY SoundFacts, LiveIsLast DEF Sound, Open
<1>2. /\ handle' = Opened(t)
      /\ files' = [files EXCEPT ![t] = [frames |-> @.frames, cut |-> FALSE]]
      /\ resumed' = (resumed \/ OwnSeal(files[t].frames))
      /\ UNCHANGED <<sealing, acked>> /\ handle = Closed
  BY <1>1 DEF Open
<1>3. sealing' = "idle"
  BY <1>2 DEF Sound, IsLast, Held
<1>4. files' \in [Generation -> File] /\ ~files'[t].cut
  <2>1. files[t].frames \in Seq(Frame) /\ files \in [Generation -> File]
    BY SoundFacts
  <2>2. [frames |-> files[t].frames, cut |-> FALSE] \in File
    BY <2>1 DEF File
  <2>3. files' = [files EXCEPT ![t] = [frames |-> files[t].frames, cut |-> FALSE]]
    BY <1>2
  <2>4. QED
    BY <2>1, <2>2, <2>3
<1>5. Frames' = Frames
  <2>1. \A g \in Generation : files'[g].frames = files[g].frames
    BY <1>2, SoundFacts
  <2>2. QED
    BY <2>1 DEF Frames, FramesOf
<1>6. QED
  BY <1>2, <1>3, <1>4, <1>5, OpeningStep DEF Sound, TypeOK

Grown(t, x) == [Frames EXCEPT ![t] = Append(@, x)]

(* A frame that may stand behind the last file is put there. *)
LEMMA GrowingStep ==
    ASSUME NEW t \in Generation, Sound(t), Usable, NEW x \in Frame,
           History(Grown(t, x), t), files' = Extended(x), UNCHANGED resumed,
           acked' \in {acked, acked \cup {<<t, Len(files[t].frames) + 1>>}}
    PROVE  /\ files' \in [Generation -> File] /\ History(Frames, t)'
           /\ Frames' = Grown(t, x) /\ AckedIn(t)'
           /\ acked' \subseteq Generation \X Nat
           /\ Len(files'[t].frames) = Len(files[t].frames) + 1
           /\ ~files'[t].cut
           /\ files'[t].frames = Append(files[t].frames, x)
           /\ ~resumed' => \A g \in Generation : ~Corrupt(files'[g].frames)
<1>1. handle.gen = t /\ handle # Closed /\ files \in [Generation -> File]
  BY SoundFacts
<1>2. /\ files' \in [Generation -> File] /\ Frames' = Grown(t, x)
      /\ Len(files'[t].frames) = Len(files[t].frames) + 1
      /\ ~files'[t].cut
  BY <1>1, ExtendedTyped DEF Grown, Frames
<1>3. /\ files'[t].frames = Append(files[t].frames, x)
      /\ \A g \in Generation : g # t => files'[g] = files[g]
  BY <1>1 DEF Extended
<1>4. History(Frames, t)'
  BY <1>2
<1>5. acked' \subseteq Generation \X Nat
  BY SoundFacts DEF Sound, TypeOK
<1>6. AckedIn(t)'
  <2>1. \A a \in acked : /\ a[1] \in Generation /\ a[2] \in Nat /\ a[1] <= t
                         /\ a[2] <= Len(files[a[1]].frames)
    BY DEF Sound, TypeOK, IsLast, AckedIn
  <2>2. \A g \in Generation : /\ Len(files[g].frames) \in Nat
                              /\ Len(files[g].frames) <= Len(files'[g].frames)
                              /\ Len(files'[g].frames) \in Nat
    BY <1>2, <1>3, SoundFacts
  <2>3. ASSUME NEW a \in acked' PROVE a[1] <= t /\ a[2] <= Len(files'[a[1]].frames)
    <3>1. CASE a \in acked
      BY <2>1, <2>2, <3>1
    <3>2. CASE a = <<t, Len(files[t].frames) + 1>>
      BY <1>2, <2>2, <3>2, Places
    <3>3. QED
      BY <2>3, <3>1, <3>2
  <2>4. QED
    BY <2>3 DEF AckedIn
<1>7. ASSUME ~resumed', NEW g \in Generation PROVE ~Corrupt(files'[g].frames)
  <2>1. ~Corrupt(files[g].frames) /\ ~OwnSeal(files[t].frames)
    BY <1>1, <1>7 DEF Sound, SealedOnlyWhenResumed
  <2>2. CASE g = t
    BY <1>3, <2>1, <2>2, SoundFacts, AppendedIsSound
  <2>3. CASE g # t
    BY <1>3, <2>1, <2>3
  <2>4. QED
    BY <2>2, <2>3
<1>8. QED
  BY <1>2, <1>3, <1>4, <1>5, <1>6, <1>7

(* A write that fails poisons the handle, whatever it left. *)
LEMMA FailingStep ==
    ASSUME NEW t \in Generation, Sound(t), Usable, NEW x \in Frame,
           History(Grown(t, x), t), WriteFails(x), UNCHANGED <<sealing, resumed>>
    PROVE  Sound(t)'
<1>1. /\ handle.gen = t /\ handle \in Handle /\ sealing = "idle"
      /\ handle.view <= Len(files[t].frames)
  BY SoundFacts DEF Usable
<1>2. /\ handle' \in Handle /\ handle'.poisoned
      /\ handle'.gen = t /\ handle'.view = handle.view
      /\ sealing' = "idle" /\ acked' = acked
  BY <1>1, PoisonedTyped DEF WriteFails
<1>3. CASE files' = Extended(x)
  <2>1. /\ files' \in [Generation -> File] /\ History(Frames, t)'
        /\ AckedIn(t)' /\ acked' \subseteq Generation \X Nat
        /\ Len(files'[t].frames) = Len(files[t].frames) + 1
        /\ ~resumed' => \A g \in Generation : ~Corrupt(files'[g].frames)
    BY <1>2, <1>3, GrowingStep
  <2>2. ~Usable'
    BY <1>2 DEF Usable
  <2>3. TypeOK'
    BY <1>1, <1>2, <2>1, SoundFacts DEF Sound, TypeOK, Handle
  <2>4. Fenced' /\ SealedOnlyWhenResumed'
    BY <2>1, <2>2 DEF Fenced, SealedOnlyWhenResumed
  <2>5. Held(t)'
    BY <1>2, <2>2, Places DEF Held
  <2>6. QED
    BY <2>1, <2>3, <2>4, <2>5 DEF Sound, IsLast
<1>4. CASE files' = files \/ files' = [files EXCEPT ![handle.gen] =
                                          [frames |-> @.frames, cut |-> TRUE]]
  <2>1. [frames |-> files[t].frames, cut |-> TRUE] \in File
    BY SoundFacts DEF File
  <2>2. \/ files' = files
        \/ files' = [files EXCEPT ![t] = [frames |-> files[t].frames, cut |-> TRUE]]
    BY <1>1, <1>4
  <2>3. files' \in [Generation -> File]
    BY <2>1, <2>2, SoundFacts
  <2>4. \A g \in Generation : files'[g].frames = files[g].frames
    BY <2>2, SoundFacts
  <2>5. Frames' = Frames
    BY <2>4 DEF Frames, FramesOf
  <2>6. QED
    BY <1>1, <1>2, <2>3, <2>5, StandingStep, Places
<1>5. QED
  BY <1>3, <1>4 DEF WriteFails

LEMMA AppendStep ==
    ASSUME NEW t \in Generation, Sound(t),
           NEW k \in Key, NEW kind \in Kind, AppendOne(k, kind)
    PROVE  Sound(t)'
<1> DEFINE x == Event(k, kind)
<1>1. Usable /\ Untouched /\ NextAllowed[handle.fence[k]] = kind
      /\ ~AlreadyWalked(k)
  BY DEF AppendOne, Admits
<1>2. /\ handle.gen = t /\ Seen = files[t].frames /\ handle \in Handle
      /\ handle.fence \in Rungs /\ handle.view = Len(files[t].frames)
      /\ handle.view \in Nat /\ sealing = "idle" /\ handle # Closed
  BY <1>1, SoundFacts DEF Usable
<1>3. x \in Frame /\ x.is = "event"
  BY EventIsFrame DEF Event
<1>4. Frames \in Chain /\ History(Frames, t) /\ Frames[t] = files[t].frames
  BY SoundFacts
<1>5. FenceFits(Frames, t, handle.fence)
  BY <1>1, <1>2 DEF Sound, Fenced
<1>6. handle.fence[k] = NoKind =>
          \A w \in Key : w.action = k.action /\ k.attempt <= w.attempt
                             => ~IsSettled(Carried(Frames[t])[w])
  BY <1>1, <1>2, <1>4 DEF AlreadyWalked
<1>7. Admissible(Frames, t, k, kind)
  BY <1>1, <1>2, <1>4, <1>5, <1>6, FenceAdmits DEF History
<1>8. Grown(t, x) \in Chain
  BY <1>3, <1>4 DEF Grown, Chain
<1>9. History(Grown(t, x), t)
  BY <1>4, <1>7, <1>8, EventKeepsHistory DEF Grown
<1>10. CASE WriteFails(x)
  BY <1>1, <1>3, <1>9, <1>10, FailingStep DEF AppendOne
<1>11. CASE AppendAcked(k, kind)
  <2>1. /\ files' = Extended(x) /\ sealing' = "idle" /\ resumed' = resumed
        /\ handle' = [gen |-> t, view |-> handle.view + 1,
                      fence |-> [handle.fence EXCEPT ![k] = kind],
                      sealedBy |-> FALSE, poisoned |-> FALSE]
        /\ acked' = acked \cup {<<t, Len(files[t].frames) + 1>>}
    BY <1>2, <1>11 DEF AppendAcked, AppendOne
  <2>2. /\ files' \in [Generation -> File] /\ History(Frames, t)'
        /\ Frames' = Grown(t, x) /\ AckedIn(t)'
        /\ acked' \subseteq Generation \X Nat
        /\ Len(files'[t].frames) = Len(files[t].frames) + 1
        /\ ~files'[t].cut
        /\ files'[t].frames = Append(files[t].frames, x)
        /\ ~resumed' => \A g \in Generation : ~Corrupt(files'[g].frames)
    BY <1>1, <1>3, <1>9, <2>1, GrowingStep
  <2>3. [handle.fence EXCEPT ![k] = kind] \in Rungs
    BY <1>2 DEF Rungs
  <2>4. handle' \in Handle
    BY <1>2, <2>1, <2>3 DEF Handle
  <2>5. /\ handle'.gen = t /\ handle'.view = Len(files'[t].frames)
        /\ handle'.fence = [handle.fence EXCEPT ![k] = kind]
        /\ handle'.view <= Len(files'[handle'.gen].frames)
    BY <1>2, <2>1, <2>2
  <2>6. TypeOK'
    BY <2>1, <2>2, <2>4, <2>5 DEF Sound, TypeOK
  <2>7. Fenced'
    <3>1. FenceFits(Grown(t, x), t, [handle.fence EXCEPT ![k] = kind])
      BY <1>1, <1>2, <1>4, <1>5, <1>8, AppendedFits DEF Grown
    <3>2. FenceFits(Frames', handle'.gen, handle'.fence)
      BY <2>2, <2>5, <3>1
    <3>3. QED
      BY <3>2 DEF Fenced
  <2>8. SealedOnlyWhenResumed'
    <3>1. ~OwnSeal(files'[t].frames)
      BY <1>3, <2>2, SoundFacts DEF OwnSeal
    <3>2. QED
      BY <2>2, <2>5, <3>1 DEF SealedOnlyWhenResumed
  <2>9. Held(t)'
    BY <2>1, <2>2, <2>5, Places DEF Held, Untouched
  <2>10. QED
    BY <2>2, <2>6, <2>7, <2>8, <2>9 DEF Sound, IsLast
<1>12. QED
  BY <1>10, <1>11 DEF AppendOne

LEMMA SealStep ==
    ASSUME NEW t \in Generation, Sound(t), SealPredecessor
    PROVE  Sound(t)'
<1> DEFINE x == OwnFrame
<1>1. Usable /\ Due /\ handle.gen < MaxGeneration /\ UNCHANGED resumed
  BY DEF SealPredecessor
<1>2. /\ handle.gen = t /\ Seen = files[t].frames /\ handle \in Handle
      /\ handle.view = Len(files[t].frames) /\ handle.view \in Nat
      /\ sealing = "idle" /\ handle # Closed /\ t < MaxGeneration
      /\ ~handle.sealedBy /\ ~handle.poisoned
  BY <1>1, SoundFacts DEF Usable
<1>3. /\ Frames \in Chain /\ History(Frames, t) /\ Frames[t] = files[t].frames
      /\ files[t].frames \in Seq(Frame)
  BY SoundFacts
<1>4. files[t].frames # <<>> /\ Len(files[t].frames) >= 1
  <2>1. Cardinality(EventsOf(files[t].frames)) >= EventsAt
    BY <1>1, <1>2 DEF Due, Committed
  <2>2. EventsOf(files[t].frames) # {}
    BY <2>1, FS_EmptySet, ContinuationAssumption
  <2>3. QED
    BY <1>3, <2>2, EmptySays
<1>5. Checkpoint = CheckpointOf(files[t].frames)
  BY <1>2 DEF Checkpoint, CheckpointOf
<1>6. x \in Frame /\ x.is = "seal" /\ x.carries = CheckpointOf(Frames[t])
  BY <1>2, <1>3, <1>5, CheckpointFacts, SealIsFrame DEF OwnFrame, Seal
<1> HIDE DEF x
<1>7. Grown(t, x) \in Chain
  BY <1>3, <1>6 DEF Grown, Chain
<1>8. History(Grown(t, x), t)
  BY <1>3, <1>4, <1>6, <1>7, SealKeepsHistory DEF Grown
<1>9. CASE WriteFails(x) /\ UNCHANGED sealing
  BY <1>1, <1>6, <1>8, <1>9, FailingStep
<1>10. CASE files' = Extended(x) /\ sealing' = "sealed" /\ UNCHANGED <<handle, acked>>
  <2>1. /\ files' \in [Generation -> File] /\ History(Frames, t)'
        /\ AckedIn(t)' /\ acked' \subseteq Generation \X Nat
        /\ Len(files'[t].frames) = Len(files[t].frames) + 1
        /\ files'[t].frames = Append(files[t].frames, x)
        /\ ~resumed' => \A g \in Generation : ~Corrupt(files'[g].frames)
    BY <1>1, <1>6, <1>8, <1>10, GrowingStep
  <2>2. ~Usable'
    BY <1>10 DEF Usable
  <2>3. TypeOK'
    BY <1>1, <1>2, <1>10, <2>1 DEF Sound, TypeOK
  <2>4. Fenced' /\ SealedOnlyWhenResumed'
    BY <2>1, <2>2 DEF Fenced, SealedOnlyWhenResumed
  <2>5. OwnSeal(files'[t].frames)
    BY <1>3, <1>4, <1>6, <2>1 DEF OwnSeal
  <2>6. Held(t)'
    BY <1>2, <1>10, <2>1, <2>2, <2>5, Places DEF Held
  <2>7. QED
    BY <2>1, <2>3, <2>4, <2>6 DEF Sound, IsLast
<1>11. QED
  BY <1>9, <1>10 DEF SealPredecessor, x

LEMMA SuccessorStep ==
    ASSUME NEW t \in Generation, Sound(t), WriteSuccessor
    PROVE  Sound(t)' \/ (t + 1 \in Generation /\ Sound(t + 1)')
<1>1. /\ sealing = "sealed" /\ handle # Closed /\ handle.gen = t
      /\ t < MaxGeneration /\ OwnSeal(files[t].frames)
      /\ ~handle.sealedBy /\ ~handle.poisoned
      /\ Len(files[t].frames) = handle.view + 1
      /\ acked' = acked /\ resumed' = resumed
  BY DEF WriteSuccessor, Sound, IsLast, Held
<1>2. /\ handle \in Handle /\ handle.view <= Len(files[t].frames)
      /\ files[t].frames \in Seq(Frame) /\ files \in [Generation -> File]
      /\ Frames \in Chain /\ History(Frames, t) /\ Frames[t] = files[t].frames
  BY <1>1, SoundFacts
<1>3. t + 1 \in Generation /\ t + 1 # t /\ t \in 1..(t + 1)
  BY <1>1, Places
<1>4. Frames[t + 1] = <<>> /\ files[t + 1].frames = <<>>
  <2>1. t + 1 \in (t + 1)..MaxGeneration
    BY <1>1, Places
  <2>2. QED
    BY <1>2, <1>3, <2>1, SoundFacts DEF LinkedTo
<1> DEFINE s == files[t].frames[Len(files[t].frames)]
           whole == [frames |-> <<s>>, cut |-> FALSE]
<1>5. s \in Frame
  BY <1>1, <1>2 DEF OwnSeal
<1> HIDE DEF s
<1>6. CASE files' = [files EXCEPT ![t + 1] = whole] /\ sealing' = "written"
           /\ UNCHANGED handle
  <2>1. whole \in File /\ whole.frames = <<s>> /\ ~whole.cut
    BY <1>5 DEF File
  <2> HIDE DEF whole
  <2>2. /\ files' \in [Generation -> File]
        /\ files'[t + 1].frames = <<s>> /\ ~files'[t + 1].cut
        /\ \A g \in Generation : g # t + 1 => files'[g] = files[g]
    BY <1>2, <1>3, <1>6, <2>1
  <2>3. Frames' = [Frames EXCEPT ![t + 1] = <<s>>]
    <3>1. \A g \in Generation :
              files'[g].frames = IF g = t + 1 THEN <<s>> ELSE files[g].frames
      BY <2>2
    <3>2. QED
      BY <3>1 DEF Frames, FramesOf
  <2>4. Frames' \in Chain
    BY <2>2, FramesTyped DEF Frames, FramesOf, Chain, File
  <2>5. History(Frames', t + 1) /\ Len(Frames'[t + 1]) = 1
    <3>1. OwnSeal(Frames[t]) /\ s = Frames[t][Len(Frames[t])]
      BY <1>1, <1>2 DEF s
    <3> DEFINE h == Frames
               i == Frames'
    <3>2. h \in Chain /\ i \in Chain /\ History(h, t) /\ OwnSeal(h[t])
          /\ i = [h EXCEPT ![t + 1] = <<h[t][Len(h[t])]>>]
      BY <1>2, <2>3, <2>4, <3>1
    <3> HIDE DEF h, i
    <3>3. History(i, t + 1) /\ Len(i[t + 1]) = 1
      BY <1>1, <3>2, SuccessorKeepsHistory
    <3>4. QED
      BY <3>3 DEF h, i
  <2>6. ~Usable'
    BY <1>6 DEF Usable
  <2>7. Len(files'[t + 1].frames) = 1 /\ files'[t] = files[t]
    BY <1>3, <2>2, <2>5 DEF Frames, FramesOf
  <2>8. TypeOK'
    BY <1>1, <1>2, <1>6, <2>2, <2>7 DEF Sound, TypeOK
  <2>9. Fenced'
    BY <2>6 DEF Fenced
  <2>10. SealedOnlyWhenResumed'
    <3>1. ~Corrupt(files'[t + 1].frames)
      BY <2>7 DEF Corrupt
    <3>2. QED
      BY <1>1, <2>2, <2>6, <3>1 DEF Sound, SealedOnlyWhenResumed
  <2>11. Held(t + 1)'
    BY <1>1, <1>3, <1>6, <2>2, <2>6, <2>7 DEF Held
  <2>12. AckedIn(t + 1)'
    <3>1. \A a \in acked : /\ a[1] \in Generation /\ a[1] <= t
                           /\ a[2] <= Len(files[a[1]].frames)
      BY DEF Sound, TypeOK, IsLast, AckedIn
    <3>2. \A g \in Generation : g <= t => g # t + 1 /\ g <= t + 1
      BY DEF Generation
    <3>3. QED
      BY <1>1, <2>2, <3>1, <3>2 DEF AckedIn
  <2>13. QED
    BY <1>3, <2>5, <2>8, <2>9, <2>10, <2>11, <2>12 DEF Sound, IsLast
<1>7. ASSUME NEW left \in BOOLEAN,
             files' = [files EXCEPT ![t + 1] = [frames |-> <<>>, cut |-> left]],
             sealing' = "idle", handle' = Poisoned
      PROVE  Sound(t)'
  <2>1. [frames |-> <<>>, cut |-> left] \in File
    BY DEF File
  <2>2. /\ files' \in [Generation -> File]
        /\ \A g \in Generation : files'[g].frames = files[g].frames
    BY <1>2, <1>3, <1>4, <1>7, <2>1
  <2>3. Frames' = Frames
    BY <2>2 DEF Frames, FramesOf
  <2>4. /\ handle' \in Handle /\ handle'.gen = t /\ handle'.poisoned
        /\ handle'.view = handle.view
    BY <1>1, <1>2, <1>7, PoisonedTyped
  <2>5. QED
    BY <1>1, <1>2, <1>7, <2>2, <2>3, <2>4, StandingStep, Places
<1>8. QED
  BY <1>1, <1>3, <1>6, <1>7 DEF WriteSuccessor, whole, s

LEMMA FinishStep ==
    ASSUME NEW t \in Generation, Sound(t), FinishSeal
    PROVE  Sound(t)'
<1>1. /\ sealing = "written" /\ handle # Closed /\ handle.gen + 1 = t
      /\ Len(files[t].frames) = 1 /\ ~files[t].cut
      /\ Len(files[handle.gen].frames) = handle.view + 1
      /\ sealing' = "idle" /\ files' = files
      /\ acked' = acked /\ resumed' = resumed
      /\ handle.gen \in 1..t
  BY DEF FinishSeal, Sound, IsLast, Held
<1>2. /\ handle \in Handle /\ files' \in [Generation -> File]
      /\ handle.view \in Nat /\ handle.view <= Len(files[handle.gen].frames)
      /\ Frames' = Frames
  BY <1>1, SoundFacts DEF Frames
<1>3. CASE handle' = Opened(handle.gen + 1)
  <2>1. ~OwnSeal(files[t].frames)
    BY <1>1 DEF OwnSeal
  <2>2. QED
    BY <1>1, <1>2, <1>3, <2>1, OpeningStep DEF Sound, TypeOK
<1>4. CASE handle' = Poisoned
  BY <1>1, <1>2, <1>4, PoisonedTyped, StandingStep
<1>5. CASE handle' = SealedBy
  <2>1. /\ handle' \in Handle /\ handle'.gen = handle.gen
        /\ handle'.view = handle.view + 1 /\ handle'.sealedBy
    BY <1>2, <1>5 DEF SealedBy, Handle
  <2>2. handle'.view <= Len(files[handle'.gen].frames)
    BY <1>1, <1>2, <2>1
  <2>3. QED
    BY <1>1, <1>2, <2>1, <2>2, StandingStep
<1>6. QED
  BY <1>3, <1>4, <1>5 DEF FinishSeal

LEMMA StutterStep ==
    ASSUME NEW t \in Generation, Sound(t), UNCHANGED vars
    PROVE  Sound(t)'
BY DEF vars, Sound, TypeOK, Fenced, SealedOnlyWhenResumed, IsLast, Frames,
       Held, AckedIn, Usable, Untouched

LEMMA InitIsSound == Init => IInv
<1> SUFFICES ASSUME Init PROVE Sound(1)
  <2>1. 1 \in Generation
    BY ContinuationAssumption DEF Generation
  <2>2. QED
    BY <2>1 DEF IInv
<1>1. 1 \in Generation /\ 1 \in 1..1 /\ \A g \in 1..1 : g = 1
  BY ContinuationAssumption DEF Generation
<1>2. /\ \A g \in Generation : files[g].frames = <<>> /\ ~files[g].cut
      /\ \A g \in Generation : Frames[g] = <<>>
  BY DEF Init, Empty, Frames, FramesOf
<1>3. TypeOK
  <2>1. Empty \in File
    BY DEF Empty, File
  <2>2. files \in [Generation -> File]
    BY <2>1 DEF Init
  <2>3. QED
    BY <2>2 DEF Init, TypeOK
<1>4. Frames \in Chain
  BY <1>3, FramesTyped DEF TypeOK
<1>5. ~Usable
  BY DEF Init, Usable
<1>6. Fenced
  BY <1>5 DEF Fenced
<1>7. SealedOnlyWhenResumed
  <2>1. ~Corrupt(<<>>)
    BY DEF Corrupt
  <2>2. QED
    BY <1>2, <1>5, <2>1 DEF SealedOnlyWhenResumed
<1>8. \A g \in Generation : /\ EventsOf(Frames[g]) = {} /\ ~OwnSeal(Frames[g])
                            /\ \A k : LastRung(Frames[g], k) = NoKind
                            /\ \A k \in Key : Carried(Frames[g])[k] = NoKind
                            /\ \A k \in Key : Fold(Frames[g])[k] = NoKind
  <2>1. ~OwnSeal(<<>>)
    BY DEF OwnSeal
  <2>2. \A k \in Key : Fold(<<>>)[k] = NoKind
    BY EmptySays DEF Fold
  <2>3. QED
    BY <1>2, <2>1, <2>2, EmptySays
<1>9. History(Frames, 1)
  <2>1. LinkedTo(Frames, 1)
    BY <1>2, Places, <1>1 DEF LinkedTo
  <2>2. SealsCarry(Frames)
    BY <1>1, <1>2, <1>8 DEF SealsCarry
  <2>3. CarriedIsRecorded(Frames, 1)
    BY <1>1, <1>8 DEF CarriedIsRecorded
  <2>4. SettledStays(Frames, 1)
    BY <1>1, <1>8 DEF SettledStays, Records
  <2>5. ForgottenIsBelow(Frames, 1)
    <3>1. \A g \in 1..1 : \A p \in 1..(g - 1) : FALSE
      OBVIOUS
    <3>2. QED
      BY <3>1 DEF ForgottenIsBelow
  <2>6. FoldIsKept(Frames, 1)
    <3>1. \A k : WrittenIn(Frames, k, 1) = NoKind
      BY <1>1, <1>8, WrittenFacts
    <3>2. QED
      BY <1>1, <1>8, <3>1 DEF FoldIsKept
  <2>7. Once(Frames)
    BY <1>2 DEF Once
  <2>8. StepByStep(Frames)
    BY <1>8 DEF StepByStep
  <2>9. QED
    BY <2>1, <2>2, <2>3, <2>4, <2>5, <2>6, <2>7, <2>8 DEF History
<1>10. Held(1) /\ AckedIn(1)
  BY <1>5 DEF Init, Held, AckedIn
<1>11. QED
  BY <1>3, <1>6, <1>7, <1>9, <1>10 DEF Sound, IsLast

LEMMA StepKeepsSound == IInv /\ [Next]_vars => IInv'
<1> SUFFICES ASSUME NEW t \in Generation, Sound(t), [Next]_vars
             PROVE  Sound(t)' \/ (t + 1 \in Generation /\ Sound(t + 1)')
  BY DEF IInv
<1>1. CASE Open
  BY <1>1, OpenStep
<1>2. CASE Die
  BY <1>2, DieStep
<1>3. ASSUME NEW k \in Key, NEW kind \in Kind, AppendOne(k, kind)
      PROVE  Sound(t)'
  BY <1>3, AppendStep
<1>4. CASE SealPredecessor
  BY <1>4, SealStep
<1>5. CASE WriteSuccessor
  BY <1>5, SuccessorStep
<1>6. CASE FinishSeal
  BY <1>6, FinishStep
<1>7. CASE UNCHANGED vars
  BY <1>7, StutterStep
<1>8. QED
  BY <1>1, <1>2, <1>3, <1>4, <1>5, <1>6, <1>7 DEF Next

(* The invariant of every reachable state. *)
LEMMA AlwaysSound == Spec => []IInv
BY InitIsSound, StepKeepsSound, PTL DEF Spec

-----------------------------------------------------------------------------
(* The theorems *)

(* The variables keep their types. *)
THEOREM ContinuationTyped == Spec => []TypeOK
<1>1. IInv => TypeOK
  BY DEF IInv, Sound
<1>2. QED
  BY <1>1, AlwaysSound, PTL

(* No attempt is admitted a second time, in its own file or in a successor *)
(* that has forgotten it (the ladder, refuse_walked).                      *)
THEOREM NothingAdmittedTwice == Spec => []AdmittedOnce
<1>1. IInv => AdmittedOnce
  <2> SUFFICES ASSUME NEW t \in Generation, Sound(t) PROVE AdmittedOnce
    BY DEF IInv
  <2>1. Once(Frames) /\ \A g \in Generation : Frames[g] = files[g].frames
    BY SoundFacts DEF History
  <2>2. QED
    BY <2>1 DEF Once, AdmittedOnce
<1>2. QED
  BY <1>1, AlwaysSound, PTL

(* No rung is recorded before the rung below it, in the same file or in a  *)
(* file the attempt was carried from, however often the journal was        *)
(* reopened with a fence behind its fold (the ladder, carried).            *)
THEOREM EveryRungFollows == Spec => []NoRungSkipped
<1>1. IInv => NoRungSkipped
  <2> SUFFICES ASSUME NEW t \in Generation, Sound(t),
                      NEW g \in Generation, NEW i \in EventsOf(files[g].frames),
                      files[g].frames[i].kind # "IntentAdmitted"
               PROVE  \E p \in 1..g : \E j \in EventsOf(files[p].frames) :
                          /\ p = g => j < i
                          /\ files[p].frames[j].key = files[g].frames[i].key
                          /\ Rung[files[p].frames[j].kind]
                                 >= Rung[files[g].frames[i].kind] - 1
    BY DEF IInv, NoRungSkipped
  <2>1. StepByStep(Frames) /\ \A q \in Generation : Frames[q] = files[q].frames
    BY SoundFacts DEF History
  <2>2. PICK p \in 1..g : \E j \in EventsOf(Frames[p]) : Precedes(Frames, p, j, g, i)
    BY <2>1 DEF StepByStep
  <2>3. PICK j \in EventsOf(Frames[p]) : Precedes(Frames, p, j, g, i)
    BY <2>2
  <2>4. p \in Generation
    BY Places
  <2>5. QED
    BY <2>1, <2>3, <2>4 DEF Precedes
<1>2. QED
  BY <1>1, AlwaysSound, PTL

(* While the walk from the first file is not refused, it reaches every     *)
(* acknowledged frame (open_active, the authority rule).                   *)
THEOREM AcknowledgedReached == Spec => []AckedIsReached
<1>1. IInv => AckedIsReached
  <2> SUFFICES ASSUME NEW t \in Generation, Sound(t), ~Refused
               PROVE  \A a \in acked :
                          a[1] <= Live /\ a[2] <= Len(files[a[1]].frames)
    BY DEF IInv, AckedIsReached
  <2>1. Live = t
    BY SoundFacts, LiveIsLast DEF Sound
  <2>2. QED
    BY <2>1 DEF Sound, IsLast, AckedIn
<1>2. QED
  BY <1>1, AlwaysSound, PTL

(* A walk is refused only after a journal was opened behind its own seal.  *)
THEOREM RefusedOnlyWhenResumed == Spec => []ReopensUnlessResumed
<1>1. IInv => ReopensUnlessResumed
  BY LiveFacts DEF IInv, Sound, SealedOnlyWhenResumed, ReopensUnlessResumed, Refused
<1>2. QED
  BY <1>1, AlwaysSound, PTL

LEMMA WrittenIsWrittenIn ==
    ASSUME NEW g \in Generation, NEW k PROVE Written(k, g) = WrittenIn(Frames, k, g)
<1> DEFINE N == {p \in 1..g : LastRung(files[p].frames, k) # NoKind}
           M == {p \in 1..g : LastRung(Frames[p], k) # NoKind}
<1>1. \A p \in 1..g : Frames[p] = files[p].frames
  BY Places DEF Frames, FramesOf
<1>2. N = M
  BY <1>1
<1>3. CASE N = {}
  BY <1>2, <1>3 DEF Written, WrittenIn
<1>4. CASE N # {}
  <2> DEFINE last == CHOOSE p \in N : \A q \in N : q <= p
  <2>1. last \in 1..g
    <3>1. g \in Nat /\ N \subseteq 0..g
      BY DEF Generation
    <3> HIDE DEF N
    <3>2. \E p \in N : \A q \in N : q <= p
      BY <1>4, <3>1, Greatest
    <3>3. last \in N
      BY <3>2
    <3>4. QED
      BY <3>3 DEF N
  <2>2. Written(k, g) = LastRung(files[last].frames, k)
    BY <1>4 DEF Written
  <2>3. WrittenIn(Frames, k, g) =
            IF M = {} THEN NoKind
            ELSE LastRung(Frames[CHOOSE p \in M : \A q \in M : q <= p], k)
    BY DEF WrittenIn
  <2>4. (CHOOSE p \in M : \A q \in M : q <= p) = last
    <3> HIDE DEF N, M
    <3> QED
      BY <1>2
  <2> HIDE DEF last, N, M
  <2>5. QED
    BY <1>1, <1>2, <1>4, <2>1, <2>2, <2>3, <2>4
<1>5. QED
  BY <1>3, <1>4

(* Any number of continuations, interrupted anywhere, leave the journal    *)
(* with what one uninterrupted file would say: every unresolved attempt at *)
(* its rung and the latest attempt of every action (carried,               *)
(* recover_continued).                                                     *)
THEOREM ContinuationKeepsTheFold == Spec => []FoldKept
<1>1. IInv => FoldKept
  <2> SUFFICES ASSUME NEW t \in Generation, Sound(t), AtRest PROVE FoldKept
    BY DEF IInv, FoldKept
  <2>1. handle.gen = t /\ Seen = files[t].frames /\ Frames[t] = files[t].frames
    BY SoundFacts DEF AtRest
  <2>2. FoldIsKept(Frames, t) /\ t \in 1..t
    BY SoundFacts, Places DEF History
  <2>3. \A k \in Key : Written(k, handle.gen) = WrittenIn(Frames, k, t)
    BY <2>1, WrittenIsWrittenIn
  <2>4. \A k \in Key :
            \/ Fold(Seen)[k] = WrittenIn(Frames, k, t)
            \/ /\ Fold(Seen)[k] = NoKind /\ IsSettled(WrittenIn(Frames, k, t))
               /\ \E w \in Key : /\ w.action = k.action
                                 /\ w.attempt > k.attempt
                                 /\ WrittenIn(Frames, w, t) # NoKind
    BY <2>1, <2>2 DEF FoldIsKept
  <2>5. QED
    BY <2>3, <2>4 DEF FoldKept
<1>2. QED
  BY <1>1, AlwaysSound, PTL

LiveWriteOnly ==
    ~Refused =>
        /\ \A g \in Generation \ {Live, Live + 1} : files'[g] = files[g]
        /\ \A g \in Generation \ {Live} :
              EventsOf(files'[g].frames) = EventsOf(files[g].frames)

LEMMA WritesAtLive ==
    ASSUME NEW t \in Generation, Sound(t), [Next]_vars
    PROVE  LiveWriteOnly
<1> SUFFICES ASSUME ~Refused
             PROVE  /\ \A g \in Generation \ {t, t + 1} : files'[g] = files[g]
                    /\ \A g \in Generation \ {t} :
                          EventsOf(files'[g].frames) = EventsOf(files[g].frames)
  BY SoundFacts, LiveIsLast DEF Sound, LiveWriteOnly
<1>1. Live = t /\ files \in [Generation -> File]
  BY SoundFacts, LiveIsLast DEF Sound
<1>2. CASE files' = files
  BY <1>2
<1>3. CASE \A g \in Generation \ {t} : files'[g] = files[g]
  BY <1>3
<1>4. ASSUME Usable, NEW x, files' = Extended(x) \/ WriteFails(x)
      PROVE  \A g \in Generation \ {t} : files'[g] = files[g]
  <2>1. handle.gen = t
    BY <1>4, SoundFacts
  <2>2. QED
    BY <1>1, <1>4, <2>1 DEF Extended, WriteFails
<1>5. CASE Open
  BY <1>1, <1>3, <1>5 DEF Open
<1>6. CASE Die \/ FinishSeal \/ UNCHANGED vars
  BY <1>2, <1>6 DEF Die, FinishSeal, vars
<1>7. ASSUME NEW k \in Key, NEW kind \in Kind, AppendOne(k, kind)
      PROVE  \A g \in Generation \ {t} : files'[g] = files[g]
  <2>1. Usable
    BY <1>7 DEF AppendOne, Admits
  <2>2. files' = Extended(Event(k, kind)) \/ WriteFails(Event(k, kind))
    BY <1>7 DEF AppendOne, AppendAcked
  <2>3. QED
    BY <1>4, <2>1, <2>2
<1>8. ASSUME SealPredecessor PROVE \A g \in Generation \ {t} : files'[g] = files[g]
  BY <1>4, <1>8 DEF SealPredecessor
<1>9. CASE WriteSuccessor
  <2>1. handle.gen = t /\ t < MaxGeneration /\ OwnSeal(files[t].frames)
    BY <1>9 DEF WriteSuccessor, Sound, IsLast, Held
  <2>2. t + 1 \in Generation /\ t + 1 \in (t + 1)..MaxGeneration
    BY <2>1, Places
  <2>3. files[t + 1].frames = <<>>
    BY <2>2, SoundFacts DEF LinkedTo
  <2>4. \A g \in Generation \ {t + 1} : files'[g] = files[g]
    BY <1>1, <1>9, <2>1 DEF WriteSuccessor
  <2>5. EventsOf(files'[t + 1].frames) = EventsOf(files[t + 1].frames)
    <3> DEFINE s == files[t].frames[Len(files[t].frames)]
    <3>1. files'[t + 1].frames = <<>> \/ files'[t + 1].frames = <<s>>
      <4>1. \/ files' = [files EXCEPT ![t + 1] =
                             [frames |-> <<s>>, cut |-> FALSE]]
            \/ \E left \in BOOLEAN :
                  files' = [files EXCEPT ![t + 1] =
                               [frames |-> <<>>, cut |-> left]]
        BY <1>9, <2>1 DEF WriteSuccessor
      <4>2. \/ files'[t + 1] = [frames |-> <<s>>, cut |-> FALSE]
            \/ \E left \in BOOLEAN :
                  files'[t + 1] = [frames |-> <<>>, cut |-> left]
        BY <1>1, <2>2, <4>1
      <4> HIDE DEF s
      <4>3. files'[t + 1] = [frames |-> <<s>>, cut |-> FALSE]
                => files'[t + 1].frames = <<s>>
        OBVIOUS
      <4>4. ASSUME NEW left \in BOOLEAN,
                   files'[t + 1] = [frames |-> <<>>, cut |-> left]
            PROVE  files'[t + 1].frames = <<>>
        BY <4>4
      <4>5. QED
        BY <4>2, <4>3, <4>4
    <3>2. s.is = "seal"
      BY <2>1 DEF OwnSeal
    <3> HIDE DEF s
    <3>3. EventsOf(<<s>>) = {}
      BY <3>2 DEF EventsOf
    <3>4. QED
      BY <2>3, <3>1, <3>3, EmptySays
  <2>6. QED
    BY <2>4, <2>5
<1>10. QED
  BY <1>3, <1>5, <1>6, <1>7, <1>8, <1>9 DEF Next

(* Nothing is written to a file but the one the walk finds live, and no    *)
(* event to its successor: two files never both take appends               *)
(* (refuse_sealed, the poison).                                            *)
THEOREM OnlyLiveFileWritten == Spec => OnlyTheLiveIsWritten
<1>1. IInv /\ [Next]_vars => [LiveWriteOnly]_vars
  BY WritesAtLive DEF IInv
<1>2. Spec => [][LiveWriteOnly]_vars
  BY <1>1, AlwaysSound, PTL DEF Spec
<1>3. QED
  BY <1>2 DEF OnlyTheLiveIsWritten, LiveWriteOnly
=============================================================================
