--------------------------- MODULE TenancyProofs ---------------------------
(***************************************************************************)
(* Tenanted admission, proved for every set of tenants and callers and for *)
(* every policy: what the round charges to a tenant is what the tenant     *)
(* holds, no tenant passes its ceiling, and no permit lies in the pool     *)
(* while a caller that could take it is parked.                            *)
(***************************************************************************)
EXTENDS TenancyShell, SequenceTheorems, Extremes

Member(r, t) == \E i \in 1..Len(r.ring) : r.ring[i] = t

(* What the round has to say of one tenant, given whether it is on the ring. *)
EntrySound(e, member) ==
    /\ e \in Entry
    /\ e.onRing <=> member
    /\ e.queue # <<>> /\ UnderCeiling(e) => member
    /\ member => UnderCeiling(e)
    /\ e.inFlight <= PerTenantLimit
    /\ ~e.known => e = Absent

Sound(r) ==
    /\ r \in Round
    /\ \A i, j \in 1..Len(r.ring) : r.ring[i] = r.ring[j] => i = j
    /\ \A t \in Tenant : EntrySound(r.entries[t], Member(r, t))

-----------------------------------------------------------------------------
(* The round: its ring and one entry change together. *)

LEMMA AbsentIsEntry == Absent \in Entry /\ EntrySound(Absent, FALSE)
<1>1. Absent \in Entry
  BY EmptySeq DEF Absent, Entry
<1>2. QED
  BY <1>1, PolicyAssumption DEF EntrySound, Absent, UnderCeiling

LEMMA EmptyRoundSound == Sound(EmptyRound)
<1>1. EmptyRound \in Round
  BY AbsentIsEntry, EmptySeq DEF EmptyRound, Round
<1>2. \A t \in Tenant : ~Member(EmptyRound, t)
  BY EmptySeq DEF EmptyRound, Member
<1>3. \A t \in Tenant : EntrySound(EmptyRound.entries[t], Member(EmptyRound, t))
  BY <1>2, AbsentIsEntry DEF EmptyRound, EntrySound
<1>4. Len(EmptyRound.ring) = 0
  BY EmptySeq DEF EmptyRound
<1>5. QED
  BY <1>1, <1>3, <1>4 DEF Sound

(* A round with one entry and the ring replaced. *)
With(r, t, e, ring) == [WithEntry(r, t, e) EXCEPT !.ring = ring]

LEMMA WithFields ==
    ASSUME NEW r \in Round, NEW t \in Tenant, NEW e \in Entry,
           NEW ring \in Seq(Tenant)
    PROVE  /\ With(r, t, e, ring) \in Round
           /\ With(r, t, e, ring).ring = ring
           /\ With(r, t, e, ring).entries[t] = e
           /\ \A u \in Tenant \ {t} :
                  With(r, t, e, ring).entries[u] = r.entries[u]
           /\ WithEntry(r, t, e) = With(r, t, e, r.ring)
  BY DEF With, WithEntry, Round

(* A new ring that holds each tenant once, that agrees with the old one on *)
(* the others and with the new entry on its own tenant, keeps the round.   *)
LEMMA SoundWith ==
    ASSUME NEW r, Sound(r), NEW t \in Tenant, NEW ring \in Seq(Tenant),
           \A i, j \in 1..Len(ring) : ring[i] = ring[j] => i = j,
           \A u \in Tenant \ {t} :
               Member(r, u) <=> \E i \in 1..Len(ring) : ring[i] = u,
           NEW e, EntrySound(e, \E i \in 1..Len(ring) : ring[i] = t)
    PROVE  Sound(With(r, t, e, ring))
<1> DEFINE s == With(r, t, e, ring)
<1>0. r \in Round /\ e \in Entry
  BY DEF Sound, EntrySound
<1>1. /\ s \in Round /\ s.ring = ring /\ s.entries[t] = e
      /\ \A u \in Tenant \ {t} : s.entries[u] = r.entries[u]
  BY <1>0, WithFields
<1>2. \A u \in Tenant : Member(s, u) <=> \E i \in 1..Len(ring) : ring[i] = u
  BY <1>1 DEF Member
<1>3. ASSUME NEW u \in Tenant PROVE EntrySound(s.entries[u], Member(s, u))
  <2>1. CASE u = t
    BY <1>1, <1>2, <2>1 DEF EntrySound
  <2>2. CASE u # t
    <3>1. EntrySound(r.entries[u], Member(r, u))
      BY DEF Sound
    <3>2. s.entries[u] = r.entries[u] /\ (Member(s, u) <=> Member(r, u))
      BY <1>1, <1>2, <2>2
    <3>3. QED
      BY <3>1, <3>2 DEF EntrySound
  <2>3. QED
    BY <2>1, <2>2
<1>4. QED
  BY <1>1, <1>3 DEF Sound

(* The total of retained waiters is no part of what makes a round sound. *)
LEMMA SoundRetained ==
    ASSUME NEW r, Sound(r), NEW n \in Nat
    PROVE  LET s == [r EXCEPT !.retained = n]
           IN  Sound(s) /\ s.entries = r.entries /\ s.ring = r.ring
<1> DEFINE s == [r EXCEPT !.retained = n]
<1>1. r \in Round
  BY DEF Sound
<1>2. s \in Round /\ s.entries = r.entries /\ s.ring = r.ring
  BY <1>1 DEF Round
<1>3. \A t \in Tenant : Member(s, t) <=> Member(r, t)
  BY <1>2 DEF Member
<1>4. QED
  BY <1>2, <1>3 DEF Sound, EntrySound

LEMMA SoundUncounted ==
    ASSUME NEW r, Sound(r), NEW n \in Int
    PROVE  /\ Sound(Uncounted(r, n))
           /\ Uncounted(r, n).entries = r.entries
           /\ Uncounted(r, n).ring = r.ring
<1>1. r.retained \in Nat /\ r \in Round
  BY DEF Sound, Round
<1>2. CASE Less(r.retained, n) \in Nat
  BY <1>1, <1>2, SoundRetained DEF Uncounted
<1>3. QED
  BY <1>1, <1>2 DEF Less

(* An entry that only its own counters and queue change. *)
LEMMA SoundEntry ==
    ASSUME NEW r, Sound(r), NEW t \in Tenant,
           NEW e, EntrySound(e, Member(r, t))
    PROVE  /\ Sound(WithEntry(r, t, e))
           /\ WithEntry(r, t, e).entries[t] = e
           /\ WithEntry(r, t, e).ring = r.ring
           /\ \A u \in Tenant \ {t} :
                  WithEntry(r, t, e).entries[u] = r.entries[u]
<1>1. r \in Round /\ r.ring \in Seq(Tenant) /\ e \in Entry
  BY DEF Sound, Round, EntrySound
<1>2. WithEntry(r, t, e) = With(r, t, e, r.ring)
  BY <1>1, WithFields
<1>3. EntrySound(e, \E i \in 1..Len(r.ring) : r.ring[i] = t)
  BY DEF Member
<1>4. \A u \in Tenant \ {t} :
          Member(r, u) <=> \E i \in 1..Len(r.ring) : r.ring[i] = u
  BY DEF Member
<1>5. \A i, j \in 1..Len(r.ring) : r.ring[i] = r.ring[j] => i = j
  BY DEF Sound
<1>6. Sound(With(r, t, e, r.ring))
  BY <1>1, <1>3, <1>4, <1>5, SoundWith
<1>7. QED
  BY <1>1, <1>2, <1>6, WithFields

LEMMA KeptSound ==
    ASSUME NEW e, NEW m, EntrySound(e, m)
    PROVE  /\ EntrySound(Kept(e), m)
           /\ Kept(e).queue = e.queue /\ Kept(e).inFlight = e.inFlight
<1>1. CASE IsIdle(e)
  <2>1. ~m /\ Kept(e) = Absent
    BY <1>1 DEF EntrySound, IsIdle, Kept
  <2>2. EntrySound(Absent, m)
    BY <2>1, AbsentIsEntry DEF EntrySound
  <2>3. QED
    BY <1>1, <2>1, <2>2 DEF IsIdle, Absent
<1>2. CASE ~IsIdle(e)
  BY <1>2 DEF Kept
<1>3. QED
  BY <1>1, <1>2

(* Joining the ring: at its back, when there is a waiter and room. *)
LEMMA ArmedSound ==
    ASSUME NEW r, Sound(r), NEW t \in Tenant, NEW e \in Entry,
           e.onRing <=> Member(r, t), e.known,
           e.onRing => UnderCeiling(e), e.inFlight <= PerTenantLimit
    PROVE  /\ Sound(Armed(r, t, e))
           /\ Armed(r, t, e).entries[t].queue = e.queue
           /\ Armed(r, t, e).entries[t].inFlight = e.inFlight
           /\ \A u \in Tenant \ {t} :
                  Armed(r, t, e).entries[u] = r.entries[u]
<1>0. r \in Round /\ r.ring \in Seq(Tenant)
  BY DEF Sound, Round
<1>1. CASE e.queue # <<>> /\ ~e.onRing /\ UnderCeiling(e)
  <2> DEFINE f == [e EXCEPT !.onRing = TRUE]
             ring == Append(r.ring, t)
  <2>1. /\ f \in Entry /\ f.onRing /\ f.queue = e.queue
        /\ f.inFlight = e.inFlight /\ f.known
    BY DEF Entry
  <2>2. Armed(r, t, e) = With(r, t, f, ring)
    <3>1. WithEntry(r, t, f) = With(r, t, f, r.ring)
      BY <1>0, <2>1, WithFields
    <3>2. QED
      BY <1>0, <1>1, <2>1 DEF Armed, With, WithEntry, Round
  <2>3. ring \in Seq(Tenant) /\ Len(ring) = Len(r.ring) + 1
        /\ ring[Len(r.ring) + 1] = t
        /\ \A i \in 1..Len(r.ring) : ring[i] = r.ring[i]
    BY <1>0
  <2>4. \A i \in 1..Len(r.ring) : r.ring[i] # t
    BY <1>1 DEF Member
  <2>5. \A i, j \in 1..Len(ring) : ring[i] = ring[j] => i = j
    <3>1. \A i, j \in 1..Len(r.ring) : r.ring[i] = r.ring[j] => i = j
      BY DEF Sound
    <3>2. QED
      BY <1>0, <2>3, <2>4, <3>1
  <2>6. \A u \in Tenant \ {t} :
            Member(r, u) <=> \E i \in 1..Len(ring) : ring[i] = u
    <3> HIDE DEF ring
    <3>1. QED
      BY <1>0, <2>3 DEF Member
  <2>7. \E i \in 1..Len(ring) : ring[i] = t
    BY <1>0, <2>3
  <2>8. EntrySound(f, \E i \in 1..Len(ring) : ring[i] = t)
    <3> HIDE DEF f, ring
    <3>1. UnderCeiling(f)
      BY <1>1, <2>1 DEF UnderCeiling
    <3>2. QED
      BY <2>1, <2>7, <3>1 DEF EntrySound
  <2>9. QED
    <3> HIDE DEF f, ring
    <3>1. Sound(With(r, t, f, ring))
      BY <2>3, <2>5, <2>6, <2>8, SoundWith
    <3>2. QED
      BY <1>0, <2>1, <2>2, <2>3, <3>1, WithFields
<1>2. CASE ~(e.queue # <<>> /\ ~e.onRing /\ UnderCeiling(e))
  <2>1. EntrySound(e, Member(r, t))
    BY <1>2 DEF EntrySound
  <2>2. Armed(r, t, e) = WithEntry(r, t, Kept(e))
    BY <1>2 DEF Armed
  <2>3. /\ EntrySound(Kept(e), Member(r, t))
        /\ Kept(e).queue = e.queue /\ Kept(e).inFlight = e.inFlight
    BY <2>1, KeptSound
  <2>4. QED
    BY <2>2, <2>3, SoundEntry
<1>3. QED
  BY <1>1, <1>2

(* A step of the round that leaves every tenant but t alone. *)
OnlyAt(r, s, t) == \A u \in Tenant \ {t} : s.entries[u] = r.entries[u]

-----------------------------------------------------------------------------
(* The total of retained waiters, which only a queue that changes changes. *)

TotalIs(r, n) == "retained" \in DOMAIN r /\ r.retained = n

LEMMA TotalKept ==
    ASSUME NEW r, NEW n, TotalIs(r, n), NEW x
    PROVE  /\ TotalIs([r EXCEPT !.entries = x], n)
           /\ TotalIs([r EXCEPT !.ring = x], n)
           /\ TotalIs([r EXCEPT !.retained = x], x)
  BY DEF TotalIs

LEMMA RoundTotal ==
    ASSUME NEW r, Sound(r) PROVE r.retained \in Nat /\ TotalIs(r, r.retained)
  BY DEF Sound, Round, TotalIs

LEMMA WithEntryTotal ==
    ASSUME NEW r, NEW n, TotalIs(r, n), NEW t, NEW e
    PROVE  TotalIs(WithEntry(r, t, e), n)
  BY TotalKept DEF WithEntry

LEMMA ArmedTotal ==
    ASSUME NEW r, NEW n, TotalIs(r, n), NEW t, NEW e
    PROVE  TotalIs(Armed(r, t, e), n)
<1> DEFINE f == [e EXCEPT !.onRing = TRUE]
           s == WithEntry(r, t, f)
<1>1. TotalIs(s, n) /\ TotalIs(WithEntry(r, t, Kept(e)), n)
  BY WithEntryTotal
<1>2. TotalIs([s EXCEPT !.ring = Append(s.ring, t)], n)
  BY <1>1, TotalKept
<1>3. QED
  BY <1>1, <1>2 DEF Armed

LEMMA UncountedTotal ==
    ASSUME NEW r, NEW n, TotalIs(r, n), NEW k
    PROVE  TotalIs(Uncounted(r, k), Less(n, k))
<1>1. Uncounted(r, k) = [r EXCEPT !.retained = Less(n, k)]
  BY DEF Uncounted, TotalIs
<1>2. QED
  BY <1>1, TotalKept

LEMMA EnterTotal ==
    ASSUME NEW r, Sound(r), NEW t
    PROVE  EnterNow(r, t).retained = r.retained
  BY RoundTotal, WithEntryTotal DEF EnterNow, TotalIs

LEMMA EnqueuedTotal ==
    ASSUME NEW r, Sound(r), NEW t, NEW w
    PROVE  Enqueued(r, t, w).retained = r.retained + 1
<1> DEFINE e == [r.entries[t] EXCEPT !.known = TRUE, !.queue = Append(@, w)]
           s == Armed(r, t, e)
<1>1. TotalIs(s, r.retained)
  BY RoundTotal, ArmedTotal
<1>2. Enqueued(r, t, w) = [s EXCEPT !.retained = r.retained + 1]
  <2> HIDE DEF e
  <2>1. Enqueued(r, t, w) = [s EXCEPT !.retained = @ + 1]
    BY DEF Enqueued, e
  <2> HIDE DEF s
  <2>2. QED
    BY <1>1, <2>1 DEF TotalIs
<1>3. QED
  <2> HIDE DEF s
  <2>1. QED
    BY <1>1, <1>2, TotalKept DEF TotalIs

LEMMA ReleasedTotal ==
    ASSUME NEW r, Sound(r), NEW t
    PROVE  Released(r, t).retained = r.retained
  BY RoundTotal, ArmedTotal DEF Released, TotalIs

LEMMA RetiredTotal ==
    ASSUME NEW r, Sound(r), NEW live
    PROVE  Retired(r, live).retained
               = Less(r.retained, Len(r.entries[Head(r.ring)].queue))
<1> DEFINE t == Head(r.ring)
           e == r.entries[t]
           s == WithEntry(r, t, OffRing(Skipped(e, live)))
           v == [s EXCEPT !.ring = Tail(@)]
<1>1. TotalIs(s, r.retained)
  BY RoundTotal, WithEntryTotal
<1>2. Retired(r, live) = Uncounted(v, Len(e.queue))
  BY DEF Retired
<1> HIDE DEF s
<1>3. TotalIs(v, r.retained)
  BY <1>1, TotalKept
<1> HIDE DEF v
<1>4. QED
  BY <1>2, <1>3, UncountedTotal DEF TotalIs

LEMMA ServedTotal ==
    ASSUME NEW r, Sound(r), NEW live
    PROVE  Served(r, live).retained
               = Less(r.retained,
                      DeadHeads(r.entries[Head(r.ring)].queue, live) + 1)
<1> DEFINE t == Head(r.ring)
           k == Skipped(r.entries[t], live)
           d == IF k.turnOpen THEN k.deficit ELSE k.deficit + Weight[t]
           e == Charged([k EXCEPT !.queue = Tail(@), !.deficit = Less(d, 1),
                                  !.turnOpen = TRUE])
           off == e.queue = <<>> \/ ~UnderCeiling(e)
           closed == off \/ e.deficit = 0
           z == IF off THEN OffRing(e) ELSE [e EXCEPT !.turnOpen = ~closed]
           s == WithEntry(r, t, z)
           v == [s EXCEPT !.ring = Rotated(@, off, closed)]
           n == DeadHeads(r.entries[t].queue, live)
<1>1. Served(r, live) = Uncounted(v, n + 1)
  BY DEF Served
<1>2. TotalIs(s, r.retained)
  <2> HIDE DEF z
  <2>1. QED
    BY RoundTotal, WithEntryTotal
<1> HIDE DEF s, off, closed, n
<1>3. TotalIs(v, r.retained)
  BY <1>2, TotalKept
<1> HIDE DEF v
<1>4. Served(r, live).retained = Less(r.retained, n + 1)
  BY <1>1, <1>3, UncountedTotal DEF TotalIs
<1>5. QED
  BY <1>4 DEF n

-----------------------------------------------------------------------------
(* The decisions, one by one: sound rounds stay sound. *)

LEMMA EntryFields ==
    ASSUME NEW r, Sound(r), NEW t \in Tenant
    PROVE  /\ r.entries[t] \in Entry
           /\ r.entries[t].queue \in Seq(Waiter)
           /\ r.entries[t].inFlight \in Nat
           /\ r.entries[t].inFlight <= PerTenantLimit
           /\ r.entries[t].onRing <=> Member(r, t)
           /\ r.entries[t].onRing => UnderCeiling(r.entries[t])
           /\ r.entries[t].queue # <<>> => r.entries[t].known
           /\ r.entries[t].inFlight # 0 => r.entries[t].known
           /\ ~r.entries[t].known => r.entries[t] = Absent
  BY DEF Sound, EntrySound, Entry, Round, Absent

(* One entry, one admission more or one waiter more. *)
LEMMA ChargedFields ==
    ASSUME NEW e \in Entry
    PROVE  /\ Charged(e) \in Entry /\ Charged(e).known
           /\ Charged(e).queue = e.queue /\ Charged(e).onRing = e.onRing
           /\ Charged(e).inFlight = e.inFlight + 1
           /\ Charged(e).deficit = e.deficit
<1>1. Charged(e) = [[e EXCEPT !.known = TRUE]
                       EXCEPT !.inFlight = e.inFlight + 1]
  BY DEF Charged, Entry
<1>2. e.inFlight + 1 \in Nat
  BY DEF Entry
<1>7. [e EXCEPT !.known = TRUE] \in Entry
  BY DEF Entry
<1>3. Charged(e) \in Entry
  BY <1>1, <1>2, <1>7 DEF Entry
<1>4. Charged(e).known
  BY <1>1 DEF Entry
<1>5. /\ Charged(e).queue = e.queue /\ Charged(e).onRing = e.onRing
      /\ Charged(e).inFlight = e.inFlight + 1
      /\ Charged(e).deficit = e.deficit
  BY DEF Charged, Entry
<1>6. QED
  BY <1>3, <1>4, <1>5

LEMMA WithQueue ==
    ASSUME NEW e \in Entry, NEW q \in Seq(Waiter)
    PROVE  LET f == [e EXCEPT !.known = TRUE, !.queue = q]
           IN  /\ f \in Entry /\ f.known /\ f.queue = q
               /\ f.onRing = e.onRing /\ f.inFlight = e.inFlight
<1> DEFINE f == [e EXCEPT !.known = TRUE, !.queue = q]
           g == [e EXCEPT !.known = TRUE]
<1>1. f = [g EXCEPT !.queue = q] /\ g \in Entry
  BY DEF Entry
<1>2. g.known /\ g.onRing = e.onRing /\ g.inFlight = e.inFlight
  BY DEF Entry
<1>3. f \in Entry /\ f.queue = q
  BY <1>1 DEF Entry
<1>4. f.known
  BY <1>1 DEF Entry
<1>5. f.onRing = e.onRing /\ f.inFlight = e.inFlight
  BY DEF Entry
<1>6. QED
  BY <1>3, <1>4, <1>5

(* Charging a tenant that is off an empty ring. *)
LEMMA EnterSound ==
    ASSUME NEW r, Sound(r), NEW t \in Tenant,
           r.ring = <<>>, UnderCeiling(r.entries[t])
    PROVE  /\ Sound(EnterNow(r, t))
           /\ EnterNow(r, t).ring = <<>>
           /\ EnterNow(r, t).entries[t].queue = r.entries[t].queue
           /\ EnterNow(r, t).entries[t].inFlight = r.entries[t].inFlight + 1
           /\ OnlyAt(r, EnterNow(r, t), t)
<1> DEFINE e == r.entries[t]
<1>0. /\ e \in Entry /\ e.inFlight \in Nat
      /\ e.onRing <=> Member(r, t)
      /\ e.queue # <<>> /\ UnderCeiling(e) => Member(r, t)
  BY EntryFields DEF Sound, EntrySound
<1>1. ~Member(r, t)
  BY EmptySeq DEF Member
<1>2. /\ Charged(e) \in Entry /\ Charged(e).known
      /\ Charged(e).queue = e.queue /\ Charged(e).onRing = e.onRing
      /\ Charged(e).inFlight = e.inFlight + 1
  BY <1>0, ChargedFields
<1>3. EntrySound(Charged(e), Member(r, t))
  <2> HIDE DEF e
  <2>1. e.inFlight + 1 <= PerTenantLimit
    BY <1>0, PolicyAssumption DEF UnderCeiling, e
  <2>2. QED
    BY <1>0, <1>1, <1>2, <2>1 DEF EntrySound, e
<1>4. QED
  BY <1>2, <1>3, SoundEntry DEF EnterNow, OnlyAt

LEMMA EnqueuedSound ==
    ASSUME NEW r, Sound(r), NEW t \in Tenant, NEW w \in Waiter
    PROVE  /\ Sound(Enqueued(r, t, w))
           /\ Enqueued(r, t, w).entries[t].queue
                 = Append(r.entries[t].queue, w)
           /\ Enqueued(r, t, w).entries[t].inFlight = r.entries[t].inFlight
           /\ OnlyAt(r, Enqueued(r, t, w), t)
<1> DEFINE o == r.entries[t]
           e == [o EXCEPT !.known = TRUE, !.queue = Append(@, w)]
           s == Armed(r, t, e)
<1>0. /\ o \in Entry /\ o.queue \in Seq(Waiter)
      /\ o.onRing <=> Member(r, t)
      /\ o.onRing => UnderCeiling(o)
      /\ o.inFlight <= PerTenantLimit
  BY EntryFields
<1>1. /\ e \in Entry /\ e.known /\ e.queue = Append(o.queue, w)
      /\ e.onRing = o.onRing /\ e.inFlight = o.inFlight
  <2>1. Append(o.queue, w) \in Seq(Waiter)
    BY <1>0
  <2>2. QED
    BY <1>0, <2>1, WithQueue
<1>2. e.onRing => UnderCeiling(e)
  BY <1>0, <1>1 DEF UnderCeiling
<1>3. /\ Sound(s)
      /\ s.entries[t].queue = e.queue
      /\ s.entries[t].inFlight = e.inFlight
      /\ OnlyAt(r, s, t)
  <2> HIDE DEF e, o
  <2>1. QED
    BY <1>0, <1>1, <1>2, ArmedSound DEF OnlyAt
<1>4. s.retained \in Nat /\ s.retained + 1 \in Nat
  <2> HIDE DEF s
  <2>1. QED
    BY <1>3 DEF Sound, Round
<1>5. Enqueued(r, t, w) = [s EXCEPT !.retained = s.retained + 1]
  BY DEF Enqueued
<1>6. QED
  <2> HIDE DEF s, e
  <2>1. QED
    BY <1>1, <1>3, <1>4, <1>5, SoundRetained, SMTT(30) DEF OnlyAt

LEMMA ReleasedSound ==
    ASSUME NEW r, Sound(r), NEW t \in Tenant
    PROVE  /\ Sound(Released(r, t))
           /\ Released(r, t).entries[t].queue = r.entries[t].queue
           /\ Released(r, t).entries[t].inFlight
                 = Less(r.entries[t].inFlight, 1)
           /\ OnlyAt(r, Released(r, t), t)
<1> DEFINE o == r.entries[t]
           e == [o EXCEPT !.inFlight = Less(@, 1)]
<1>0. /\ o \in Entry /\ o.inFlight \in Nat
      /\ o.onRing <=> Member(r, t)
      /\ o.onRing => UnderCeiling(o)
      /\ o.inFlight <= PerTenantLimit
      /\ o.inFlight # 0 => o.known
  BY EntryFields
<1>1. CASE o.known
  <2>1. Less(o.inFlight, 1) \in Nat /\ Less(o.inFlight, 1) <= o.inFlight
    BY <1>0 DEF Less
  <2>2. /\ e \in Entry /\ e.known /\ e.queue = o.queue
        /\ e.onRing = o.onRing /\ e.inFlight = Less(o.inFlight, 1)
    BY <1>0, <1>1, <2>1 DEF Entry
  <2>3. e.onRing => UnderCeiling(e)
    <3> HIDE DEF e, o
    <3>1. QED
      BY <1>0, <2>1, <2>2, PolicyAssumption DEF UnderCeiling
  <2>4. e.inFlight <= PerTenantLimit
    <3> HIDE DEF e, o
    <3>1. QED
      BY <1>0, <2>1, <2>2, PolicyAssumption
  <2>5. Released(r, t) = Armed(r, t, e)
    BY <1>1 DEF Released
  <2>6. QED
    <3> HIDE DEF e
    <3>1. QED
      BY <1>0, <2>2, <2>3, <2>4, <2>5, ArmedSound DEF OnlyAt
<1>2. CASE ~o.known
  BY <1>0, <1>2 DEF Released, OnlyAt, Less
<1>3. QED
  BY <1>1, <1>2

-----------------------------------------------------------------------------
(* The queue: counting the places whose waiter is still owned. *)

LEMMA PlacesFinite ==
    ASSUME NEW n \in Nat, NEW S, S \subseteq 1..n
    PROVE  IsFiniteSet(S) /\ Cardinality(S) \in Nat
<1>1. IsFiniteSet(1..n)
  BY FS_Interval
<1>2. IsFiniteSet(S)
  BY <1>1, FS_Subset
<1>3. QED
  BY <1>2, FS_CardinalityType

RankIn(S, p) == Cardinality({j \in S : j <= p})

(* Every rank up to the number of the places is some place's. *)
LEMMA NthExists ==
    ASSUME NEW n \in Nat, NEW S, S \subseteq 1..n,
           NEW k \in 1..Cardinality(S)
    PROVE  \E p \in S : RankIn(S, p) = k
<1> DEFINE UpToPlace(p) == {j \in S : j <= p}
           Reaching == {p \in S : Cardinality(UpToPlace(p)) >= k}
<1>0. \A j \in S : j \in Nat /\ j \in 0..n
  OBVIOUS
<1>1. /\ IsFiniteSet(S) /\ Cardinality(S) \in Nat
      /\ \A p \in S : IsFiniteSet(UpToPlace(p))
                      /\ Cardinality(UpToPlace(p)) \in Nat
  <2>1. \A p \in S : UpToPlace(p) \subseteq 1..n
    OBVIOUS
  <2>2. QED
    BY <2>1, PlacesFinite
<1>2. S # {}
  BY <1>1, FS_EmptySet
<1>3. PICK top \in S : \A j \in S : j <= top
  <2>1. S \subseteq 0..n
    OBVIOUS
  <2>2. QED
    BY <1>2, <2>1, Greatest
<1>4. top \in Reaching
  <2>1. UpToPlace(top) = S
    BY <1>3
  <2>2. QED
    BY <1>1, <1>3, <2>1
<1>5. PICK p \in Reaching : \A r \in Reaching : p <= r
  <2>1. Reaching \subseteq S /\ Reaching # {}
    BY <1>4
  <2> HIDE DEF Reaching
  <2>2. Reaching \subseteq Nat
    BY <1>0, <2>1
  <2>3. QED
    BY <2>1, <2>2, Least
<1> DEFINE Below == {j \in S : j < p}
<1>6. p \in S /\ Cardinality(UpToPlace(p)) >= k
  BY <1>5
<1>7. IsFiniteSet(Below) /\ Cardinality(Below) \in Nat
      /\ Cardinality(UpToPlace(p)) = Cardinality(Below) + 1
  <2>1. Below \subseteq 1..n
    OBVIOUS
  <2>2. p \notin Below
    BY <1>0, <1>6
  <2>5. UpToPlace(p) = Below \cup {p}
    <3>1. \A j \in S : j <= p <=> j < p \/ j = p
      BY <1>0, <1>6
    <3>2. QED
      BY <1>6, <3>1
  <2>3. IsFiniteSet(Below) /\ Cardinality(Below) \in Nat
    BY <2>1, PlacesFinite
  <2> HIDE DEF Below, UpToPlace
  <2>4. QED
    BY <2>2, <2>3, <2>5, FS_AddElement
<1>8. Cardinality(Below) < k
  <2>1. CASE Below = {}
    BY <1>1, <2>1, FS_EmptySet
  <2>2. CASE Below # {}
    <3>1. Below \subseteq 0..n
      BY <1>0
    <3>2. PICK q \in Below : \A j \in Below : j <= q
      <4> HIDE DEF Below
      <4>1. QED
        BY <2>2, <3>1, Greatest
    <3>4. q \in S /\ q < p
      BY <3>2
    <3>3. UpToPlace(q) = Below
      <4>1. \A j \in S : j <= q => j < p
        BY <1>0, <1>6, <3>4
      <4>2. \A j \in S : j < p => j <= q
        BY <3>2
      <4>3. QED
        BY <4>1, <4>2
    <3>5. q \notin Reaching
      BY <1>5, <1>6, <3>4
    <3>6. ~(Cardinality(Below) >= k)
      BY <3>3, <3>4, <3>5
    <3>7. QED
      BY <1>7, <3>6
  <2>3. QED
    BY <2>1, <2>2
<1>9. Cardinality(UpToPlace(p)) = k
  BY <1>6, <1>7, <1>8
<1>10. QED
  BY <1>6, <1>9 DEF RankIn

LEMMA NthIs ==
    ASSUME NEW n \in Nat, NEW S, S \subseteq 1..n,
           NEW k \in 1..Cardinality(S)
    PROVE  Nth(S, k) \in S /\ RankIn(S, Nth(S, k)) = k
<1>1. \E p \in S : RankIn(S, p) = k
  BY NthExists
<1>2. QED
  BY <1>1 DEF Nth, RankIn

(* No waiter stands twice in a queue. *)
Distinct(q) == \A i, j \in 1..Len(q) : q[i] = q[j] => i = j

(* The compaction keeps waiters of the queue and every owned one. *)
LEMMA OwnedOnlyKeeps ==
    ASSUME NEW q \in Seq(Waiter), NEW live
    PROVE  /\ OwnedOnly(q, live) \in Seq(Waiter)
           /\ Distinct(q) => Distinct(OwnedOnly(q, live))
           /\ \A i \in 1..Len(OwnedOnly(q, live)) :
                  \E j \in 1..Len(q) : OwnedOnly(q, live)[i] = q[j]
           /\ \A j \in 1..Len(q) : q[j] \in live =>
                  \E i \in 1..Len(OwnedOnly(q, live)) :
                      OwnedOnly(q, live)[i] = q[j]
<1> DEFINE left == {i \in 1..Len(q) : q[i] \in live}
           kept == OwnedOnly(q, live)
           Rank(p) == RankIn(left, p)
<1>0. Len(q) \in Nat /\ left \subseteq 1..Len(q)
  OBVIOUS
<1>1. Cardinality(left) \in Nat /\ IsFiniteSet(left)
  BY <1>0, PlacesFinite
<1>2. kept = [n \in 1..Cardinality(left) |-> q[Nth(left, n)]]
  BY DEF OwnedOnly
<1>3. \A n \in 1..Cardinality(left) :
          Nth(left, n) \in left /\ Rank(Nth(left, n)) = n
  <2> SUFFICES ASSUME NEW n \in 1..Cardinality(left)
               PROVE  Nth(left, n) \in left /\ Rank(Nth(left, n)) = n
    OBVIOUS
  <2> HIDE DEF left
  <2>1. Len(q) \in Nat /\ left \subseteq 1..Len(q)
    BY <1>0
  <2>2. QED
    BY <2>1, NthIs
<1>4. kept \in Seq(Waiter) /\ Len(kept) = Cardinality(left)
  <2>1. \A n \in 1..Cardinality(left) : q[Nth(left, n)] \in Waiter
    <3>1. \A p \in left : q[p] \in Waiter
      OBVIOUS
    <3> HIDE DEF left
    <3>2. QED
      BY <1>3, <3>1
  <2> HIDE DEF left
  <2>2. kept \in [1..Cardinality(left) -> Waiter]
    BY <1>2, <2>1
  <2>3. QED
    BY <1>1, <2>2, IsASeq
<1>5. \A i \in 1..Len(kept) : \E j \in 1..Len(q) : kept[i] = q[j]
  <2> SUFFICES ASSUME NEW i \in 1..Len(kept)
               PROVE  \E j \in 1..Len(q) : kept[i] = q[j]
    OBVIOUS
  <2>1. i \in 1..Cardinality(left) /\ kept[i] = q[Nth(left, i)]
    BY <1>2, <1>4
  <2>2. Nth(left, i) \in 1..Len(q)
    BY <1>3, <2>1
  <2>3. QED
    BY <2>1, <2>2
<1>6. ASSUME NEW j \in 1..Len(q), q[j] \in live
      PROVE  \E i \in 1..Len(kept) : kept[i] = q[j]
  <2>1. j \in left
    BY <1>6
  <2>2. Rank(j) \in 1..Cardinality(left)
    <3>1. {i \in left : i <= j} \subseteq left /\ j \in {i \in left : i <= j}
      BY <2>1
    <3> HIDE DEF left
    <3>2. /\ IsFiniteSet({i \in left : i <= j})
          /\ Rank(j) <= Cardinality(left) /\ Rank(j) \in Nat
      BY <1>1, <3>1, FS_Subset, FS_CardinalityType DEF RankIn
    <3>3. Rank(j) # 0
      BY <3>1, <3>2, FS_EmptySet DEF RankIn
    <3>4. QED
      BY <1>1, <3>2, <3>3
  <2>3. \A p \in left : Rank(p) = Rank(j) => p = j
    <3> SUFFICES ASSUME NEW p \in left, Rank(p) = Rank(j), p # j
                 PROVE  FALSE
      OBVIOUS
    <3>1. p \in Nat /\ j \in Nat
      BY <2>1
    <3>2. ASSUME NEW a \in left, NEW b \in left, a < b
          PROVE  Rank(a) # Rank(b)
      <4>1. /\ {i \in left : i <= a} \subseteq {i \in left : i <= b}
            /\ b \in {i \in left : i <= b} /\ b \notin {i \in left : i <= a}
        BY <3>2
      <4>2. IsFiniteSet({i \in left : i <= b})
        <5>1. {i \in left : i <= b} \subseteq left
          OBVIOUS
        <5> HIDE DEF left
        <5>2. QED
          BY <1>1, <5>1, FS_Subset
      <4> HIDE DEF left
      <4>3. QED
        BY <4>1, <4>2, FS_Subset DEF RankIn
    <3>3. QED
      BY <2>1, <3>1, <3>2
  <2>4. Nth(left, Rank(j)) = j
    BY <1>3, <2>2, <2>3
  <2>5. QED
    <3> HIDE DEF left, kept
    <3>1. kept[Rank(j)] = q[j] /\ Rank(j) \in 1..Len(kept)
      BY <1>2, <1>4, <2>2, <2>4
    <3>2. QED
      BY <3>1
<1>7. ASSUME Distinct(q) PROVE Distinct(kept)
  <2> SUFFICES ASSUME NEW i \in 1..Len(kept), NEW j \in 1..Len(kept),
                      kept[i] = kept[j]
               PROVE  i = j
    BY DEF Distinct
  <2>1. /\ i \in 1..Cardinality(left) /\ kept[i] = q[Nth(left, i)]
        /\ j \in 1..Cardinality(left) /\ kept[j] = q[Nth(left, j)]
    BY <1>2, <1>4
  <2>2. Nth(left, i) \in 1..Len(q) /\ Nth(left, j) \in 1..Len(q)
    BY <1>3, <2>1
  <2>3. Nth(left, i) = Nth(left, j)
    <3> HIDE DEF left, kept
    <3>1. QED
      BY <1>7, <2>1, <2>2 DEF Distinct
  <2>4. Rank(Nth(left, i)) = i /\ Rank(Nth(left, j)) = j
    BY <1>3, <2>1
  <2>5. QED
    BY <2>3, <2>4
<1>8. QED
  BY <1>4, <1>5, <1>6, <1>7

(* The total loses what the queue of t loses. *)
Shrunk(r, s, t) ==
    s.retained = Less(r.retained, Len(r.entries[t].queue)
                                      - Len(s.entries[t].queue))

LEMMA AbandonedSound ==
    ASSUME NEW r, Sound(r), NEW t \in Tenant, NEW live
    PROVE  LET s == Abandoned(r, t, live)
               new == s.entries[t].queue
               old == r.entries[t].queue
           IN  /\ Sound(s)
               /\ s.entries[t].inFlight = r.entries[t].inFlight
               /\ s.ring = r.ring
               /\ OnlyAt(r, s, t)
               /\ Distinct(old) => Distinct(new)
               /\ Shrunk(r, s, t)
               /\ \A i \in 1..Len(new) : \E j \in 1..Len(old) : new[i] = old[j]
               /\ \A j \in 1..Len(old) : old[j] \in live =>
                      \E i \in 1..Len(new) : new[i] = old[j]
<1> DEFINE s == Abandoned(r, t, live)
           e == r.entries[t]
           n == IF e.abandoned + 1 < Len(e.queue) THEN e.abandoned + 1
                                                  ELSE Len(e.queue)
           q == OwnedOnly(e.queue, live)
           f == [e EXCEPT !.queue = q, !.abandoned = 0]
           g == [e EXCEPT !.abandoned = n]
<1>0. /\ e \in Entry /\ e.queue \in Seq(Waiter) /\ Len(e.queue) \in Nat
      /\ EntrySound(e, Member(r, t)) /\ e.abandoned \in Nat
  BY EntryFields DEF Sound, Entry
<1>9. r.retained \in Nat /\ TotalIs(r, r.retained)
      /\ Less(r.retained, Len(e.queue) - Len(e.queue)) = r.retained
  <2>1. r.retained \in Nat /\ TotalIs(r, r.retained)
    BY RoundTotal
  <2> HIDE DEF e
  <2>2. QED
    BY <1>0, <2>1 DEF Less
<1>1. CASE ~e.known
  <2>1. s = r
    BY <1>1 DEF Abandoned
  <2>2. QED
    BY <1>9, <2>1 DEF OnlyAt, Shrunk
<1>2. CASE e.known /\ n > Len(e.queue) - n
  <2> DEFINE m == Len(e.queue) - Len(q)
             v == WithEntry(r, t, f)
  <2>1. s = Uncounted(v, m)
    BY <1>2 DEF Abandoned
  <2>2. /\ q \in Seq(Waiter) /\ Len(q) \in Nat
        /\ Distinct(e.queue) => Distinct(q)
        /\ \A i \in 1..Len(q) : \E j \in 1..Len(e.queue) : q[i] = e.queue[j]
        /\ \A j \in 1..Len(e.queue) : e.queue[j] \in live =>
                \E i \in 1..Len(q) : q[i] = e.queue[j]
    <3>1. q \in Seq(Waiter)
      BY <1>0, OwnedOnlyKeeps
    <3>2. Len(q) \in Nat
      <4> HIDE DEF q
      <4>1. QED
        BY <3>1
    <3>3. Distinct(e.queue) => Distinct(q)
      BY <1>0, OwnedOnlyKeeps
    <3>4. \A i \in 1..Len(q) : \E j \in 1..Len(e.queue) : q[i] = e.queue[j]
      BY <1>0, OwnedOnlyKeeps
    <3>5. \A j \in 1..Len(e.queue) : e.queue[j] \in live =>
              \E i \in 1..Len(q) : q[i] = e.queue[j]
      BY <1>0, OwnedOnlyKeeps
    <3> HIDE DEF q, e
    <3>6. QED
      BY <3>1, <3>2, <3>3, <3>4, <3>5
  <2>3. q # <<>> => e.queue # <<>>
    <3> HIDE DEF q, e
    <3>1. q # <<>> => 1 \in 1..Len(q)
      BY <2>2
    <3>2. QED
      BY <2>2, <3>1, <1>0
  <2>4. /\ f \in Entry /\ f.queue = q /\ f.onRing = e.onRing
        /\ f.inFlight = e.inFlight /\ f.known = e.known
    <3> HIDE DEF q, e
    <3>1. f = [[e EXCEPT !.queue = q] EXCEPT !.abandoned = 0]
      BY <1>0, <2>2 DEF Entry
    <3>2. [e EXCEPT !.queue = q] \in Entry
      BY <1>0, <2>2 DEF Entry
    <3>3. f \in Entry
      BY <3>1, <3>2 DEF Entry
    <3>4. QED
      BY <1>0, <2>2, <3>3 DEF Entry
  <2>5. EntrySound(f, Member(r, t))
    <3> HIDE DEF q, e, f
    <3>1. UnderCeiling(f) <=> UnderCeiling(e)
      BY <2>4 DEF UnderCeiling
    <3>2. QED
      BY <1>0, <1>2, <2>3, <2>4, <3>1 DEF EntrySound
  <2>6. /\ Sound(v) /\ v.entries[t] = f /\ v.ring = r.ring
        /\ \A u \in Tenant \ {t} : v.entries[u] = r.entries[u]
    <3> HIDE DEF f
    <3>1. QED
      BY <2>5, SoundEntry
  <2>7. m \in Int
    BY <1>0, <2>2
  <2>8. /\ Sound(s) /\ s.entries = v.entries /\ s.ring = v.ring
    <3> HIDE DEF m, v, s
    <3>1. QED
      BY <2>1, <2>6, <2>7, SoundUncounted
  <2>9. /\ Sound(s) /\ s.entries[t].inFlight = e.inFlight
        /\ s.ring = r.ring
        /\ \A u \in Tenant \ {t} : s.entries[u] = r.entries[u]
        /\ Distinct(e.queue) => Distinct(s.entries[t].queue)
        /\ Shrunk(r, s, t)
        /\ \A i \in 1..Len(s.entries[t].queue) :
              \E j \in 1..Len(e.queue) : s.entries[t].queue[i] = e.queue[j]
        /\ \A j \in 1..Len(e.queue) : e.queue[j] \in live =>
              \E i \in 1..Len(s.entries[t].queue) :
                  s.entries[t].queue[i] = e.queue[j]
    <3> HIDE DEF v, s, f, q, m, e
    <3>1. /\ Sound(s) /\ s.entries[t] = f /\ s.ring = r.ring
          /\ \A u \in Tenant \ {t} : s.entries[u] = r.entries[u]
      BY <2>6, <2>8
    <3>2. s.entries[t].queue = q /\ s.entries[t].inFlight = e.inFlight
      BY <2>4, <3>1
    <3>3. s.retained = Less(r.retained, m)
      <4>1. TotalIs(v, r.retained)
        BY <1>9, WithEntryTotal DEF v
      <4>2. QED
        BY <2>1, <4>1, UncountedTotal DEF TotalIs
    <3>4. Shrunk(r, s, t)
      BY <3>2, <3>3 DEF m, e, Shrunk
    <3>5. QED
      BY <2>2, <3>1, <3>2, <3>4
  <2>10. QED
    BY <2>9 DEF OnlyAt
<1>3. CASE e.known /\ ~(n > Len(e.queue) - n)
  <2>1. s = WithEntry(r, t, g)
    BY <1>3 DEF Abandoned
  <2>2. n \in Nat
    BY <1>0
  <2>3. /\ g \in Entry /\ g.queue = e.queue /\ g.onRing = e.onRing
        /\ g.inFlight = e.inFlight /\ g.known = e.known
    <3> HIDE DEF n, e
    <3>1. QED
      BY <1>0, <2>2 DEF Entry
  <2>4. EntrySound(g, Member(r, t))
    <3> HIDE DEF g, e
    <3>1. UnderCeiling(g) <=> UnderCeiling(e)
      BY <2>3 DEF UnderCeiling
    <3>2. QED
      BY <1>0, <1>3, <2>3, <3>1 DEF EntrySound
  <2>5. /\ Sound(s) /\ s.entries[t] = g /\ s.ring = r.ring
        /\ \A u \in Tenant \ {t} : s.entries[u] = r.entries[u]
    <3> HIDE DEF g, s
    <3>1. QED
      BY <2>1, <2>4, SoundEntry
  <2>6. /\ Sound(s) /\ s.entries[t].inFlight = e.inFlight
        /\ s.ring = r.ring
        /\ \A u \in Tenant \ {t} : s.entries[u] = r.entries[u]
        /\ Distinct(e.queue) => Distinct(s.entries[t].queue)
        /\ Shrunk(r, s, t)
        /\ \A i \in 1..Len(s.entries[t].queue) :
              \E j \in 1..Len(e.queue) : s.entries[t].queue[i] = e.queue[j]
        /\ \A j \in 1..Len(e.queue) : e.queue[j] \in live =>
              \E i \in 1..Len(s.entries[t].queue) :
                  s.entries[t].queue[i] = e.queue[j]
    <3> HIDE DEF g, s, e
    <3>1. s.retained = r.retained
      BY <1>9, <2>1, WithEntryTotal DEF TotalIs
    <3>2. Shrunk(r, s, t)
      BY <1>9, <2>3, <2>5, <3>1 DEF Shrunk, e
    <3>3. QED
      BY <2>3, <2>5, <3>2
  <2>7. QED
    BY <2>6 DEF OnlyAt
<1>4. QED
  BY <1>1, <1>2, <1>3

(* The dead heads of a queue end at its end or at a waiter still owned. *)
LEMMA DeadHeadsAreDead ==
    ASSUME NEW q \in Seq(Waiter), NEW live
    PROVE  LET n == DeadHeads(q, live)
           IN  /\ n \in 0..Len(q)
               /\ \A i \in 1..n : q[i] \notin live
               /\ n = Len(q) \/ q[n + 1] \in live
<1> DEFINE Ends == {n \in 0..Len(q) : n = Len(q) \/ q[n + 1] \in live}
<1>1. Ends \subseteq Nat /\ Ends # {} /\ Ends \subseteq 0..Len(q)
  <2>1. Len(q) \in Ends
    OBVIOUS
  <2>2. QED
    BY <2>1
<1>2. PICK n \in Ends : \A m \in Ends : n <= m
  <2> HIDE DEF Ends
  <2>1. QED
    BY <1>1, Least
<1>3. \A i \in 1..n : q[i] \notin live
  <2> SUFFICES ASSUME NEW i \in 1..n, q[i] \in live PROVE FALSE
    OBVIOUS
  <2>1. n \in 0..Len(q) /\ i - 1 \in 0..Len(q) /\ (i - 1) + 1 = i
    OBVIOUS
  <2>2. i - 1 \in Ends
    BY <2>1
  <2>3. QED
    BY <1>2, <2>1, <2>2
<1>4. \E k \in 0..Len(q) : /\ \A i \in 1..k : q[i] \notin live
                           /\ k = Len(q) \/ q[k + 1] \in live
  BY <1>2, <1>3
<1>5. QED
  BY <1>4 DEF DeadHeads

LEMMA SkippedFields ==
    ASSUME NEW e \in Entry, NEW live
    PROVE  LET n == DeadHeads(e.queue, live)
           IN  /\ Skipped(e, live) \in Entry
               /\ Skipped(e, live).queue = SubSeq(e.queue, n + 1, Len(e.queue))
               /\ Skipped(e, live).onRing = e.onRing
               /\ Skipped(e, live).inFlight = e.inFlight
               /\ Skipped(e, live).known = e.known
<1> DEFINE n == DeadHeads(e.queue, live)
           q == SubSeq(e.queue, n + 1, Len(e.queue))
           a == Less(e.abandoned, n)
<1>0. e.queue \in Seq(Waiter) /\ e.abandoned \in Nat
  BY DEF Entry
<1>1. n \in 0..Len(e.queue)
  BY <1>0, DeadHeadsAreDead
<1>2. n \in Nat /\ q \in Seq(Waiter)
  <2> HIDE DEF n
  <2>1. QED
    BY <1>0, <1>1
<1>3. a \in Nat
  <2> HIDE DEF n
  <2>1. QED
    BY <1>0, <1>2 DEF Less
<1>4. Skipped(e, live) = [[e EXCEPT !.queue = q] EXCEPT !.abandoned = a]
  BY DEF Skipped, Entry
<1> HIDE DEF n, q, a
<1>5. [e EXCEPT !.queue = q] \in Entry
  BY <1>2 DEF Entry
<1>6. Skipped(e, live) \in Entry
  BY <1>3, <1>4, <1>5 DEF Entry
<1>7. /\ Skipped(e, live).queue = q
      /\ Skipped(e, live).onRing = e.onRing
      /\ Skipped(e, live).inFlight = e.inFlight
      /\ Skipped(e, live).known = e.known
  BY <1>4, <1>2, <1>3 DEF Entry
<1>8. QED
  BY <1>6, <1>7 DEF n, q

LEMMA OffRingSound ==
    ASSUME NEW e \in Entry, e.inFlight <= PerTenantLimit, e.known,
           e.queue = <<>> \/ ~UnderCeiling(e)
    PROVE  /\ EntrySound(OffRing(e), FALSE)
           /\ OffRing(e).queue = e.queue
           /\ OffRing(e).inFlight = e.inFlight
<1> DEFINE f == [e EXCEPT !.onRing = FALSE, !.deficit = 0, !.turnOpen = FALSE]
           g == [e EXCEPT !.onRing = FALSE]
           h == [g EXCEPT !.deficit = 0]
<1>1. g \in Entry
  BY DEF Entry
<1>2. h \in Entry
  BY <1>1 DEF Entry
<1>3. f = [h EXCEPT !.turnOpen = FALSE]
  BY DEF Entry
<1>4. f \in Entry
  <2> HIDE DEF h
  <2>1. QED
    BY <1>2, <1>3 DEF Entry
<1>5. /\ f.queue = e.queue /\ f.inFlight = e.inFlight
      /\ f.known = e.known /\ f.onRing = FALSE
  BY DEF Entry
<1>6. EntrySound(f, FALSE)
  <2> HIDE DEF f
  <2>1. UnderCeiling(f) <=> UnderCeiling(e)
    BY <1>5 DEF UnderCeiling
  <2>2. QED
    BY <1>4, <1>5, <2>1 DEF EntrySound
<1>7. OffRing(e) = Kept(f)
  BY DEF OffRing
<1>8. QED
  <2> HIDE DEF f
  <2>1. QED
    BY <1>5, <1>6, <1>7, KeptSound

(* The front of the ring leaves it, or goes behind the others. *)
LEMMA FrontLeaves ==
    ASSUME NEW r, Sound(r), r.ring # <<>>, NEW e, EntrySound(e, FALSE)
    PROVE  LET t == Head(r.ring)
               s == [WithEntry(r, t, e) EXCEPT !.ring = Tail(@)]
           IN  t \in Tenant /\ Sound(s) /\ s.entries[t] = e /\ OnlyAt(r, s, t)
<1> DEFINE t == Head(r.ring)
           ring == Tail(r.ring)
           s == [WithEntry(r, t, e) EXCEPT !.ring = Tail(@)]
<1>0. /\ r \in Round /\ r.ring \in Seq(Tenant) /\ e \in Entry
      /\ \A i, j \in 1..Len(r.ring) : r.ring[i] = r.ring[j] => i = j
  BY DEF Sound, Round, EntrySound
<1>1. /\ t \in Tenant /\ t = r.ring[1] /\ ring \in Seq(Tenant)
      /\ Len(r.ring) \in Nat /\ Len(ring) = Len(r.ring) - 1
      /\ \A i \in 1..Len(ring) : ring[i] = r.ring[i + 1]
  BY <1>0
<1>2. s = With(r, t, e, ring)
  <2>1. WithEntry(r, t, e).ring = r.ring
    BY <1>0 DEF WithEntry, Round
  <2>2. QED
    BY <2>1 DEF With
<1> HIDE DEF t, ring
<1>3. \A i, j \in 1..Len(ring) : ring[i] = ring[j] => i = j
  BY <1>0, <1>1
<1>4. \A i \in 1..Len(ring) : ring[i] # t
  BY <1>0, <1>1
<1>5. \A u \in Tenant \ {t} :
          Member(r, u) <=> \E i \in 1..Len(ring) : ring[i] = u
  <2> SUFFICES ASSUME NEW u \in Tenant \ {t}
               PROVE  Member(r, u) <=> \E i \in 1..Len(ring) : ring[i] = u
    OBVIOUS
  <2>1. ASSUME NEW i \in 1..Len(r.ring), r.ring[i] = u
        PROVE  \E j \in 1..Len(ring) : ring[j] = u
    <3>1. i # 1 /\ i - 1 \in 1..Len(ring)
      BY <1>1, <2>1
    <3>2. ring[i - 1] = r.ring[i]
      BY <1>1, <3>1
    <3>3. QED
      BY <2>1, <3>1, <3>2
  <2>2. ASSUME NEW i \in 1..Len(ring), ring[i] = u
        PROVE  \E j \in 1..Len(r.ring) : r.ring[j] = u
    <3>1. i + 1 \in 1..Len(r.ring)
      BY <1>1
    <3>2. QED
      BY <1>1, <2>2, <3>1
  <2>3. QED
    BY <2>1, <2>2 DEF Member
<1>6. Sound(With(r, t, e, ring))
  <2>1. EntrySound(e, \E i \in 1..Len(ring) : ring[i] = t)
    BY <1>4 DEF EntrySound
  <2>2. QED
    BY <1>1, <1>3, <1>5, <2>1, SoundWith
<1>7. /\ t \in Tenant /\ Sound(s) /\ s.entries[t] = e
      /\ \A u \in Tenant \ {t} : s.entries[u] = r.entries[u]
  <2> HIDE DEF s
  <2>1. QED
    BY <1>0, <1>1, <1>2, <1>6, WithFields
<1>8. QED
  BY <1>7 DEF OnlyAt, t

LEMMA FrontRotates ==
    ASSUME NEW r, Sound(r), r.ring # <<>>, NEW e, EntrySound(e, TRUE)
    PROVE  LET t == Head(r.ring)
               s == [WithEntry(r, t, e) EXCEPT !.ring = Append(Tail(@), Head(@))]
           IN  t \in Tenant /\ Sound(s) /\ s.entries[t] = e /\ OnlyAt(r, s, t)
<1> DEFINE t == Head(r.ring)
           ring == Append(Tail(r.ring), Head(r.ring))
           s == [WithEntry(r, t, e) EXCEPT !.ring = Append(Tail(@), Head(@))]
<1>0. /\ r \in Round /\ r.ring \in Seq(Tenant) /\ e \in Entry
      /\ \A i, j \in 1..Len(r.ring) : r.ring[i] = r.ring[j] => i = j
  BY DEF Sound, Round, EntrySound
<1>1. /\ t \in Tenant /\ t = r.ring[1] /\ ring \in Seq(Tenant)
      /\ Len(r.ring) \in Nat \ {0} /\ Len(ring) = Len(r.ring)
      /\ \A i \in 1..(Len(ring) - 1) : ring[i] = r.ring[i + 1]
      /\ ring[Len(ring)] = t
  <2>1. /\ t \in Tenant /\ t = r.ring[1] /\ Tail(r.ring) \in Seq(Tenant)
        /\ Len(r.ring) \in Nat \ {0} /\ Len(Tail(r.ring)) = Len(r.ring) - 1
        /\ \A i \in 1..Len(Tail(r.ring)) : Tail(r.ring)[i] = r.ring[i + 1]
    BY <1>0
  <2>2. /\ ring \in Seq(Tenant) /\ Len(ring) = Len(Tail(r.ring)) + 1
        /\ ring[Len(Tail(r.ring)) + 1] = t
        /\ \A i \in 1..Len(Tail(r.ring)) : ring[i] = Tail(r.ring)[i]
    BY <2>1, AppendProperties
  <2>3. QED
    BY <2>1, <2>2
<1>2. s = With(r, t, e, ring)
  <2>1. WithEntry(r, t, e).ring = r.ring
    BY <1>0 DEF WithEntry, Round
  <2>2. QED
    BY <2>1 DEF With
<1> HIDE DEF t, ring
<1>3. \A i, j \in 1..Len(ring) : ring[i] = ring[j] => i = j
  BY <1>0, <1>1
<1>5. \A u \in Tenant \ {t} :
          Member(r, u) <=> \E i \in 1..Len(ring) : ring[i] = u
  <2> SUFFICES ASSUME NEW u \in Tenant \ {t}
               PROVE  Member(r, u) <=> \E i \in 1..Len(ring) : ring[i] = u
    OBVIOUS
  <2>1. ASSUME NEW i \in 1..Len(r.ring), r.ring[i] = u
        PROVE  \E j \in 1..Len(ring) : ring[j] = u
    <3>1. i # 1 /\ i - 1 \in 1..(Len(ring) - 1) /\ i - 1 \in 1..Len(ring)
      BY <1>1, <2>1
    <3>2. ring[i - 1] = r.ring[i]
      BY <1>1, <3>1
    <3>3. QED
      BY <2>1, <3>1, <3>2
  <2>2. ASSUME NEW i \in 1..Len(ring), ring[i] = u
        PROVE  \E j \in 1..Len(r.ring) : r.ring[j] = u
    <3>1. i # Len(ring) /\ i \in 1..(Len(ring) - 1)
      BY <1>1, <2>2
    <3>2. i + 1 \in 1..Len(r.ring) /\ ring[i] = r.ring[i + 1]
      BY <1>1, <3>1
    <3>3. QED
      BY <2>2, <3>2
  <2>3. QED
    BY <2>1, <2>2 DEF Member
<1>6. Sound(With(r, t, e, ring))
  <2>1. \E i \in 1..Len(ring) : ring[i] = t
    BY <1>1
  <2>2. EntrySound(e, \E i \in 1..Len(ring) : ring[i] = t)
    BY <2>1 DEF EntrySound
  <2>3. QED
    BY <1>1, <1>3, <1>5, <2>2, SoundWith
<1>7. /\ t \in Tenant /\ Sound(s) /\ s.entries[t] = e
      /\ \A u \in Tenant \ {t} : s.entries[u] = r.entries[u]
  <2> HIDE DEF s
  <2>1. QED
    BY <1>0, <1>1, <1>2, <1>6, WithFields
<1>8. QED
  BY <1>7 DEF OnlyAt, t

(* What is left of a queue behind its dead heads. *)
LEMMA SkippedQueue ==
    ASSUME NEW e \in Entry, NEW live
    PROVE  LET n == DeadHeads(e.queue, live)
               q == Skipped(e, live).queue
           IN  /\ n \in 0..Len(e.queue) /\ q \in Seq(Waiter)
               /\ Len(q) = Len(e.queue) - n
               /\ \A i \in 1..Len(q) : q[i] = e.queue[n + i]
               /\ \A j \in 1..Len(e.queue) : e.queue[j] \in live => j > n
               /\ HasLive(e, live) => q # <<>> /\ q[1] \in live
               /\ ~HasLive(e, live) => q = <<>>
<1> DEFINE n == DeadHeads(e.queue, live)
           q == Skipped(e, live).queue
<1>0. e.queue \in Seq(Waiter) /\ Len(e.queue) \in Nat
  BY DEF Entry
<1>1. /\ n \in 0..Len(e.queue)
      /\ \A i \in 1..n : e.queue[i] \notin live
      /\ n = Len(e.queue) \/ e.queue[n + 1] \in live
  BY <1>0, DeadHeadsAreDead
<1>2. q = SubSeq(e.queue, n + 1, Len(e.queue))
  BY SkippedFields
<1> HIDE DEF n, q
<1>3. /\ q \in Seq(Waiter) /\ Len(q) = Len(e.queue) - n
      /\ \A i \in 1..Len(q) : q[i] = e.queue[n + i]
  BY <1>0, <1>1, <1>2
<1>4. \A j \in 1..Len(e.queue) : e.queue[j] \in live => j > n
  BY <1>1
<1>5. HasLive(e, live) => q # <<>> /\ q[1] \in live
  <2> SUFFICES ASSUME HasLive(e, live) PROVE q # <<>> /\ q[1] \in live
    OBVIOUS
  <2>1. PICK j \in 1..Len(e.queue) : e.queue[j] \in live
    BY DEF HasLive
  <2>2. n < Len(e.queue)
    BY <1>0, <1>1, <1>4, <2>1
  <2>3. e.queue[n + 1] \in live /\ Len(q) >= 1
    BY <1>0, <1>1, <1>3, <2>2
  <2>4. QED
    BY <1>1, <1>3, <2>3
<1>6. ~HasLive(e, live) => q = <<>>
  <2> SUFFICES ASSUME ~HasLive(e, live) PROVE q = <<>>
    OBVIOUS
  <2>1. n = Len(e.queue)
    <3>1. n # Len(e.queue) => n + 1 \in 1..Len(e.queue)
      BY <1>0, <1>1
    <3>2. QED
      BY <1>1, <3>1 DEF HasLive
  <2>2. QED
    BY <1>0, <1>3, <2>1
<1>7. QED
  BY <1>1, <1>3, <1>4, <1>5, <1>6 DEF n, q

LEMMA RetiredSound ==
    ASSUME NEW r, Sound(r), r.ring # <<>>, NEW live,
           ~HasLive(r.entries[Head(r.ring)], live)
    PROVE  LET t == Head(r.ring)
               s == Retired(r, live)
           IN  /\ t \in Tenant /\ Sound(s) /\ OnlyAt(r, s, t)
               /\ s.entries[t].queue = <<>>
               /\ s.entries[t].inFlight = r.entries[t].inFlight
<1> DEFINE t == Head(r.ring)
           e == r.entries[t]
           f == Skipped(e, live)
           s == Retired(r, live)
           v == [WithEntry(r, t, OffRing(f)) EXCEPT !.ring = Tail(@)]
<1>0. t \in Tenant /\ Member(r, t)
  <2>1. r.ring \in Seq(Tenant)
    BY DEF Sound, Round
  <2>2. t = r.ring[1] /\ t \in Tenant /\ 1 \in 1..Len(r.ring)
    BY <2>1
  <2>3. QED
    BY <2>2 DEF Member
<1>1. e \in Entry /\ e.inFlight <= PerTenantLimit /\ e.known
      /\ Len(e.queue) \in Int
  <2>1. e \in Entry /\ e.inFlight <= PerTenantLimit /\ e.onRing
    BY <1>0, EntryFields
  <2>2. ~Absent.onRing
    BY DEF Absent
  <2>3. e.known
    BY <1>0, <2>1, <2>2, EntryFields
  <2>4. e.queue \in Seq(Waiter)
    BY <2>1 DEF Entry
  <2>5. QED
    BY <2>1, <2>3, <2>4
<1>2. /\ f \in Entry /\ f.queue = <<>> /\ f.inFlight = e.inFlight /\ f.known
  BY <1>1, SkippedFields, SkippedQueue
<1>3. /\ EntrySound(OffRing(f), FALSE)
      /\ OffRing(f).queue = <<>> /\ OffRing(f).inFlight = e.inFlight
  <2> HIDE DEF f, e
  <2>1. QED
    BY <1>1, <1>2, OffRingSound
<1>4. /\ Sound(v) /\ v.entries[t] = OffRing(f)
      /\ \A u \in Tenant \ {t} : v.entries[u] = r.entries[u]
  <2> HIDE DEF f
  <2>1. QED
    BY <1>3, FrontLeaves DEF OnlyAt
<1>5. s = Uncounted(v, Len(e.queue))
  BY DEF Retired
<1>6. Sound(s) /\ s.entries = v.entries
  <2> HIDE DEF v, s, e
  <2>1. QED
    BY <1>1, <1>4, <1>5, SoundUncounted
<1>7. /\ t \in Tenant /\ Sound(s)
      /\ \A u \in Tenant \ {t} : s.entries[u] = r.entries[u]
      /\ s.entries[t].queue = <<>>
      /\ s.entries[t].inFlight = e.inFlight
  <2> HIDE DEF v, s, e, f, t
  <2>1. QED
    BY <1>0, <1>3, <1>4, <1>6
<1>8. QED
  BY <1>7 DEF OnlyAt

(* A turn at the front: one waiter less, one admission more. *)
Turn(s, d) ==
    [s EXCEPT !.queue = Tail(@), !.deficit = d, !.turnOpen = TRUE]

LEMMA TurnFields ==
    ASSUME NEW s \in Entry, s.queue # <<>>, NEW d \in Nat
    PROVE  /\ Turn(s, d) \in Entry /\ Turn(s, d).queue = Tail(s.queue)
           /\ Turn(s, d).onRing = s.onRing
           /\ Turn(s, d).inFlight = s.inFlight
<1> DEFINE f == [s EXCEPT !.queue = Tail(@), !.deficit = d, !.turnOpen = TRUE]
           g == [s EXCEPT !.queue = Tail(@)]
           h == [g EXCEPT !.deficit = d]
<1>1. Tail(s.queue) \in Seq(Waiter)
  BY DEF Entry
<1>2. g \in Entry /\ g.queue = Tail(s.queue)
  BY <1>1 DEF Entry
<1>3. h \in Entry
  <2> HIDE DEF g
  <2>1. QED
    BY <1>2 DEF Entry
<1>4. f = [h EXCEPT !.turnOpen = TRUE]
  BY DEF Entry
<1>5. f \in Entry
  <2> HIDE DEF h
  <2>1. QED
    BY <1>3, <1>4 DEF Entry
<1>6. /\ f.queue = Tail(s.queue) /\ f.onRing = s.onRing
      /\ f.inFlight = s.inFlight
  BY DEF Entry
<1>7. QED
  BY <1>5, <1>6 DEF Turn

(* s is what a grant of round r leaves that takes w from tenant t's queue. *)
ServesFront(r, s, t, w, live) ==
    LET old == r.entries[t].queue
        new == s.entries[t].queue
    IN  /\ t \in Tenant /\ Sound(s) /\ OnlyAt(r, s, t)
        /\ s.entries[t].inFlight = r.entries[t].inFlight + 1
        /\ w \in live /\ \E j \in 1..Len(old) : w = old[j]
        /\ Len(new) = Len(old) - (DeadHeads(old, live) + 1)
        /\ Distinct(old) =>
              Distinct(new) /\ \A i \in 1..Len(new) : new[i] # w
        /\ \A i \in 1..Len(new) : \E j \in 1..Len(old) : new[i] = old[j]
        /\ \A j \in 1..Len(old) : old[j] \in live =>
               old[j] = w \/ \E i \in 1..Len(new) : new[i] = old[j]

LEMMA ServedSound ==
    ASSUME NEW r, Sound(r), r.ring # <<>>, NEW live,
           HasLive(r.entries[Head(r.ring)], live)
    PROVE  ServesFront(r, Served(r, live), Head(r.ring), Chosen(r, live), live)
<1> DEFINE t == Head(r.ring)
           o == r.entries[t]
           k == Skipped(o, live)
           n == DeadHeads(o.queue, live)
           d == IF k.turnOpen THEN k.deficit ELSE k.deficit + Weight[t]
           f == Turn(k, Less(d, 1))
           e == Charged(f)
           off == e.queue = <<>> \/ ~UnderCeiling(e)
           closed == off \/ e.deficit = 0
           z == IF off THEN OffRing(e) ELSE [e EXCEPT !.turnOpen = ~closed]
           v == [WithEntry(r, t, z) EXCEPT !.ring = Rotated(@, off, closed)]
           s == Served(r, live)
           w == Chosen(r, live)
<1>0. t \in Tenant /\ Member(r, t)
  <2>1. r.ring \in Seq(Tenant)
    BY DEF Sound, Round
  <2>2. t = r.ring[1] /\ t \in Tenant /\ 1 \in 1..Len(r.ring)
    BY <2>1
  <2>3. QED
    BY <2>2 DEF Member
<1>1. /\ o \in Entry /\ o.inFlight \in Nat /\ o.onRing
      /\ o.inFlight < PerTenantLimit /\ o.queue \in Seq(Waiter)
  <2>1. /\ o \in Entry /\ o.inFlight \in Nat /\ o.onRing
        /\ UnderCeiling(o) /\ o.queue \in Seq(Waiter)
    BY <1>0, EntryFields
  <2>2. QED
    BY <2>1 DEF UnderCeiling
<1>2. /\ n \in 0..Len(o.queue) /\ k.queue \in Seq(Waiter)
      /\ Len(k.queue) = Len(o.queue) - n
      /\ \A i \in 1..Len(k.queue) : k.queue[i] = o.queue[n + i]
      /\ \A j \in 1..Len(o.queue) : o.queue[j] \in live => j > n
      /\ k.queue # <<>> /\ k.queue[1] \in live
  <2> HIDE DEF o
  <2>1. HasLive(o, live)
    BY DEF o
  <2>2. QED
    BY <1>1, <2>1, SkippedQueue
<1>3. k \in Entry /\ k.onRing /\ k.inFlight = o.inFlight
  <2> HIDE DEF o
  <2>1. QED
    BY <1>1, SkippedFields
<1>4. Less(d, 1) \in Nat
  <2> HIDE DEF k, t
  <2>1. k.deficit \in Nat /\ Weight[t] \in Nat
    BY <1>0, <1>3, PolicyAssumption DEF Entry
  <2>2. d \in Nat
    BY <2>1
  <2>3. QED
    <3> HIDE DEF d
    <3>1. QED
      BY <2>2 DEF Less
<1>5. /\ f \in Entry /\ f.queue = Tail(k.queue)
      /\ f.onRing /\ f.inFlight = o.inFlight
  <2> DEFINE left == Less(d, 1)
  <2>1. left \in Nat /\ k \in Entry /\ k.queue # <<>>
    BY <1>2, <1>3, <1>4
  <2>2. k.onRing /\ k.inFlight = o.inFlight
    BY <1>3
  <2> HIDE DEF k, d, o, left
  <2>3. /\ Turn(k, left) \in Entry /\ Turn(k, left).queue = Tail(k.queue)
        /\ Turn(k, left).onRing = k.onRing
        /\ Turn(k, left).inFlight = k.inFlight
    BY <2>1, TurnFields
  <2>4. QED
    BY <2>2, <2>3 DEF left
<1>6. /\ e \in Entry /\ e.known /\ e.queue = Tail(k.queue)
      /\ e.onRing /\ e.inFlight = o.inFlight + 1
  <2> HIDE DEF f, k, o
  <2>1. QED
    BY <1>5, ChargedFields
<1>7. e.inFlight <= PerTenantLimit
  <2> HIDE DEF e, o
  <2>1. QED
    BY <1>1, <1>6, PolicyAssumption
<1>8. s = Uncounted(v, n + 1)
  BY DEF Served, Turn
<1>9. /\ Sound(v) /\ v.entries[t].queue = Tail(k.queue)
      /\ v.entries[t].inFlight = o.inFlight + 1
      /\ \A u \in Tenant \ {t} : v.entries[u] = r.entries[u]
  <2> DEFINE y == [e EXCEPT !.turnOpen = ~closed]
  <2>1. CASE off
    <3>1. /\ EntrySound(OffRing(e), FALSE)
          /\ OffRing(e).queue = e.queue /\ OffRing(e).inFlight = e.inFlight
      <4> HIDE DEF e
      <4>1. QED
        BY <1>6, <1>7, <2>1, OffRingSound
    <3> DEFINE x == [WithEntry(r, t, OffRing(e)) EXCEPT !.ring = Tail(@)]
    <3>2. v = x
      <4> HIDE DEF e, closed, off
      <4>1. z = OffRing(e)
        BY <2>1
      <4>2. QED
        BY <2>1, <4>1 DEF Rotated
    <3>3. /\ Sound(x) /\ x.entries[t] = OffRing(e)
          /\ \A u \in Tenant \ {t} : x.entries[u] = r.entries[u]
      <4> HIDE DEF e
      <4>1. QED
        BY <3>1, FrontLeaves DEF OnlyAt
    <3>4. QED
      <4> HIDE DEF e, o, k, v, off, x, t
      <4>1. QED
        BY <1>6, <3>1, <3>2, <3>3
  <2>2. CASE ~off
    <3>2. /\ y \in Entry /\ y.queue = e.queue /\ y.inFlight = e.inFlight
          /\ y.onRing /\ y.known
      <4> HIDE DEF e, closed
      <4>1. CASE closed
        <5>1. (~closed) = FALSE
          BY <4>1
        <5>2. y = [e EXCEPT !.turnOpen = FALSE]
          BY <5>1
        <5>3. QED
          <6> HIDE DEF y
          <6>1. QED
            BY <1>6, <5>2 DEF Entry
      <4>2. CASE ~closed
        <5>1. (~closed) = TRUE
          BY <4>2
        <5>2. y = [e EXCEPT !.turnOpen = TRUE]
          BY <5>1
        <5>3. QED
          <6> HIDE DEF y
          <6>1. QED
            BY <1>6, <5>2 DEF Entry
      <4>3. QED
        BY <4>1, <4>2
    <3>3. EntrySound(y, TRUE)
      <4> HIDE DEF y, e
      <4>1. UnderCeiling(e)
        BY <2>2
      <4>2. UnderCeiling(y)
        BY <3>2, <4>1 DEF UnderCeiling
      <4>3. QED
        BY <1>7, <3>2, <4>2 DEF EntrySound
    <3>4. z = y
      <4> HIDE DEF e, closed, off
      <4>1. QED
        BY <2>2
    <3>5. CASE closed
      <4> DEFINE x == [WithEntry(r, t, y)
                          EXCEPT !.ring = Append(Tail(@), Head(@))]
      <4>1. v = x
        <5> HIDE DEF z, y, closed, off
        <5>1. QED
          BY <2>2, <3>4, <3>5 DEF Rotated
      <4>2. /\ Sound(x) /\ x.entries[t] = y
            /\ \A u \in Tenant \ {t} : x.entries[u] = r.entries[u]
        <5> HIDE DEF y
        <5>1. QED
          BY <3>3, FrontRotates DEF OnlyAt
      <4>3. QED
        <5> HIDE DEF y, v, e, o, k, off, closed, x, t
        <5>1. QED
          BY <1>6, <3>2, <4>1, <4>2
    <3>6. CASE ~closed
      <4>1. r \in Round
        BY DEF Sound
      <4>2. v = WithEntry(r, t, y)
        <5> HIDE DEF z, y, closed, off
        <5>1. v = [WithEntry(r, t, y) EXCEPT !.ring = WithEntry(r, t, y).ring]
          BY <2>2, <3>4, <3>6 DEF Rotated
        <5>2. QED
          BY <4>1, <5>1 DEF WithEntry, Round
      <4>3. EntrySound(y, Member(r, t))
        <5> HIDE DEF y
        <5>1. QED
          BY <1>0, <3>3 DEF EntrySound
      <4>4. /\ Sound(WithEntry(r, t, y)) /\ WithEntry(r, t, y).entries[t] = y
            /\ \A u \in Tenant \ {t} :
                   WithEntry(r, t, y).entries[u] = r.entries[u]
        <5> HIDE DEF y, t, e, v, z, s, w, o, k, off, closed
        <5>1. t \in Tenant /\ Sound(r) /\ EntrySound(y, Member(r, t))
          BY <1>0, <4>3
        <5>2. QED
          BY <5>1, SoundEntry
      <4>5. QED
        <5> HIDE DEF y, v, e, o, k, off, closed, t
        <5>1. QED
          BY <1>6, <3>2, <4>2, <4>4
    <3>7. QED
      BY <3>5, <3>6
  <2>3. QED
    BY <2>1, <2>2
<1>10. Sound(s) /\ s.entries = v.entries
  <2>1. n \in 0..Len(o.queue)
    BY <1>2
  <2> HIDE DEF v, s, n, o
  <2>3. n + 1 \in Int
    BY <2>1
  <2>2. QED
    BY <1>8, <1>9, <2>3, SoundUncounted
<1> DEFINE new == s.entries[t].queue
           old == o.queue
<1>11. w = k.queue[1]
  BY DEF Chosen
<1>12. new = Tail(k.queue)
  <2> HIDE DEF s, v, k, t
  <2>1. QED
    BY <1>9, <1>10
<1>13. /\ t \in Tenant /\ Sound(s)
       /\ \A u \in Tenant \ {t} : s.entries[u] = r.entries[u]
       /\ s.entries[t].inFlight = o.inFlight + 1
  <2> HIDE DEF s, v, k, t, o
  <2>1. QED
    BY <1>0, <1>9, <1>10
<1> HIDE DEF new, w, k, n, s, o
<1>14. w \in live /\ \E j \in 1..Len(old) : w = old[j]
  <2>1. 1 \in 1..Len(k.queue) /\ n + 1 \in 1..Len(old)
    BY <1>1, <1>2
  <2>2. QED
    BY <1>2, <1>11, <2>1
<1>15. /\ Len(new) = Len(k.queue) - 1 /\ Len(k.queue) \in Nat
       /\ \A i \in 1..Len(new) : new[i] = k.queue[i + 1]
  BY <1>2, <1>12
<1>16. \A i \in 1..Len(new) : \E j \in 1..Len(old) : new[i] = old[j]
  <2> SUFFICES ASSUME NEW i \in 1..Len(new)
               PROVE  \E j \in 1..Len(old) : new[i] = old[j]
    OBVIOUS
  <2>1. i + 1 \in 1..Len(k.queue) /\ n + (i + 1) \in 1..Len(old)
    BY <1>1, <1>2, <1>15
  <2>2. QED
    BY <1>2, <1>15, <2>1
<1>17. \A j \in 1..Len(old) : old[j] \in live =>
           old[j] = w \/ \E i \in 1..Len(new) : new[i] = old[j]
  <2> SUFFICES ASSUME NEW j \in 1..Len(old), old[j] \in live, old[j] # w
               PROVE  \E i \in 1..Len(new) : new[i] = old[j]
    OBVIOUS
  <2>1. j > n /\ j - n \in 1..Len(k.queue) /\ n + (j - n) = j
    BY <1>1, <1>2
  <2>2. old[j] = k.queue[j - n]
    BY <1>2, <2>1
  <2>3. j - n # 1
    BY <1>11, <2>2
  <2>4. j - n - 1 \in 1..Len(new) /\ (j - n - 1) + 1 = j - n
    BY <1>1, <1>2, <1>15, <2>1, <2>3
  <2>5. QED
    BY <1>15, <2>2, <2>4
<1>18. ASSUME Distinct(old)
       PROVE  Distinct(new) /\ \A i \in 1..Len(new) : new[i] # w
  <2>1. \A i \in 1..Len(new) : /\ n + (i + 1) \in 1..Len(old)
                                /\ new[i] = old[n + (i + 1)]
    <3> SUFFICES ASSUME NEW i \in 1..Len(new)
                 PROVE  /\ n + (i + 1) \in 1..Len(old)
                        /\ new[i] = old[n + (i + 1)]
      OBVIOUS
    <3>1. i + 1 \in 1..Len(k.queue) /\ n + (i + 1) \in 1..Len(old)
      BY <1>1, <1>2, <1>15, SMTT(30)
    <3>2. QED
      BY <1>2, <1>15, <3>1
  <2>2. n + 1 \in 1..Len(old) /\ w = old[n + 1] /\ n \in Nat
    BY <1>1, <1>2, <1>11
  <2> HIDE DEF old
  <2>3. ASSUME NEW i \in 1..Len(new), NEW j \in 1..Len(new),
               new[i] = new[j]
        PROVE  i = j
    <3>1. n + (i + 1) = n + (j + 1)
      BY <1>18, <2>1, <2>3 DEF Distinct
    <3>2. QED
      BY <2>2, <3>1
  <2>4. ASSUME NEW i \in 1..Len(new), new[i] = w PROVE FALSE
    <3>1. n + (i + 1) = n + 1
      BY <1>18, <2>1, <2>2, <2>4 DEF Distinct
    <3>2. QED
      BY <2>2, <3>1
  <2>5. QED
    BY <2>3, <2>4 DEF Distinct
<1>19. Len(new) = Len(old) - (n + 1)
  BY <1>1, <1>2, <1>15
<1> HIDE DEF t
<1>21. ServesFront(r, s, t, w, live)
  BY <1>13, <1>14, <1>16, <1>17, <1>18, <1>19
     DEF OnlyAt, ServesFront, new, old, o, n
<1>20. QED
  BY <1>21 DEF w, s, t

-----------------------------------------------------------------------------
(* The shell: slots, permits and the pump around the round. *)

(* A place in a queue is its tenant's, or nobody's any more. *)
QueueSlots ==
    \A t \in Tenant : \A i \in 1..Len(round.entries[t].queue) :
        LET w == round.entries[t].queue[i]
        IN  slot[w].phase = "free" \/ slot[w].tenant = t

(* A delivery is to a caller that was parked when it was chosen. *)
DeliveryTo ==
    pump.at = "deliver" =>
        pump.to \in Waiter /\ slot[pump.to].phase \in {"parked", "leaving"}

Awaited(w) ==
    \E i \in 1..Len(round.entries[slot[w].tenant].queue) :
        round.entries[slot[w].tenant].queue[i] = w

LiveQueued ==
    \A w \in Live : (pump.at = "deliver" /\ pump.to = w) \/ Awaited(w)

(* The lock is given back only when the pump has nothing left to do. *)
PumpedOut == pump.at = "unlocked" => round.ring = <<>> \/ pool = 0

IInv ==
    /\ TypeOK
    /\ Sound(round)
    /\ QueueSlots
    /\ DeliveryTo
    /\ LiveQueued
    /\ PumpedOut
    /\ InFlightExact

LEMMA SlotFields ==
    ASSUME TypeOK, NEW w \in Waiter
    PROVE  /\ slot[w] \in Slot /\ slot[w].phase \in Phase
           /\ slot[w].phase # "free" => slot[w].tenant \in Tenant
           /\ \A t \in Tenant : slot[w] = [phase |-> "handed", tenant |-> t]
                  <=> slot[w].phase = "handed" /\ slot[w].tenant = t
           /\ \A p \in Phase \ {"free"} :
                  slot[w].phase # "free" =>
                      /\ InPhase(slot[w], p) \in Slot
                      /\ InPhase(slot[w], p).phase = p
                      /\ InPhase(slot[w], p).tenant = slot[w].tenant
<1>1. slot[w] \in Slot
  BY DEF TypeOK
<1>2. CASE slot[w] \in [phase : {"free"}, tenant : {None}]
  BY <1>1, <1>2 DEF Phase
<1>3. CASE slot[w] \in [phase : Phase \ {"free"}, tenant : Tenant]
  <2>1. slot[w].phase \in Phase \ {"free"} /\ slot[w].tenant \in Tenant
    BY <1>3
  <2>2. \A p \in Phase \ {"free"} :
            /\ InPhase(slot[w], p) \in Slot
            /\ InPhase(slot[w], p).phase = p
            /\ InPhase(slot[w], p).tenant = slot[w].tenant
    BY <2>1 DEF InPhase, Slot
  <2>3. slot[w] = [phase |-> slot[w].phase, tenant |-> slot[w].tenant]
    BY <1>3
  <2>4. \A t \in Tenant : slot[w] = [phase |-> "handed", tenant |-> t]
            <=> slot[w].phase = "handed" /\ slot[w].tenant = t
    BY <2>3
  <2>5. QED
    BY <1>1, <2>1, <2>2, <2>4
<1>4. QED
  BY <1>1, <1>2, <1>3 DEF Slot

LEMMA HandedCount ==
    ASSUME NEW sl, NEW t
    PROVE  LET H == {w \in Waiter : sl[w] = [phase |-> "handed", tenant |-> t]}
           IN  IsFiniteSet(H) /\ Cardinality(H) \in Nat
<1> DEFINE H == {w \in Waiter : sl[w] = [phase |-> "handed", tenant |-> t]}
<1>1. H \subseteq Waiter
  OBVIOUS
<1>2. IsFiniteSet(H)
  BY <1>1, FS_Subset, ShellAssumption
<1>3. QED
  BY <1>2, FS_CardinalityType

LEMMA InitIInv == Init => IInv
<1> SUFFICES ASSUME Init PROVE IInv
  OBVIOUS
<1>1. Sound(round)
  BY EmptyRoundSound DEF Init
<1>2. TypeOK
  <2>1. NoSlot \in Slot
    BY DEF NoSlot, Slot
  <2>2. slot \in [Waiter -> Slot]
    BY <2>1 DEF Init
  <2>3. pump \in Pump
    BY DEF Init, Unlocked, Pump
  <2>4. pool \in Nat /\ held \in [Tenant -> Nat]
    BY ShellAssumption DEF Init
  <2>5. QED
    BY <1>1, <2>2, <2>3, <2>4 DEF TypeOK, Sound
<1>3. Live = {} /\ pump.at = "unlocked"
  BY DEF Init, Live, NoSlot, Unlocked
<1>4. \A t \in Tenant : /\ round.entries[t].queue = <<>>
                        /\ round.entries[t].inFlight = 0
  BY DEF Init, EmptyRound, Absent
<1>5. round.ring = <<>>
  BY DEF Init, EmptyRound
<1>6. InFlightExact
  <2> SUFFICES ASSUME NEW t \in Tenant PROVE 0 = Holding(t)
    BY <1>4 DEF InFlightExact
  <2>1. Handed(t) = {}
    BY DEF Init, Handed, NoSlot
  <2>2. Cardinality(Handed(t)) = 0
    BY <2>1, FS_EmptySet
  <2>3. ~Delivering(t) /\ held[t] = 0
    BY <1>3 DEF Delivering, Init
  <2>4. QED
    BY <2>2, <2>3 DEF Holding
<1>7. QueueSlots
  <2>1. \A t \in Tenant : Len(round.entries[t].queue) = 0
    BY <1>4, EmptySeq
  <2>2. QED
    BY <2>1 DEF QueueSlots
<1>8. QED
  BY <1>1, <1>2, <1>3, <1>5, <1>6, <1>7
     DEF IInv, DeliveryTo, LiveQueued, PumpedOut

-----------------------------------------------------------------------------
(* One lemma per action. *)

(* The queues and the slots stay: what the invariant says of them stays. *)
LEMMA SameQueues ==
    ASSUME IInv, UNCHANGED slot,
           \A t \in Tenant : round'.entries[t].queue = round.entries[t].queue
    PROVE  /\ QueueSlots'
           /\ pump.at # "deliver" => \A w \in Live' : Awaited(w)'
<1>1. QueueSlots'
  BY DEF IInv, QueueSlots
<1>2. ASSUME pump.at # "deliver", NEW w \in Live' PROVE Awaited(w)'
  <2>1. w \in Live /\ w \in Waiter
    BY DEF Live
  <2>2. Awaited(w)
    BY <1>2, <2>1 DEF IInv, LiveQueued
  <2>3. slot[w].tenant \in Tenant
    <3>1. slot[w].phase # "free"
      BY <2>1 DEF Live
    <3>2. QED
      BY <2>1, <3>1, SlotFields DEF IInv
  <2>4. round'.entries[slot[w].tenant].queue
            = round.entries[slot[w].tenant].queue
    BY <2>3
  <2>5. QED
    BY <2>2, <2>4 DEF Awaited
<1>3. QED
  BY <1>1, <1>2

LEMMA EnterInv ==
    ASSUME IInv, NEW t \in Tenant, pump.at = "unlocked", pool > 0,
           round.ring = <<>>, UnderCeiling(round.entries[t]),
           round' = EnterNow(round, t), pool' = pool - 1,
           held' = [held EXCEPT ![t] = @ + 1], UNCHANGED <<slot, pump>>
    PROVE  IInv'
<1>0. /\ TypeOK /\ Sound(round) /\ LiveQueued /\ InFlightExact
  BY DEF IInv
<1>1. /\ Sound(round') /\ round'.ring = <<>>
      /\ round'.entries[t].queue = round.entries[t].queue
      /\ round'.entries[t].inFlight = round.entries[t].inFlight + 1
      /\ \A u \in Tenant \ {t} : round'.entries[u] = round.entries[u]
  BY <1>0, EnterSound DEF OnlyAt
<1>2. TypeOK'
  <2>1. pool' \in Nat /\ held' \in [Tenant -> Nat]
    BY <1>0 DEF TypeOK
  <2>2. QED
    BY <1>0, <1>1, <2>1 DEF TypeOK, Sound
<1>3. QueueSlots' /\ \A w \in Live' : Awaited(w)'
  BY <1>1, SameQueues
<1>4. DeliveryTo' /\ LiveQueued' /\ PumpedOut'
  BY <1>1, <1>3 DEF DeliveryTo, LiveQueued, PumpedOut
<1>5. InFlightExact'
  <2> SUFFICES ASSUME NEW u \in Tenant
               PROVE  round'.entries[u].inFlight = Holding(u)'
    BY DEF InFlightExact
  <2>1. round.entries[u].inFlight = Holding(u)
    BY <1>0 DEF InFlightExact
  <2>2. Handed(u)' = Handed(u) /\ Cardinality(Handed(u)) \in Nat
    BY HandedCount DEF Handed
  <2>3. ~Delivering(u) /\ ~Delivering(u)'
    BY DEF Delivering
  <2>4. /\ Holding(u) = held[u] + Cardinality(Handed(u))
        /\ Holding(u)' = held'[u] + Cardinality(Handed(u))
    BY <1>0, <1>2, <2>2, <2>3 DEF Holding, TypeOK
  <2>5. held[u] \in Nat /\ held'[u] = IF u = t THEN held[u] + 1 ELSE held[u]
    BY <1>0 DEF TypeOK
  <2>6. QED
    BY <1>1, <2>1, <2>2, <2>4, <2>5
<1>6. QED
  BY <1>1, <1>2, <1>3, <1>4, <1>5 DEF IInv

LEMMA AdmitNowInv == ASSUME IInv, NEW t \in Tenant, AdmitNow(t) PROVE IInv'
  BY EnterInv DEF AdmitNow, MayEnterNow

LEMMA TryAdmitInv == ASSUME IInv, NEW t \in Tenant, TryAdmit(t) PROVE IInv'
<1>1. Sound(round) /\ ~round.entries[t].known /\ round.ring = <<>>
  BY DEF IInv, TryAdmit, MayTryEnter
<1>2. round.entries[t] = Absent
  BY <1>1, EntryFields
<1>3. UnderCeiling(round.entries[t])
  BY <1>2, PolicyAssumption DEF UnderCeiling, Absent
<1>4. QED
  BY <1>1, <1>3, EnterInv DEF TryAdmit

LEMMA ReleaseInv == ASSUME IInv, NEW t \in Tenant, Release(t) PROVE IInv'
<1>0. /\ TypeOK /\ Sound(round) /\ InFlightExact
      /\ round' = Released(round, t) /\ held[t] > 0 /\ held[t] \in Nat
      /\ held' = [held EXCEPT ![t] = @ - 1] /\ UNCHANGED <<pool, slot>>
      /\ pump.at = "unlocked" /\ pump' \in Pump /\ pump'.at = "pass"
  BY DEF IInv, Release, TypeOK, Unlocked, Pump
<1>1. /\ Sound(round')
      /\ round'.entries[t].queue = round.entries[t].queue
      /\ round'.entries[t].inFlight = Less(round.entries[t].inFlight, 1)
      /\ \A u \in Tenant \ {t} : round'.entries[u] = round.entries[u]
  BY <1>0, ReleasedSound DEF OnlyAt
<1>2. TypeOK'
  <2>1. held' \in [Tenant -> Nat]
    BY <1>0 DEF TypeOK
  <2>2. QED
    BY <1>0, <1>1, <2>1 DEF TypeOK, Sound
<1>3. QueueSlots' /\ \A w \in Live' : Awaited(w)'
  BY <1>0, <1>1, SameQueues
<1>4. DeliveryTo' /\ LiveQueued' /\ PumpedOut'
  BY <1>0, <1>1, <1>3 DEF DeliveryTo, LiveQueued, PumpedOut
<1>5. InFlightExact'
  <2> SUFFICES ASSUME NEW u \in Tenant
               PROVE  round'.entries[u].inFlight = Holding(u)'
    BY DEF InFlightExact
  <2>1. round.entries[u].inFlight = Holding(u)
    BY <1>0 DEF InFlightExact
  <2>2. Handed(u)' = Handed(u) /\ Cardinality(Handed(u)) \in Nat
    BY <1>0, HandedCount DEF Handed
  <2>3. ~Delivering(u) /\ ~Delivering(u)'
    BY <1>0 DEF Delivering
  <2>4. /\ Holding(u) = held[u] + Cardinality(Handed(u))
        /\ Holding(u)' = held'[u] + Cardinality(Handed(u))
    BY <1>0, <1>2, <2>2, <2>3 DEF Holding, TypeOK
  <2>5. held[u] \in Nat /\ held'[u] = IF u = t THEN held[u] - 1 ELSE held[u]
    BY <1>0 DEF TypeOK
  <2>6. QED
    BY <1>0, <1>1, <2>1, <2>2, <2>4, <2>5 DEF Less
<1>6. QED
  BY <1>1, <1>2, <1>3, <1>4, <1>5 DEF IInv

LEMMA SameHoldings ==
    ASSUME InFlightExact, UNCHANGED held,
           \A t \in Tenant : /\ round'.entries[t].inFlight
                                    = round.entries[t].inFlight
                             /\ Delivering(t)' <=> Delivering(t)
                             /\ Handed(t)' = Handed(t)
    PROVE  InFlightExact'
<1> SUFFICES ASSUME NEW t \in Tenant
             PROVE  round'.entries[t].inFlight = Holding(t)'
  BY DEF InFlightExact
<1>1. Holding(t)' = Holding(t)
  BY DEF Holding
<1>2. QED
  BY <1>1 DEF InFlightExact

LEMMA PumpStopsInv == ASSUME IInv, PumpStops PROVE IInv'
<1>0. /\ TypeOK /\ Sound(round) /\ InFlightExact
      /\ UNCHANGED <<pool, round, slot, held>>
      /\ pump' = Unlocked /\ pump.at = "pass"
      /\ round.ring = <<>> \/ pool = 0
  BY DEF IInv, PumpStops
<1>1. Unlocked \in Pump /\ Unlocked.at = "unlocked"
  BY DEF Unlocked, Pump
<1>2. TypeOK'
  BY <1>0, <1>1 DEF TypeOK
<1>3. QueueSlots' /\ \A w \in Live' : Awaited(w)'
  BY <1>0, SameQueues
<1>4. DeliveryTo' /\ LiveQueued' /\ PumpedOut'
  BY <1>0, <1>1, <1>3 DEF DeliveryTo, LiveQueued, PumpedOut
<1>5. InFlightExact'
  <2>1. \A t \in Tenant : ~Delivering(t)' /\ ~Delivering(t)
                          /\ Handed(t)' = Handed(t)
    BY <1>0, <1>1 DEF Delivering, Handed
  <2>2. QED
    BY <1>0, <2>1, SameHoldings
<1>6. QED
  BY <1>0, <1>2, <1>3, <1>4, <1>5 DEF IInv

LEMMA PumpIdlesInv == ASSUME IInv, PumpIdles PROVE IInv'
<1>0. /\ TypeOK /\ Sound(round) /\ InFlightExact
      /\ UNCHANGED <<round, slot, held>> /\ pool' = pool + 1
      /\ pump' = Unlocked /\ pump.at = "pass" /\ round.ring = <<>>
  BY DEF IInv, PumpIdles
<1>1. Unlocked \in Pump /\ Unlocked.at = "unlocked"
  BY DEF Unlocked, Pump
<1>2. TypeOK'
  <2>1. pool' \in Nat
    BY <1>0 DEF TypeOK
  <2>2. QED
    BY <1>0, <1>1, <2>1 DEF TypeOK
<1>3. QueueSlots' /\ \A w \in Live' : Awaited(w)'
  BY <1>0, SameQueues
<1>4. DeliveryTo' /\ LiveQueued' /\ PumpedOut'
  BY <1>0, <1>1, <1>3 DEF DeliveryTo, LiveQueued, PumpedOut
<1>5. InFlightExact'
  <2>1. \A t \in Tenant : ~Delivering(t)' /\ ~Delivering(t)
                          /\ Handed(t)' = Handed(t)
    BY <1>0, <1>1 DEF Delivering, Handed
  <2>2. QED
    BY <1>0, <2>1, SameHoldings
<1>6. QED
  BY <1>0, <1>2, <1>3, <1>4, <1>5 DEF IInv

LEMMA PoolType == ASSUME TypeOK, HasPermit PROVE PoolAfterTaking \in Nat
  BY DEF TypeOK, HasPermit, PoolAfterTaking

(* A caller that is parked outlives a step that keeps the places of the    *)
(* callers still parked and brings in no place that was not there.         *)
LEMMA FewerPlaces ==
    ASSUME IInv, NEW t \in Tenant, NEW out, UNCHANGED slot,
           pump.at # "deliver",
           \A u \in Tenant \ {t} : round'.entries[u] = round.entries[u],
           \A i \in 1..Len(round'.entries[t].queue) :
               \E j \in 1..Len(round.entries[t].queue) :
                   round'.entries[t].queue[i] = round.entries[t].queue[j],
           \A j \in 1..Len(round.entries[t].queue) :
               round.entries[t].queue[j] \in Live =>
                   \/ round.entries[t].queue[j] = out
                   \/ \E i \in 1..Len(round'.entries[t].queue) :
                          round'.entries[t].queue[i]
                              = round.entries[t].queue[j]
    PROVE  QueueSlots' /\ \A w \in Live' : w = out \/ Awaited(w)'
<1>1. QueueSlots'
  <2> SUFFICES ASSUME NEW u \in Tenant,
                      NEW i \in 1..Len(round'.entries[u].queue)
               PROVE  LET w == round'.entries[u].queue[i]
                      IN  slot[w].phase = "free" \/ slot[w].tenant = u
    BY DEF QueueSlots
  <2>1. PICK j \in 1..Len(round.entries[u].queue) :
            round'.entries[u].queue[i] = round.entries[u].queue[j]
    <3>1. CASE u = t
      BY <3>1
    <3>2. CASE u # t
      BY <3>2
    <3>3. QED
      BY <3>1, <3>2
  <2>2. QED
    BY <2>1 DEF IInv, QueueSlots
<1>2. ASSUME NEW w \in Live', w # out PROVE Awaited(w)'
  <2>1. w \in Live /\ w \in Waiter
    BY DEF Live
  <2>2. PICK j \in 1..Len(round.entries[slot[w].tenant].queue) :
            round.entries[slot[w].tenant].queue[j] = w
    BY <2>1 DEF IInv, LiveQueued, Awaited
  <2>3. slot[w].tenant \in Tenant
    <3>1. slot[w].phase # "free"
      BY <2>1 DEF Live
    <3>2. QED
      BY <2>1, <3>1, SlotFields DEF IInv
  <2>4. CASE slot[w].tenant = t
    <3>1. j \in 1..Len(round.entries[t].queue) /\ round.entries[t].queue[j] = w
      BY <2>2, <2>4
    <3>2. PICK i \in 1..Len(round'.entries[t].queue) :
              round'.entries[t].queue[i] = w
      BY <1>2, <2>1, <3>1
    <3>3. slot'[w].tenant = t
      BY <2>4
    <3>4. QED
      BY <3>2, <3>3 DEF Awaited
  <2>5. CASE slot[w].tenant # t
    <3>1. round'.entries[slot[w].tenant] = round.entries[slot[w].tenant]
      BY <2>3, <2>5
    <3>2. QED
      BY <2>2, <3>1 DEF Awaited
  <2>6. QED
    BY <2>4, <2>5
<1>3. QED
  BY <1>1, <1>2

LEMMA PumpRetiresInv == ASSUME IInv, PumpRetires PROVE IInv'
<1> DEFINE t == Head(round.ring)
<1>0. /\ TypeOK /\ Sound(round) /\ InFlightExact
      /\ UNCHANGED <<slot, held>> /\ pool' = PoolAfterTaking /\ HasPermit
      /\ round' = Retired(round, Live) /\ round.ring # <<>>
      /\ ~HasLive(round.entries[t], Live)
      /\ pump.at = "pass" /\ pump \in Pump /\ pump' = [pump EXCEPT !.spare = TRUE]
  BY DEF IInv, PumpRetires, TypeOK
<1>1. pump' \in Pump /\ pump'.at = "pass"
  BY <1>0 DEF Pump
<1>2. /\ t \in Tenant /\ Sound(round')
      /\ \A u \in Tenant \ {t} : round'.entries[u] = round.entries[u]
      /\ round'.entries[t].queue = <<>>
      /\ round'.entries[t].inFlight = round.entries[t].inFlight
  BY <1>0, RetiredSound DEF OnlyAt
<1>3. TypeOK'
  <2>1. pool' \in Nat
    BY <1>0, PoolType
  <2>2. QED
    BY <1>0, <1>1, <1>2, <2>1 DEF TypeOK, Sound
<1> HIDE DEF t
<1>4. QueueSlots' /\ \A w \in Live' : Awaited(w)'
  <2>1. Len(round'.entries[t].queue) = 0
    BY <1>2, EmptySeq
  <2>2. \A j \in 1..Len(round.entries[t].queue) :
            round.entries[t].queue[j] \notin Live
    BY <1>0 DEF HasLive
  <2>3. \A i \in 1..Len(round'.entries[t].queue) :
            \E j \in 1..Len(round.entries[t].queue) :
                round'.entries[t].queue[i] = round.entries[t].queue[j]
    BY <2>1
  <2>4. QueueSlots' /\ \A w \in Live' : w = None \/ Awaited(w)'
    BY <1>0, <1>2, <2>2, <2>3, FewerPlaces
  <2>5. \A w \in Live' : w # None
    BY ShellAssumption DEF Live
  <2>6. QED
    BY <2>4, <2>5
<1>5. DeliveryTo' /\ LiveQueued' /\ PumpedOut'
  BY <1>1, <1>4 DEF DeliveryTo, LiveQueued, PumpedOut
<1>6. InFlightExact'
  <2>1. \A u \in Tenant : ~Delivering(u)' /\ ~Delivering(u)
                          /\ Handed(u)' = Handed(u)
    BY <1>0, <1>1 DEF Delivering, Handed
  <2>2. \A u \in Tenant :
            round'.entries[u].inFlight = round.entries[u].inFlight
    BY <1>2
  <2>3. QED
    BY <1>0, <2>1, <2>2, SameHoldings
<1>7. QED
  BY <1>2, <1>3, <1>4, <1>5, <1>6 DEF IInv

LEMMA PumpGrantsInv == ASSUME IInv, PumpGrants PROVE IInv'
<1> DEFINE t == Head(round.ring)
           w == Chosen(round, Live)
           s == Served(round, Live)
<1>0. /\ TypeOK /\ Sound(round) /\ InFlightExact
      /\ UNCHANGED <<slot, held>> /\ pool' = PoolAfterTaking /\ HasPermit
      /\ round' = Served(round, Live) /\ round.ring # <<>>
      /\ HasLive(round.entries[t], Live)
      /\ pump.at = "pass" /\ pump \in Pump
      /\ pump' = [pump EXCEPT !.at = "deliver", !.spare = TRUE, !.to = w]
  BY DEF IInv, PumpGrants, TypeOK
<1>1. /\ t \in Tenant /\ Sound(round')
      /\ \A u \in Tenant \ {t} : round'.entries[u] = round.entries[u]
      /\ round'.entries[t].inFlight = round.entries[t].inFlight + 1
      /\ w \in Live
      /\ \E j \in 1..Len(round.entries[t].queue) :
             w = round.entries[t].queue[j]
      /\ \A i \in 1..Len(round'.entries[t].queue) :
             \E j \in 1..Len(round.entries[t].queue) :
                 round'.entries[t].queue[i] = round.entries[t].queue[j]
      /\ \A j \in 1..Len(round.entries[t].queue) :
             round.entries[t].queue[j] \in Live =>
                 \/ round.entries[t].queue[j] = w
                 \/ \E i \in 1..Len(round'.entries[t].queue) :
                        round'.entries[t].queue[i]
                            = round.entries[t].queue[j]
  <2>1. /\ t \in Tenant /\ Sound(s) /\ OnlyAt(round, s, t)
        /\ s.entries[t].inFlight = round.entries[t].inFlight + 1
        /\ w \in Live
        /\ \E j \in 1..Len(round.entries[t].queue) :
               w = round.entries[t].queue[j]
        /\ \A i \in 1..Len(s.entries[t].queue) :
               \E j \in 1..Len(round.entries[t].queue) :
                   s.entries[t].queue[i] = round.entries[t].queue[j]
        /\ \A j \in 1..Len(round.entries[t].queue) :
               round.entries[t].queue[j] \in Live =>
                   \/ round.entries[t].queue[j] = w
                   \/ \E i \in 1..Len(s.entries[t].queue) :
                          s.entries[t].queue[i] = round.entries[t].queue[j]
    <3>1. Sound(round) /\ round.ring # <<>> /\ HasLive(round.entries[t], Live)
      BY <1>0
    <3>2. ServesFront(round, s, t, w, Live)
      BY <3>1, ServedSound
    <3> HIDE DEF s, w, t
    <3>3. QED
      BY <3>2 DEF ServesFront
  <2>2. round' = s
    BY <1>0
  <2> HIDE DEF s, w, t
  <2>3. QED
    BY <2>1, <2>2 DEF OnlyAt
<1> HIDE DEF t, w, s
<1>2. /\ w \in Waiter /\ slot[w].phase = "parked" /\ slot[w].tenant = t
  <2>1. w \in Waiter /\ slot[w].phase = "parked"
    BY <1>1 DEF Live
  <2>2. slot[w].phase = "free" \/ slot[w].tenant = t
    BY <1>1 DEF IInv, QueueSlots
  <2>3. QED
    BY <2>1, <2>2
<1>3. pump' \in Pump /\ pump'.at = "deliver" /\ pump'.to = w
  <2>1. pump' = [[[pump EXCEPT !.at = "deliver"] EXCEPT !.spare = TRUE]
                     EXCEPT !.to = w]
    BY <1>0 DEF Pump
  <2>2. [pump EXCEPT !.at = "deliver"] \in Pump
    BY <1>0 DEF Pump
  <2>3. [[pump EXCEPT !.at = "deliver"] EXCEPT !.spare = TRUE] \in Pump
    BY <2>2 DEF Pump
  <2>4. pump' \in Pump
    BY <1>2, <2>1, <2>3 DEF Pump
  <2>5. QED
    BY <1>0, <2>4 DEF Pump
<1>4. TypeOK'
  <2>1. pool' \in Nat
    BY <1>0, PoolType
  <2>2. QED
    BY <1>0, <1>1, <1>3, <2>1 DEF TypeOK, Sound
<1>5. QueueSlots' /\ \A v \in Live' : v = w \/ Awaited(v)'
  BY <1>0, <1>1, FewerPlaces
<1>6. DeliveryTo' /\ LiveQueued' /\ PumpedOut'
  BY <1>0, <1>2, <1>3, <1>5 DEF DeliveryTo, LiveQueued, PumpedOut
<1>7. InFlightExact'
  <2> SUFFICES ASSUME NEW u \in Tenant
               PROVE  round'.entries[u].inFlight = Holding(u)'
    BY DEF InFlightExact
  <2>1. round.entries[u].inFlight = Holding(u)
    BY <1>0 DEF InFlightExact
  <2>2. Handed(u)' = Handed(u) /\ Cardinality(Handed(u)) \in Nat
    BY <1>0, HandedCount DEF Handed
  <2>3. ~Delivering(u) /\ (Delivering(u)' <=> u = t)
    BY <1>0, <1>2, <1>3 DEF Delivering
  <2>4. held[u] \in Nat /\ held'[u] = held[u]
    BY <1>0 DEF TypeOK
  <2>5. /\ Holding(u) = held[u] + Cardinality(Handed(u))
        /\ Holding(u)' = held[u] + Cardinality(Handed(u))
                             + (IF u = t THEN 1 ELSE 0)
    BY <2>2, <2>3, <2>4 DEF Holding
  <2>6. QED
    BY <1>1, <2>1, <2>2, <2>4, <2>5
<1>8. QED
  BY <1>1, <1>4, <1>5, <1>6, <1>7 DEF IInv

(* A slot that changes its phase and not its tenant leaves every queue     *)
(* what it was; only a caller that is still parked has to be found there.  *)
LEMMA NewPhase ==
    ASSUME IInv, NEW w \in Waiter, NEW p \in Phase \ {"free", "parked"},
           slot[w].phase # "free",
           slot' = [slot EXCEPT ![w] = InPhase(@, p)],
           \A t \in Tenant : round'.entries[t].queue = round.entries[t].queue
    PROVE  /\ slot' \in [Waiter -> Slot]
           /\ slot'[w].phase = p /\ slot'[w].tenant = slot[w].tenant
           /\ \A v \in Waiter \ {w} : slot'[v] = slot[v]
           /\ QueueSlots'
           /\ \A v \in Live' : v # w /\ v \in Live /\ (Awaited(v) => Awaited(v)')
<1>1. TypeOK /\ slot \in [Waiter -> Slot]
  BY DEF IInv, TypeOK
<1>2. /\ slot' \in [Waiter -> Slot]
      /\ slot'[w].phase = p /\ slot'[w].tenant = slot[w].tenant
      /\ \A v \in Waiter \ {w} : slot'[v] = slot[v]
  <2>1. /\ InPhase(slot[w], p) \in Slot /\ InPhase(slot[w], p).phase = p
        /\ InPhase(slot[w], p).tenant = slot[w].tenant
    BY <1>1, SlotFields
  <2>2. slot'[w] = InPhase(slot[w], p)
    BY <1>1
  <2>3. QED
    BY <1>1, <2>1, <2>2
<1>3. \A v \in Waiter : slot'[v].tenant = slot[v].tenant
  BY <1>2
<1>4. QueueSlots'
  <2> SUFFICES ASSUME NEW t \in Tenant,
                      NEW i \in 1..Len(round'.entries[t].queue)
               PROVE  LET v == round'.entries[t].queue[i]
                      IN  slot'[v].phase = "free" \/ slot'[v].tenant = t
    BY DEF QueueSlots
  <2> DEFINE v == round.entries[t].queue[i]
  <2>1. round'.entries[t].queue = round.entries[t].queue
    OBVIOUS
  <2>2. i \in 1..Len(round.entries[t].queue)
    BY <2>1
  <2>3. v \in Waiter
    <3>1. round.entries[t].queue \in Seq(Waiter)
      BY EntryFields DEF IInv
    <3>2. QED
      BY <2>2, <3>1
  <2>4. slot[v].phase = "free" \/ slot[v].tenant = t
    BY <2>2 DEF IInv, QueueSlots
  <2>5. slot'[v].phase = "free" \/ slot'[v].tenant = t
    BY <1>2, <1>3, <2>3, <2>4
  <2>6. QED
    BY <2>1, <2>5
<1>5. ASSUME NEW v \in Live'
      PROVE  v # w /\ v \in Live /\ (Awaited(v) => Awaited(v)')
  <2>1. v \in Waiter /\ slot'[v].phase = "parked"
    BY <1>5 DEF Live
  <2>2. v # w /\ slot'[v] = slot[v] /\ v \in Live
    BY <1>2, <2>1 DEF Live
  <2>3. slot[v].tenant \in Tenant
    <3>1. slot[v].phase # "free"
      BY <2>1, <2>2
    <3>2. QED
      BY <1>1, <2>1, <3>1, SlotFields
  <2>4. round'.entries[slot[v].tenant].queue
            = round.entries[slot[v].tenant].queue
    BY <2>3
  <2>5. QED
    BY <2>2, <2>4 DEF Awaited
<1>6. QED
  BY <1>2, <1>4, <1>5

(* The handed permits, as one slot changes. *)
LEMMA HandedSame ==
    ASSUME NEW w \in Waiter, slot \in [Waiter -> Slot],
           \A v \in Waiter \ {w} : slot'[v] = slot[v],
           slot[w].phase # "handed", slot'[w].phase # "handed",
           NEW t \in Tenant
    PROVE  Handed(t)' = Handed(t)
<1>1. /\ slot[w] # [phase |-> "handed", tenant |-> t]
      /\ slot'[w] # [phase |-> "handed", tenant |-> t]
  OBVIOUS
<1>2. QED
  BY <1>1 DEF Handed

LEMMA HandedMore ==
    ASSUME NEW w \in Waiter, slot \in [Waiter -> Slot],
           \A v \in Waiter \ {w} : slot'[v] = slot[v],
           slot[w].phase # "handed", slot'[w] \in Slot,
           slot'[w].phase = "handed", slot'[w].tenant = slot[w].tenant,
           NEW t \in Tenant
    PROVE  Cardinality(Handed(t)')
             = Cardinality(Handed(t)) + (IF slot[w].tenant = t THEN 1 ELSE 0)
<1>1. slot[w] # [phase |-> "handed", tenant |-> t]
  OBVIOUS
<1>2. slot'[w] = [phase |-> slot'[w].phase, tenant |-> slot'[w].tenant]
  BY DEF Slot
<1>3. IsFiniteSet(Handed(t)) /\ Cardinality(Handed(t)) \in Nat
  BY HandedCount DEF Handed
<1>4. CASE slot[w].tenant = t
  <2>1. slot'[w] = [phase |-> "handed", tenant |-> t]
    BY <1>2, <1>4
  <2>2. Handed(t)' = Handed(t) \cup {w} /\ w \notin Handed(t)
    BY <1>1, <2>1 DEF Handed
  <2>3. Cardinality(Handed(t) \cup {w}) = Cardinality(Handed(t)) + 1
    BY <1>3, <2>2, FS_AddElement
  <2>4. QED
    BY <1>4, <2>2, <2>3
<1>5. CASE slot[w].tenant # t
  <2>1. slot'[w] # [phase |-> "handed", tenant |-> t]
    BY <1>2, <1>5
  <2>2. Handed(t)' = Handed(t)
    BY <1>1, <2>1 DEF Handed
  <2>3. QED
    BY <1>3, <1>5, <2>2
<1>6. QED
  BY <1>4, <1>5

LEMMA HandedLess ==
    ASSUME NEW w \in Waiter, slot \in [Waiter -> Slot],
           \A v \in Waiter \ {w} : slot'[v] = slot[v],
           slot[w].phase = "handed", slot'[w].phase # "handed",
           NEW t \in Tenant
    PROVE  Cardinality(Handed(t))
             = Cardinality(Handed(t)') + (IF slot[w].tenant = t THEN 1 ELSE 0)
<1>1. slot'[w] # [phase |-> "handed", tenant |-> t]
  OBVIOUS
<1>2. slot[w] = [phase |-> slot[w].phase, tenant |-> slot[w].tenant]
  <2>1. slot[w] \in Slot
    OBVIOUS
  <2>2. QED
    BY <2>1 DEF Slot
<1>3. IsFiniteSet(Handed(t)') /\ Cardinality(Handed(t)') \in Nat
  BY HandedCount DEF Handed
<1>4. CASE slot[w].tenant = t
  <2>1. slot[w] = [phase |-> "handed", tenant |-> t]
    BY <1>2, <1>4
  <2>2. Handed(t) = Handed(t)' \cup {w} /\ w \notin Handed(t)'
    BY <1>1, <2>1 DEF Handed
  <2>3. Cardinality(Handed(t)' \cup {w}) = Cardinality(Handed(t)') + 1
    BY <1>3, <2>2, FS_AddElement
  <2>4. QED
    BY <1>4, <2>2, <2>3
<1>5. CASE slot[w].tenant # t
  <2>1. slot[w] # [phase |-> "handed", tenant |-> t]
    BY <1>2, <1>5
  <2>2. Handed(t)' = Handed(t)
    BY <1>1, <2>1 DEF Handed
  <2>3. QED
    BY <1>3, <1>5, <2>2
<1>6. QED
  BY <1>4, <1>5

LEMMA DeliverInv == ASSUME IInv, Deliver PROVE IInv'
<1> DEFINE w == pump.to
<1>0. /\ TypeOK /\ Sound(round) /\ InFlightExact /\ LiveQueued
      /\ UNCHANGED <<pool, round, held>>
      /\ pump.at = "deliver" /\ slot[w].phase = "parked" /\ w \in Waiter
      /\ slot' = [slot EXCEPT ![w] = InPhase(@, "handed")]
      /\ pump \in Pump
      /\ pump' = [pump EXCEPT !.at = "pass", !.spare = FALSE, !.to = None]
  BY DEF IInv, Deliver, TypeOK, DeliveryTo
<1> HIDE DEF w
<1>1. /\ slot' \in [Waiter -> Slot] /\ slot \in [Waiter -> Slot]
      /\ slot'[w].phase = "handed" /\ slot'[w].tenant = slot[w].tenant
      /\ \A v \in Waiter \ {w} : slot'[v] = slot[v]
      /\ QueueSlots'
      /\ \A v \in Live' : v # w /\ v \in Live /\ (Awaited(v) => Awaited(v)')
  <2>1. "handed" \in Phase \ {"free", "parked"} /\ slot[w].phase # "free"
    BY <1>0 DEF Phase
  <2>2. QED
    BY <1>0, <2>1, NewPhase DEF TypeOK
<1>2. pump' \in Pump /\ pump'.at = "pass"
  <2>1. pump' = [[[pump EXCEPT !.at = "pass"] EXCEPT !.spare = FALSE]
                     EXCEPT !.to = None]
    BY <1>0 DEF Pump
  <2>2. [pump EXCEPT !.at = "pass"] \in Pump
    BY <1>0 DEF Pump
  <2>3. [[pump EXCEPT !.at = "pass"] EXCEPT !.spare = FALSE] \in Pump
    BY <2>2 DEF Pump
  <2>4. pump' \in Pump
    BY <2>1, <2>3 DEF Pump
  <2>5. QED
    BY <1>0, <2>4 DEF Pump
<1>3. TypeOK'
  BY <1>0, <1>1, <1>2 DEF TypeOK
<1>4. LiveQueued'
  <2> SUFFICES ASSUME NEW v \in Live' PROVE Awaited(v)'
    BY DEF LiveQueued
  <2>1. v # w /\ v \in Live /\ (Awaited(v) => Awaited(v)')
    BY <1>1
  <2>2. Awaited(v)
    BY <1>0, <2>1 DEF LiveQueued, w
  <2>3. QED
    BY <2>1, <2>2
<1>5. DeliveryTo' /\ PumpedOut'
  BY <1>2 DEF DeliveryTo, PumpedOut
<1>6. InFlightExact'
  <2> SUFFICES ASSUME NEW t \in Tenant
               PROVE  round'.entries[t].inFlight = Holding(t)'
    BY DEF InFlightExact
  <2>1. round.entries[t].inFlight = Holding(t)
    BY <1>0 DEF InFlightExact
  <2>2. Cardinality(Handed(t)')
          = Cardinality(Handed(t)) + (IF slot[w].tenant = t THEN 1 ELSE 0)
    <3>1. slot'[w] \in Slot /\ slot[w].phase # "handed"
      BY <1>0, <1>1
    <3>2. QED
      BY <1>0, <1>1, <3>1, HandedMore
  <2>3. ~Delivering(t)' /\ (Delivering(t) <=> slot[w].tenant = t)
    BY <1>0, <1>2 DEF Delivering, w
  <2>4. held[t] \in Nat /\ held'[t] = held[t] /\ Cardinality(Handed(t)) \in Nat
    BY <1>0, HandedCount DEF TypeOK, Handed
  <2>5. /\ Holding(t) = held[t] + Cardinality(Handed(t))
                            + (IF slot[w].tenant = t THEN 1 ELSE 0)
        /\ Holding(t)' = held[t] + Cardinality(Handed(t)') + 0
    BY <2>3, <2>4 DEF Holding
  <2>6. QED
    BY <1>0, <2>1, <2>2, <2>4, <2>5
<1>7. QED
  BY <1>0, <1>1, <1>3, <1>4, <1>5, <1>6 DEF IInv

LEMMA LeaveInv == ASSUME IInv, NEW w \in Waiter, Leave(w) PROVE IInv'
<1>0. /\ TypeOK /\ Sound(round) /\ InFlightExact /\ LiveQueued /\ DeliveryTo
      /\ UNCHANGED <<pool, round, held, pump>>
      /\ slot[w].phase = "parked"
      /\ slot' = [slot EXCEPT ![w] = InPhase(@, "leaving")]
  BY DEF IInv, Leave
<1>1. /\ slot' \in [Waiter -> Slot] /\ slot \in [Waiter -> Slot]
      /\ slot'[w].phase = "leaving" /\ slot'[w].tenant = slot[w].tenant
      /\ \A v \in Waiter \ {w} : slot'[v] = slot[v]
      /\ QueueSlots'
      /\ \A v \in Live' : v # w /\ v \in Live /\ (Awaited(v) => Awaited(v)')
  <2>1. "leaving" \in Phase \ {"free", "parked"} /\ slot[w].phase # "free"
    BY <1>0 DEF Phase
  <2>2. QED
    BY <1>0, <2>1, NewPhase DEF TypeOK
<1>2. TypeOK'
  BY <1>0, <1>1 DEF TypeOK
<1>3. LiveQueued'
  BY <1>0, <1>1 DEF LiveQueued
<1>4. DeliveryTo' /\ PumpedOut'
  <2>1. PumpedOut'
    BY <1>0 DEF IInv, PumpedOut
  <2>2. DeliveryTo'
    BY <1>0, <1>1 DEF DeliveryTo
  <2>3. QED
    BY <2>1, <2>2
<1>5. InFlightExact'
  <2> SUFFICES ASSUME NEW t \in Tenant
               PROVE  Handed(t)' = Handed(t) /\ (Delivering(t)' <=> Delivering(t))
    BY <1>0, SameHoldings
  <2>1. Handed(t)' = Handed(t)
    <3>1. slot[w].phase # "handed" /\ slot'[w].phase # "handed"
      BY <1>0, <1>1
    <3>2. QED
      BY <1>1, <3>1, HandedSame
  <2>2. Delivering(t)' <=> Delivering(t)
    BY <1>0, <1>1 DEF Delivering, DeliveryTo
  <2>3. QED
    BY <2>1, <2>2
<1>6. QED
  BY <1>0, <1>1, <1>2, <1>3, <1>4, <1>5 DEF IInv

LEMMA DeliverRefusedInv == ASSUME IInv, DeliverRefused PROVE IInv'
<1> DEFINE w == pump.to
           t == slot[w].tenant
<1>0. /\ TypeOK /\ Sound(round) /\ InFlightExact /\ LiveQueued
      /\ UNCHANGED <<pool, held>> /\ round' = Released(round, t)
      /\ pump.at = "deliver" /\ slot[w].phase = "leaving" /\ w \in Waiter
      /\ slot' = [slot EXCEPT ![w] = InPhase(@, "withdrawn")]
      /\ pump \in Pump /\ pump' = [pump EXCEPT !.at = "pass", !.to = None]
  BY DEF IInv, DeliverRefused, SettledBack, TypeOK, DeliveryTo
<1> HIDE DEF w
<1>1. t \in Tenant
  BY <1>0, SlotFields
<1> HIDE DEF t
<1>2. /\ Sound(round')
      /\ round'.entries[t].queue = round.entries[t].queue
      /\ round'.entries[t].inFlight = Less(round.entries[t].inFlight, 1)
      /\ \A u \in Tenant \ {t} : round'.entries[u] = round.entries[u]
  BY <1>0, <1>1, ReleasedSound DEF OnlyAt
<1>3. \A u \in Tenant : round'.entries[u].queue = round.entries[u].queue
  BY <1>2
<1>4. /\ slot' \in [Waiter -> Slot] /\ slot \in [Waiter -> Slot]
      /\ slot'[w].phase = "withdrawn" /\ slot'[w].tenant = slot[w].tenant
      /\ \A v \in Waiter \ {w} : slot'[v] = slot[v]
      /\ QueueSlots'
      /\ \A v \in Live' : v # w /\ v \in Live /\ (Awaited(v) => Awaited(v)')
  <2>1. "withdrawn" \in Phase \ {"free", "parked"} /\ slot[w].phase # "free"
    BY <1>0 DEF Phase
  <2>2. QED
    BY <1>0, <1>3, <2>1, NewPhase DEF TypeOK
<1>5. pump' \in Pump /\ pump'.at = "pass"
  <2>1. pump' = [[pump EXCEPT !.at = "pass"] EXCEPT !.to = None]
    BY <1>0 DEF Pump
  <2>2. [pump EXCEPT !.at = "pass"] \in Pump
    BY <1>0 DEF Pump
  <2>3. pump' \in Pump
    BY <2>1, <2>2 DEF Pump
  <2>4. QED
    BY <1>0, <2>3 DEF Pump
<1>6. TypeOK'
  BY <1>0, <1>2, <1>4, <1>5 DEF TypeOK, Sound
<1>7. LiveQueued'
  <2> SUFFICES ASSUME NEW v \in Live' PROVE Awaited(v)'
    BY DEF LiveQueued
  <2>1. v # w /\ v \in Live /\ (Awaited(v) => Awaited(v)')
    BY <1>4
  <2>2. Awaited(v)
    BY <1>0, <2>1 DEF LiveQueued, w
  <2>3. QED
    BY <2>1, <2>2
<1>8. DeliveryTo' /\ PumpedOut'
  BY <1>5 DEF DeliveryTo, PumpedOut
<1>9. InFlightExact'
  <2> SUFFICES ASSUME NEW u \in Tenant
               PROVE  round'.entries[u].inFlight = Holding(u)'
    BY DEF InFlightExact
  <2>1. round.entries[u].inFlight = Holding(u)
    BY <1>0 DEF InFlightExact
  <2>2. Handed(u)' = Handed(u) /\ Cardinality(Handed(u)) \in Nat
    <3>1. slot[w].phase # "handed" /\ slot'[w].phase # "handed"
      BY <1>0, <1>4
    <3>2. Handed(u)' = Handed(u)
      BY <1>0, <1>4, <3>1, HandedSame
    <3>3. QED
      BY <3>2, HandedCount DEF Handed
  <2>3. ~Delivering(u)' /\ (Delivering(u) <=> u = t)
    BY <1>0, <1>5 DEF Delivering, w, t
  <2>4. held[u] \in Nat /\ held'[u] = held[u]
    BY <1>0 DEF TypeOK
  <2>5. /\ Holding(u) = held[u] + Cardinality(Handed(u))
                            + (IF u = t THEN 1 ELSE 0)
        /\ Holding(u)' = held[u] + Cardinality(Handed(u)) + 0
    BY <2>2, <2>3, <2>4 DEF Holding
  <2>6. QED
    BY <1>2, <2>1, <2>2, <2>4, <2>5 DEF Less
<1>10. QED
  BY <1>2, <1>4, <1>6, <1>7, <1>8, <1>9 DEF IInv

(* A slot is given up by a caller that no longer waits.  The queues may    *)
(* have lost places of callers that no longer wait either.                 *)
LEMMA SlotFreed ==
    ASSUME IInv, NEW w \in Waiter, slot[w].phase # "parked",
           slot' = [slot EXCEPT ![w] = NoSlot],
           \A u \in Tenant : \A i \in 1..Len(round'.entries[u].queue) :
               \E j \in 1..Len(round.entries[u].queue) :
                   round'.entries[u].queue[i] = round.entries[u].queue[j],
           \A u \in Tenant : \A j \in 1..Len(round.entries[u].queue) :
               round.entries[u].queue[j] \in Live =>
                   \E i \in 1..Len(round'.entries[u].queue) :
                       round'.entries[u].queue[i] = round.entries[u].queue[j]
    PROVE  /\ slot' \in [Waiter -> Slot] /\ slot'[w] = NoSlot
           /\ \A v \in Waiter \ {w} : slot'[v] = slot[v]
           /\ QueueSlots'
           /\ \A v \in Live' : v # w /\ v \in Live /\ (Awaited(v) => Awaited(v)')
<1>1. TypeOK /\ slot \in [Waiter -> Slot]
  BY DEF IInv, TypeOK
<1>2. /\ slot' \in [Waiter -> Slot] /\ slot'[w] = NoSlot
      /\ \A v \in Waiter \ {w} : slot'[v] = slot[v]
  <2>1. NoSlot \in Slot
    BY DEF NoSlot, Slot
  <2>2. QED
    BY <1>1, <2>1
<1>3. NoSlot.phase = "free"
  BY DEF NoSlot
<1>4. QueueSlots'
  <2> SUFFICES ASSUME NEW t \in Tenant,
                      NEW i \in 1..Len(round'.entries[t].queue)
               PROVE  LET v == round'.entries[t].queue[i]
                      IN  slot'[v].phase = "free" \/ slot'[v].tenant = t
    BY DEF QueueSlots
  <2>1. PICK j \in 1..Len(round.entries[t].queue) :
            round'.entries[t].queue[i] = round.entries[t].queue[j]
    OBVIOUS
  <2> DEFINE v == round.entries[t].queue[j]
  <2>2. v \in Waiter
    <3>1. round.entries[t].queue \in Seq(Waiter)
      BY EntryFields DEF IInv
    <3>2. QED
      BY <3>1
  <2>3. slot[v].phase = "free" \/ slot[v].tenant = t
    BY DEF IInv, QueueSlots
  <2>4. slot'[v].phase = "free" \/ slot'[v].tenant = t
    BY <1>2, <1>3, <2>2, <2>3
  <2>5. QED
    BY <2>1, <2>4
<1>5. ASSUME NEW v \in Live'
      PROVE  v # w /\ v \in Live /\ (Awaited(v) => Awaited(v)')
  <2>1. v \in Waiter /\ slot'[v].phase = "parked"
    BY <1>5 DEF Live
  <2>2. v # w /\ slot'[v] = slot[v] /\ v \in Live
    BY <1>2, <1>3, <2>1 DEF Live
  <2>3. slot[v].tenant \in Tenant
    <3>1. slot[v].phase # "free"
      BY <2>1, <2>2
    <3>2. QED
      BY <1>1, <2>1, <3>1, SlotFields
  <2>4. ASSUME Awaited(v) PROVE Awaited(v)'
    <3>1. PICK j \in 1..Len(round.entries[slot[v].tenant].queue) :
              round.entries[slot[v].tenant].queue[j] = v
      BY <2>4 DEF Awaited
    <3>2. \E i \in 1..Len(round'.entries[slot[v].tenant].queue) :
              round'.entries[slot[v].tenant].queue[i] = v
      <4>1. PICK u \in Tenant : u = slot[v].tenant
        BY <2>3
      <4>2. /\ j \in 1..Len(round.entries[u].queue)
            /\ round.entries[u].queue[j] = v /\ v \in Live
        BY <2>2, <3>1, <4>1
      <4>3. \E i \in 1..Len(round'.entries[u].queue) :
                round'.entries[u].queue[i] = round.entries[u].queue[j]
        BY <4>2
      <4>4. QED
        BY <4>1, <4>2, <4>3
    <3>3. QED
      BY <2>2, <3>2 DEF Awaited
  <2>5. QED
    BY <2>2, <2>4
<1>6. QED
  BY <1>2, <1>4, <1>5

LEMMA CollectInv == ASSUME IInv, NEW w \in Waiter, Collect(w) PROVE IInv'
<1>0. /\ TypeOK /\ Sound(round) /\ InFlightExact /\ LiveQueued
      /\ DeliveryTo /\ PumpedOut
      /\ UNCHANGED <<pool, round, pump>>
      /\ slot[w].phase = "handed"
      /\ slot' = [slot EXCEPT ![w] = NoSlot]
      /\ held' = [held EXCEPT ![slot[w].tenant] = @ + 1]
  BY DEF IInv, Collect
<1>1. /\ slot' \in [Waiter -> Slot] /\ slot'[w] = NoSlot
      /\ \A v \in Waiter \ {w} : slot'[v] = slot[v]
      /\ QueueSlots'
      /\ \A v \in Live' : v # w /\ v \in Live /\ (Awaited(v) => Awaited(v)')
  <2>1. slot[w].phase # "parked"
    BY <1>0
  <2>2. QED
    BY <1>0, <2>1, SlotFreed
<1>2. slot[w].tenant \in Tenant /\ slot \in [Waiter -> Slot]
  BY <1>0, SlotFields DEF TypeOK
<1>3. TypeOK'
  <2>1. held' \in [Tenant -> Nat]
    BY <1>0, <1>2 DEF TypeOK
  <2>2. QED
    BY <1>0, <1>1, <2>1 DEF TypeOK
<1>4. DeliveryTo' /\ LiveQueued' /\ PumpedOut'
  <2>1. DeliveryTo'
    <3>1. pump.at = "deliver" => pump.to # w /\ slot'[pump.to] = slot[pump.to]
      BY <1>0, <1>1 DEF DeliveryTo
    <3>2. QED
      BY <1>0, <3>1 DEF DeliveryTo
  <2>2. LiveQueued'
    BY <1>0, <1>1 DEF LiveQueued
  <2>3. QED
    BY <1>0, <2>1, <2>2 DEF PumpedOut
<1>5. InFlightExact'
  <2> SUFFICES ASSUME NEW t \in Tenant
               PROVE  round'.entries[t].inFlight = Holding(t)'
    BY DEF InFlightExact
  <2>1. round.entries[t].inFlight = Holding(t)
    BY <1>0 DEF InFlightExact
  <2>2. Cardinality(Handed(t))
          = Cardinality(Handed(t)') + (IF slot[w].tenant = t THEN 1 ELSE 0)
    <3>1. slot'[w].phase # "handed"
      BY <1>1 DEF NoSlot
    <3>2. QED
      BY <1>0, <1>1, <1>2, <3>1, HandedLess
  <2>3. Delivering(t)' <=> Delivering(t)
    BY <1>0, <1>1 DEF Delivering, DeliveryTo
  <2>4. /\ held[t] \in Nat
        /\ held'[t] = held[t] + (IF slot[w].tenant = t THEN 1 ELSE 0)
        /\ Cardinality(Handed(t)') \in Nat
    <3>1. held[t] \in Nat
      BY <1>0 DEF TypeOK
    <3>2. held'[t] = held[t] + (IF slot[w].tenant = t THEN 1 ELSE 0)
      BY <1>0, <1>2, <3>1 DEF TypeOK
    <3>3. QED
      BY <3>1, <3>2, HandedCount DEF Handed
  <2> DEFINE D == IF Delivering(t) THEN 1 ELSE 0
  <2>5. /\ Holding(t) = held[t] + Cardinality(Handed(t)) + D
        /\ Holding(t)' = held'[t] + Cardinality(Handed(t)') + D
        /\ D \in Nat
    BY <2>3 DEF Holding
  <2> HIDE DEF D
  <2>6. QED
    BY <1>0, <2>1, <2>2, <2>4, <2>5
<1>6. QED
  BY <1>0, <1>1, <1>3, <1>4, <1>5 DEF IInv

LEMMA ReportAbandonedInv ==
    ASSUME IInv, NEW w \in Waiter, ReportAbandoned(w) PROVE IInv'
<1> DEFINE t == slot[w].tenant
<1>0. /\ TypeOK /\ Sound(round) /\ InFlightExact /\ LiveQueued /\ PumpedOut
      /\ UNCHANGED <<pool, held, pump>> /\ pump.at = "unlocked"
      /\ slot[w].phase \in {"leaving", "withdrawn"}
      /\ slot' = [slot EXCEPT ![w] = NoSlot]
      /\ round' = IF NeedsReport(w) THEN Abandoned(round, t, Live) ELSE round
  BY DEF IInv, ReportAbandoned
<1>1. t \in Tenant /\ slot \in [Waiter -> Slot]
  BY <1>0, SlotFields DEF TypeOK
<1> DEFINE s == Abandoned(round, t, Live)
<1>2. /\ Sound(s) /\ s.ring = round.ring
      /\ s.entries[t].inFlight = round.entries[t].inFlight
      /\ OnlyAt(round, s, t)
      /\ \A i \in 1..Len(s.entries[t].queue) :
             \E j \in 1..Len(round.entries[t].queue) :
                 s.entries[t].queue[i] = round.entries[t].queue[j]
      /\ \A j \in 1..Len(round.entries[t].queue) :
             round.entries[t].queue[j] \in Live =>
                 \E i \in 1..Len(s.entries[t].queue) :
                     s.entries[t].queue[i] = round.entries[t].queue[j]
  <2> HIDE DEF t
  <2>1. /\ Sound(s) /\ s.ring = round.ring
        /\ s.entries[t].inFlight = round.entries[t].inFlight
        /\ OnlyAt(round, s, t)
    BY <1>0, <1>1, AbandonedSound
  <2>2. \A i \in 1..Len(s.entries[t].queue) :
            \E j \in 1..Len(round.entries[t].queue) :
                s.entries[t].queue[i] = round.entries[t].queue[j]
    BY <1>0, <1>1, AbandonedSound
  <2>3. \A j \in 1..Len(round.entries[t].queue) :
            round.entries[t].queue[j] \in Live =>
                \E i \in 1..Len(s.entries[t].queue) :
                    s.entries[t].queue[i] = round.entries[t].queue[j]
    BY <1>0, <1>1, AbandonedSound
  <2> HIDE DEF s
  <2>4. QED
    BY <2>1, <2>2, <2>3
<1>3. round' = s \/ round' = round
  BY <1>0
<1> HIDE DEF t, s
<1>4. /\ Sound(round') /\ round'.ring = round.ring
      /\ \A u \in Tenant :
             round'.entries[u].inFlight = round.entries[u].inFlight
  BY <1>0, <1>2, <1>3 DEF OnlyAt
<1>5. /\ \A u \in Tenant : \A i \in 1..Len(round'.entries[u].queue) :
             \E j \in 1..Len(round.entries[u].queue) :
                 round'.entries[u].queue[i] = round.entries[u].queue[j]
      /\ \A u \in Tenant : \A j \in 1..Len(round.entries[u].queue) :
             round.entries[u].queue[j] \in Live =>
                 \E i \in 1..Len(round'.entries[u].queue) :
                     round'.entries[u].queue[i] = round.entries[u].queue[j]
  <2>1. CASE round' = round
    BY <2>1
  <2>2. CASE round' = s
    <3> SUFFICES ASSUME NEW u \in Tenant
                 PROVE  /\ \A i \in 1..Len(s.entries[u].queue) :
                               \E j \in 1..Len(round.entries[u].queue) :
                                   s.entries[u].queue[i]
                                       = round.entries[u].queue[j]
                        /\ \A j \in 1..Len(round.entries[u].queue) :
                               round.entries[u].queue[j] \in Live =>
                                   \E i \in 1..Len(s.entries[u].queue) :
                                       s.entries[u].queue[i]
                                           = round.entries[u].queue[j]
      BY <2>2
    <3>1. CASE u = t
      BY <1>2, <3>1
    <3>2. CASE u # t
      <4>1. s.entries[u] = round.entries[u]
        BY <1>2, <3>2 DEF OnlyAt
      <4>2. QED
        BY <4>1
    <3>3. QED
      BY <3>1, <3>2
  <2>3. QED
    BY <1>3, <2>1, <2>2
<1>6. /\ slot' \in [Waiter -> Slot] /\ slot'[w] = NoSlot
      /\ \A v \in Waiter \ {w} : slot'[v] = slot[v]
      /\ QueueSlots'
      /\ \A v \in Live' : v # w /\ v \in Live /\ (Awaited(v) => Awaited(v)')
  <2>1. slot[w].phase # "parked"
    BY <1>0
  <2>2. QED
    BY <1>0, <1>5, <2>1, SlotFreed
<1>7. TypeOK'
  BY <1>0, <1>4, <1>6 DEF TypeOK, Sound
<1>8. DeliveryTo' /\ LiveQueued' /\ PumpedOut'
  BY <1>0, <1>4, <1>6 DEF DeliveryTo, LiveQueued, PumpedOut
<1>9. InFlightExact'
  <2> SUFFICES ASSUME NEW u \in Tenant
               PROVE  Handed(u)' = Handed(u) /\ (Delivering(u)' <=> Delivering(u))
    BY <1>0, <1>4, SameHoldings
  <2>1. slot[w].phase # "handed" /\ slot'[w].phase # "handed"
    BY <1>0, <1>6 DEF NoSlot
  <2>2. Handed(u)' = Handed(u)
    BY <1>1, <1>6, <2>1, HandedSame
  <2>3. ~Delivering(u)' /\ ~Delivering(u)
    BY <1>0 DEF Delivering
  <2>4. QED
    BY <2>2, <2>3
<1>10. QED
  BY <1>4, <1>6, <1>7, <1>8, <1>9 DEF IInv

(* A caller that parks gets a slot nothing refers to. *)
LEMMA FreshSlotIsFree ==
    ASSUME FreeSlots # {} PROVE FreshSlot \in FreeSlots /\ FreshSlot \in Waiter
<1>1. FreeSlots \subseteq Nat
  BY ShellAssumption DEF FreeSlots
<1>2. \E v \in FreeSlots : \A u \in FreeSlots : v <= u
  BY <1>1, Least
<1>3. FreshSlot \in FreeSlots
  BY <1>2 DEF FreshSlot
<1>4. QED
  BY <1>3 DEF FreeSlots

LEMMA AdmitQueuedInv == ASSUME IInv, NEW t \in Tenant, AdmitQueued(t) PROVE IInv'
<1> DEFINE w == FreshSlot
           q == round.entries[t].queue
<1>0. /\ TypeOK /\ Sound(round) /\ InFlightExact /\ LiveQueued
      /\ UNCHANGED <<pool, held>> /\ pump.at = "unlocked"
      /\ FreeSlots # {} /\ round' = Enqueued(round, t, w)
      /\ slot' = [slot EXCEPT ![w] = [phase |-> "parked", tenant |-> t]]
      /\ pump' = [at |-> "pass", spare |-> FALSE, to |-> None, arriving |-> w]
  BY DEF IInv, AdmitQueued
<1>1. w \in Waiter /\ slot[w].phase = "free" /\ ~InQueue(w)
  BY <1>0, FreshSlotIsFree DEF FreeSlots
<1> HIDE DEF w
<1>2. /\ Sound(round') /\ round'.entries[t].queue = Append(q, w)
      /\ round'.entries[t].inFlight = round.entries[t].inFlight
      /\ \A u \in Tenant \ {t} : round'.entries[u] = round.entries[u]
  BY <1>0, <1>1, EnqueuedSound DEF OnlyAt
<1>3. /\ q \in Seq(Waiter) /\ Len(Append(q, w)) = Len(q) + 1
      /\ Append(q, w)[Len(q) + 1] = w /\ Len(q) \in Nat
      /\ \A i \in 1..Len(q) : Append(q, w)[i] = q[i]
  <2>1. q \in Seq(Waiter)
    BY <1>0, EntryFields
  <2> HIDE DEF q
  <2>2. QED
    BY <1>1, <2>1, AppendProperties
<1> HIDE DEF q
<1>4. /\ slot' \in [Waiter -> Slot] /\ slot \in [Waiter -> Slot]
      /\ slot'[w].phase = "parked" /\ slot'[w].tenant = t
      /\ \A v \in Waiter \ {w} : slot'[v] = slot[v]
  <2>1. [phase |-> "parked", tenant |-> t] \in Slot
    BY DEF Slot, Phase
  <2>2. slot \in [Waiter -> Slot]
    BY <1>0 DEF TypeOK
  <2>3. QED
    BY <1>0, <1>1, <2>1, <2>2
<1>5. pump' \in Pump /\ pump'.at = "pass"
  BY <1>0, <1>1 DEF Pump
<1>6. TypeOK'
  BY <1>0, <1>2, <1>4, <1>5 DEF TypeOK, Sound
<1>7. QueueSlots'
  <2> SUFFICES ASSUME NEW u \in Tenant,
                      NEW i \in 1..Len(round'.entries[u].queue)
               PROVE  LET v == round'.entries[u].queue[i]
                      IN  slot'[v].phase = "free" \/ slot'[v].tenant = u
    BY DEF QueueSlots
  <2>1. ASSUME NEW j \in 1..Len(round.entries[u].queue)
        PROVE  LET v == round.entries[u].queue[j]
               IN  slot'[v].phase = "free" \/ slot'[v].tenant = u
    <3> DEFINE v == round.entries[u].queue[j]
    <3>1. v \in Waiter /\ v # w
      <4>1. round.entries[u].queue \in Seq(Waiter)
        BY <1>0, EntryFields
      <4>2. v # w
        BY <1>1 DEF InQueue
      <4>3. QED
        BY <4>1, <4>2
    <3>2. slot[v].phase = "free" \/ slot[v].tenant = u
      BY DEF IInv, QueueSlots
    <3>3. QED
      BY <1>4, <3>1, <3>2
  <2>2. CASE u # t
    <3>1. round'.entries[u] = round.entries[u]
      BY <1>2, <2>2
    <3>2. QED
      BY <2>1, <3>1
  <2>3. CASE u = t
    <3>1. i \in 1..(Len(q) + 1) /\ round'.entries[u].queue = Append(q, w)
      BY <1>2, <1>3, <2>3
    <3>2. CASE i = Len(q) + 1
      BY <1>3, <1>4, <2>3, <3>1, <3>2
    <3>3. CASE i # Len(q) + 1
      <4>1. i \in 1..Len(q) /\ q = round.entries[u].queue
        BY <1>3, <2>3, <3>1, <3>3 DEF q
      <4>2. round'.entries[u].queue[i] = round.entries[u].queue[i]
        BY <1>3, <3>1, <4>1
      <4>3. QED
        BY <2>1, <4>1, <4>2
    <3>4. QED
      BY <3>2, <3>3
  <2>4. QED
    BY <2>2, <2>3
<1>8. LiveQueued'
  <2> SUFFICES ASSUME NEW v \in Live' PROVE Awaited(v)'
    BY DEF LiveQueued
  <2>1. v \in Waiter /\ slot'[v].phase = "parked"
    BY DEF Live
  <2>2. CASE v = w
    <3>1. Len(q) + 1 \in 1..Len(round'.entries[t].queue)
          /\ round'.entries[t].queue[Len(q) + 1] = w
      BY <1>2, <1>3
    <3>2. QED
      BY <1>4, <2>2, <3>1 DEF Awaited
  <2>3. CASE v # w
    <3>1. slot'[v] = slot[v] /\ v \in Live
      BY <1>4, <2>1, <2>3 DEF Live
    <3>2. slot[v].tenant \in Tenant
      <4>1. slot[v].phase # "free"
        BY <2>1, <3>1
      <4>2. QED
        BY <1>0, <2>1, <4>1, SlotFields
    <3>3. PICK i \in 1..Len(round.entries[slot[v].tenant].queue) :
              round.entries[slot[v].tenant].queue[i] = v
      BY <1>0, <3>1 DEF LiveQueued, Awaited
    <3>4. CASE slot[v].tenant = t
      <4>1. i \in 1..Len(q) /\ q[i] = v
        BY <3>3, <3>4 DEF q
      <4>2. i \in 1..Len(round'.entries[t].queue)
            /\ round'.entries[t].queue[i] = v
        BY <1>2, <1>3, <4>1
      <4>3. QED
        BY <3>1, <3>4, <4>2 DEF Awaited
    <3>5. CASE slot[v].tenant # t
      <4>1. round'.entries[slot[v].tenant] = round.entries[slot[v].tenant]
        BY <1>2, <3>2, <3>5
      <4>2. QED
        BY <3>1, <3>3, <4>1 DEF Awaited
    <3>6. QED
      BY <3>4, <3>5
  <2>4. QED
    BY <2>2, <2>3
<1>9. DeliveryTo' /\ PumpedOut'
  BY <1>5 DEF DeliveryTo, PumpedOut
<1>10. InFlightExact'
  <2> SUFFICES ASSUME NEW u \in Tenant
               PROVE  /\ round'.entries[u].inFlight = round.entries[u].inFlight
                      /\ Handed(u)' = Handed(u)
                      /\ Delivering(u)' <=> Delivering(u)
    BY <1>0, SameHoldings
  <2>1. slot[w].phase # "handed" /\ slot'[w].phase # "handed"
    BY <1>1, <1>4
  <2>2. Handed(u)' = Handed(u)
    BY <1>1, <1>4, <2>1, HandedSame
  <2>3. ~Delivering(u)' /\ ~Delivering(u)
    BY <1>0, <1>5 DEF Delivering
  <2>4. round'.entries[u].inFlight = round.entries[u].inFlight
    BY <1>2
  <2>5. QED
    BY <2>2, <2>3, <2>4
<1>11. QED
  BY <1>2, <1>6, <1>7, <1>8, <1>9, <1>10 DEF IInv

-----------------------------------------------------------------------------
(* The theorems. *)

LEMMA NextIInv == IInv /\ [Next]_vars => IInv'
<1> SUFFICES ASSUME IInv, [Next]_vars PROVE IInv'
  OBVIOUS
<1>1. ASSUME NEW t \in Tenant, AdmitNow(t) PROVE IInv'
  BY <1>1, AdmitNowInv
<1>2. ASSUME NEW t \in Tenant, TryAdmit(t) PROVE IInv'
  BY <1>2, TryAdmitInv
<1>3. ASSUME NEW t \in Tenant, AdmitQueued(t) PROVE IInv'
  BY <1>3, AdmitQueuedInv
<1>4. ASSUME NEW t \in Tenant, Release(t) PROVE IInv'
  BY <1>4, ReleaseInv
<1>5. CASE PumpStops
  BY <1>5, PumpStopsInv
<1>6. CASE PumpIdles
  BY <1>6, PumpIdlesInv
<1>7. CASE PumpRetires
  BY <1>7, PumpRetiresInv
<1>8. CASE PumpGrants
  BY <1>8, PumpGrantsInv
<1>9. CASE Deliver
  BY <1>9, DeliverInv
<1>10. CASE DeliverRefused
  BY <1>10, DeliverRefusedInv
<1>11. ASSUME NEW w \in Waiter, Collect(w) PROVE IInv'
  BY <1>11, CollectInv
<1>12. ASSUME NEW w \in Waiter, Leave(w) PROVE IInv'
  BY <1>12, LeaveInv
<1>13. ASSUME NEW w \in Waiter, ReportAbandoned(w) PROVE IInv'
  BY <1>13, ReportAbandonedInv
<1>14. CASE UNCHANGED vars
  <2>1. UNCHANGED <<pool, round, slot, held, pump>>
    BY <1>14 DEF vars
  <2>2. TypeOK' /\ Sound(round')
    BY <2>1 DEF IInv, TypeOK
  <2>3. QueueSlots' /\ DeliveryTo' /\ PumpedOut'
    BY <2>1 DEF IInv, QueueSlots, DeliveryTo, PumpedOut
  <2>4. LiveQueued'
    BY <2>1 DEF IInv, LiveQueued, Live, Awaited
  <2>5. InFlightExact'
    BY <2>1 DEF IInv, InFlightExact, Holding, Handed, Delivering
  <2>6. QED
    BY <2>2, <2>3, <2>4, <2>5 DEF IInv
<1>15. QED
  BY <1>1, <1>2, <1>3, <1>4, <1>5, <1>6, <1>7, <1>8, <1>9, <1>10, <1>11,
     <1>12, <1>13, <1>14 DEF Next, Pumping

LEMMA SpecIInv == Spec => []IInv
  BY InitIInv, NextIInv, PTL DEF Spec

(* Every variable keeps its type, for every set of tenants and callers and *)
(* every policy: no counter of the round ever goes below nothing.          *)
THEOREM TenancyTypes == Spec => []TypeOK
<1>1. IInv => TypeOK
  BY DEF IInv
<1>2. QED
  BY <1>1, SpecIInv, PTL

(* The round's in_flight is what the tenant really holds, whichever of a   *)
(* departure, a delivery and a release the threads let go first.           *)
THEOREM ChargesAreExact == Spec => []InFlightExact
<1>1. IInv => InFlightExact
  BY DEF IInv
<1>2. QED
  BY <1>1, SpecIInv, PTL

(* No tenant ever holds more than per_tenant_limit.                        *)
THEOREM CeilingIsHeld == Spec => []CeilingHeld
<1>1. ASSUME IInv, NEW t \in Tenant PROVE Holding(t) <= PerTenantLimit
  BY <1>1 DEF IInv, InFlightExact, Sound, EntrySound
<1>2. IInv => CeilingHeld
  BY <1>1 DEF CeilingHeld
<1>3. QED
  BY <1>2, SpecIInv, PTL

(* The ring holds the tenants that have a waiter and room, each once.      *)
THEOREM RingIsExact == Spec => []RingExact
<1>1. ASSUME IInv PROVE RingExact
  <2>1. /\ Sound(round)
        /\ \A i, j \in 1..Len(round.ring) :
               round.ring[i] = round.ring[j] => i = j
    BY <1>1 DEF IInv, Sound
  <2>2. ASSUME NEW t \in Tenant
        PROVE  LET e == round.entries[t]
                   member == \E i \in 1..Len(round.ring) : round.ring[i] = t
               IN  /\ e.onRing = member
                   /\ e.queue # <<>> /\ UnderCeiling(e) => member
                   /\ member => UnderCeiling(e)
    <3> DEFINE e == round.entries[t]
    <3>1. EntrySound(e, Member(round, t)) /\ e.onRing \in BOOLEAN
      BY <2>1 DEF Sound, EntrySound, Entry
    <3> HIDE DEF e
    <3>2. QED
      BY <3>1 DEF EntrySound, Member, e
  <2>3. QED
    BY <2>1, <2>2 DEF RingExact
<1>2. QED
  BY <1>1, SpecIInv, PTL

(* A free round lock leaves no permit in the pool beside a parked caller   *)
(* whose tenant has room.                                                  *)
THEOREM PoolIsWorkConserving == Spec => []WorkConserving
<1>1. ASSUME IInv PROVE WorkConserving
  <2> SUFFICES ASSUME pump.at = "unlocked", pool > 0, NEW w \in Live
               PROVE  ~UnderCeiling(round.entries[slot[w].tenant])
    BY DEF WorkConserving
  <2> DEFINE t == slot[w].tenant
             e == round.entries[t]
  <2>1. w \in Waiter /\ slot[w].phase # "free"
    BY DEF Live
  <2>2. t \in Tenant
    BY <1>1, <2>1, SlotFields DEF IInv
  <2>3. Awaited(w)
    BY <1>1 DEF IInv, LiveQueued
  <2>4. e.queue # <<>>
    BY <2>3, EmptySeq DEF Awaited
  <2>5. round.ring = <<>>
    <3>1. pool # 0
      BY <1>1 DEF IInv, TypeOK
    <3>2. QED
      BY <1>1, <3>1 DEF IInv, PumpedOut
  <2>6. ~Member(round, t)
    BY <2>5, EmptySeq DEF Member
  <2> HIDE DEF t
  <2>7. QED
    BY <1>1, <2>2, <2>4, <2>6 DEF IInv, Sound, EntrySound, t
<1>2. QED
  BY <1>1, SpecIInv, PTL

-----------------------------------------------------------------------------
(* A place of one's own.  The second invariant, over IInv: no queue names  *)
(* a caller twice, and the caller a delivery is under way to has left its  *)
(* queue.                                                                  *)

EachOnce == \A t \in Tenant : Distinct(round.entries[t].queue)

OutOfQueue == pump.at = "deliver" => ~InQueue(pump.to)

NobodyElse == pump.at # "deliver" => pump.to = None

Places == EachOnce /\ OutOfQueue /\ NobodyElse

LEMMA InitPlaces == Init => Places
<1> SUFFICES ASSUME Init PROVE Places
  OBVIOUS
<1>1. \A t \in Tenant : Len(round.entries[t].queue) = 0
  BY EmptySeq DEF Init, EmptyRound, Absent
<1>2. EachOnce
  BY <1>1 DEF EachOnce, Distinct
<1>3. pump.at = "unlocked" /\ pump.to = None
  BY DEF Init, Unlocked
<1>4. QED
  BY <1>2, <1>3 DEF Places, OutOfQueue, NobodyElse

(* Most steps leave every queue what it was.                               *)
LEMMA SamePlaces ==
    ASSUME Places, NobodyElse',
           \A t \in Tenant : round'.entries[t].queue = round.entries[t].queue,
           pump'.at = "deliver" => pump.at = "deliver" /\ pump'.to = pump.to
    PROVE  Places'
<1>1. EachOnce'
  BY DEF Places, EachOnce
<1>2. OutOfQueue'
  <2> SUFFICES ASSUME pump'.at = "deliver" PROVE ~InQueue(pump.to)'
    BY DEF OutOfQueue
  <2>1. ~InQueue(pump.to) /\ pump'.to = pump.to
    BY DEF Places, OutOfQueue
  <2>2. QED
    BY <2>1 DEF InQueue
<1>3. QED
  BY <1>1, <1>2 DEF Places

(* The steps that do change a queue end with no delivery under way.        *)
LEMMA PlacesAtRest ==
    ASSUME EachOnce', pump'.at # "deliver", pump'.to = None
    PROVE  Places'
  BY DEF Places, OutOfQueue, NobodyElse

LEMMA EnterPlaces ==
    ASSUME IInv, Places, NEW t \in Tenant, AdmitNow(t) \/ TryAdmit(t)
    PROVE  Places'
<1>1. /\ Sound(round) /\ round.ring = <<>> /\ UNCHANGED pump
      /\ UnderCeiling(round.entries[t]) /\ round' = EnterNow(round, t)
  <2>1. CASE AdmitNow(t)
    BY <2>1 DEF AdmitNow, MayEnterNow, IInv
  <2>2. CASE TryAdmit(t)
    <3>1. Sound(round) /\ ~round.entries[t].known
      BY <2>2 DEF IInv, TryAdmit, MayTryEnter
    <3>2. round.entries[t] = Absent
      BY <3>1, EntryFields
    <3>3. UnderCeiling(round.entries[t])
      BY <3>2, PolicyAssumption DEF UnderCeiling, Absent
    <3>4. QED
      BY <2>2, <3>1, <3>3 DEF TryAdmit, MayTryEnter
  <2>3. QED
    BY <2>1, <2>2
<1>2. /\ round'.entries[t].queue = round.entries[t].queue
      /\ \A u \in Tenant \ {t} : round'.entries[u] = round.entries[u]
  BY <1>1, EnterSound DEF OnlyAt
<1>3. \A u \in Tenant : round'.entries[u].queue = round.entries[u].queue
  BY <1>2
<1>4. NobodyElse'
  BY <1>1 DEF Places, NobodyElse
<1>5. QED
  BY <1>1, <1>3, <1>4, SamePlaces

LEMMA ReleasePlaces ==
    ASSUME IInv, Places, NEW t \in Tenant, Release(t) PROVE Places'
<1>1. /\ Sound(round) /\ round' = Released(round, t)
      /\ pump'.at = "pass" /\ pump'.to = None
  BY DEF IInv, Release, Unlocked
<1>2. /\ round'.entries[t].queue = round.entries[t].queue
      /\ \A u \in Tenant \ {t} : round'.entries[u] = round.entries[u]
  BY <1>1, ReleasedSound DEF OnlyAt
<1>3. \A u \in Tenant : round'.entries[u].queue = round.entries[u].queue
  BY <1>2
<1>4. EachOnce'
  BY <1>3 DEF Places, EachOnce
<1>5. QED
  BY <1>1, <1>4, PlacesAtRest

(* A new slot is named by no queue, so its place is its only one.          *)
LEMMA AdmitQueuedPlaces ==
    ASSUME IInv, Places, NEW t \in Tenant, AdmitQueued(t) PROVE Places'
<1> DEFINE w == FreshSlot
           q == round.entries[t].queue
<1>0. /\ Sound(round) /\ EachOnce /\ FreeSlots # {}
      /\ round' = Enqueued(round, t, w)
      /\ pump' = [at |-> "pass", spare |-> FALSE, to |-> None, arriving |-> w]
  BY DEF IInv, AdmitQueued, Places
<1>1. w \in Waiter /\ ~InQueue(w)
  BY <1>0, FreshSlotIsFree DEF FreeSlots
<1>2. pump'.at = "pass" /\ pump'.to = None
  BY <1>0
<1> HIDE DEF w
<1>3. /\ round'.entries[t].queue = Append(q, w)
      /\ \A u \in Tenant \ {t} : round'.entries[u] = round.entries[u]
  BY <1>0, <1>1, EnqueuedSound DEF OnlyAt
<1>4. /\ q \in Seq(Waiter) /\ Distinct(q)
      /\ \A i \in 1..Len(q) : q[i] # w
  BY <1>0, <1>1, EntryFields DEF EachOnce, InQueue
<1> HIDE DEF q
<1>5. Distinct(Append(q, w))
  <2>1. /\ Len(Append(q, w)) = Len(q) + 1 /\ Len(q) \in Nat
        /\ Append(q, w)[Len(q) + 1] = w
        /\ \A i \in 1..Len(q) : Append(q, w)[i] = q[i]
    BY <1>1, <1>4, AppendProperties
  <2>2. \A i \in 1..Len(Append(q, w)) : i \in 1..Len(q) \/ i = Len(q) + 1
    BY <2>1
  <2>3. QED
    BY <1>4, <2>1, <2>2 DEF Distinct
<1>6. EachOnce'
  BY <1>0, <1>3, <1>5 DEF EachOnce
<1>7. QED
  BY <1>2, <1>6, PlacesAtRest

LEMMA PumpEndsPlaces ==
    ASSUME Places, PumpStops \/ PumpIdles PROVE Places'
<1>1. UNCHANGED round /\ pump'.at = "unlocked" /\ pump'.to = None
  BY DEF PumpStops, PumpIdles, Unlocked
<1>2. EachOnce'
  BY <1>1 DEF Places, EachOnce
<1>3. QED
  BY <1>1, <1>2, PlacesAtRest

LEMMA PumpRetiresPlaces ==
    ASSUME IInv, Places, PumpRetires PROVE Places'
<1> DEFINE t == Head(round.ring)
<1>0. /\ Sound(round) /\ round' = Retired(round, Live) /\ round.ring # <<>>
      /\ ~HasLive(round.entries[t], Live)
      /\ pump.at = "pass" /\ pump \in Pump
      /\ pump' = [pump EXCEPT !.spare = TRUE]
  BY DEF IInv, PumpRetires, TypeOK
<1>1. pump'.at = "pass" /\ pump'.to = None
  <2>1. pump'.at = pump.at /\ pump'.to = pump.to
    BY <1>0 DEF Pump
  <2>2. pump.to = None
    BY <1>0 DEF Places, NobodyElse
  <2>3. QED
    BY <1>0, <2>1, <2>2
<1>2. /\ \A u \in Tenant \ {t} : round'.entries[u] = round.entries[u]
      /\ round'.entries[t].queue = <<>>
  BY <1>0, RetiredSound DEF OnlyAt
<1> HIDE DEF t
<1>3. Distinct(<<>>)
  BY EmptySeq DEF Distinct
<1>4. EachOnce'
  BY <1>2, <1>3 DEF Places, EachOnce
<1>5. QED
  BY <1>1, <1>4, PlacesAtRest

(* The grant takes its caller's only place away, and those of callers that *)
(* have left before it.                                                    *)
LEMMA PumpGrantsPlaces ==
    ASSUME IInv, Places, PumpGrants PROVE Places'
<1> DEFINE t == Head(round.ring)
           w == Chosen(round, Live)
           s == Served(round, Live)
<1>0. /\ Sound(round) /\ round' = s /\ round.ring # <<>>
      /\ HasLive(round.entries[t], Live) /\ pump \in Pump
      /\ pump' = [pump EXCEPT !.at = "deliver", !.spare = TRUE, !.to = w]
  BY DEF IInv, PumpGrants, TypeOK
<1>1. pump'.at = "deliver" /\ pump'.to = w
  <2> HIDE DEF w
  <2>1. QED
    BY <1>0 DEF Pump
<1>s. ServesFront(round, s, t, w, Live)
  BY <1>0, ServedSound
<1> HIDE DEF t, w, s
<1>2. t \in Tenant /\ w \in Live /\ OnlyAt(round, s, t)
  BY <1>s DEF ServesFront
<1>3. \E j \in 1..Len(round.entries[t].queue) : w = round.entries[t].queue[j]
  BY <1>s DEF ServesFront
<1>4. Distinct(round.entries[t].queue) =>
          /\ Distinct(s.entries[t].queue)
          /\ \A i \in 1..Len(s.entries[t].queue) : s.entries[t].queue[i] # w
  BY <1>s DEF ServesFront
<1>5. /\ \A u \in Tenant \ {t} : round'.entries[u] = round.entries[u]
      /\ Distinct(round'.entries[t].queue)
      /\ \A i \in 1..Len(round'.entries[t].queue) :
             round'.entries[t].queue[i] # w
  BY <1>0, <1>2, <1>4 DEF OnlyAt, Places, EachOnce
<1>6. EachOnce'
  BY <1>5 DEF Places, EachOnce
<1>7. ASSUME NEW u \in Tenant, NEW i \in 1..Len(round'.entries[u].queue)
      PROVE  round'.entries[u].queue[i] # w
  <2>1. CASE u = t
    BY <1>5, <2>1
  <2>2. CASE u # t
    <3>1. slot[w].phase = "parked"
      BY <1>2 DEF Live
    <3>2. slot[w].tenant = t
      BY <1>2, <1>3, <3>1 DEF IInv, QueueSlots
    <3>3. round'.entries[u] = round.entries[u]
      BY <1>5, <2>2
    <3>4. round.entries[u].queue[i] = w => slot[w].tenant = u
      BY <3>1, <3>3 DEF IInv, QueueSlots
    <3>5. QED
      BY <2>2, <3>2, <3>3, <3>4
  <2>3. QED
    BY <2>1, <2>2
<1>8. OutOfQueue' /\ NobodyElse'
  BY <1>1, <1>7 DEF OutOfQueue, NobodyElse, InQueue
<1>9. QED
  BY <1>6, <1>8 DEF Places

LEMMA DeliverPlaces ==
    ASSUME IInv, Places, Deliver \/ DeliverRefused PROVE Places'
<1>1. pump'.at = "pass" /\ pump'.to = None
  <2>1. CASE Deliver
    BY <2>1 DEF Deliver, IInv, TypeOK, Pump
  <2>2. CASE DeliverRefused
    BY <2>2 DEF DeliverRefused, IInv, TypeOK, Pump
  <2>3. QED
    BY <2>1, <2>2
<1>2. \A u \in Tenant : round'.entries[u].queue = round.entries[u].queue
  <2>1. CASE Deliver
    BY <2>1 DEF Deliver
  <2>2. CASE DeliverRefused
    <3> DEFINE t == slot[pump.to].tenant
    <3>1. /\ Sound(round) /\ round' = Released(round, t)
          /\ pump.to \in Waiter /\ slot[pump.to].phase = "leaving"
      BY <2>2 DEF IInv, DeliverRefused, DeliveryTo, SettledBack
    <3>2. t \in Tenant
      BY <3>1, SlotFields DEF IInv
    <3> HIDE DEF t
    <3>3. /\ round'.entries[t].queue = round.entries[t].queue
          /\ \A u \in Tenant \ {t} : round'.entries[u] = round.entries[u]
      BY <3>1, <3>2, ReleasedSound DEF OnlyAt
    <3>4. QED
      BY <3>3
  <2>3. QED
    BY <2>1, <2>2
<1>3. EachOnce'
  BY <1>2 DEF Places, EachOnce
<1>4. QED
  BY <1>1, <1>3, PlacesAtRest

LEMMA StayPlaces ==
    ASSUME Places, UNCHANGED <<round, pump>> PROVE Places'
<1>1. NobodyElse'
  BY DEF Places, NobodyElse
<1>2. QED
  BY <1>1, SamePlaces

(* The compaction keeps the places it keeps apart.                         *)
LEMMA ReportAbandonedPlaces ==
    ASSUME IInv, Places, NEW w \in Waiter, ReportAbandoned(w) PROVE Places'
<1> DEFINE t == slot[w].tenant
           s == Abandoned(round, t, Live)
<1>0. /\ Sound(round) /\ UNCHANGED pump /\ pump.at = "unlocked"
      /\ slot[w].phase \in {"leaving", "withdrawn"}
      /\ round' = IF NeedsReport(w) THEN s ELSE round
  BY DEF IInv, ReportAbandoned
<1>1. CASE NeedsReport(w)
  <2>1. t \in Tenant
    BY <1>0, SlotFields DEF IInv
  <2> HIDE DEF t
  <2>2. OnlyAt(round, s, t)
    BY <1>0, <2>1, AbandonedSound
  <2>3. Distinct(round.entries[t].queue) => Distinct(s.entries[t].queue)
    BY <1>0, <2>1, AbandonedSound
  <2> HIDE DEF s
  <2>4. EachOnce'
    BY <1>0, <1>1, <2>1, <2>2, <2>3 DEF OnlyAt, Places, EachOnce
  <2>5. pump'.at # "deliver" /\ pump'.to = None
    BY <1>0 DEF Places, NobodyElse
  <2>6. QED
    BY <2>4, <2>5, PlacesAtRest
<1>2. CASE ~NeedsReport(w)
  BY <1>0, <1>2, StayPlaces
<1>3. QED
  BY <1>1, <1>2

LEMMA NextPlaces == IInv /\ Places /\ [Next]_vars => Places'
<1> SUFFICES ASSUME IInv, Places, [Next]_vars PROVE Places'
  OBVIOUS
<1>1. ASSUME NEW t \in Tenant, AdmitNow(t) \/ TryAdmit(t) PROVE Places'
  BY <1>1, EnterPlaces
<1>2. ASSUME NEW t \in Tenant, AdmitQueued(t) PROVE Places'
  BY <1>2, AdmitQueuedPlaces
<1>3. ASSUME NEW t \in Tenant, Release(t) PROVE Places'
  BY <1>3, ReleasePlaces
<1>4. CASE PumpStops \/ PumpIdles
  BY <1>4, PumpEndsPlaces
<1>5. CASE PumpRetires
  BY <1>5, PumpRetiresPlaces
<1>6. CASE PumpGrants
  BY <1>6, PumpGrantsPlaces
<1>7. CASE Deliver \/ DeliverRefused
  BY <1>7, DeliverPlaces
<1>8. ASSUME NEW w \in Waiter, Collect(w) \/ Leave(w) PROVE Places'
  <2>1. UNCHANGED <<round, pump>>
    BY <1>8 DEF Collect, Leave
  <2>2. QED
    BY <2>1, StayPlaces
<1>9. ASSUME NEW w \in Waiter, ReportAbandoned(w) PROVE Places'
  BY <1>9, ReportAbandonedPlaces
<1>10. CASE UNCHANGED vars
  <2>1. UNCHANGED <<round, pump>>
    BY <1>10 DEF vars
  <2>2. QED
    BY <2>1, StayPlaces
<1>11. QED
  BY <1>1, <1>2, <1>3, <1>4, <1>5, <1>6, <1>7, <1>8, <1>9, <1>10
     DEF Next, Pumping

(* A parked caller stands in its own tenant's queue, once, and in no other *)
(* one, or the delivery under way is to it: no departure, skip or          *)
(* compaction loses a waiter or lets it be granted twice.                  *)
THEOREM EveryCallerHasOnePlace == Spec => []EveryWaiterHasItsPlace
<1>1. ASSUME IInv, Places PROVE EveryWaiterHasItsPlace
  <2> SUFFICES ASSUME NEW w \in Live
               PROVE  IF pump.to = w THEN ~InQueue(w)
                      ELSE /\ \A t \in Tenant \ {slot[w].tenant} :
                                 \A i \in 1..Len(round.entries[t].queue) :
                                     round.entries[t].queue[i] # w
                           /\ Cardinality(
                                 {i \in 1..Len(
                                       round.entries[slot[w].tenant].queue) :
                                     round.entries[slot[w].tenant].queue[i]
                                         = w}) = 1
    BY DEF EveryWaiterHasItsPlace
  <2>1. w \in Waiter /\ slot[w].phase = "parked"
    BY DEF Live
  <2>2. CASE pump.to = w
    <3>1. pump.to # None
      BY <2>1, <2>2, ShellAssumption
    <3>2. QED
      BY <1>1, <2>2, <3>1 DEF Places, OutOfQueue, NobodyElse
  <2>3. CASE pump.to # w
    <3> DEFINE t == slot[w].tenant
               q == round.entries[t].queue
    <3>1. t \in Tenant
      BY <1>1, <2>1, SlotFields DEF IInv
    <3>2. ASSUME NEW u \in Tenant \ {t},
                 NEW i \in 1..Len(round.entries[u].queue),
                 round.entries[u].queue[i] = w
          PROVE  FALSE
      BY <1>1, <2>1, <3>2 DEF IInv, QueueSlots
    <3>3. PICK i \in 1..Len(q) : q[i] = w
      BY <1>1, <2>3 DEF IInv, LiveQueued, Awaited
    <3>4. Distinct(q)
      BY <1>1, <3>1 DEF Places, EachOnce
    <3>5. {j \in 1..Len(q) : q[j] = w} = {i}
      <4> HIDE DEF q
      <4>1. QED
        BY <3>3, <3>4 DEF Distinct
    <3>6. Cardinality({j \in 1..Len(q) : q[j] = w}) = 1
      BY <3>5, FS_Singleton
    <3>7. QED
      BY <2>3, <3>2, <3>6
  <2>4. QED
    BY <2>2, <2>3
<1>2. Spec => []Places
  BY InitPlaces, NextPlaces, SpecIInv, PTL DEF Spec
<1>3. QED
  BY <1>1, <1>2, SpecIInv, PTL

-----------------------------------------------------------------------------
(* The sum of a function over a finite domain.  SumFunction takes out the  *)
(* element CHOOSE gives, one by one: that the recursion has a value, that  *)
(* any element may be taken out first and that the sum moves with its      *)
(* summands is shown by the least subset, in size, on which it fails.      *)

First(s) == CHOOSE x \in s : TRUE

Folded(f, F, s) == IF s = {} THEN 0 ELSE f[First(s)] + F[s \ {First(s)}]

SumsUp(f, D, F) == F = [s \in SUBSET D |-> Folded(f, F, s)]

LEMMA SumIsFold ==
    ASSUME NEW D, NEW f \in [D -> Nat], \E F : SumsUp(f, D, F)
    PROVE  \E F : SumsUp(f, D, F) /\ SumFunction(f) = F[D]
<1> DEFINE fold == CHOOSE F : SumsUp(f, D, F)
<1>1. SumsUp(f, D, fold)
  OBVIOUS
<1>2. DOMAIN f = D
  OBVIOUS
<1>3. SumFunction(f) = SumFunctionOnSet(f, D)
  BY <1>2 DEF SumFunction
<1>4. SumFunctionOnSet(f, D) = fold[D]
  BY DEF SumFunctionOnSet, FoldFunctionOnSet, MapThenFoldSet, SumsUp, Folded, First
<1>5. QED
  BY <1>1, <1>3, <1>4
(* The subsets of D of at most n elements, and their sums.                 *)
Small(D, n) == {s \in SUBSET D : Cardinality(s) <= n}

SumsSmall(f, D, n, F) == F = [s \in Small(D, n) |-> Folded(f, F, s)]

(* Taking the first element out leaves a smaller set. *)
LEMMA WithoutOne ==
    ASSUME NEW D, IsFiniteSet(D), NEW s \in SUBSET D, NEW x \in s
    PROVE  /\ IsFiniteSet(s) /\ s \ {x} \in SUBSET D
           /\ Cardinality(s) \in Nat /\ Cardinality(s \ {x}) \in Nat
           /\ Cardinality(s \ {x}) = Cardinality(s) - 1
<1>1. IsFiniteSet(s)
  BY FS_Subset
<1>2. Cardinality(s) \in Nat
  BY <1>1, FS_CardinalityType
<1>3. Cardinality(s \ {x}) = Cardinality(s) - 1 /\ IsFiniteSet(s \ {x})
  BY <1>1, FS_RemoveElement
<1>4. Cardinality(s \ {x}) \in Nat
  BY <1>3, FS_CardinalityType
<1>5. QED
  BY <1>1, <1>2, <1>3, <1>4

LEMMA FirstIsIn == ASSUME NEW s, s # {} PROVE First(s) \in s
  BY DEF First

LEMMA SmallSums ==
    ASSUME NEW D, IsFiniteSet(D), NEW f \in [D -> Nat], NEW N \in Nat
    PROVE  \E F : SumsSmall(f, D, N, F)
<1> DEFINE T == {n \in Nat : ~\E F : SumsSmall(f, D, n, F)}
<1> SUFFICES ASSUME T # {} PROVE FALSE
  OBVIOUS
<1>1. PICK n \in T : \A m \in T : n <= m
  <2>1. T \subseteq Nat
    OBVIOUS
  <2> HIDE DEF T
  <2>2. QED
    BY <2>1, Least
<1>2. n \in Nat /\ ~\E F : SumsSmall(f, D, n, F)
  BY <1>1
<1>3. CASE n = 0
  <2> DEFINE G == [s \in Small(D, 0) |-> 0]
  <2>1. \A s \in Small(D, 0) : s = {}
    <3> SUFFICES ASSUME NEW s \in Small(D, 0), s # {} PROVE FALSE
      OBVIOUS
    <3>1. s \in SUBSET D /\ Cardinality(s) <= 0
      BY DEF Small
    <3>2. IsFiniteSet(s) /\ Cardinality(s) \in Nat
      BY <3>1, FS_Subset, FS_CardinalityType
    <3>3. Cardinality(s) = 0
      BY <3>1, <3>2
    <3>4. QED
      BY <3>2, <3>3, FS_EmptySet
  <2>2. \A s \in Small(D, 0) : Folded(f, G, s) = 0
    BY <2>1 DEF Folded
  <2>3. G = [s \in Small(D, 0) |-> Folded(f, G, s)]
    BY <2>2
  <2> HIDE DEF G
  <2>4. QED
    BY <1>2, <1>3, <2>3 DEF SumsSmall
<1>4. CASE n # 0
  <2>1. n - 1 \in Nat /\ n - 1 \notin T
    BY <1>1, <1>2, <1>4
  <2>2. PICK F : SumsSmall(f, D, n - 1, F)
    BY <2>1
  <2>3. \A s \in Small(D, n - 1) : F[s] = Folded(f, F, s)
    BY <2>2 DEF SumsSmall
  <2> DEFINE G == [s \in Small(D, n) |-> Folded(f, F, s)]
  <2>4. \A s \in Small(D, n) : Folded(f, G, s) = Folded(f, F, s)
    <3> SUFFICES ASSUME NEW s \in Small(D, n), s # {}
                 PROVE  Folded(f, G, s) = Folded(f, F, s)
      BY DEF Folded
    <3> DEFINE u == s \ {First(s)}
    <3>1. s \in SUBSET D /\ Cardinality(s) <= n
      BY DEF Small
    <3>2. /\ u \in SUBSET D /\ Cardinality(s) \in Nat
          /\ Cardinality(u) \in Nat /\ Cardinality(u) = Cardinality(s) - 1
      BY <3>1, FirstIsIn, WithoutOne
    <3>3. u \in Small(D, n - 1) /\ u \in Small(D, n)
      <4> HIDE DEF u
      <4>1. Cardinality(u) <= n - 1 /\ Cardinality(u) <= n
        BY <1>2, <3>1, <3>2
      <4>2. QED
        BY <3>2, <4>1 DEF Small
    <3>4. G[u] = F[u]
      BY <2>3, <3>3
    <3> HIDE DEF G
    <3>5. QED
      BY <3>4 DEF Folded
  <2>5. G = [s \in Small(D, n) |-> Folded(f, G, s)]
    BY <2>4
  <2> HIDE DEF G
  <2>6. QED
    BY <1>2, <2>5 DEF SumsSmall
<1>5. QED
  BY <1>3, <1>4

LEMMA SumExists ==
    ASSUME NEW D, IsFiniteSet(D), NEW f \in [D -> Nat]
    PROVE  \E F : SumsUp(f, D, F)
<1>1. Cardinality(D) \in Nat
  BY FS_CardinalityType
<1>2. Small(D, Cardinality(D)) = SUBSET D
  <2>1. \A s \in SUBSET D : Cardinality(s) <= Cardinality(D)
    BY FS_Subset
  <2>2. QED
    BY <2>1 DEF Small
<1>3. \E F : SumsSmall(f, D, Cardinality(D), F)
  BY <1>1, SmallSums
<1>4. QED
  BY <1>2, <1>3 DEF SumsSmall, SumsUp

(* The sum does not depend on which element is taken out first, nor on     *)
(* what f is elsewhere.                                                    *)
LEMMA SumTakes ==
    ASSUME NEW D, IsFiniteSet(D), NEW f \in [D -> Nat], NEW F,
           SumsUp(f, D, F)
    PROVE  \A s \in SUBSET D :
               F[s] \in Nat /\ \A x \in s : F[s] = f[x] + F[s \ {x}]
<1> DEFINE Good(s) == F[s] \in Nat /\ \A x \in s : F[s] = f[x] + F[s \ {x}]
           T == {Cardinality(s) : s \in {u \in SUBSET D : ~Good(u)}}
<1>0. \A s \in SUBSET D : F[s] = Folded(f, F, s)
  BY DEF SumsUp
<1> SUFFICES ASSUME T # {} PROVE FALSE
  OBVIOUS
<1>1. PICK n \in T : \A m \in T : n <= m
  <2>1. T \subseteq Nat
    <3>1. \A s \in SUBSET D : Cardinality(s) \in Nat
      BY FS_Subset, FS_CardinalityType
    <3> HIDE DEF Good
    <3>2. QED
      BY <3>1
  <2> HIDE DEF T
  <2>2. QED
    BY <2>1, Least
<1>2. PICK s \in SUBSET D : ~Good(s) /\ Cardinality(s) = n
  BY <1>1
<1>3. s # {}
  <2>1. s = {} => F[s] = 0
    BY <1>0 DEF Folded
  <2>2. QED
    BY <1>2, <2>1
<1>4. PICK c \in s : F[s] = f[c] + F[s \ {c}]
  <2>1. F[s] = f[First(s)] + F[s \ {First(s)}]
    BY <1>0, <1>3 DEF Folded
  <2>2. QED
    BY <1>3, <2>1, FirstIsIn
<1>5. ASSUME NEW x \in s PROVE s \ {x} \in SUBSET D /\ Good(s \ {x})
  <2>1. s \ {x} \in SUBSET D /\ Cardinality(s \ {x}) < Cardinality(s)
    BY WithoutOne
  <2>2. Cardinality(s \ {x}) \in Nat /\ Cardinality(s) \in Nat
    BY WithoutOne
  <2>3. Cardinality(s \ {x}) \notin T
    <3> HIDE DEF T, Good
    <3>1. QED
      BY <1>1, <1>2, <2>1, <2>2
  <2> HIDE DEF Good
  <2>4. QED
    BY <2>1, <2>3
<1>6. F[s] \in Nat
  <2>1. F[s \ {c}] \in Nat /\ f[c] \in Nat
    BY <1>5
  <2>2. QED
    BY <1>4, <2>1
<1>7. ASSUME NEW x \in s PROVE F[s] = f[x] + F[s \ {x}]
  <2>1. CASE x = c
    BY <1>4, <2>1
  <2>2. CASE x # c
    <3>1. F[s \ {c}] = f[x] + F[(s \ {c}) \ {x}]
      <4>1. x \in s \ {c}
        BY <2>2
      <4>2. QED
        BY <1>5, <4>1
    <3>2. F[s \ {x}] = f[c] + F[(s \ {x}) \ {c}]
      <4>1. c \in s \ {x}
        BY <2>2
      <4>2. QED
        BY <1>5, <4>1
    <3>3. (s \ {x}) \ {c} = (s \ {c}) \ {x}
      OBVIOUS
    <3>4. /\ F[s \ {c}] \in Nat /\ F[s \ {x}] \in Nat
          /\ f[x] \in Nat /\ f[c] \in Nat
      BY <1>5
    <3>5. F[(s \ {c}) \ {x}] \in Nat
      <4>1. s \ {c} \in SUBSET D /\ IsFiniteSet(D)
        BY <1>5
      <4>2. (s \ {c}) \ {x} \in SUBSET D
        BY <4>1
      <4>3. Cardinality((s \ {c}) \ {x}) < Cardinality(s)
            /\ Cardinality((s \ {c}) \ {x}) \in Nat /\ Cardinality(s) \in Nat
        <5>1. x \in s \ {c}
          BY <2>2
        <5>2. /\ Cardinality((s \ {c}) \ {x}) \in Nat
              /\ Cardinality((s \ {c}) \ {x}) = Cardinality(s \ {c}) - 1
          BY <4>1, <5>1, WithoutOne
        <5>3. Cardinality(s \ {c}) = Cardinality(s) - 1
              /\ Cardinality(s) \in Nat
          BY WithoutOne
        <5>4. QED
          BY <5>2, <5>3
      <4>4. Cardinality((s \ {c}) \ {x}) \notin T
        BY <1>1, <1>2, <4>3
      <4>5. Good((s \ {c}) \ {x})
        <5> HIDE DEF Good
        <5>1. QED
          BY <4>2, <4>4
      <4>6. QED
        BY <4>5
    <3>6. QED
      BY <1>4, <3>1, <3>2, <3>3, <3>4, <3>5
  <2>3. QED
    BY <2>1, <2>2
<1>8. QED
  BY <1>2, <1>6, <1>7

LEMMA SumsAgree ==
    ASSUME NEW D, IsFiniteSet(D), NEW f \in [D -> Nat], NEW g \in [D -> Nat],
           NEW F, NEW G, SumsUp(f, D, F), SumsUp(g, D, G)
    PROVE  \A s \in SUBSET D : (\A x \in s : f[x] = g[x]) => F[s] = G[s]
<1> DEFINE Same(s) == (\A x \in s : f[x] = g[x]) => F[s] = G[s]
           T == {Cardinality(s) : s \in {u \in SUBSET D : ~Same(u)}}
<1>0. \A s \in SUBSET D : F[s] = Folded(f, F, s) /\ G[s] = Folded(g, G, s)
  BY DEF SumsUp
<1> SUFFICES ASSUME T # {} PROVE FALSE
  OBVIOUS
<1>1. PICK n \in T : \A m \in T : n <= m
  <2>1. T \subseteq Nat
    <3>1. \A s \in SUBSET D : Cardinality(s) \in Nat
      BY FS_Subset, FS_CardinalityType
    <3> HIDE DEF Same
    <3>2. QED
      BY <3>1
  <2> HIDE DEF T
  <2>2. QED
    BY <2>1, Least
<1>2. PICK s \in SUBSET D : ~Same(s) /\ Cardinality(s) = n
  BY <1>1
<1>3. s # {}
  <2>1. s = {} => F[s] = 0 /\ G[s] = 0
    BY <1>0 DEF Folded
  <2>2. QED
    BY <1>2, <2>1
<1> DEFINE c == First(s)
<1>4. /\ c \in s
      /\ F[s] = f[c] + F[s \ {c}]
      /\ G[s] = g[c] + G[s \ {c}]
  BY <1>0, <1>3, FirstIsIn DEF Folded
<1> HIDE DEF c
<1>5. s \ {c} \in SUBSET D /\ Same(s \ {c})
  <2>1. /\ s \ {c} \in SUBSET D /\ Cardinality(s \ {c}) = Cardinality(s) - 1
        /\ Cardinality(s \ {c}) \in Nat /\ Cardinality(s) \in Nat
    BY <1>4, WithoutOne
  <2>2. Cardinality(s \ {c}) \notin T
    <3> HIDE DEF T, Same
    <3>1. QED
      BY <1>1, <1>2, <2>1
  <2> HIDE DEF Same
  <2>3. QED
    BY <2>1, <2>2
<1>6. QED
  BY <1>2, <1>4, <1>5

(* What the sum over a finite domain is, as its function changes.          *)
LEMMA SumOfZeros ==
    ASSUME NEW D, IsFiniteSet(D) PROVE SumFunction([x \in D |-> 0]) = 0
<1> DEFINE f == [x \in D |-> 0]
<1>1. f \in [D -> Nat]
  OBVIOUS
<1> HIDE DEF f
<1>2. PICK F : SumsUp(f, D, F) /\ SumFunction(f) = F[D]
  BY <1>1, SumExists, SumIsFold
<1> DEFINE F0 == [s \in SUBSET D |-> 0]
<1>3. SumsUp(f, D, F0)
  <2>1. \A s \in SUBSET D : Folded(f, F0, s) = 0
    <3> SUFFICES ASSUME NEW s \in SUBSET D, s # {}
                 PROVE  f[First(s)] + F0[s \ {First(s)}] = 0
      BY DEF Folded
    <3>1. First(s) \in D /\ s \ {First(s)} \in SUBSET D
      BY FirstIsIn
    <3>2. QED
      BY <3>1 DEF f
  <2>2. F0 = [s \in SUBSET D |-> Folded(f, F0, s)]
    BY <2>1
  <2> HIDE DEF F0
  <2>3. QED
    BY <2>2 DEF SumsUp
<1>4. F[D] = F0[D]
  <2> HIDE DEF F0
  <2>1. D \in SUBSET D /\ \A x \in D : f[x] = f[x]
    OBVIOUS
  <2>2. QED
    BY <1>1, <1>2, <1>3, <2>1, SumsAgree
<1>5. QED
  BY <1>2, <1>4 DEF f

LEMMA SumSplits ==
    ASSUME NEW D, IsFiniteSet(D), NEW f \in [D -> Nat], NEW x \in D
    PROVE  \E F : /\ SumsUp(f, D, F) /\ SumFunction(f) = f[x] + F[D \ {x}]
                  /\ F[D \ {x}] \in Nat
<1>1. PICK F : SumsUp(f, D, F) /\ SumFunction(f) = F[D]
  BY SumExists, SumIsFold
<1>2. D \in SUBSET D /\ D \ {x} \in SUBSET D
  OBVIOUS
<1>3. F[D] = f[x] + F[D \ {x}] /\ F[D \ {x}] \in Nat
  <2>1. \A s \in SUBSET D :
            F[s] \in Nat /\ \A y \in s : F[s] = f[y] + F[s \ {y}]
    BY <1>1, SumTakes
  <2>2. F[D \ {x}] \in Nat
    BY <1>2, <2>1
  <2>3. \A y \in D : F[D] = f[y] + F[D \ {y}]
    BY <1>2, <2>1
  <2>4. QED
    BY <2>2, <2>3
<1>4. QED
  BY <1>1, <1>3

LEMMA SumCovers ==
    ASSUME NEW D, IsFiniteSet(D), NEW f \in [D -> Nat], NEW x \in D
    PROVE  SumFunction(f) \in Nat /\ f[x] <= SumFunction(f)
<1>1. PICK F : SumFunction(f) = f[x] + F[D \ {x}] /\ F[D \ {x}] \in Nat
  BY SumSplits
<1>2. f[x] \in Nat
  OBVIOUS
<1>3. QED
  BY <1>1, <1>2

(* One summand changes: the sum changes by as much. *)
LEMMA SumMoves ==
    ASSUME NEW D, IsFiniteSet(D), NEW f \in [D -> Nat], NEW g \in [D -> Nat],
           NEW x \in D, \A y \in D \ {x} : g[y] = f[y]
    PROVE  SumFunction(g) + f[x] = SumFunction(f) + g[x]
<1>1. PICK F : /\ SumsUp(f, D, F) /\ SumFunction(f) = f[x] + F[D \ {x}]
               /\ F[D \ {x}] \in Nat
  BY SumSplits
<1>2. PICK G : SumsUp(g, D, G) /\ SumFunction(g) = g[x] + G[D \ {x}]
  BY SumSplits
<1>3. F[D \ {x}] = G[D \ {x}]
  <2>1. D \ {x} \in SUBSET D
    OBVIOUS
  <2>2. \A y \in D \ {x} : f[y] = g[y]
    OBVIOUS
  <2>3. QED
    BY <1>1, <1>2, <2>1, <2>2, SumsAgree
<1>4. f[x] \in Nat /\ g[x] \in Nat
  OBVIOUS
<1>5. QED
  BY <1>1, <1>2, <1>3, <1>4

-----------------------------------------------------------------------------
(* The accounts of the whole supervisor.  The third invariant: beside the  *)
(* two sums, the pump holds a permit exactly when its place says so.       *)

Sparing ==
    /\ pump.at = "unlocked" => ~pump.spare
    /\ pump.at = "deliver" => pump.spare

Spare == IF pump.spare THEN 1 ELSE 0

PermitsBalance == pool + Spare + SumFunction(Outstanding) = Permits

RetainedBalances == round.retained = SumFunction(QueueLengths)

Balanced == Sparing /\ PermitsBalance /\ RetainedBalances

LEMMA OutstandingType ==
    ASSUME TypeOK
    PROVE  /\ Outstanding \in [Tenant -> Nat]
           /\ \A t \in Tenant :
                  Outstanding[t] = held[t] + Cardinality(Handed(t))
<1>1. \A t \in Tenant : held[t] + Cardinality(Handed(t)) \in Nat
  BY HandedCount DEF TypeOK, Handed
<1>2. QED
  BY <1>1 DEF Outstanding

LEMMA QueueLengthsType ==
    ASSUME Sound(round)
    PROVE  /\ QueueLengths \in [Tenant -> Nat]
           /\ \A t \in Tenant :
                  QueueLengths[t] = Len(round.entries[t].queue)
<1>1. \A t \in Tenant : Len(round.entries[t].queue) \in Nat
  <2> SUFFICES ASSUME NEW t \in Tenant
               PROVE  Len(round.entries[t].queue) \in Nat
    OBVIOUS
  <2>1. round.entries[t].queue \in Seq(Waiter)
    BY EntryFields
  <2>2. QED
    BY <2>1
<1>2. QED
  BY <1>1 DEF QueueLengths

LEMMA OutstandingTypePrimed ==
    (TypeOK => /\ Outstanding \in [Tenant -> Nat]
               /\ \A t \in Tenant :
                      Outstanding[t] = held[t] + Cardinality(Handed(t)))'
<1>1. TypeOK => /\ Outstanding \in [Tenant -> Nat]
                /\ \A t \in Tenant :
                       Outstanding[t] = held[t] + Cardinality(Handed(t))
  BY OutstandingType
<1>2. QED
  BY <1>1, PTL

LEMMA QueueLengthsTypePrimed ==
    (Sound(round) => /\ QueueLengths \in [Tenant -> Nat]
                     /\ \A t \in Tenant :
                            QueueLengths[t] = Len(round.entries[t].queue))'
<1>1. Sound(round) => /\ QueueLengths \in [Tenant -> Nat]
                      /\ \A t \in Tenant :
                             QueueLengths[t] = Len(round.entries[t].queue)
  BY QueueLengthsType
<1>2. QED
  BY <1>1, PTL

LEMMA InitBalanced == ASSUME IsFiniteSet(Tenant), Init PROVE Balanced
<1>1. TypeOK /\ Sound(round)
  BY InitIInv DEF IInv
<1>2. \A t \in Tenant : Outstanding[t] = 0 /\ QueueLengths[t] = 0
  <2> SUFFICES ASSUME NEW t \in Tenant
               PROVE  Outstanding[t] = 0 /\ QueueLengths[t] = 0
    OBVIOUS
  <2>1. Handed(t) = {}
    BY DEF Init, Handed, NoSlot
  <2>2. Cardinality(Handed(t)) = 0
    BY <2>1, FS_EmptySet
  <2>3. held[t] = 0 /\ round.entries[t].queue = <<>>
    BY DEF Init, EmptyRound, Absent
  <2>4. QED
    BY <1>1, <2>2, <2>3, OutstandingType, QueueLengthsType, EmptySeq
<1>3. Outstanding = [t \in Tenant |-> 0] /\ QueueLengths = [t \in Tenant |-> 0]
  BY <1>1, <1>2, OutstandingType, QueueLengthsType
<1>4. SumFunction(Outstanding) = 0 /\ SumFunction(QueueLengths) = 0
  BY <1>3, SumOfZeros
<1>5. pool = Permits /\ pump = Unlocked /\ round.retained = 0
  BY DEF Init, EmptyRound
<1>6. Spare = 0 /\ Sparing
  BY <1>5 DEF Spare, Sparing, Unlocked
<1>7. QED
  BY <1>4, <1>5, <1>6, ShellAssumption
     DEF Balanced, PermitsBalance, RetainedBalances

(* A step that moves the permits of one tenant only. *)
LEMMA PermitsMoved ==
    ASSUME IsFiniteSet(Tenant), TypeOK, TypeOK', PermitsBalance,
           NEW t \in Tenant,
           \A u \in Tenant \ {t} :
               held'[u] = held[u] /\ Handed(u)' = Handed(u),
           pool' + Spare' + held'[t] + Cardinality(Handed(t)')
               = pool + Spare + held[t] + Cardinality(Handed(t))
    PROVE  PermitsBalance'
<1> DEFINE f == Outstanding
           g == Outstanding'
<1>1. f \in [Tenant -> Nat] /\ g \in [Tenant -> Nat]
  BY OutstandingType, OutstandingTypePrimed
<1>2. /\ \A u \in Tenant : f[u] = held[u] + Cardinality(Handed(u))
      /\ \A u \in Tenant : g[u] = held'[u] + Cardinality(Handed(u)')
  BY OutstandingType, OutstandingTypePrimed
<1>3. \A u \in Tenant \ {t} : g[u] = f[u]
  BY <1>2
<1>4. pool + Spare + SumFunction(f) = Permits
  BY DEF PermitsBalance
<1> HIDE DEF f, g
<1>5. SumFunction(g) + f[t] = SumFunction(f) + g[t]
  BY <1>1, <1>3, SumMoves
<1>6. SumFunction(f) \in Nat /\ SumFunction(g) \in Nat
  BY <1>1, SumCovers
<1>9. /\ pool \in Nat /\ Spare \in Nat /\ pool' \in Nat /\ Spare' \in Nat
      /\ held[t] \in Nat /\ held'[t] \in Nat
      /\ Cardinality(Handed(t)) \in Nat /\ Cardinality(Handed(t)') \in Nat
  <2>1. Cardinality(Handed(t)') \in Nat
    BY HandedCount DEF Handed
  <2>2. QED
    BY <2>1, HandedCount DEF TypeOK, Spare, Handed
<1>7. pool' + Spare' + SumFunction(g) = Permits
  <2> DEFINE kept == pool + Spare
             keeps == pool' + Spare'
             owed == held[t] + Cardinality(Handed(t))
             owes == held'[t] + Cardinality(Handed(t)')
             was == SumFunction(f)
             is == SumFunction(g)
  <2>1. /\ kept \in Nat /\ keeps \in Nat /\ owed \in Nat /\ owes \in Nat
        /\ was \in Nat /\ is \in Nat
    BY <1>6, <1>9
  <2>2. keeps + owes = kept + owed
    BY <1>9
  <2>3. is + owed = was + owes
    BY <1>2, <1>5
  <2>4. kept + was = Permits
    BY <1>4
  <2> HIDE DEF kept, keeps, owed, owes, was, is
  <2>5. keeps + is = Permits
    BY <2>1, <2>2, <2>3, <2>4
  <2>6. QED
    BY <2>5 DEF keeps, is
<1>8. QED
  BY <1>7 DEF PermitsBalance, g

(* A step that moves no permit into or out of an owner's hands. *)
LEMMA PermitsStay ==
    ASSUME PermitsBalance, TypeOK, TypeOK', UNCHANGED held,
           \A u \in Tenant : Handed(u)' = Handed(u),
           pool' + Spare' = pool + Spare
    PROVE  PermitsBalance'
<1>1. Outstanding' = Outstanding
  BY DEF Outstanding
<1>2. QED
  BY <1>1 DEF PermitsBalance

(* What moved by the same amount from the same place is in the same place. *)
LEMMA BothMoved ==
    ASSUME NEW a \in Nat, NEW b \in Nat, NEW m \in Nat, NEW n \in Nat,
           NEW old \in Nat, NEW new \in Nat,
           a = m, b + old = a + new, n + old = m + new
    PROVE  b = n
  OBVIOUS

(* The total moves with the queue of one tenant. *)
LEMMA RetainedMoved ==
    ASSUME IsFiniteSet(Tenant), Sound(round), Sound(round)',
           RetainedBalances, NEW t \in Tenant,
           \A u \in Tenant \ {t} : round'.entries[u] = round.entries[u],
           round'.retained + Len(round.entries[t].queue)
               = round.retained + Len(round'.entries[t].queue)
    PROVE  RetainedBalances'
<1> DEFINE f == QueueLengths
           g == QueueLengths'
<1>1. f \in [Tenant -> Nat] /\ g \in [Tenant -> Nat]
  BY QueueLengthsType, QueueLengthsTypePrimed
<1>2. /\ \A u \in Tenant : f[u] = Len(round.entries[u].queue)
      /\ \A u \in Tenant : g[u] = Len(round'.entries[u].queue)
  BY QueueLengthsType, QueueLengthsTypePrimed
<1>3. \A u \in Tenant \ {t} : g[u] = f[u]
  BY <1>2
<1>5. round.retained = SumFunction(f)
  BY DEF RetainedBalances
<1> HIDE DEF f, g
<1>4. SumFunction(g) + f[t] = SumFunction(f) + g[t]
  BY <1>1, <1>3, SumMoves, SMTT(30)
<1>6. /\ round.retained \in Nat /\ round'.retained \in Nat
      /\ SumFunction(f) \in Nat /\ SumFunction(g) \in Nat
  BY <1>1, SumCovers DEF Sound, Round
<1>7. round'.retained = SumFunction(g)
  <2>1. /\ f[t] = Len(round.entries[t].queue) /\ f[t] \in Nat
        /\ g[t] = Len(round'.entries[t].queue) /\ g[t] \in Nat
    BY <1>1, <1>2
  <2>2. round'.retained + f[t] = round.retained + g[t]
    BY <2>1
  <2> DEFINE a == round.retained
             b == round'.retained
             m == SumFunction(f)
             n == SumFunction(g)
             old == f[t]
             new == g[t]
  <2>3. /\ a \in Nat /\ b \in Nat /\ m \in Nat /\ n \in Nat
        /\ old \in Nat /\ new \in Nat
        /\ a = m /\ b + old = a + new /\ n + old = m + new
    BY <1>4, <1>5, <1>6, <2>1, <2>2
  <2> HIDE DEF a, b, m, n, old, new
  <2>4. b = n
    BY <2>3, BothMoved
  <2>5. QED
    BY <2>4 DEF b, n
<1>8. QED
  BY <1>7 DEF RetainedBalances, g

(* No queue is longer than the total, so nothing is taken off it that the  *)
(* saturating subtraction would swallow.                                   *)
LEMMA RetainedCovers ==
    ASSUME IsFiniteSet(Tenant), Sound(round), RetainedBalances,
           NEW t \in Tenant
    PROVE  /\ round.retained \in Nat /\ Len(round.entries[t].queue) \in Nat
           /\ Len(round.entries[t].queue) <= round.retained
<1> DEFINE f == QueueLengths
<1>1. /\ f \in [Tenant -> Nat] /\ f[t] = Len(round.entries[t].queue)
      /\ round.retained = SumFunction(f)
  BY QueueLengthsType DEF RetainedBalances
<1> HIDE DEF f
<1>2. SumFunction(f) \in Nat /\ f[t] <= SumFunction(f)
  BY <1>1, SumCovers
<1>3. f[t] \in Nat
  BY <1>1
<1>4. QED
  BY <1>1, <1>2, <1>3

LEMMA RetainedStays ==
    ASSUME RetainedBalances, round'.retained = round.retained,
           \A u \in Tenant : round'.entries[u].queue = round.entries[u].queue
    PROVE  RetainedBalances'
<1>1. QueueLengths' = QueueLengths
  BY DEF QueueLengths
<1>2. QED
  BY <1>1 DEF RetainedBalances

(* One lemma per action again, over IInv on both sides of the step. *)

LEMMA StayBalanced ==
    ASSUME Balanced, UNCHANGED <<pool, held, pump, round>>,
           \A u \in Tenant : Handed(u)' = Handed(u)
    PROVE  Balanced'
<1>1. Outstanding' = Outstanding /\ QueueLengths' = QueueLengths
  BY DEF Outstanding, QueueLengths
<1>2. Spare' = Spare
  BY DEF Spare
<1>3. QED
  BY <1>1, <1>2
     DEF Balanced, Sparing, PermitsBalance, RetainedBalances

LEMMA EnterBalanced ==
    ASSUME IsFiniteSet(Tenant), IInv, Balanced, NEW t \in Tenant,
           AdmitNow(t) \/ TryAdmit(t)
    PROVE  Balanced'
<1>0. /\ TypeOK /\ TypeOK' /\ Sound(round)
      /\ Sparing /\ PermitsBalance /\ RetainedBalances
  <2>1. IInv'
    BY AdmitNowInv, TryAdmitInv
  <2>2. QED
    BY <2>1 DEF IInv, Balanced
<1>1. /\ pool' = pool - 1 /\ held' = [held EXCEPT ![t] = @ + 1]
      /\ UNCHANGED <<slot, pump>> /\ round' = EnterNow(round, t)
      /\ round.ring = <<>>
  BY DEF AdmitNow, TryAdmit, MayEnterNow, MayTryEnter
<1>2. UnderCeiling(round.entries[t])
  <2>1. CASE AdmitNow(t)
    BY <2>1 DEF AdmitNow, MayEnterNow
  <2>2. CASE TryAdmit(t)
    <3>1. ~round.entries[t].known
      BY <2>2 DEF TryAdmit, MayTryEnter
    <3>2. round.entries[t] = Absent
      BY <1>0, <3>1, EntryFields
    <3>3. QED
      BY <3>2, PolicyAssumption DEF UnderCeiling, Absent
  <2>3. QED
    BY <2>1, <2>2
<1>3. \A u \in Tenant : Handed(u)' = Handed(u)
  BY <1>1 DEF Handed
<1>4. PermitsBalance'
  <2>1. /\ held[t] \in Nat /\ held'[t] = held[t] + 1 /\ pool \in Nat
        /\ \A u \in Tenant \ {t} : held'[u] = held[u]
    BY <1>0, <1>1 DEF TypeOK
  <2>2. Spare' = Spare /\ Spare \in Nat
    BY <1>1 DEF Spare
  <2>3. Cardinality(Handed(t)') = Cardinality(Handed(t))
        /\ Cardinality(Handed(t)) \in Nat
    BY <1>3, HandedCount DEF Handed
  <2>4. pool' + Spare' + held'[t] + Cardinality(Handed(t)')
          = pool + Spare + held[t] + Cardinality(Handed(t))
    BY <1>1, <2>1, <2>2, <2>3
  <2>5. QED
    BY <1>0, <1>3, <2>1, <2>4, PermitsMoved
<1>5. RetainedBalances'
  <2>1. /\ round'.entries[t].queue = round.entries[t].queue
        /\ \A u \in Tenant \ {t} : round'.entries[u] = round.entries[u]
    BY <1>0, <1>1, <1>2, EnterSound DEF OnlyAt
  <2>2. \A u \in Tenant : round'.entries[u].queue = round.entries[u].queue
    BY <2>1
  <2>3. round'.retained = round.retained
    BY <1>0, <1>1, EnterTotal
  <2>4. QED
    BY <1>0, <2>2, <2>3, RetainedStays
<1>6. Sparing'
  BY <1>0, <1>1 DEF Sparing
<1>7. QED
  BY <1>4, <1>5, <1>6 DEF Balanced

LEMMA ReleaseBalanced ==
    ASSUME IsFiniteSet(Tenant), IInv, Balanced, NEW t \in Tenant, Release(t)
    PROVE  Balanced'
<1>0. /\ TypeOK /\ TypeOK' /\ Sound(round)
      /\ Sparing /\ PermitsBalance /\ RetainedBalances
  <2>1. IInv'
    BY ReleaseInv
  <2>2. QED
    BY <2>1 DEF IInv, Balanced
<1>1. /\ held[t] > 0 /\ held' = [held EXCEPT ![t] = @ - 1]
      /\ UNCHANGED <<pool, slot>> /\ round' = Released(round, t)
      /\ pump.at = "unlocked" /\ pump'.at = "pass" /\ pump'.spare
  BY DEF Release, Unlocked
<1>2. \A u \in Tenant : Handed(u)' = Handed(u)
  BY <1>1 DEF Handed
<1>3. PermitsBalance'
  <2>1. /\ held[t] \in Nat /\ held'[t] = held[t] - 1 /\ pool \in Nat
        /\ \A u \in Tenant \ {t} : held'[u] = held[u]
    BY <1>0, <1>1 DEF TypeOK
  <2>2. Spare' = 1 /\ Spare = 0
    BY <1>0, <1>1 DEF Spare, Sparing
  <2>3. Cardinality(Handed(t)') = Cardinality(Handed(t))
        /\ Cardinality(Handed(t)) \in Nat
    BY <1>2, HandedCount DEF Handed
  <2>4. pool' + Spare' + held'[t] + Cardinality(Handed(t)')
          = pool + Spare + held[t] + Cardinality(Handed(t))
    BY <1>1, <2>1, <2>2, <2>3
  <2>5. QED
    BY <1>0, <1>2, <2>1, <2>4, PermitsMoved
<1>4. RetainedBalances'
  <2>1. /\ round'.entries[t].queue = round.entries[t].queue
        /\ \A u \in Tenant \ {t} : round'.entries[u] = round.entries[u]
    BY <1>0, <1>1, ReleasedSound DEF OnlyAt
  <2>2. \A u \in Tenant : round'.entries[u].queue = round.entries[u].queue
    BY <2>1
  <2>3. round'.retained = round.retained
    BY <1>0, <1>1, ReleasedTotal
  <2>4. QED
    BY <1>0, <2>2, <2>3, RetainedStays
<1>5. Sparing'
  BY <1>1 DEF Sparing
<1>6. QED
  BY <1>3, <1>4, <1>5 DEF Balanced

LEMMA AdmitQueuedBalanced ==
    ASSUME IsFiniteSet(Tenant), IInv, Balanced, NEW t \in Tenant,
           AdmitQueued(t)
    PROVE  Balanced'
<1> DEFINE w == FreshSlot
           q == round.entries[t].queue
<1>0. /\ TypeOK /\ TypeOK' /\ Sound(round) /\ Sound(round)'
      /\ Sparing /\ PermitsBalance /\ RetainedBalances
  <2>1. IInv'
    BY AdmitQueuedInv
  <2>2. QED
    BY <2>1 DEF IInv, Balanced
<1>1. /\ UNCHANGED <<pool, held>> /\ pump.at = "unlocked"
      /\ FreeSlots # {} /\ round' = Enqueued(round, t, w)
      /\ slot' = [slot EXCEPT ![w] = [phase |-> "parked", tenant |-> t]]
      /\ pump'.at = "pass" /\ ~pump'.spare
  BY DEF AdmitQueued
<1>2. w \in Waiter /\ slot[w].phase = "free"
  <2>1. FreeSlots \subseteq Nat
    BY ShellAssumption DEF FreeSlots
  <2>2. \E v \in FreeSlots : \A u \in FreeSlots : v <= u
    BY <1>1, <2>1, Least
  <2>3. w \in FreeSlots
    BY <2>2 DEF FreshSlot
  <2>4. QED
    BY <2>3 DEF FreeSlots
<1> HIDE DEF w
<1>3. \A u \in Tenant : Handed(u)' = Handed(u)
  <2>1. /\ slot \in [Waiter -> Slot] /\ slot'[w].phase = "parked"
        /\ \A v \in Waiter \ {w} : slot'[v] = slot[v]
    BY <1>0, <1>1, <1>2 DEF TypeOK
  <2>2. slot[w].phase # "handed" /\ slot'[w].phase # "handed"
    BY <1>2, <2>1
  <2>3. QED
    BY <1>2, <2>1, <2>2, HandedSame
<1>4. PermitsBalance'
  <2>1. Spare' = 0 /\ Spare = 0
    BY <1>0, <1>1 DEF Spare, Sparing
  <2>2. QED
    BY <1>0, <1>1, <1>3, <2>1, PermitsStay
<1>5. RetainedBalances'
  <2>1. /\ round'.entries[t].queue = Append(q, w)
        /\ \A u \in Tenant \ {t} : round'.entries[u] = round.entries[u]
    BY <1>0, <1>1, <1>2, EnqueuedSound DEF OnlyAt
  <2>2. q \in Seq(Waiter)
    BY <1>0, EntryFields
  <2>3. Len(Append(q, w)) = Len(q) + 1 /\ Len(q) \in Nat
    <3> HIDE DEF q
    <3>1. QED
      BY <1>2, <2>2, AppendProperties
  <2>4. round'.retained = round.retained + 1 /\ round.retained \in Nat
    BY <1>0, <1>1, EnqueuedTotal, RoundTotal
  <2>5. round'.retained + Len(round.entries[t].queue)
          = round.retained + Len(round'.entries[t].queue)
    BY <2>1, <2>3, <2>4
  <2>6. QED
    BY <1>0, <2>1, <2>5, RetainedMoved
<1>6. Sparing'
  BY <1>1 DEF Sparing
<1>7. QED
  BY <1>4, <1>5, <1>6 DEF Balanced

LEMMA PumpEndsBalanced ==
    ASSUME IInv, Balanced, PumpStops \/ PumpIdles PROVE Balanced'
<1>0. /\ TypeOK /\ TypeOK' /\ Sparing /\ PermitsBalance /\ RetainedBalances
  <2>1. IInv'
    BY PumpStopsInv, PumpIdlesInv
  <2>2. QED
    BY <2>1 DEF IInv, Balanced
<1>1. /\ UNCHANGED <<round, slot, held>>
      /\ pump'.at = "unlocked" /\ ~pump'.spare
      /\ pool' = IF pump.spare THEN pool + 1 ELSE pool
  BY DEF PumpStops, PumpIdles, Unlocked
<1>2. \A u \in Tenant : Handed(u)' = Handed(u)
  BY <1>1 DEF Handed
<1>3. pool' + Spare' = pool + Spare
  BY <1>0, <1>1 DEF Spare, TypeOK
<1>4. PermitsBalance'
  BY <1>0, <1>1, <1>2, <1>3, PermitsStay
<1>5. RetainedBalances'
  BY <1>0, <1>1, RetainedStays
<1>6. Sparing'
  BY <1>1 DEF Sparing
<1>7. QED
  BY <1>4, <1>5, <1>6 DEF Balanced

(* The permit a pass takes is in the pump's hands, not lost. *)
LEMMA TakenIsSpare ==
    ASSUME TypeOK, HasPermit, pool' = PoolAfterTaking, pump'.spare
    PROVE  pool' + Spare' = pool + Spare
  BY DEF TypeOK, HasPermit, PoolAfterTaking, Spare

LEMMA PumpRetiresBalanced ==
    ASSUME IsFiniteSet(Tenant), IInv, Balanced, PumpRetires
    PROVE  Balanced'
<1> DEFINE t == Head(round.ring)
           s == Retired(round, Live)
<1>0. /\ TypeOK /\ TypeOK' /\ Sound(round) /\ Sound(round)'
      /\ Sparing /\ PermitsBalance /\ RetainedBalances
  <2>1. IInv'
    BY PumpRetiresInv
  <2>2. QED
    BY <2>1 DEF IInv, Balanced
<1>1. /\ UNCHANGED <<slot, held>> /\ pool' = PoolAfterTaking /\ HasPermit
      /\ round' = s /\ round.ring # <<>>
      /\ ~HasLive(round.entries[t], Live)
      /\ pump'.at = "pass" /\ pump'.spare
  BY <1>0 DEF PumpRetires, TypeOK, Pump
<1>2. PermitsBalance'
  <2>1. \A u \in Tenant : Handed(u)' = Handed(u)
    BY <1>1 DEF Handed
  <2>2. QED
    BY <1>0, <1>1, <2>1, TakenIsSpare, PermitsStay
<1>3. RetainedBalances'
  <2>1. /\ t \in Tenant
        /\ \A u \in Tenant \ {t} : round'.entries[u] = round.entries[u]
        /\ round'.entries[t].queue = <<>>
    BY <1>0, <1>1, RetiredSound DEF OnlyAt
  <2>2. round'.retained
          = Less(round.retained, Len(round.entries[t].queue))
    BY <1>0, <1>1, RetiredTotal
  <2> HIDE DEF t, s
  <2>3. /\ round.retained \in Nat /\ Len(round.entries[t].queue) \in Nat
        /\ Len(round.entries[t].queue) <= round.retained
    BY <1>0, <2>1, RetainedCovers
  <2>4. Len(round'.entries[t].queue) = 0
    BY <2>1, EmptySeq
  <2>5. round'.retained + Len(round.entries[t].queue)
          = round.retained + Len(round'.entries[t].queue)
    BY <2>2, <2>3, <2>4 DEF Less
  <2>6. QED
    BY <1>0, <2>1, <2>5, RetainedMoved
<1>4. Sparing'
  BY <1>1 DEF Sparing
<1>5. QED
  BY <1>2, <1>3, <1>4 DEF Balanced

LEMMA PumpGrantsBalanced ==
    ASSUME IsFiniteSet(Tenant), IInv, Balanced, PumpGrants
    PROVE  Balanced'
<1> DEFINE t == Head(round.ring)
           s == Served(round, Live)
           n == DeadHeads(round.entries[t].queue, Live)
<1>0. /\ TypeOK /\ TypeOK' /\ Sound(round) /\ Sound(round)'
      /\ Sparing /\ PermitsBalance /\ RetainedBalances
  <2>1. IInv'
    BY PumpGrantsInv
  <2>2. QED
    BY <2>1 DEF IInv, Balanced
<1>1. /\ UNCHANGED <<slot, held>> /\ pool' = PoolAfterTaking /\ HasPermit
      /\ round' = s /\ round.ring # <<>>
      /\ HasLive(round.entries[t], Live)
      /\ pump'.at = "deliver" /\ pump'.spare
  BY <1>0 DEF PumpGrants, TypeOK, Pump
<1>2. PermitsBalance'
  <2>1. \A u \in Tenant : Handed(u)' = Handed(u)
    BY <1>1 DEF Handed
  <2>2. QED
    BY <1>0, <1>1, <2>1, TakenIsSpare, PermitsStay
<1>3. RetainedBalances'
  <2>s. ServesFront(round, s, t, Chosen(round, Live), Live)
    BY <1>0, <1>1, ServedSound
  <2>1. /\ t \in Tenant /\ OnlyAt(round, s, t)
        /\ Len(s.entries[t].queue) = Len(round.entries[t].queue) - (n + 1)
    <3> HIDE DEF s, t
    <3>1. QED
      BY <2>s DEF ServesFront
  <2>2. Len(s.entries[t].queue) = Len(round.entries[t].queue) - (n + 1)
    BY <2>1
  <2>3. s.retained = Less(round.retained, n + 1)
    BY <1>0, ServedTotal
  <2>4. n \in 0..Len(round.entries[t].queue)
    <3>1. round.entries[t].queue \in Seq(Waiter)
      BY <1>0, <2>1, EntryFields
    <3>2. QED
      BY <3>1, DeadHeadsAreDead
  <2>7. Sound(s)
    BY <1>0, <1>1
  <2> HIDE DEF t, s, n
  <2>5. /\ round.retained \in Nat /\ Len(round.entries[t].queue) \in Nat
        /\ Len(round.entries[t].queue) <= round.retained
    BY <1>0, <2>1, RetainedCovers
  <2>8. Len(s.entries[t].queue) \in Nat
    <3>1. s.entries[t].queue \in Seq(Waiter)
      BY <2>1, <2>7, EntryFields
    <3>2. QED
      BY <3>1
  <2>6. round'.retained + Len(round.entries[t].queue)
          = round.retained + Len(round'.entries[t].queue)
    <3>1. n \in Nat /\ n + 1 <= Len(round.entries[t].queue)
      BY <2>2, <2>4, <2>5, <2>8
    <3>2. s.retained = round.retained - (n + 1)
      BY <2>3, <2>5, <3>1 DEF Less
    <3>3. s.retained + Len(round.entries[t].queue)
            = round.retained + Len(s.entries[t].queue)
      <4> DEFINE A == Len(round.entries[t].queue)
                 B == Len(s.entries[t].queue)
      <4>1. /\ A \in Nat /\ B \in Nat /\ B = A - (n + 1)
            /\ round.retained \in Nat
        BY <2>2, <2>5, <2>8
      <4> HIDE DEF A, B
      <4>2. s.retained + A = round.retained + B
        BY <3>1, <3>2, <4>1
      <4>3. QED
        BY <4>2 DEF A, B
    <3>4. QED
      BY <1>1, <3>3
  <2>9. \A u \in Tenant \ {t} : round'.entries[u] = round.entries[u]
    BY <1>1, <2>1 DEF OnlyAt
  <2>10. QED
    BY <1>0, <2>1, <2>6, <2>9, RetainedMoved
<1>4. Sparing'
  BY <1>1 DEF Sparing
<1>5. QED
  BY <1>2, <1>3, <1>4 DEF Balanced

LEMMA DeliverBalanced ==
    ASSUME IsFiniteSet(Tenant), IInv, Balanced, Deliver
    PROVE  Balanced'
<1> DEFINE w == pump.to
<1>0. /\ TypeOK /\ TypeOK' /\ Sparing /\ PermitsBalance /\ RetainedBalances
      /\ w \in Waiter /\ DeliveryTo
  <2>1. IInv'
    BY DeliverInv
  <2>2. QED
    BY <2>1 DEF IInv, Balanced, DeliveryTo, Deliver
<1>1. /\ UNCHANGED <<pool, round, held>>
      /\ pump.at = "deliver" /\ slot[w].phase = "parked"
      /\ slot' = [slot EXCEPT ![w] = InPhase(@, "handed")]
      /\ pump'.at = "pass" /\ ~pump'.spare
  BY <1>0 DEF Deliver, TypeOK, Pump
<1>2. PICK t \in Tenant : slot[w].tenant = t
  BY <1>0, <1>1, SlotFields
<1> HIDE DEF w
<1>3. /\ slot' \in [Waiter -> Slot] /\ slot \in [Waiter -> Slot]
      /\ slot'[w].phase = "handed" /\ slot'[w].tenant = slot[w].tenant
      /\ \A v \in Waiter \ {w} : slot'[v] = slot[v]
  <2>1. "handed" \in Phase \ {"free", "parked"} /\ slot[w].phase # "free"
    BY <1>1 DEF Phase
  <2>2. QED
    BY <1>0, <1>1, <2>1, NewPhase DEF TypeOK
<1>4. \A u \in Tenant : Cardinality(Handed(u)')
          = Cardinality(Handed(u)) + (IF slot[w].tenant = u THEN 1 ELSE 0)
  <2>1. slot'[w] \in Slot /\ slot[w].phase # "handed"
    BY <1>0, <1>1, <1>3
  <2>2. QED
    BY <1>0, <1>3, <2>1, HandedMore
<1>5. \A u \in Tenant \ {t} : Handed(u)' = Handed(u)
  <2> SUFFICES ASSUME NEW u \in Tenant \ {t} PROVE Handed(u)' = Handed(u)
    OBVIOUS
  <2>1. /\ slot'[w] # [phase |-> "handed", tenant |-> u]
        /\ slot[w] # [phase |-> "handed", tenant |-> u]
    BY <1>2, <1>3
  <2>2. QED
    BY <1>3, <2>1 DEF Handed
<1>6. PermitsBalance'
  <2>1. Spare' = 0 /\ Spare = 1
    BY <1>0, <1>1 DEF Spare, Sparing
  <2>2. /\ Cardinality(Handed(t)') = Cardinality(Handed(t)) + 1
        /\ Cardinality(Handed(t)) \in Nat
    <3>1. Cardinality(Handed(t)) \in Nat
      BY HandedCount DEF Handed
    <3>2. QED
      BY <1>2, <1>4, <3>1
  <2>3. pool \in Nat /\ held[t] \in Nat /\ held'[t] = held[t]
    BY <1>0, <1>1, <1>2 DEF TypeOK
  <2>4. pool' + Spare' + held'[t] + Cardinality(Handed(t)')
          = pool + Spare + held[t] + Cardinality(Handed(t))
    BY <1>1, <2>1, <2>2, <2>3
  <2>5. \A u \in Tenant \ {t} :
            held'[u] = held[u] /\ Handed(u)' = Handed(u)
    BY <1>1, <1>5
  <2>6. QED
    BY <1>0, <1>2, <2>4, <2>5, PermitsMoved
<1>7. RetainedBalances'
  BY <1>0, <1>1, RetainedStays
<1>8. Sparing'
  BY <1>1 DEF Sparing
<1>9. QED
  BY <1>6, <1>7, <1>8 DEF Balanced

LEMMA DeliverRefusedBalanced ==
    ASSUME IInv, Balanced, DeliverRefused PROVE Balanced'
<1> DEFINE w == pump.to
           t == slot[w].tenant
<1>0. /\ TypeOK /\ TypeOK' /\ Sound(round)
      /\ Sparing /\ PermitsBalance /\ RetainedBalances
      /\ w \in Waiter
  <2>1. IInv'
    BY DeliverRefusedInv
  <2>2. QED
    BY <2>1 DEF IInv, Balanced, DeliveryTo, DeliverRefused
<1>1. /\ UNCHANGED <<pool, held>> /\ round' = Released(round, t)
      /\ pump.at = "deliver" /\ slot[w].phase = "leaving"
      /\ slot' = [slot EXCEPT ![w] = InPhase(@, "withdrawn")]
      /\ pump'.at = "pass" /\ pump'.spare = pump.spare
  BY <1>0 DEF DeliverRefused, SettledBack, TypeOK, Pump
<1>2. t \in Tenant
  BY <1>0, <1>1, SlotFields
<1> HIDE DEF t
<1>3. /\ \A u \in Tenant : round'.entries[u].queue = round.entries[u].queue
      /\ round'.retained = round.retained
  <2>1. /\ round'.entries[t].queue = round.entries[t].queue
        /\ \A u \in Tenant \ {t} : round'.entries[u] = round.entries[u]
    BY <1>0, <1>1, <1>2, ReleasedSound DEF OnlyAt
  <2>2. QED
    BY <1>0, <1>1, <2>1, ReleasedTotal
<1> HIDE DEF w
<1>4. /\ slot \in [Waiter -> Slot] /\ slot'[w].phase = "withdrawn"
      /\ \A v \in Waiter \ {w} : slot'[v] = slot[v]
  <2>1. "withdrawn" \in Phase \ {"free", "parked"} /\ slot[w].phase # "free"
    BY <1>1 DEF Phase
  <2>2. QED
    BY <1>0, <1>1, <1>3, <2>1, NewPhase DEF TypeOK
<1>5. \A u \in Tenant : Handed(u)' = Handed(u)
  <2>1. slot[w].phase # "handed" /\ slot'[w].phase # "handed"
    BY <1>1, <1>4
  <2>2. QED
    BY <1>0, <1>4, <2>1, HandedSame
<1>6. PermitsBalance'
  <2>1. pool' + Spare' = pool + Spare
    BY <1>1 DEF Spare
  <2>2. QED
    BY <1>0, <1>1, <1>5, <2>1, PermitsStay
<1>7. RetainedBalances'
  BY <1>0, <1>3, RetainedStays
<1>8. Sparing'
  BY <1>1 DEF Sparing
<1>9. QED
  BY <1>6, <1>7, <1>8 DEF Balanced

(* The permit passes from the slot to its owner. *)
LEMMA CollectBalanced ==
    ASSUME IsFiniteSet(Tenant), IInv, Balanced, NEW w \in Waiter, Collect(w)
    PROVE  Balanced'
<1>0. /\ TypeOK /\ TypeOK' /\ Sparing /\ PermitsBalance /\ RetainedBalances
  <2>1. IInv'
    BY CollectInv
  <2>2. QED
    BY <2>1 DEF IInv, Balanced
<1>1. /\ UNCHANGED <<pool, round, pump>> /\ slot[w].phase = "handed"
      /\ slot' = [slot EXCEPT ![w] = NoSlot]
      /\ held' = [held EXCEPT ![slot[w].tenant] = @ + 1]
  BY DEF Collect
<1>t. PICK t \in Tenant : slot[w].tenant = t
  BY <1>0, <1>1, SlotFields
<1>2. slot \in [Waiter -> Slot]
  BY <1>0 DEF TypeOK
<1>3. /\ slot'[w].phase # "handed"
      /\ \A v \in Waiter \ {w} : slot'[v] = slot[v]
  BY <1>1, <1>2 DEF NoSlot
<1>4. /\ Cardinality(Handed(t)) = Cardinality(Handed(t)') + 1
      /\ Cardinality(Handed(t)') \in Nat
  <2>1. \A u \in Tenant : Cardinality(Handed(u))
            = Cardinality(Handed(u)') + (IF slot[w].tenant = u THEN 1 ELSE 0)
    BY <1>1, <1>2, <1>3, HandedLess
  <2>2. Cardinality(Handed(t)') \in Nat
    BY HandedCount DEF Handed
  <2>3. QED
    BY <1>t, <2>1, <2>2
<1>5. \A u \in Tenant \ {t} : Handed(u)' = Handed(u)
  <2> SUFFICES ASSUME NEW u \in Tenant \ {t} PROVE Handed(u)' = Handed(u)
    OBVIOUS
  <2>1. /\ slot'[w] # [phase |-> "handed", tenant |-> u]
        /\ slot[w] # [phase |-> "handed", tenant |-> u]
    BY <1>t, <1>3
  <2>2. QED
    BY <1>3, <2>1 DEF Handed
<1>6. PermitsBalance'
  <2>1. Spare' = Spare /\ Spare \in Nat
    BY <1>1 DEF Spare
  <2>2. held[t] \in Nat /\ held'[t] = held[t] + 1 /\ pool \in Nat
    BY <1>0, <1>1, <1>t DEF TypeOK
  <2>4. \A u \in Tenant \ {t} :
            held'[u] = held[u] /\ Handed(u)' = Handed(u)
    BY <1>0, <1>1, <1>t, <1>5 DEF TypeOK
  <2>3. pool' + Spare' + held'[t] + Cardinality(Handed(t)')
          = pool + Spare + held[t] + Cardinality(Handed(t))
    BY <1>1, <1>4, <2>1, <2>2
  <2>5. QED
    BY <1>0, <2>3, <2>4, PermitsMoved
<1>7. RetainedBalances'
  BY <1>0, <1>1, RetainedStays
<1>8. Sparing'
  BY <1>0, <1>1 DEF Sparing
<1>9. QED
  BY <1>6, <1>7, <1>8 DEF Balanced

LEMMA LeaveBalanced ==
    ASSUME IInv, Balanced, NEW w \in Waiter, Leave(w) PROVE Balanced'
<1>1. /\ UNCHANGED <<pool, round, held, pump>> /\ slot[w].phase = "parked"
      /\ slot' = [slot EXCEPT ![w] = InPhase(@, "leaving")]
  BY DEF Leave
<1>2. /\ slot \in [Waiter -> Slot] /\ slot'[w].phase = "leaving"
      /\ \A v \in Waiter \ {w} : slot'[v] = slot[v]
  <2>1. "leaving" \in Phase \ {"free", "parked"} /\ slot[w].phase # "free"
    BY <1>1 DEF Phase
  <2>2. QED
    BY <1>1, <2>1, NewPhase DEF IInv, TypeOK
<1>3. \A u \in Tenant : Handed(u)' = Handed(u)
  <2>1. slot[w].phase # "handed" /\ slot'[w].phase # "handed"
    BY <1>1, <1>2
  <2>2. QED
    BY <1>2, <2>1, HandedSame
<1>4. QED
  BY <1>1, <1>3, StayBalanced

(* The compaction takes from the total what it takes from the queue. *)
LEMMA ReportAbandonedBalanced ==
    ASSUME IsFiniteSet(Tenant), IInv, Balanced, NEW w \in Waiter,
           ReportAbandoned(w)
    PROVE  Balanced'
<1> DEFINE t == slot[w].tenant
           s == Abandoned(round, t, Live)
<1>0. /\ TypeOK /\ TypeOK' /\ Sound(round) /\ Sound(round)'
      /\ Sparing /\ PermitsBalance /\ RetainedBalances
  <2>1. IInv'
    BY ReportAbandonedInv
  <2>2. QED
    BY <2>1 DEF IInv, Balanced
<1>1. /\ UNCHANGED <<pool, held, pump>>
      /\ slot[w].phase \in {"leaving", "withdrawn"}
      /\ slot' = [slot EXCEPT ![w] = NoSlot]
      /\ round' = IF NeedsReport(w) THEN s ELSE round
  BY DEF ReportAbandoned
<1>2. t \in Tenant /\ slot \in [Waiter -> Slot]
  BY <1>0, <1>1, SlotFields DEF TypeOK
<1>3. \A u \in Tenant : Handed(u)' = Handed(u)
  <2>1. /\ slot[w].phase # "handed" /\ slot'[w].phase # "handed"
        /\ \A v \in Waiter \ {w} : slot'[v] = slot[v]
    BY <1>1, <1>2 DEF NoSlot
  <2>2. QED
    BY <1>2, <2>1, HandedSame
<1>4. CASE ~NeedsReport(w)
  BY <1>1, <1>3, <1>4, StayBalanced
<1>5. CASE NeedsReport(w)
  <2>1. PermitsBalance'
    <3>1. Spare' = Spare
      BY <1>1 DEF Spare
    <3>2. QED
      BY <1>0, <1>1, <1>3, <3>1, PermitsStay
  <2>2. RetainedBalances'
    <3> HIDE DEF t
    <3>1. OnlyAt(round, s, t) /\ Shrunk(round, s, t)
      BY <1>0, <1>2, AbandonedSound
    <3>2. round' = s
      BY <1>1, <1>5
    <3> HIDE DEF s
    <3>3. /\ round.retained \in Nat /\ Len(round.entries[t].queue) \in Nat
          /\ Len(round.entries[t].queue) <= round.retained
      BY <1>0, <1>2, RetainedCovers
    <3>4. Len(s.entries[t].queue) \in Nat
      <4>1. Sound(s)
        BY <1>0, <3>2
      <4>2. s.entries[t].queue \in Seq(Waiter)
        BY <1>2, <4>1, EntryFields
      <4>3. QED
        BY <4>2
    <3>5. s.retained + Len(round.entries[t].queue)
            = round.retained + Len(s.entries[t].queue)
      <4> DEFINE A == Len(round.entries[t].queue)
                 B == Len(s.entries[t].queue)
      <4>1. s.retained = Less(round.retained, A - B)
        BY <3>1 DEF Shrunk
      <4>2. /\ A \in Nat /\ B \in Nat /\ round.retained \in Nat
            /\ A <= round.retained
        BY <3>3, <3>4
      <4> HIDE DEF A, B
      <4>3. s.retained = round.retained - (A - B)
        BY <4>1, <4>2 DEF Less
      <4>4. s.retained + A = round.retained + B
        BY <4>2, <4>3
      <4>5. QED
        BY <4>4 DEF A, B
    <3>6. round'.retained + Len(round.entries[t].queue)
            = round.retained + Len(round'.entries[t].queue)
      BY <3>2, <3>5
    <3>7. \A u \in Tenant \ {t} : round'.entries[u] = round.entries[u]
      BY <3>1, <3>2 DEF OnlyAt
    <3>8. QED
      BY <1>0, <1>2, <3>6, <3>7, RetainedMoved
  <2>3. Sparing'
    BY <1>0, <1>1 DEF Sparing
  <2>4. QED
    BY <2>1, <2>2, <2>3 DEF Balanced
<1>6. QED
  BY <1>4, <1>5

LEMMA NextBalanced ==
    ASSUME IsFiniteSet(Tenant)
    PROVE  IInv /\ Balanced /\ [Next]_vars => Balanced'
<1> SUFFICES ASSUME IInv, Balanced, [Next]_vars PROVE Balanced'
  OBVIOUS
<1>1. ASSUME NEW t \in Tenant, AdmitNow(t) \/ TryAdmit(t) PROVE Balanced'
  BY <1>1, EnterBalanced
<1>2. ASSUME NEW t \in Tenant, AdmitQueued(t) PROVE Balanced'
  BY <1>2, AdmitQueuedBalanced
<1>3. ASSUME NEW t \in Tenant, Release(t) PROVE Balanced'
  BY <1>3, ReleaseBalanced
<1>4. CASE PumpStops \/ PumpIdles
  BY <1>4, PumpEndsBalanced
<1>5. CASE PumpRetires
  BY <1>5, PumpRetiresBalanced
<1>6. CASE PumpGrants
  BY <1>6, PumpGrantsBalanced
<1>7. CASE Deliver
  BY <1>7, DeliverBalanced
<1>8. CASE DeliverRefused
  BY <1>8, DeliverRefusedBalanced
<1>9. ASSUME NEW w \in Waiter, Collect(w) PROVE Balanced'
  BY <1>9, CollectBalanced
<1>10. ASSUME NEW w \in Waiter, Leave(w) PROVE Balanced'
  BY <1>10, LeaveBalanced
<1>11. ASSUME NEW w \in Waiter, ReportAbandoned(w) PROVE Balanced'
  BY <1>11, ReportAbandonedBalanced
<1>12. CASE UNCHANGED vars
  <2>1. UNCHANGED <<pool, held, pump, round>> /\ UNCHANGED slot
    BY <1>12 DEF vars
  <2>2. \A u \in Tenant : Handed(u)' = Handed(u)
    BY <2>1 DEF Handed
  <2>3. QED
    BY <2>1, <2>2, StayBalanced
<1>13. QED
  BY <1>1, <1>2, <1>3, <1>4, <1>5, <1>6, <1>7, <1>8, <1>9, <1>10, <1>11,
     <1>12 DEF Next, Pumping

(* Whatever number of tenants is ever named, none of the supervisor's      *)
(* permits is lost or made, and the total that bounds the waiting is what  *)
(* the queues hold.                                                        *)
THEOREM EveryPermitIsSomewhere ==
    ASSUME IsFiniteSet(Tenant) PROVE Spec => []AccountsBalance
<1>1. Init => Balanced
  BY InitBalanced
<1>2. IInv /\ Balanced /\ [Next]_vars => Balanced'
  BY NextBalanced
<1>3. Balanced => AccountsBalance
  BY DEF Balanced, PermitsBalance, RetainedBalances, Spare, AccountsBalance
<1>4. QED
  BY <1>1, <1>2, <1>3, SpecIInv, PTL DEF Spec

-----------------------------------------------------------------------------
(* The order of the ring: what may be granted before a tenant's turn.      *)

(* A turn is open while it has a permit left to grant, and only then.      *)
TurnSound(e) == IF e.turnOpen THEN e.deficit >= 1 ELSE e.deficit = 0

TurnsOf(r) == \A t \in Tenant : TurnSound(r.entries[t])

SameTurn(e, f) == f.deficit = e.deficit /\ f.turnOpen = e.turnOpen

(* Nobody on the ring changes places, and nobody's turn changes.           *)
InOrder(r, s) ==
    /\ TurnsOf(s)
    /\ \A t \in Tenant : Member(r, t) =>
           Before(s, t) = Before(r, t) /\ SameTurn(r.entries[t], s.entries[t])

(* The front leaves the others behind it as they were.                     *)
FrontGone(r, s) ==
    \A t \in Tenant \ {Head(r.ring)} : Member(r, t) =>
        /\ Head(r.ring) \in Before(r, t)
        /\ Before(s, t) = Before(r, t) \ {Head(r.ring)}

(* The front stays, and its turn has a permit less to grant.               *)
FrontSpends(r, s) ==
    /\ s.ring = r.ring
    /\ TurnLeft(s, Head(r.ring)) < TurnLeft(r, Head(r.ring))

LEMMA BeforeFinite ==
    ASSUME NEW r, Sound(r), NEW t
    PROVE  IsFiniteSet(Before(r, t)) /\ Before(r, t) \subseteq Tenant
<1>1. r.ring \in Seq(Tenant) /\ Len(r.ring) \in Nat
  BY DEF Sound, Round
<1> DEFINE S == {r.ring[i] : i \in 1..Len(r.ring)}
<1>2. IsFiniteSet(1..Len(r.ring))
  BY <1>1, FS_Interval
<1>3. IsFiniteSet(S)
  <2> DEFINE f == [i \in 1..Len(r.ring) |-> r.ring[i]]
  <2>1. f \in Surjection(1..Len(r.ring), S)
    BY DEF Surjection
  <2> HIDE DEF f, S
  <2>2. QED
    BY <1>2, <2>1, FS_Surjection
<1>4. Before(r, t) \subseteq S
  BY DEF Before
<1> HIDE DEF S
<1>5. IsFiniteSet(Before(r, t))
  BY <1>3, <1>4, FS_Subset
<1>6. QED
  BY <1>5 DEF Before

LEMMA TurnLeftType ==
    ASSUME NEW r, Sound(r), NEW t \in Tenant PROVE TurnLeft(r, t) \in Nat
<1>1. r.entries[t].deficit \in Nat
  BY DEF Sound, Round, Entry
<1>2. Weight[t] \in Nat
  BY PolicyAssumption
<1>3. QED
  BY <1>1, <1>2 DEF TurnLeft

LEMMA AheadTerms ==
    ASSUME NEW r, Sound(r), NEW t
    PROVE  [u \in Before(r, t) |-> TurnLeft(r, u)] \in [Before(r, t) -> Nat]
  BY BeforeFinite, TurnLeftType

(* A sum of natural numbers is one, and taking a summand out lowers it by  *)
(* as much.                                                                *)
LEMMA SumType ==
    ASSUME NEW D, IsFiniteSet(D), NEW f \in [D -> Nat]
    PROVE  SumFunction(f) \in Nat
<1>1. PICK F : SumsUp(f, D, F) /\ SumFunction(f) = F[D]
  BY SumExists, SumIsFold
<1>2. \A s \in SUBSET D : F[s] \in Nat
  BY <1>1, SumTakes
<1>3. D \in SUBSET D
  OBVIOUS
<1>4. QED
  BY <1>1, <1>2, <1>3

LEMMA SumDrops ==
    ASSUME NEW D, IsFiniteSet(D), NEW f \in [D -> Nat], NEW x \in D,
           NEW g \in [D \ {x} -> Nat], \A y \in D \ {x} : g[y] = f[y]
    PROVE  SumFunction(f) = f[x] + SumFunction(g)
<1> DEFINE C == D \ {x}
<1>0. IsFiniteSet(C) /\ g \in [C -> Nat] /\ C \in SUBSET C
  BY FS_Subset
<1>1. PICK F : SumsUp(f, D, F) /\ SumFunction(f) = f[x] + F[D \ {x}]
  BY SumSplits
<1>2. PICK G : SumsUp(g, C, G) /\ SumFunction(g) = G[C]
  <2> HIDE DEF C
  <2>1. QED
    BY <1>0, SumExists, SumIsFold
<1> DEFINE H == [s \in SUBSET C |-> F[s]]
<1>3. SumsUp(g, C, H)
  <2>1. ASSUME NEW s \in SUBSET C PROVE F[s] = Folded(g, H, s)
    <3>1. F[s] = Folded(f, F, s)
      <4>1. s \in SUBSET D
        OBVIOUS
      <4>2. QED
        BY <1>1, <4>1 DEF SumsUp
    <3>2. CASE s = {}
      BY <3>1, <3>2 DEF Folded
    <3>3. CASE s # {}
      <4>1. First(s) \in s
        BY <3>3, FirstIsIn
      <4>2. g[First(s)] = f[First(s)] /\ s \ {First(s)} \in SUBSET C
        BY <4>1
      <4>3. H[s \ {First(s)}] = F[s \ {First(s)}]
        BY <4>2
      <4> HIDE DEF H, C
      <4>4. QED
        BY <3>1, <3>3, <4>2, <4>3 DEF Folded
    <3>4. QED
      BY <3>2, <3>3
  <2>2. H = [s \in SUBSET C |-> Folded(g, H, s)]
    <3> DEFINE P(s) == Folded(g, H, s)
    <3>1. \A s \in SUBSET C : F[s] = P(s)
      BY <2>1
    <3>2. H = [s \in SUBSET C |-> P(s)]
      <4> HIDE DEF P
      <4>1. QED
        BY <3>1
    <3>3. QED
      BY <3>2
  <2> HIDE DEF H, C
  <2>3. QED
    BY <2>2 DEF SumsUp
<1>4. G[C] = F[C]
  <2>1. H[C] = F[C]
    BY <1>0
  <2> HIDE DEF H, C
  <2>2. \A s \in SUBSET C : (\A y \in s : g[y] = g[y]) => G[s] = H[s]
    BY <1>0, <1>2, <1>3, SumsAgree
  <2>3. QED
    BY <1>0, <2>1, <2>2
<1>5. QED
  BY <1>1, <1>2, <1>4

LEMMA AheadType ==
    ASSUME NEW r, Sound(r), NEW t PROVE Ahead(r, t) \in Nat
  BY BeforeFinite, AheadTerms, SumType DEF Ahead

LEMMA AheadKept ==
    ASSUME NEW r, Sound(r), NEW s, InOrder(r, s), NEW t \in Tenant, Member(r, t)
    PROVE  Ahead(s, t) = Ahead(r, t)
<1>1. Before(s, t) = Before(r, t)
  BY DEF InOrder
<1>2. \A u \in Before(r, t) : TurnLeft(s, u) = TurnLeft(r, u)
  <2> SUFFICES ASSUME NEW u \in Before(r, t)
               PROVE  TurnLeft(s, u) = TurnLeft(r, u)
    OBVIOUS
  <2>1. u \in Tenant /\ Member(r, u)
    BY DEF Before, Member
  <2>2. SameTurn(r.entries[u], s.entries[u])
    BY <2>1 DEF InOrder
  <2>3. QED
    BY <2>2 DEF TurnLeft, SameTurn
<1>3. [u \in Before(s, t) |-> TurnLeft(s, u)]
         = [u \in Before(r, t) |-> TurnLeft(r, u)]
  BY <1>1, <1>2
<1>4. QED
  BY <1>3 DEF Ahead

LEMMA AheadDrops ==
    ASSUME NEW r, Sound(r), NEW s, Sound(s), NEW h \in Tenant,
           OnlyAt(r, s, h), NEW t,
           h \in Before(r, t), Before(s, t) = Before(r, t) \ {h}
    PROVE  Ahead(r, t) = TurnLeft(r, h) + Ahead(s, t)
<1> DEFINE D == Before(r, t)
           f == [u \in Before(r, t) |-> TurnLeft(r, u)]
           g == [u \in Before(s, t) |-> TurnLeft(s, u)]
<1>1. IsFiniteSet(D) /\ D \subseteq Tenant
  BY BeforeFinite
<1>2. f \in [D -> Nat] /\ g \in [D \ {h} -> Nat] /\ f[h] = TurnLeft(r, h)
  BY AheadTerms
<1>3. \A y \in D \ {h} : g[y] = f[y]
  <2> SUFFICES ASSUME NEW y \in D \ {h} PROVE TurnLeft(s, y) = TurnLeft(r, y)
    OBVIOUS
  <2>1. s.entries[y] = r.entries[y]
    BY <1>1 DEF OnlyAt
  <2>2. QED
    BY <2>1 DEF TurnLeft
<1>4. SumFunction(f) = f[h] + SumFunction(g)
  <2> HIDE DEF D, f, g
  <2>1. h \in D
    BY DEF D
  <2>2. QED
    BY <1>1, <1>2, <1>3, <2>1, SumDrops
<1>5. QED
  BY <1>2, <1>4 DEF Ahead

LEMMA AheadSpent ==
    ASSUME NEW r, Sound(r), NEW s, Sound(s), NEW h \in Tenant,
           OnlyAt(r, s, h), NEW t,
           h \in Before(r, t), s.ring = r.ring
    PROVE  Ahead(s, t) + TurnLeft(r, h) = Ahead(r, t) + TurnLeft(s, h)
<1> DEFINE D == Before(r, t)
           f == [u \in Before(r, t) |-> TurnLeft(r, u)]
           g == [u \in Before(s, t) |-> TurnLeft(s, u)]
<1>0. Before(s, t) = D
  BY DEF Before
<1>1. IsFiniteSet(D) /\ D \subseteq Tenant
  BY BeforeFinite
<1>2. /\ f \in [D -> Nat] /\ g \in [D -> Nat]
      /\ f[h] = TurnLeft(r, h) /\ g[h] = TurnLeft(s, h)
  BY <1>0, AheadTerms
<1>3. \A y \in D \ {h} : g[y] = f[y]
  <2> SUFFICES ASSUME NEW y \in D \ {h} PROVE TurnLeft(s, y) = TurnLeft(r, y)
    BY <1>0
  <2>1. s.entries[y] = r.entries[y]
    BY <1>1 DEF OnlyAt
  <2>2. QED
    BY <2>1 DEF TurnLeft
<1>4. SumFunction(g) + f[h] = SumFunction(f) + g[h]
  <2> HIDE DEF D, f, g
  <2>1. h \in D
    BY DEF D
  <2>2. QED
    BY <1>1, <1>2, <1>3, <2>1, SumMoves
<1>5. QED
  BY <1>2, <1>4 DEF Ahead

(* The ring, as it grows at its back and loses its front. *)
LEMMA BeforeAppended ==
    ASSUME NEW r, NEW s, r.ring \in Seq(Tenant), NEW t \in Tenant,
           Member(r, t), NEW u \in Tenant, ~Member(r, u),
           s.ring = Append(r.ring, u)
    PROVE  Before(s, t) = Before(r, t)
<1>1. /\ Len(r.ring) \in Nat /\ Len(s.ring) = Len(r.ring) + 1
      /\ \A i \in 1..Len(r.ring) : s.ring[i] = r.ring[i]
      /\ s.ring[Len(r.ring) + 1] = u
  OBVIOUS
<1>2. t # u
  OBVIOUS
<1>3. ASSUME NEW i \in 1..Len(s.ring), NEW j \in 1..Len(s.ring),
             i < j, s.ring[j] = t
      PROVE  /\ i \in 1..Len(r.ring) /\ j \in 1..Len(r.ring)
             /\ s.ring[i] = r.ring[i] /\ s.ring[j] = r.ring[j]
  <2>1. j # Len(r.ring) + 1
    BY <1>1, <1>2, <1>3
  <2>2. i \in 1..Len(r.ring) /\ j \in 1..Len(r.ring)
    BY <1>1, <1>3, <2>1
  <2>3. QED
    BY <1>1, <2>2
<1>4. 1..Len(r.ring) \subseteq 1..Len(s.ring)
  BY <1>1
<1>5. ASSUME NEW v \in Tenant PROVE v \in Before(s, t) <=> v \in Before(r, t)
  <2>1. ASSUME v \in Before(s, t) PROVE v \in Before(r, t)
    <3>1. PICK i \in 1..Len(s.ring), j \in 1..Len(s.ring) :
              i < j /\ s.ring[i] = v /\ s.ring[j] = t
      BY <2>1 DEF Before
    <3>2. QED
      BY <1>3, <3>1 DEF Before
  <2>2. ASSUME v \in Before(r, t) PROVE v \in Before(s, t)
    <3>1. PICK i \in 1..Len(r.ring), j \in 1..Len(r.ring) :
              i < j /\ r.ring[i] = v /\ r.ring[j] = t
      BY <2>2 DEF Before
    <3>2. QED
      BY <1>1, <1>4, <3>1 DEF Before
  <2>3. QED
    BY <2>1, <2>2
<1>6. QED
  BY <1>5 DEF Before

LEMMA BeforeTail ==
    ASSUME NEW r, NEW s, r.ring \in Seq(Tenant), r.ring # <<>>,
           Distinct(r.ring), s.ring = Tail(r.ring)
    PROVE  FrontGone(r, s)
<1> DEFINE h == Head(r.ring)
<1>1. /\ h \in Tenant /\ h = r.ring[1]
      /\ Len(r.ring) \in Nat \ {0} /\ Len(s.ring) = Len(r.ring) - 1
      /\ \A i \in 1..Len(s.ring) : s.ring[i] = r.ring[i + 1]
  OBVIOUS
<1>2. \A i, j \in 1..Len(r.ring) : r.ring[i] = r.ring[j] => i = j
  BY DEF Distinct
<1> HIDE DEF h
<1> SUFFICES ASSUME NEW t \in Tenant \ {h}, Member(r, t)
             PROVE  h \in Before(r, t) /\ Before(s, t) = Before(r, t) \ {h}
  BY DEF FrontGone, h
<1>3. h \in Before(r, t)
  <2>1. PICK j \in 1..Len(r.ring) : r.ring[j] = t
    BY DEF Member
  <2>2. 1 < j /\ 1 \in 1..Len(r.ring)
    BY <1>1, <2>1
  <2>3. QED
    BY <1>1, <2>1, <2>2 DEF Before
<1>4. ASSUME NEW v \in Tenant
      PROVE  v \in Before(s, t) <=> v \in Before(r, t) /\ v # h
  <2>1. ASSUME v \in Before(s, t) PROVE v \in Before(r, t) /\ v # h
    <3>1. PICK i \in 1..Len(s.ring), j \in 1..Len(s.ring) :
              i < j /\ s.ring[i] = v /\ s.ring[j] = t
      BY <2>1 DEF Before
    <3>2. /\ i + 1 \in 1..Len(r.ring) /\ j + 1 \in 1..Len(r.ring)
          /\ i + 1 < j + 1 /\ i + 1 # 1
      BY <1>1, <3>1
    <3>3. r.ring[i + 1] = v /\ r.ring[j + 1] = t
      BY <1>1, <3>1
    <3>4. v # h
      BY <1>1, <1>2, <3>2, <3>3
    <3>5. QED
      BY <3>2, <3>3, <3>4 DEF Before
  <2>2. ASSUME v \in Before(r, t), v # h PROVE v \in Before(s, t)
    <3>1. PICK i \in 1..Len(r.ring), j \in 1..Len(r.ring) :
              i < j /\ r.ring[i] = v /\ r.ring[j] = t
      BY <2>2 DEF Before
    <3>2. i # 1
      BY <1>1, <2>2, <3>1
    <3>3. /\ i - 1 \in 1..Len(s.ring) /\ j - 1 \in 1..Len(s.ring)
          /\ i - 1 < j - 1
      BY <1>1, <3>1, <3>2
    <3>4. s.ring[i - 1] = v /\ s.ring[j - 1] = t
      BY <1>1, <3>1, <3>3
    <3>5. QED
      BY <3>3, <3>4 DEF Before
  <2>3. QED
    BY <2>1, <2>2
<1>5. QED
  BY <1>3, <1>4 DEF Before

LEMMA BeforeRotated ==
    ASSUME NEW r, NEW s, r.ring \in Seq(Tenant), r.ring # <<>>,
           Distinct(r.ring), s.ring = Append(Tail(r.ring), Head(r.ring))
    PROVE  FrontGone(r, s)
<1> DEFINE m == [ring |-> Tail(r.ring)]
           h == Head(r.ring)
<1>1. m.ring = Tail(r.ring) /\ m.ring \in Seq(Tenant) /\ h \in Tenant
  OBVIOUS
<1>2. FrontGone(r, m)
  <2> HIDE DEF m
  <2>1. QED
    BY <1>1, BeforeTail
<1>3. /\ Len(r.ring) \in Nat \ {0} /\ Len(m.ring) = Len(r.ring) - 1
      /\ \A i \in 1..Len(m.ring) : m.ring[i] = r.ring[i + 1]
      /\ r.ring[1] = h
  OBVIOUS
<1> HIDE DEF m
<1>4. ~Member(m, h)
  <2>1. ASSUME NEW i \in 1..Len(m.ring), m.ring[i] = h PROVE FALSE
    <3>1. i + 1 \in 1..Len(r.ring) /\ 1 \in 1..Len(r.ring) /\ i + 1 # 1
      BY <1>3
    <3>2. r.ring[i + 1] = r.ring[1]
      BY <1>3, <2>1
    <3> HIDE DEF h
    <3>3. QED
      BY <3>1, <3>2 DEF Distinct
  <2>2. QED
    BY <2>1 DEF Member
<1>5. ASSUME NEW t \in Tenant \ {h}, Member(r, t) PROVE Member(m, t)
  <2>1. PICK j \in 1..Len(r.ring) : r.ring[j] = t
    BY <1>5 DEF Member
  <2>2. j # 1
    BY <1>3, <2>1
  <2>3. j - 1 \in 1..Len(m.ring) /\ m.ring[j - 1] = t
    BY <1>3, <2>1, <2>2
  <2>4. QED
    BY <2>3 DEF Member
<1>6. ASSUME NEW t \in Tenant \ {h}, Member(r, t)
      PROVE  h \in Before(r, t) /\ Before(s, t) = Before(r, t) \ {h}
  <2>1. Before(s, t) = Before(m, t)
    <3> HIDE DEF h
    <3>1. s.ring = Append(m.ring, h)
      BY <1>1 DEF h
    <3>2. Member(m, t) /\ t \in Tenant
      BY <1>5, <1>6
    <3>3. QED
      BY <1>1, <1>4, <3>1, <3>2, BeforeAppended
  <2>2. QED
    BY <1>2, <1>6, <2>1 DEF FrontGone
<1>7. QED
  BY <1>6 DEF FrontGone

(* One entry of the round, and the round with that entry. *)
LEMMA KeptTurn ==
    ASSUME NEW e \in Entry, TurnSound(e)
    PROVE  TurnSound(Kept(e)) /\ (e.onRing => SameTurn(e, Kept(e)))
<1>1. TurnSound(Absent)
  BY DEF TurnSound, Absent
<1>2. QED
  BY <1>1 DEF Kept, IsIdle, SameTurn

LEMMA SameTurnSound ==
    ASSUME NEW e, NEW f, SameTurn(e, f), TurnSound(e) PROVE TurnSound(f)
  BY DEF SameTurn, TurnSound

LEMMA EntryOrder ==
    ASSUME NEW r, TurnsOf(r), NEW s, NEW t \in Tenant, OnlyAt(r, s, t),
           s.ring = r.ring, TurnSound(s.entries[t]),
           Member(r, t) => SameTurn(r.entries[t], s.entries[t])
    PROVE  InOrder(r, s)
<1>1. TurnsOf(s)
  BY DEF TurnsOf, OnlyAt
<1>2. \A u : Before(s, u) = Before(r, u)
  BY DEF Before
<1>3. \A u \in Tenant : Member(r, u) => SameTurn(r.entries[u], s.entries[u])
  <2> SUFFICES ASSUME NEW u \in Tenant, Member(r, u)
               PROVE  SameTurn(r.entries[u], s.entries[u])
    OBVIOUS
  <2>1. CASE u = t
    BY <2>1
  <2>2. CASE u # t
    <3>1. s.entries[u] = r.entries[u]
      BY <2>2 DEF OnlyAt
    <3>2. QED
      BY <3>1 DEF SameTurn
  <2>3. QED
    BY <2>1, <2>2
<1>4. QED
  BY <1>1, <1>2, <1>3 DEF InOrder

LEMMA EnterOrder ==
    ASSUME NEW r, Sound(r), TurnsOf(r), NEW t \in Tenant
    PROVE  InOrder(r, EnterNow(r, t))
<1> DEFINE e == r.entries[t]
           f == Charged(e)
           s == EnterNow(r, t)
<1>1. e \in Entry /\ r \in Round /\ TurnSound(e)
  BY EntryFields DEF Sound, TurnsOf
<1>2. f \in Entry /\ SameTurn(e, f)
  <2>1. f \in Entry
    BY <1>1, ChargedFields
  <2>2. SameTurn(e, f)
    BY <1>1 DEF Charged, SameTurn, Entry
  <2>3. QED
    BY <2>1, <2>2
<1>3. TurnSound(f)
  <2> HIDE DEF e, f
  <2>1. QED
    BY <1>1, <1>2, SameTurnSound
<1>4. s.entries[t] = f /\ s.ring = r.ring /\ OnlyAt(r, s, t)
  <2>1. s = WithEntry(r, t, f)
    BY DEF EnterNow
  <2> HIDE DEF f, s
  <2>2. QED
    BY <1>1, <1>2, <2>1 DEF WithEntry, OnlyAt, Round
<1>5. QED
  <2> HIDE DEF f, s
  <2>1. InOrder(r, s)
    BY <1>2, <1>3, <1>4, EntryOrder
  <2>2. QED
    BY <2>1 DEF s

LEMMA ArmedOrder ==
    ASSUME NEW r, Sound(r), TurnsOf(r), NEW t \in Tenant, NEW e \in Entry,
           e.onRing <=> Member(r, t), SameTurn(r.entries[t], e)
    PROVE  InOrder(r, Armed(r, t, e))
<1> DEFINE s == Armed(r, t, e)
<1>0. r \in Round /\ r.ring \in Seq(Tenant) /\ TurnSound(r.entries[t])
  BY DEF Sound, Round, TurnsOf
<1>1. TurnSound(e)
  BY <1>0, SameTurnSound
<1>2. CASE e.queue # <<>> /\ ~e.onRing /\ UnderCeiling(e)
  <2> DEFINE f == [e EXCEPT !.onRing = TRUE]
             v == [ring |-> r.ring, entries |-> s.entries]
  <2>1. f \in Entry /\ SameTurn(e, f)
    BY DEF Entry, SameTurn
  <2>2. s = [WithEntry(r, t, f) EXCEPT !.ring = Append(@, t)]
    BY <1>2 DEF Armed
  <2>3. /\ s.ring = Append(r.ring, t) /\ s.entries[t] = f
        /\ \A u \in Tenant \ {t} : s.entries[u] = r.entries[u]
    <3> HIDE DEF f, s
    <3>1. QED
      BY <1>0, <2>1, <2>2 DEF WithEntry, Round
  <2>4. TurnSound(f)
    <3> HIDE DEF f
    <3>1. QED
      BY <1>1, <2>1, SameTurnSound
  <2>5. InOrder(r, v)
    <3>1. v.ring = r.ring /\ v.entries = s.entries
      OBVIOUS
    <3>2. ~Member(r, t)
      BY <1>2
    <3> HIDE DEF v, s, f
    <3>3. QED
      BY <2>3, <2>4, <3>1, <3>2, EntryOrder DEF OnlyAt
  <2>6. ASSUME NEW u \in Tenant, Member(r, u)
        PROVE  Before(s, u) = Before(r, u)
    <3> HIDE DEF s
    <3>1. QED
      BY <1>0, <1>2, <2>3, <2>6, BeforeAppended
  <2>7. v.entries = s.entries
    OBVIOUS
  <2>8. QED
    <3> HIDE DEF v, s
    <3>1. InOrder(r, s)
      BY <2>5, <2>6, <2>7 DEF InOrder, TurnsOf
    <3>2. QED
      BY <3>1 DEF s
<1>3. CASE ~(e.queue # <<>> /\ ~e.onRing /\ UnderCeiling(e))
  <2> DEFINE f == Kept(e)
  <2>1. s = WithEntry(r, t, f)
    BY <1>3 DEF Armed
  <2>2. TurnSound(f) /\ (e.onRing => SameTurn(e, f)) /\ f \in Entry
    BY <1>1, KeptTurn, AbsentIsEntry DEF Kept
  <2> HIDE DEF f, s
  <2>3. s.ring = r.ring /\ s.entries[t] = f /\ OnlyAt(r, s, t)
    BY <1>0, <2>1, <2>2 DEF WithEntry, Round, OnlyAt
  <2>4. Member(r, t) => SameTurn(r.entries[t], f)
    BY <2>2 DEF SameTurn
  <2>5. InOrder(r, s)
    BY <2>2, <2>3, <2>4, EntryOrder
  <2>6. QED
    BY <2>5 DEF s
<1>4. QED
  BY <1>2, <1>3

LEMMA EnqueuedOrder ==
    ASSUME NEW r, Sound(r), TurnsOf(r), NEW t \in Tenant, NEW w \in Waiter
    PROVE  InOrder(r, Enqueued(r, t, w))
<1> DEFINE o == r.entries[t]
           q == Append(o.queue, w)
           e == [o EXCEPT !.known = TRUE, !.queue = q]
           s == Armed(r, t, e)
<1>0. o \in Entry /\ (o.onRing <=> Member(r, t)) /\ q \in Seq(Waiter)
  <2>1. o \in Entry /\ (o.onRing <=> Member(r, t)) /\ o.queue \in Seq(Waiter)
    BY EntryFields
  <2> HIDE DEF o
  <2>2. QED
    BY <2>1
<1>1. e \in Entry /\ e.onRing = o.onRing
  <2> HIDE DEF o, q
  <2>1. QED
    BY <1>0, WithQueue
<1>2. SameTurn(o, e)
  <2> HIDE DEF o, q
  <2>1. QED
    BY <1>0 DEF Entry, SameTurn
<1>3. InOrder(r, s)
  <2> HIDE DEF e
  <2>1. QED
    BY <1>0, <1>1, <1>2, ArmedOrder
<1>4. Enqueued(r, t, w) = [s EXCEPT !.retained = @ + 1]
  BY DEF Enqueued
<1> HIDE DEF s
<1>5. /\ Enqueued(r, t, w).ring = s.ring
      /\ Enqueued(r, t, w).entries = s.entries
  BY <1>4
<1>6. QED
  BY <1>3, <1>5 DEF InOrder, TurnsOf, Before

LEMMA SameInOrder ==
    ASSUME NEW r, TurnsOf(r), NEW s, s.entries = r.entries, s.ring = r.ring
    PROVE  InOrder(r, s)
  BY DEF InOrder, TurnsOf, SameTurn, Before

LEMMA ReleasedOrder ==
    ASSUME NEW r, Sound(r), TurnsOf(r), NEW t \in Tenant
    PROVE  InOrder(r, Released(r, t))
<1> DEFINE o == r.entries[t]
           n == Less(o.inFlight, 1)
           e == [o EXCEPT !.inFlight = n]
<1>0. o \in Entry /\ (o.onRing <=> Member(r, t)) /\ n \in Nat
  <2>1. o \in Entry /\ (o.onRing <=> Member(r, t)) /\ o.inFlight \in Nat
    BY EntryFields
  <2> HIDE DEF o
  <2>2. QED
    BY <2>1 DEF Less
<1>1. e \in Entry /\ e.onRing = o.onRing /\ SameTurn(o, e)
  <2> HIDE DEF o, n
  <2>1. QED
    BY <1>0 DEF Entry, SameTurn
<1>2. CASE o.known
  <2>1. Released(r, t) = Armed(r, t, e)
    BY <1>2 DEF Released
  <2> HIDE DEF e
  <2>2. QED
    BY <1>0, <1>1, <2>1, ArmedOrder
<1>3. CASE ~o.known
  BY <1>3, SameInOrder DEF Released
<1>4. QED
  BY <1>2, <1>3

LEMMA AbandonedOrder ==
    ASSUME NEW r, Sound(r), TurnsOf(r), NEW t \in Tenant, NEW live
    PROVE  InOrder(r, Abandoned(r, t, live))
<1> DEFINE s == Abandoned(r, t, live)
           e == r.entries[t]
<1>0. e \in Entry /\ r \in Round /\ TurnSound(e)
  BY EntryFields DEF Sound, TurnsOf
<1>1. s.ring = r.ring /\ OnlyAt(r, s, t)
  BY AbandonedSound
<1>2. SameTurn(e, s.entries[t])
  <2>1. CASE s.entries[t] = e
    BY <2>1 DEF SameTurn
  <2>2. ASSUME NEW q, NEW n, s.entries[t] = [e EXCEPT !.queue = q,
                                                      !.abandoned = n]
        PROVE  SameTurn(e, s.entries[t])
    <3> HIDE DEF s, e
    <3>1. QED
      BY <1>0, <2>2 DEF SameTurn, Entry
  <2>3. ASSUME NEW n, s.entries[t] = [e EXCEPT !.abandoned = n]
        PROVE  SameTurn(e, s.entries[t])
    <3> HIDE DEF s, e
    <3>1. QED
      BY <1>0, <2>3 DEF SameTurn, Entry
  <2>4. \/ s.entries[t] = e
        \/ \E q, n : s.entries[t] = [e EXCEPT !.queue = q, !.abandoned = n]
        \/ \E n : s.entries[t] = [e EXCEPT !.abandoned = n]
    <3>1. \A f : /\ WithEntry(r, t, f).entries[t] = f
                 /\ \A n : Uncounted(WithEntry(r, t, f), n).entries[t] = f
      <4> HIDE DEF e
      <4>1. QED
        BY <1>0 DEF WithEntry, Uncounted, Round
    <3> DEFINE n == IF e.abandoned + 1 < Len(e.queue) THEN e.abandoned + 1
                                                      ELSE Len(e.queue)
               q == OwnedOnly(e.queue, live)
               f == [e EXCEPT !.queue = q, !.abandoned = 0]
               g == [e EXCEPT !.abandoned = n]
    <3>2. \/ s = r
          \/ \E k : s = Uncounted(WithEntry(r, t, f), k)
          \/ s = WithEntry(r, t, g)
      <4> HIDE DEF f, g
      <4>1. QED
        BY DEF Abandoned, f, g
    <3>3. s.entries[t] = e \/ s.entries[t] = f \/ s.entries[t] = g
      <4>1. s = r => s.entries[t] = e
        OBVIOUS
      <4> HIDE DEF f, g, s, e
      <4>2. QED
        BY <3>1, <3>2, <4>1
    <3> HIDE DEF n, q, s, e
    <3>4. QED
      BY <3>3
  <2>5. QED
    BY <2>1, <2>2, <2>3, <2>4
<1>3. TurnSound(s.entries[t])
  <2> HIDE DEF e, s
  <2>1. QED
    BY <1>0, <1>2, SameTurnSound
<1>4. QED
  <2> HIDE DEF s
  <2>1. InOrder(r, s)
    BY <1>1, <1>2, <1>3, EntryOrder
  <2>2. QED
    BY <2>1 DEF s

(* The front of the ring: off it, behind the others, or still in its turn. *)
LEMMA OffRingTurn ==
    ASSUME NEW e \in Entry PROVE TurnSound(OffRing(e))
<1> DEFINE f == [e EXCEPT !.onRing = FALSE, !.deficit = 0, !.turnOpen = FALSE]
<1>1. TurnSound(f)
  BY DEF TurnSound, Entry
<1>2. TurnSound(Absent)
  BY DEF TurnSound, Absent
<1>3. OffRing(e) = Kept(f)
  BY DEF OffRing
<1> HIDE DEF f
<1>4. QED
  BY <1>1, <1>2, <1>3 DEF Kept

LEMMA HeadOfRing ==
    ASSUME NEW r, Sound(r), r.ring # <<>>
    PROVE  /\ Head(r.ring) \in Tenant /\ Member(r, Head(r.ring))
           /\ r.ring \in Seq(Tenant) /\ Distinct(r.ring)
<1>1. r.ring \in Seq(Tenant) /\ Distinct(r.ring)
  BY DEF Sound, Round, Distinct
<1>2. /\ Head(r.ring) \in Tenant
      /\ Head(r.ring) = r.ring[1] /\ 1 \in 1..Len(r.ring)
  BY <1>1
<1>3. QED
  BY <1>1, <1>2 DEF Member

LEMMA RetiredOrder ==
    ASSUME NEW r, Sound(r), TurnsOf(r), r.ring # <<>>, NEW live,
           ~HasLive(r.entries[Head(r.ring)], live)
    PROVE  TurnsOf(Retired(r, live)) /\ FrontGone(r, Retired(r, live))
<1> DEFINE t == Head(r.ring)
           e == r.entries[t]
           f == OffRing(Skipped(e, live))
           s == Retired(r, live)
           v == [WithEntry(r, t, f) EXCEPT !.ring = Tail(@)]
<1>0. t \in Tenant /\ e \in Entry /\ r \in Round
  BY HeadOfRing, EntryFields DEF Sound
<1>1. TurnSound(f)
  <2>1. Skipped(e, live) \in Entry
    BY <1>0, SkippedFields
  <2>2. QED
    BY <2>1, OffRingTurn
<1>2. s = Uncounted(v, Len(e.queue))
  BY DEF Retired
<1> HIDE DEF f
<1>3. v.ring = Tail(r.ring) /\ v.entries[t] = f /\ OnlyAt(r, v, t)
  <2> HIDE DEF t
  <2>1. QED
    BY <1>0 DEF WithEntry, Round, OnlyAt
<1> HIDE DEF v, t, e
<1>4. s.ring = v.ring /\ s.entries = v.entries
  BY <1>2 DEF Uncounted
<1> HIDE DEF s
<1>5. TurnsOf(s)
  BY <1>1, <1>3, <1>4 DEF TurnsOf, OnlyAt
<1>6. FrontGone(r, s)
  BY <1>3, <1>4, HeadOfRing, BeforeTail
<1>7. QED
  BY <1>5, <1>6 DEF s

LEMMA ServedOrder ==
    ASSUME NEW r, Sound(r), TurnsOf(r), r.ring # <<>>, NEW live,
           HasLive(r.entries[Head(r.ring)], live)
    PROVE  /\ TurnsOf(Served(r, live))
           /\ \/ FrontGone(r, Served(r, live))
              \/ FrontSpends(r, Served(r, live))
<1> DEFINE t == Head(r.ring)
           o == r.entries[t]
           k == Skipped(o, live)
           n == DeadHeads(o.queue, live)
           d == IF k.turnOpen THEN k.deficit ELSE k.deficit + Weight[t]
           f == Turn(k, Less(d, 1))
           e == Charged(f)
           off == e.queue = <<>> \/ ~UnderCeiling(e)
           closed == off \/ e.deficit = 0
           z == IF off THEN OffRing(e) ELSE [e EXCEPT !.turnOpen = ~closed]
           v == [WithEntry(r, t, z) EXCEPT !.ring = Rotated(@, off, closed)]
           s == Served(r, live)
<1>0. t \in Tenant /\ o \in Entry /\ r \in Round /\ TurnSound(o)
  BY HeadOfRing, EntryFields DEF Sound, TurnsOf
<1>1. k \in Entry /\ k.queue # <<>> /\ SameTurn(o, k)
  <2> HIDE DEF o
  <2>1. k \in Entry
    BY <1>0, SkippedFields
  <2>2. k.queue # <<>>
    BY <1>0, SkippedQueue DEF o
  <2>3. SameTurn(o, k)
    BY <1>0 DEF Skipped, SameTurn, Entry
  <2>4. QED
    BY <2>1, <2>2, <2>3
<1>2. /\ d \in Nat /\ d >= 1 /\ d = TurnLeft(r, t)
  <2>1. Weight[t] \in Nat \ {0}
    BY <1>0, PolicyAssumption
  <2>2. /\ o.deficit \in Nat
        /\ IF o.turnOpen THEN o.deficit >= 1 ELSE o.deficit = 0
    BY <1>0 DEF Entry, TurnSound
  <2>3. d = IF o.turnOpen THEN o.deficit ELSE o.deficit + Weight[t]
    BY <1>1 DEF SameTurn
  <2>4. TurnLeft(r, t) = IF o.turnOpen THEN o.deficit ELSE Weight[t]
    BY DEF TurnLeft
  <2> HIDE DEF d, o, k, t
  <2>5. QED
    BY <2>1, <2>2, <2>3, <2>4
<1>3. Less(d, 1) = d - 1 /\ d - 1 \in Nat
  <2> HIDE DEF d
  <2>1. QED
    BY <1>2 DEF Less
<1>4. /\ f \in Entry /\ f.deficit = d - 1 /\ f.turnOpen
  <2> HIDE DEF k, d
  <2>1. f \in Entry
    BY <1>1, <1>3, TurnFields
  <2>2. f.deficit = d - 1 /\ f.turnOpen
    BY <1>1, <1>3 DEF Turn, Entry
  <2>3. QED
    BY <2>1, <2>2
<1>5. e \in Entry /\ e.deficit = d - 1
  <2> HIDE DEF f, d
  <2>1. QED
    BY <1>4, ChargedFields
<1>6. /\ TurnSound(z)
      /\ ~closed => z.turnOpen /\ z.deficit = d - 1
  <2>1. CASE off
    <3> HIDE DEF e
    <3>1. TurnSound(OffRing(e))
      BY <1>5, OffRingTurn
    <3>2. z = OffRing(e) /\ closed
      BY <2>1
    <3> HIDE DEF z, closed
    <3>3. QED
      BY <3>1, <3>2
  <2>2. CASE ~off
    <3> HIDE DEF d, e
    <3>1. z = [e EXCEPT !.turnOpen = ~(e.deficit = 0)]
      BY <2>2
    <3>2. z.deficit = e.deficit /\ (z.turnOpen <=> e.deficit # 0)
      BY <1>5, <3>1 DEF Entry
    <3>3. closed <=> e.deficit = 0
      BY <2>2
    <3> HIDE DEF z, closed, off
    <3>4. QED
      BY <1>2, <1>5, <3>2, <3>3 DEF TurnSound
  <2>3. QED
    BY <2>1, <2>2
<1>7. s = Uncounted(v, n + 1)
  <2>1. e = Charged([k EXCEPT !.queue = Tail(@), !.deficit = Less(d, 1),
                              !.turnOpen = TRUE])
    BY DEF Turn
  <2>2. QED
    BY DEF Served, Turn
<1> HIDE DEF z, off, closed
<1>8. /\ v.ring = Rotated(r.ring, off, closed)
      /\ v.entries[t] = z /\ OnlyAt(r, v, t)
  <2> HIDE DEF t
  <2>1. QED
    BY <1>0 DEF WithEntry, Round, OnlyAt
<1> HIDE DEF v, n
<1>9. s.ring = v.ring /\ s.entries = v.entries
  BY <1>7 DEF Uncounted
<1> HIDE DEF s
<1>10. TurnsOf(s)
  <2> HIDE DEF t
  <2>1. QED
    BY <1>0, <1>6, <1>8, <1>9 DEF TurnsOf, OnlyAt
<1>11. CASE off
  <2>1. s.ring = Tail(r.ring)
    BY <1>8, <1>9, <1>11 DEF Rotated
  <2>2. FrontGone(r, s)
    BY <2>1, HeadOfRing, BeforeTail
  <2>3. QED
    BY <1>10, <2>2 DEF s
<1>12. CASE ~off /\ closed
  <2>1. s.ring = Append(Tail(r.ring), Head(r.ring))
    BY <1>8, <1>9, <1>12 DEF Rotated
  <2>2. FrontGone(r, s)
    BY <2>1, HeadOfRing, BeforeRotated
  <2>3. QED
    BY <1>10, <2>2 DEF s
<1>13. CASE ~off /\ ~closed
  <2>1. s.ring = r.ring
    BY <1>8, <1>9, <1>13 DEF Rotated
  <2>2. TurnLeft(s, t) < TurnLeft(r, t)
    <3>1. TurnLeft(s, t) = d - 1
      <4> HIDE DEF d, t
      <4>1. QED
        BY <1>6, <1>8, <1>9, <1>13 DEF TurnLeft
    <3> HIDE DEF d, t
    <3>2. QED
      BY <1>2, <3>1
  <2>3. FrontSpends(r, s)
    BY <2>1, <2>2 DEF FrontSpends
  <2>4. QED
    BY <1>10, <2>3 DEF s
<1>14. QED
  BY <1>11, <1>12, <1>13

(* The fourth invariant, and what a step of the shell may do to the ring.  *)
Turns == TurnsOf(round)

FrontServed(r, s) ==
    /\ r.ring # <<>>
    /\ TurnsOf(s)
    /\ OnlyAt(r, s, Head(r.ring))

LEMMA GrantMovesFront ==
    ASSUME IInv, Turns, PumpGrants
    PROVE  /\ FrontServed(round, round')
           /\ FrontGone(round, round') \/ FrontSpends(round, round')
<1>1. /\ Sound(round) /\ TurnsOf(round) /\ round.ring # <<>>
      /\ HasLive(round.entries[Head(round.ring)], Live)
      /\ round' = Served(round, Live)
  BY DEF IInv, Turns, PumpGrants
<1>2. ServesFront(round, round', Head(round.ring), Chosen(round, Live), Live)
  BY <1>1, ServedSound
<1>3. OnlyAt(round, round', Head(round.ring))
  BY <1>2 DEF ServesFront
<1>4. /\ TurnsOf(round')
      /\ FrontGone(round, round') \/ FrontSpends(round, round')
  BY <1>1, ServedOrder
<1>5. QED
  BY <1>1, <1>3, <1>4 DEF FrontServed

LEMMA RetireMovesFront ==
    ASSUME IInv, Turns, PumpRetires
    PROVE  FrontServed(round, round') /\ FrontGone(round, round')
<1>1. /\ Sound(round) /\ TurnsOf(round) /\ round.ring # <<>>
      /\ ~HasLive(round.entries[Head(round.ring)], Live)
      /\ round' = Retired(round, Live)
  BY DEF IInv, Turns, PumpRetires
<1>2. OnlyAt(round, round', Head(round.ring))
  BY <1>1, RetiredSound
<1>3. TurnsOf(round') /\ FrontGone(round, round')
  BY <1>1, RetiredOrder
<1>4. QED
  BY <1>1, <1>2, <1>3 DEF FrontServed

(* Every other step leaves the order of the ring and the turns alone.      *)
LEMMA OthersKeepOrder ==
    ASSUME IInv, Turns, [Next]_vars, ~PumpGrants, ~PumpRetires
    PROVE  InOrder(round, round')
<1>0. Sound(round) /\ TurnsOf(round)
  BY DEF IInv, Turns
<1>1. ASSUME NEW t \in Tenant, AdmitNow(t) \/ TryAdmit(t)
      PROVE  InOrder(round, round')
  <2>1. round' = EnterNow(round, t)
    BY <1>1 DEF AdmitNow, TryAdmit
  <2>2. QED
    BY <1>0, <2>1, EnterOrder
<1>2. ASSUME NEW t \in Tenant, AdmitQueued(t) PROVE InOrder(round, round')
  <2>1. FreeSlots # {} /\ round' = Enqueued(round, t, FreshSlot)
    BY <1>2 DEF AdmitQueued
  <2>2. FreshSlot \in Waiter
    BY <2>1, FreshSlotIsFree
  <2>3. QED
    BY <1>0, <2>1, <2>2, EnqueuedOrder
<1>3. ASSUME NEW t \in Tenant, Release(t) PROVE InOrder(round, round')
  <2>1. round' = Released(round, t)
    BY <1>3 DEF Release
  <2>2. QED
    BY <1>0, <2>1, ReleasedOrder
<1>4. CASE round' = round
  BY <1>0, <1>4, SameInOrder
<1>5. CASE PumpStops \/ PumpIdles \/ Deliver
  BY <1>4, <1>5 DEF PumpStops, PumpIdles, Deliver
<1>6. CASE DeliverRefused
  <2>1. slot[pump.to].tenant \in Tenant
    BY <1>6, SlotFields DEF IInv, DeliverRefused, DeliveryTo
  <2>2. round' = Released(round, slot[pump.to].tenant)
    BY <1>6 DEF DeliverRefused, SettledBack
  <2>3. QED
    BY <1>0, <2>1, <2>2, ReleasedOrder
<1>7. ASSUME NEW w \in Waiter, Collect(w) \/ Leave(w)
      PROVE  InOrder(round, round')
  BY <1>4, <1>7 DEF Collect, Leave
<1>8. ASSUME NEW w \in Waiter, ReportAbandoned(w)
      PROVE  InOrder(round, round')
  <2>1. CASE NeedsReport(w)
    <3>1. round' = Abandoned(round, slot[w].tenant, Live)
      BY <1>8, <2>1 DEF ReportAbandoned
    <3>2. slot[w].tenant \in Tenant
      BY <2>1, SlotFields DEF IInv, NeedsReport
    <3>3. QED
      BY <1>0, <3>1, <3>2, AbandonedOrder
  <2>2. CASE ~NeedsReport(w)
    BY <1>4, <1>8, <2>2 DEF ReportAbandoned
  <2>3. QED
    BY <2>1, <2>2
<1>9. CASE UNCHANGED vars
  BY <1>4, <1>9 DEF vars
<1>10. QED
  BY <1>1, <1>2, <1>3, <1>5, <1>6, <1>7, <1>8, <1>9 DEF Next, Pumping

LEMMA NextTurns == IInv /\ Turns /\ [Next]_vars => Turns'
<1> SUFFICES ASSUME IInv, Turns, [Next]_vars PROVE TurnsOf(round')
  BY DEF Turns
<1>1. CASE PumpGrants
  BY <1>1, GrantMovesFront DEF FrontServed
<1>2. CASE PumpRetires
  BY <1>2, RetireMovesFront DEF FrontServed
<1>3. CASE ~PumpGrants /\ ~PumpRetires
  BY <1>3, OthersKeepOrder DEF InOrder
<1>4. QED
  BY <1>1, <1>2, <1>3

LEMMA InitTurns == Init => Turns
<1>1. TurnSound(Absent)
  BY DEF TurnSound, Absent
<1>2. QED
  BY <1>1 DEF Init, Turns, TurnsOf, EmptyRound

(* What the front's step does to those behind it.                          *)
LEMMA FrontMoves ==
    ASSUME NEW r, Sound(r), NEW s, Sound(s), FrontServed(r, s),
           NEW t \in Tenant, Member(r, t), Head(r.ring) # t,
           TurnsOf(r), FrontGone(r, s) \/ FrontSpends(r, s)
    PROVE  /\ Ahead(s, t) \in Nat /\ Ahead(r, t) \in Nat
           /\ Ahead(s, t) < Ahead(r, t)
<1> DEFINE h == Head(r.ring)
<1>1. /\ h \in Tenant /\ OnlyAt(r, s, h)
      /\ r.ring \in Seq(Tenant) /\ Distinct(r.ring)
  BY HeadOfRing DEF FrontServed
<1>2. Ahead(s, t) \in Nat /\ Ahead(r, t) \in Nat
  BY AheadType
<1>3. TurnLeft(r, h) \in Nat /\ TurnLeft(s, h) \in Nat
  BY <1>1, TurnLeftType
<1>4. TurnLeft(r, h) >= 1
  <2>1. Weight[h] >= 1
    BY <1>1, PolicyAssumption
  <2> HIDE DEF h
  <2>2. QED
    BY <1>1, <2>1 DEF TurnsOf, TurnSound, TurnLeft
<1>5. FrontGone(r, s) => Ahead(r, t) = TurnLeft(r, h) + Ahead(s, t)
  <2> SUFFICES ASSUME FrontGone(r, s)
               PROVE  Ahead(r, t) = TurnLeft(r, h) + Ahead(s, t)
    OBVIOUS
  <2>1. h \in Before(r, t) /\ Before(s, t) = Before(r, t) \ {h}
    BY DEF FrontGone
  <2> HIDE DEF h
  <2>2. QED
    BY <1>1, <2>1, AheadDrops
<1>6. FrontSpends(r, s) =>
          /\ Ahead(s, t) + TurnLeft(r, h) = Ahead(r, t) + TurnLeft(s, h)
          /\ TurnLeft(s, h) < TurnLeft(r, h)
  <2> SUFFICES ASSUME FrontSpends(r, s)
               PROVE  /\ Ahead(s, t) + TurnLeft(r, h)
                            = Ahead(r, t) + TurnLeft(s, h)
                      /\ TurnLeft(s, h) < TurnLeft(r, h)
    OBVIOUS
  <2>1. s.ring = r.ring /\ TurnLeft(s, h) < TurnLeft(r, h)
    BY DEF FrontSpends
  <2>2. h \in Before(r, t)
    <3> DEFINE m == [ring |-> Tail(r.ring)]
    <3>1. m.ring = Tail(r.ring) /\ r.ring # <<>>
      BY DEF FrontServed
    <3> HIDE DEF m
    <3>2. FrontGone(r, m)
      BY <1>1, <3>1, BeforeTail
    <3>3. QED
      BY <3>2 DEF FrontGone
  <2> HIDE DEF h
  <2>3. QED
    BY <1>1, <2>1, <2>2, AheadSpent
<1> HIDE DEF h
<1>7. QED
  BY <1>2, <1>3, <1>4, <1>5, <1>6

(* A tenant waiting on the ring is never overtaken: the permits that may   *)
(* be granted to others before its turn never grow in number while it      *)
(* waits, and every grant to another tenant takes one of them away.        *)
THEOREM NobodyIsOvertaken == Spec => NoOvertaking
<1>1. ASSUME IInv, Turns, [Next]_vars, Sound(round'), NEW t \in Tenant,
             round.entries[t].onRing, Head(round.ring) # t
      PROVE  IF PumpGrants THEN Ahead(round', t) < Ahead(round, t)
                           ELSE Ahead(round', t) <= Ahead(round, t)
  <2>1. Sound(round) /\ TurnsOf(round) /\ Member(round, t)
    BY <1>1, EntryFields DEF IInv, Turns
  <2>2. CASE PumpGrants
    <3>1. /\ FrontServed(round, round')
          /\ FrontGone(round, round') \/ FrontSpends(round, round')
      BY <1>1, <2>2, GrantMovesFront
    <3>2. Ahead(round', t) < Ahead(round, t)
      BY <1>1, <2>1, <3>1, FrontMoves
    <3>3. QED
      BY <2>2, <3>2
  <2>3. CASE PumpRetires /\ ~PumpGrants
    <3>1. FrontServed(round, round') /\ FrontGone(round, round')
      BY <1>1, <2>3, RetireMovesFront
    <3>2. Ahead(round', t) <= Ahead(round, t)
      BY <1>1, <2>1, <3>1, FrontMoves
    <3>3. QED
      BY <2>3, <3>2
  <2>4. CASE ~PumpRetires /\ ~PumpGrants
    <3>1. InOrder(round, round')
      BY <1>1, <2>4, OthersKeepOrder
    <3>2. Ahead(round', t) = Ahead(round, t) /\ Ahead(round, t) \in Nat
      BY <2>1, <3>1, AheadKept, AheadType
    <3>3. QED
      BY <2>4, <3>2
  <2>5. QED
    BY <2>2, <2>3, <2>4
<1> DEFINE NotOvertaken == \A t \in Tenant :
          round.entries[t].onRing /\ round'.entries[t].onRing
              /\ Head(round.ring) # t
          => IF PumpGrants THEN Ahead(round', t) < Ahead(round, t)
                           ELSE Ahead(round', t) <= Ahead(round, t)
<1>2. IInv /\ IInv' /\ Turns /\ [Next]_vars => [NotOvertaken]_vars
  <2>1. IInv' => Sound(round')
    BY DEF IInv
  <2>2. QED
    BY <1>1, <2>1
<1>3. Spec => [][NotOvertaken]_vars
  <2>1. Spec => []IInv
    BY SpecIInv
  <2>2. Spec => []Turns
    <3>1. IInv /\ Turns /\ [Next]_vars => Turns'
      BY NextTurns
    <3>2. QED
      BY <3>1, <2>1, InitTurns, PTL DEF Spec
  <2> HIDE DEF NotOvertaken
  <2>3. QED
    BY <1>2, <2>1, <2>2, PTL DEF Spec
<1>4. QED
  BY <1>3 DEF NoOvertaking
=============================================================================
