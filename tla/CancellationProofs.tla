------------------------- MODULE CancellationProofs -------------------------
(***************************************************************************)
(* The tree of cancellation tokens, proved for every tree and every set of *)
(* threads: what is allocated is what is needed, a wait never sleeps past  *)
(* a cancel that could have woken it, and a question sees what came first. *)
(***************************************************************************)
EXTENDS CancellationToken, Extremes

(* What a strong reference can be: a thread's handle, the link of a child, *)
(* or a link taken out of a freed node and about to be consumed.           *)
Ref == ({"handle"} \X Thread) \cup ({"child"} \X Node) \cup ({"release"} \X Thread)

RefersTo(r, n) ==
    \/ r[1] = "handle" /\ n \in holds[r[2]]
    \/ r[1] = "child" /\ r[2] \in born \ freed /\ Parent[r[2]] = n
    \/ r[1] = "release" /\ op[r[2]].at = "unlink" /\ op[r[2]].node = n

Refs(n) == {r \in Ref : RefersTo(r, n)}

(* The strong count counts the references, and a node lives while it has one. *)
Counted ==
    \A n \in Node :
        /\ IsFiniteSet(Refs(n))
        /\ strong[n] = Cardinality(Refs(n))
        /\ n \in born \ freed <=> Refs(n) # {}

Placed(t) ==
    /\ op[t].at \notin {"idle", "parked"} => op[t].node \in Node
    /\ op[t].at \in {"install", "check", "read", "parked"} => op[t].token \in Node
    /\ op[t].at = "parked" => op[t].node = None
    /\ op[t].at = "store" => op[t].node \in early

(* A channel that no cancel can pass any more. *)
Heard(m) ==
    /\ signal[m] # "absent"
    /\ flag[m] => \/ signal[m] = "true"
                  \/ m \in early
                  \/ \E u \in Thread : op[u].at = "signal" /\ op[u].node = m

(* The nodes a walk up has behind it. *)
Passed(t) ==
    {m \in Chain[op[t].token] : op[t].node # None => m \notin Chain[op[t].node]}

Waits(t) ==
    /\ op[t].at = "check" => signal[op[t].node] # "absent"
    /\ op[t].at = "read" => Heard(op[t].node)
    /\ op[t].at \in {"install", "check", "read", "parked"} =>
           \A m \in Passed(t) : Heard(m)

Asks(t) == op[t].at = "askingLate" => \E m \in Chain[op[t].node] : flag[m]

IInv ==
    /\ TypeOK
    /\ Counted
    /\ \A t \in Thread : Placed(t) /\ Waits(t) /\ Asks(t)

-----------------------------------------------------------------------------
(* Walks up the tree *)

(* A child is not its own parent. *)
LEMMA ParentIsAnother ==
    ASSUME NEW n \in Node, Parent[n] # None
    PROVE  Parent[n] \in Node /\ Parent[n] # n
<1>1. PICK depth \in [Node -> 0..Cardinality(Node)] :
          \A k \in Node : Parent[k] # None => depth[Parent[k]] < depth[k]
  BY TreeAssumption
<1>2. Parent[n] \in Node
  BY TreeAssumption
<1>3. depth[n] \in Int /\ depth[Parent[n]] < depth[n]
  <2>1. Cardinality(Node) \in Nat
    BY TreeAssumption, FS_CardinalityType
  <2>2. QED
    BY <1>1, <2>1
<1>4. QED
  BY <1>2, <1>3

Closed(S) == \A k \in S : Parent[k] = None \/ Parent[k] \in S

(* A chain holds its node and every parent of what it holds, ... *)
LEMMA ChainIsClosed ==
    ASSUME NEW n \in Node
    PROVE  /\ Chain[n] \subseteq Node
           /\ n \in Chain[n]
           /\ Closed(Chain[n])
<1>1. Chain[n] = {m \in Node : \A S \in SUBSET Node : n \in S /\ Closed(S) => m \in S}
  BY DEF Chain, Closed
<1>2. ASSUME NEW k \in Chain[n], Parent[k] # None PROVE Parent[k] \in Chain[n]
  <2>1. k \in Node /\ Parent[k] \in Node
    BY <1>1, <1>2, TreeAssumption
  <2>2. ASSUME NEW S \in SUBSET Node, n \in S, Closed(S) PROVE Parent[k] \in S
    <3>1. k \in S
      BY <1>1, <2>2
    <3>2. QED
      BY <1>2, <2>2, <3>1 DEF Closed
  <2>3. QED
    BY <1>1, <2>1, <2>2
<1>3. QED
  BY <1>1, <1>2 DEF Closed

(* ... and nothing that is not in every such set. *)
LEMMA ChainIsLeast ==
    ASSUME NEW n \in Node, NEW S \in SUBSET Node, n \in S, Closed(S)
    PROVE  Chain[n] \subseteq S
  BY DEF Chain, Closed

(* A step up leaves one node behind. *)
LEMMA ChainAbove ==
    ASSUME NEW n \in Node
    PROVE  /\ Parent[n] = None => Chain[n] = {n}
           /\ Parent[n] # None => Chain[n] \subseteq {n} \cup Chain[Parent[n]]
<1>1. CASE Parent[n] = None
  <2>1. Closed({n})
    BY <1>1 DEF Closed
  <2>2. Chain[n] \subseteq {n}
    BY <2>1, ChainIsLeast
  <2>3. QED
    BY <1>1, <2>2, ChainIsClosed
<1>2. CASE Parent[n] # None
  <2> DEFINE p == Parent[n]
  <2>1. p \in Node
    BY <1>2, ParentIsAnother
  <2>2. Chain[p] \subseteq Node /\ p \in Chain[p] /\ Closed(Chain[p])
    BY <2>1, ChainIsClosed
  <2>3. Closed({n} \cup Chain[p])
    BY <2>2 DEF Closed
  <2>4. {n} \cup Chain[p] \in SUBSET Node
    BY <2>2
  <2>5. Chain[n] \subseteq {n} \cup Chain[p]
    BY <2>3, <2>4, ChainIsLeast
  <2>6. QED
    BY <1>2, <2>5
<1>3. QED
  BY <1>1, <1>2

-----------------------------------------------------------------------------
(* The references to a node *)

LEMMA RefParts ==
    /\ \A t \in Thread : <<"handle", t>> \in Ref /\ <<"release", t>> \in Ref
    /\ \A n \in Node : <<"child", n>> \in Ref
    /\ \A r \in Ref : /\ r = <<r[1], r[2]>>
                      /\ r[1] \in {"handle", "child", "release"}
                      /\ r[1] \in {"handle", "release"} => r[2] \in Thread
                      /\ r[1] = "child" => r[2] \in Node
  BY DEF Ref

(* One reference more, ... *)
LEMMA OneMore ==
    ASSUME NEW S, IsFiniteSet(S), NEW x, x \notin S
    PROVE  /\ IsFiniteSet(S \cup {x})
           /\ Cardinality(S \cup {x}) = Cardinality(S) + 1
           /\ S \cup {x} # {}
  BY FS_AddElement

(* ... one less, ... *)
LEMMA OneLess ==
    ASSUME NEW S, IsFiniteSet(S), NEW x \in S
    PROVE  /\ IsFiniteSet(S \ {x})
           /\ Cardinality(S \ {x}) = Cardinality(S) - 1
           /\ Cardinality(S) \in Nat \ {0}
           /\ Cardinality(S) > 1 <=> S \ {x} # {}
<1>1. IsFiniteSet(S \ {x}) /\ Cardinality(S \ {x}) = Cardinality(S) - 1
  BY FS_RemoveElement
<1>2. Cardinality(S) \in Nat /\ Cardinality(S \ {x}) \in Nat
  BY <1>1, FS_CardinalityType
<1>3. Cardinality(S \ {x}) = 0 <=> S \ {x} = {}
  BY <1>1, FS_EmptySet
<1>4. QED
  BY <1>1, <1>2, <1>3

(* ... and one for another. *)
LEMMA OneForAnother ==
    ASSUME NEW S, IsFiniteSet(S), NEW x \in S, NEW y, y \notin S
    PROVE  /\ IsFiniteSet((S \ {x}) \cup {y})
           /\ Cardinality((S \ {x}) \cup {y}) = Cardinality(S)
<1>1. IsFiniteSet(S \ {x}) /\ Cardinality(S \ {x}) = Cardinality(S) - 1
      /\ Cardinality(S) \in Nat \ {0}
  BY OneLess
<1>2. /\ IsFiniteSet((S \ {x}) \cup {y})
      /\ Cardinality((S \ {x}) \cup {y}) = Cardinality(S \ {x}) + 1
  BY <1>1, OneMore
<1>3. QED
  BY <1>1, <1>2

(* Steps that leave every reference where it is. *)
LEMMA CountedStays ==
    ASSUME Counted, UNCHANGED <<born, freed, strong, holds>>,
           \A u \in Thread : /\ op'[u].at = "unlink" <=> op[u].at = "unlink"
                             /\ op[u].at = "unlink" => op'[u].node = op[u].node
    PROVE  Counted'
<1>1. ASSUME NEW n \in Node PROVE Refs(n)' = Refs(n)
  <2>1. ASSUME NEW r \in Ref PROVE RefersTo(r, n)' <=> RefersTo(r, n)
    <3>1. r[1] = "release" => r[2] \in Thread
      BY RefParts
    <3>2. QED
      BY <3>1 DEF RefersTo
  <2>2. QED
    BY <2>1 DEF Refs
<1>2. QED
  BY <1>1 DEF Counted

(* The release of one reference, r, to a node: with the last one the node  *)
(* goes, and its link is the thread's to release.                          *)
LEMMA CountedGivesUp ==
    ASSUME TypeOK, Counted, NEW t \in Thread, NEW n \in Node, GivesUp(t, n),
           born' = born,
           NEW r \in Refs(n),
           \A x \in Ref, k \in Node : x[1] = "handle" =>
               (k \in holds'[x[2]] <=> k \in holds[x[2]] /\ ~(x = r /\ k = n)),
           \A x \in Ref, k \in Node : x[1] = "release" =>
               ( /\ op[x[2]].at = "unlink" /\ op[x[2]].node = k
                 /\ ~(x = r /\ k = n)
                 <=> x[2] # t /\ op[x[2]].at = "unlink" /\ op[x[2]].node = k ),
           r[1] \in {"handle", "release"}
    PROVE  Counted' /\ strong' \in [Node -> Nat] /\ freed' \subseteq born
<1>1. /\ IsFiniteSet(Refs(n)) /\ strong[n] = Cardinality(Refs(n))
      /\ n \in born \ freed
  BY DEF Counted
<1>2. /\ IsFiniteSet(Refs(n) \ {r})
      /\ Cardinality(Refs(n) \ {r}) = strong[n] - 1
      /\ strong[n] \in Nat \ {0}
      /\ strong[n] > 1 <=> Refs(n) \ {r} # {}
  <2> DEFINE S == Refs(n)
  <2>1. r \in S /\ IsFiniteSet(S) /\ strong[n] = Cardinality(S)
    BY <1>1
  <2> HIDE DEF S
  <2>2. /\ IsFiniteSet(S \ {r}) /\ Cardinality(S \ {r}) = Cardinality(S) - 1
        /\ Cardinality(S) \in Nat \ {0}
        /\ Cardinality(S) > 1 <=> S \ {r} # {}
    BY <2>1, OneLess
  <2>3. QED
    BY <2>1, <2>2 DEF S
<1>3. /\ strong' \in [Node -> Nat] /\ strong'[n] = strong[n] - 1
      /\ \A k \in Node \ {n} : strong'[k] = strong[k]
  BY <1>2 DEF GivesUp, TypeOK
<1>4. freed' \subseteq born
  BY <1>1 DEF GivesUp, TypeOK
<1>5. CASE strong[n] > 1
  <2>1. op' = [op EXCEPT ![t] = Idle] /\ freed' = freed
    BY <1>5 DEF GivesUp, Returns
  <2>2. ASSUME NEW k \in Node, NEW x \in Ref
        PROVE  RefersTo(x, k)' <=> RefersTo(x, k) /\ ~(x = r /\ k = n)
    <3>1. CASE x[1] = "handle"
      BY <3>1 DEF RefersTo
    <3>2. CASE x[1] = "child"
      BY <2>1, <3>2 DEF RefersTo
    <3>3. CASE x[1] = "release"
      <4>1. x[2] \in Thread
        BY <3>3, RefParts
      <4>2. op'[x[2]].at = "unlink" /\ op'[x[2]].node = k
              <=> x[2] # t /\ op[x[2]].at = "unlink" /\ op[x[2]].node = k
        BY <2>1, <4>1 DEF TypeOK, Idle
      <4>3. QED
        BY <3>3, <4>2 DEF RefersTo
    <3>4. QED
      BY <3>1, <3>2, <3>3, RefParts
  <2>3. Refs(n)' = Refs(n) \ {r} /\ \A k \in Node \ {n} : Refs(k)' = Refs(k)
    BY <2>2 DEF Refs
  <2>4. QED
    BY <1>2, <1>3, <1>4, <1>5, <1>1, <2>1, <2>3 DEF Counted
<1>6. CASE ~(strong[n] > 1)
  <2> DEFINE p == Parent[n]
             c == <<"child", n>>
             d == <<"release", t>>
  <2>1. freed' = freed \cup {n} /\ Refs(n) = {r}
    BY <1>2, <1>6 DEF GivesUp
  <2>2. \A u \in Thread \ {t} : op'[u] = op[u]
    BY <1>6 DEF GivesUp, Goes, Returns, TypeOK
  <2>3. op'[t].at = "unlink" <=> p # None
    BY <1>6 DEF GivesUp, Goes, Returns, TypeOK, Idle
  <2>4. p # None => op'[t].node = p
    BY <1>6 DEF GivesUp, Goes, TypeOK
  <2>5. ASSUME NEW k \in Node, NEW x \in Ref
        PROVE  RefersTo(x, k)' <=>
                   \/ RefersTo(x, k) /\ ~(x = r /\ k = n) /\ x # c
                   \/ x = d /\ k = p
    <3>1. k # None /\ c[1] = "child" /\ d[1] = "release" /\ c[2] = n /\ d[2] = t
      BY TreeAssumption
    <3>2. x = <<x[1], x[2]>>
      BY RefParts
    <3>3. CASE x[1] = "handle"
      BY <3>1, <3>3 DEF RefersTo
    <3>4. CASE x[1] = "child"
      BY <2>1, <3>1, <3>2, <3>4 DEF RefersTo
    <3>5. CASE x[1] = "release"
      <4>1. x[2] \in Thread /\ (x[2] = t <=> x = d)
        BY <3>1, <3>2, <3>5, RefParts
      <4>2. RefersTo(x, k)' <=> \/ x # d /\ op[x[2]].at = "unlink" /\ op[x[2]].node = k
                                \/ x = d /\ k = p
        <5>1. CASE x = d
          BY <2>3, <2>4, <3>1, <3>5, <4>1, <5>1 DEF RefersTo
        <5>2. CASE x # d
          BY <2>2, <3>5, <4>1, <5>2 DEF RefersTo
        <5>3. QED
          BY <5>1, <5>2
      <4>3. x # c
        BY <3>1, <3>5
      <4>4. RefersTo(x, k) /\ ~(x = r /\ k = n)
              <=> x # d /\ op[x[2]].at = "unlink" /\ op[x[2]].node = k
        BY <3>5, <4>1 DEF RefersTo
      <4>5. QED
        BY <4>2, <4>3, <4>4
    <3>6. QED
      BY <3>3, <3>4, <3>5, RefParts
  <2>6. c \in Ref /\ d \in Ref
    BY RefParts
  <2>7. \A k \in Node : c \in Refs(k) <=> k = p
    <3>1. c[1] = "child" /\ c[2] = n
      OBVIOUS
    <3>2. QED
      BY <1>1, <2>6, <3>1 DEF Refs, RefersTo
  <2>8. \A k \in Node : d \in Refs(k) => k = n
    <3>1. d[1] = "release" /\ d[2] = t
      OBVIOUS
    <3>2. ASSUME NEW k \in Node, d \in Refs(k), k # n PROVE FALSE
      BY <2>6, <3>1, <3>2 DEF Refs, RefersTo
    <3>3. QED
      BY <3>2
  <2>9. p # n
    BY ParentIsAnother, TreeAssumption
  <2>10. ASSUME NEW k \in Node, k # n
         PROVE  /\ IsFiniteSet(Refs(k)')
                /\ Cardinality(Refs(k)') = strong[k]
                /\ k \in born \ freed <=> Refs(k)' # {}
    <3> HIDE DEF c, d, p
    <3>1. /\ IsFiniteSet(Refs(k)) /\ strong[k] = Cardinality(Refs(k))
          /\ k \in born \ freed <=> Refs(k) # {}
      BY DEF Counted
    <3>2. CASE k = p
      <4>1. Refs(k)' = (Refs(k) \ {c}) \cup {d}
        BY <2>5, <2>6, <2>10, <3>2 DEF Refs
      <4>2. c \in Refs(k) /\ d \notin Refs(k)
        BY <2>7, <2>8, <2>10, <3>2
      <4>3. QED
        BY <3>1, <4>1, <4>2, OneForAnother
    <3>3. CASE k # p
      <4>1. Refs(k)' = Refs(k)
        BY <2>5, <2>7, <2>10, <3>3 DEF Refs
      <4>2. QED
        BY <3>1, <4>1
    <3>4. QED
      BY <3>2, <3>3
  <2>11. Refs(n)' = {}
    <3> HIDE DEF c, d, p
    <3>1. QED
      BY <2>1, <2>5, <2>9 DEF Refs
  <2>12. strong'[n] = 0
    BY <1>2, <1>3, <1>6
  <2>13. IsFiniteSet({}) /\ Cardinality({}) = 0
    BY FS_EmptySet
  <2>14. ASSUME NEW k \in Node
         PROVE  /\ IsFiniteSet(Refs(k)') /\ strong'[k] = Cardinality(Refs(k)')
                /\ k \in born' \ freed' <=> Refs(k)' # {}
    <3>1. CASE k = n
      BY <2>1, <2>11, <2>12, <2>13, <3>1
    <3>2. CASE k # n
      BY <1>3, <2>1, <2>10, <3>2
    <3>3. QED
      BY <3>1, <3>2
  <2>15. QED
    BY <1>3, <1>4, <2>14 DEF Counted
<1>7. QED
  BY <1>5, <1>6

-----------------------------------------------------------------------------
(* What a wake and a question rest on *)

(* No step takes back a flag, a channel or its value, and a cancel gives   *)
(* up its send only to a channel that was not there.                       *)
Forward ==
    /\ early \subseteq early'
    /\ \A m \in Node :
         /\ flag[m] => flag'[m]
         /\ signal[m] # "absent" => signal'[m] # "absent"
         /\ signal[m] = "true" => signal'[m] = "true"
         /\ flag'[m] => \/ flag[m]
                        \/ m \in early'
                        \/ \E u \in Thread : op'[u].at = "signal" /\ op'[u].node = m
         /\ \A u \in Thread : op[u].at = "signal" /\ op[u].node = m =>
                \/ op'[u].at = "signal" /\ op'[u].node = m
                \/ signal[m] = "absent"
                \/ signal'[m] = "true"

LEMMA HeardStays ==
    ASSUME Forward, NEW m \in Node, Heard(m)
    PROVE  Heard(m)'
<1>1. signal'[m] # "absent"
  BY DEF Forward, Heard
<1>2. ASSUME flag'[m]
      PROVE  \/ signal'[m] = "true"
             \/ m \in early'
             \/ \E u \in Thread : op'[u].at = "signal" /\ op'[u].node = m
  BY <1>2 DEF Forward, Heard
<1>3. QED
  BY <1>1, <1>2 DEF Heard

(* What a step of thread t has to show. *)
StepOK(t) ==
    /\ TypeOK'
    /\ Counted'
    /\ Forward
    /\ \A u \in Thread \ {t} : op'[u] = op[u]
    /\ Placed(t)' /\ Waits(t)' /\ Asks(t)'

LEMMA StepKeeps ==
    ASSUME IInv, NEW t \in Thread, StepOK(t)
    PROVE  IInv'
<1>1. ASSUME NEW u \in Thread PROVE (Placed(u) /\ Waits(u) /\ Asks(u))'
  <2>1. CASE u = t
    BY <2>1 DEF StepOK
  <2>2. CASE u # t
    <3>1. op'[u] = op[u] /\ Placed(u) /\ Waits(u) /\ Asks(u) /\ Forward
      BY <2>2 DEF StepOK, IInv
    <3>2. Placed(u)'
      BY <3>1 DEF Placed, Forward
    <3>3. Passed(u)' = Passed(u)
      BY <3>1 DEF Passed
    <3>4. op[u].at \in {"install", "check", "read", "parked"} => Passed(u) \subseteq Node
      BY <3>1, ChainIsClosed DEF Passed, Placed
    <3>5. Waits(u)'
      <4>1. op'[u].at = "check" => signal'[op'[u].node] # "absent"
        BY <3>1 DEF Waits, Placed, Forward
      <4>2. op'[u].at = "read" => Heard(op[u].node)'
        BY <3>1, HeardStays DEF Waits, Placed
      <4>3. op'[u].at = "read" => (Heard(op[u].node))' /\ op'[u].node = op[u].node
        BY <3>1, <4>2
      <4>4. op[u].at \in {"install", "check", "read", "parked"} =>
                \A m \in Passed(u) : Heard(m)'
        BY <3>1, <3>4, HeardStays DEF Waits
      <4>5. QED
        BY <3>1, <3>3, <4>1, <4>3, <4>4 DEF Waits, Heard
    <3>6. Asks(u)'
      <4>1. op[u].at = "askingLate" => Chain[op[u].node] \subseteq Node
        BY <3>1, ChainIsClosed DEF Placed
      <4>2. QED
        BY <3>1, <4>1 DEF Asks, Forward
    <3>7. QED
      BY <3>2, <3>5, <3>6
  <2>3. QED
    BY <2>1, <2>2
<1>2. QED
  BY <1>1 DEF StepOK, IInv

LEMMA GoesTo ==
    ASSUME TypeOK, NEW t \in Thread, NEW at \in Steps,
           NEW token \in Node \cup {None}, NEW node \in Node \cup {None},
           Goes(t, at, token, node)
    PROVE  /\ op' \in [Thread -> Op]
           /\ op'[t].at = at /\ op'[t].token = token /\ op'[t].node = node
           /\ \A u \in Thread \ {t} : op'[u] = op[u]
  BY DEF TypeOK, Goes, Op

LEMMA ReturnsTo ==
    ASSUME TypeOK, NEW t \in Thread, Returns(t)
    PROVE  /\ op' \in [Thread -> Op]
           /\ op'[t].at = "idle"
           /\ \A u \in Thread \ {t} : op'[u] = op[u]
  BY DEF TypeOK, Returns, Idle, Op, Steps

(* A thread that waits and asks for nothing has nothing to show. *)
LEMMA AtRest ==
    ASSUME NEW t \in Thread, op'[t].at \in {"idle", "unlink", "signal", "asking"},
           op'[t].at # "idle" => op'[t].node \in Node
    PROVE  Placed(t)' /\ Waits(t)' /\ Asks(t)'
  BY DEF Placed, Waits, Asks

(* A step that moves nothing but its thread. *)
LEMMA OnlyMoves ==
    ASSUME IInv, NEW t \in Thread, op' \in [Thread -> Op],
           \A u \in Thread \ {t} : op'[u] = op[u],
           op[t].at \notin {"unlink", "signal"}, op'[t].at # "unlink",
           UNCHANGED <<flag, signal, born, freed, strong, holds, early>>,
           Placed(t)' /\ Waits(t)' /\ Asks(t)'
    PROVE  StepOK(t)
<1>1. TypeOK'
  BY DEF IInv, TypeOK
<1>2. \A u \in Thread : /\ op'[u].at = "unlink" <=> op[u].at = "unlink"
                        /\ op[u].at = "unlink" => op'[u].node = op[u].node
  OBVIOUS
<1>3. Counted'
  BY <1>2, CountedStays DEF IInv
<1>4. Forward
  BY DEF Forward
<1>5. QED
  BY <1>1, <1>3, <1>4 DEF StepOK

-----------------------------------------------------------------------------
(* child_token, clone and drop *)

LEMMA HandlesMove ==
    ASSUME IInv, NEW t \in Thread, UNCHANGED <<flag, signal, op, early>>,
           TypeOK', Counted'
    PROVE  StepOK(t)
<1>1. Forward
  BY DEF Forward
<1>2. Placed(t)' /\ Waits(t)' /\ Asks(t)'
  BY DEF IInv, Placed, Waits, Heard, Passed, Asks
<1>3. QED
  BY <1>1, <1>2 DEF StepOK

(* A node with a handle lives. *)
LEMMA HeldLives ==
    ASSUME TypeOK, Counted, NEW t \in Thread, NEW n \in holds[t]
    PROVE  n \in Node /\ n \in born \ freed
<1> DEFINE h == <<"handle", t>>
<1>1. n \in Node
  BY DEF TypeOK
<1>2. h \in Ref /\ h[1] = "handle" /\ h[2] = t
  BY RefParts
<1>3. h \in Refs(n)
  BY <1>2 DEF Refs, RefersTo
<1>4. QED
  BY <1>1, <1>3 DEF Counted

LEMMA ChildStep ==
    ASSUME IInv, NEW t \in Thread, NEW m \in Node, Child(t, m)
    PROVE  StepOK(t)
<1> DEFINE p == Parent[m]
           h == <<"handle", t>>
           c == <<"child", m>>
<1>1. /\ p \in Node /\ p # m /\ m \notin born
      /\ born' = born \cup {m} /\ freed' = freed /\ op' = op
      /\ TypeOK /\ Counted
  BY ParentIsAnother DEF Child, IInv
<1>2. TypeOK'
  BY <1>1 DEF Child, TypeOK
<1>3. strong'[m] = 1 /\ strong'[p] = strong[p] + 1
      /\ \A k \in Node \ {m, p} : strong'[k] = strong[k]
  BY <1>1 DEF Child, TypeOK
<1>4. ASSUME NEW k \in Node, NEW x \in Ref
      PROVE  RefersTo(x, k)' <=> RefersTo(x, k) \/ (x = h /\ k = m) \/ (x = c /\ k = p)
  <2>1. x = <<x[1], x[2]>> /\ k # None /\ h[1] = "handle" /\ h[2] = t
        /\ c[1] = "child" /\ c[2] = m
    BY RefParts, TreeAssumption
  <2>2. CASE x[1] = "handle"
    <3>1. x[2] \in Thread /\ (x = h <=> x[2] = t) /\ x # c
      BY <2>1, <2>2, RefParts
    <3>2. k \in holds'[x[2]] <=> k \in holds[x[2]] \/ (x[2] = t /\ k = m)
      BY <1>1, <3>1 DEF Child, TypeOK
    <3>3. QED
      BY <2>2, <3>1, <3>2 DEF RefersTo
  <2>3. CASE x[1] = "child"
    <3>1. x[2] \in Node /\ (x = c <=> x[2] = m) /\ x # h
      BY <2>1, <2>3, RefParts
    <3>2. m \notin freed
      BY <1>1 DEF TypeOK
    <3>3. QED
      BY <1>1, <2>3, <3>1, <3>2 DEF RefersTo
  <2>4. CASE x[1] = "release"
    BY <1>1, <2>1, <2>4 DEF RefersTo
  <2>5. QED
    BY <2>2, <2>3, <2>4, RefParts
<1>5. h \in Ref /\ c \in Ref
  BY RefParts
<1>6. Refs(m) = {}
  BY <1>1 DEF Counted
<1>7. Refs(m)' = Refs(m) \cup {h}
  <2> HIDE DEF h, c, p
  <2>1. QED
    BY <1>1, <1>4, <1>5 DEF Refs
<1>8. Refs(p)' = Refs(p) \cup {c} /\ c \notin Refs(p)
  <2>1. c[1] = "child" /\ c[2] = m
    OBVIOUS
  <2>2. ~RefersTo(c, p)
    BY <1>1, <2>1 DEF RefersTo
  <2> HIDE DEF h, c, p
  <2>3. QED
    BY <1>1, <1>4, <1>5, <2>2 DEF Refs
<1>9. \A k \in Node \ {m, p} : Refs(k)' = Refs(k)
  <2> HIDE DEF h, c, p
  <2>1. QED
    BY <1>4 DEF Refs
<1>10. ASSUME NEW k \in Node
       PROVE  /\ IsFiniteSet(Refs(k)') /\ strong'[k] = Cardinality(Refs(k)')
              /\ k \in born' \ freed' <=> Refs(k)' # {}
  <2> HIDE DEF h, c, p
  <2>1. CASE k = m
    <3>1. IsFiniteSet({h}) /\ Cardinality({h}) = 1
      BY FS_Singleton
    <3>2. m \notin freed
      BY <1>1 DEF TypeOK
    <3>3. QED
      BY <1>1, <1>3, <1>6, <1>7, <2>1, <3>1, <3>2
  <2>2. CASE k = p
    <3>1. IsFiniteSet(Refs(p)) /\ strong[p] = Cardinality(Refs(p)) /\ p \in born \ freed
      <4>1. p \in holds[t]
        BY DEF Child, Calls, p
      <4>2. QED
        BY <1>1, <4>1, HeldLives DEF Counted
    <3>2. QED
      BY <1>1, <1>3, <1>8, <2>2, <3>1, OneMore
  <2>3. CASE k \notin {m, p}
    BY <1>1, <1>3, <1>9, <2>3 DEF Counted
  <2>4. QED
    BY <2>1, <2>2, <2>3
<1>11. Counted'
  BY <1>10 DEF Counted
<1>12. QED
  BY <1>2, <1>11, HandlesMove DEF Child

LEMMA CloneStep ==
    ASSUME IInv, NEW t \in Thread, NEW u \in Thread, NEW n \in Node, Clone(t, u, n)
    PROVE  StepOK(t)
<1> DEFINE h == <<"handle", u>>
<1>1. TypeOK /\ Counted /\ n \notin holds[u] /\ op' = op /\ UNCHANGED <<born, freed>>
  BY DEF Clone, IInv
<1>2. TypeOK'
  BY <1>1 DEF Clone, TypeOK
<1>3. strong'[n] = strong[n] + 1 /\ \A k \in Node \ {n} : strong'[k] = strong[k]
  BY <1>1 DEF Clone, TypeOK
<1>4. ASSUME NEW k \in Node, NEW x \in Ref
      PROVE  RefersTo(x, k)' <=> RefersTo(x, k) \/ (x = h /\ k = n)
  <2>1. x = <<x[1], x[2]>> /\ h[1] = "handle" /\ h[2] = u
    BY RefParts
  <2>2. CASE x[1] = "handle"
    <3>1. x[2] \in Thread /\ (x = h <=> x[2] = u)
      BY <2>1, <2>2, RefParts
    <3>2. k \in holds'[x[2]] <=> k \in holds[x[2]] \/ (x[2] = u /\ k = n)
      BY <1>1, <3>1 DEF Clone, TypeOK
    <3>3. QED
      BY <2>2, <3>1, <3>2 DEF RefersTo
  <2>3. CASE x[1] # "handle"
    BY <1>1, <2>1, <2>3 DEF RefersTo
  <2>4. QED
    BY <2>2, <2>3
<1>5. h \in Ref /\ ~RefersTo(h, n)
  <2>1. h[1] = "handle" /\ h[2] = u
    OBVIOUS
  <2>2. QED
    BY <1>1, <2>1, RefParts DEF RefersTo
<1>6. Refs(n)' = Refs(n) \cup {h} /\ h \notin Refs(n)
      /\ \A k \in Node \ {n} : Refs(k)' = Refs(k)
  <2> HIDE DEF h
  <2>1. QED
    BY <1>4, <1>5 DEF Refs
<1>7. n \in born \ freed
  BY <1>1, HeldLives DEF Clone, Calls
<1>8. Counted'
  <2> SUFFICES ASSUME NEW k \in Node
               PROVE  /\ IsFiniteSet(Refs(k)') /\ strong'[k] = Cardinality(Refs(k)')
                      /\ k \in born' \ freed' <=> Refs(k)' # {}
    BY DEF Counted
  <2> HIDE DEF h
  <2>1. CASE k = n
    <3>1. IsFiniteSet(Refs(n)) /\ strong[n] = Cardinality(Refs(n))
      BY <1>1 DEF Counted
    <3>2. QED
      BY <1>1, <1>3, <1>6, <1>7, <2>1, <3>1, OneMore
  <2>2. CASE k # n
    BY <1>1, <1>3, <1>6, <2>2 DEF Counted
  <2>3. QED
    BY <2>1, <2>2
<1>9. QED
  BY <1>2, <1>8, HandlesMove DEF Clone

(* What a release leaves its thread to do. *)
LEMMA AfterGivesUp ==
    ASSUME IInv, NEW t \in Thread, NEW n \in Node, GivesUp(t, n),
           op[t].at \in {"idle", "unlink"}
    PROVE  /\ op' \in [Thread -> Op]
           /\ \A u \in Thread \ {t} : op'[u] = op[u]
           /\ op'[t].at \in {"idle", "unlink"}
           /\ op'[t].at # "idle" => op'[t].node \in Node
<1>1. CASE Returns(t)
  BY <1>1, ReturnsTo DEF IInv
<1>2. CASE Goes(t, "unlink", None, Parent[n]) /\ Parent[n] # None
  <2>1. Parent[n] \in Node /\ "unlink" \in Steps
    BY <1>2, TreeAssumption DEF Steps
  <2>2. QED
    BY <1>2, <2>1, GoesTo DEF IInv
<1>3. QED
  BY <1>1, <1>2 DEF GivesUp

LEMMA ReleaseStep ==
    ASSUME IInv, NEW t \in Thread, NEW n \in Node, GivesUp(t, n),
           op[t].at \in {"idle", "unlink"}, UNCHANGED <<flag, signal, born, early>>,
           Counted', strong' \in [Node -> Nat], freed' \subseteq born,
           holds' \in [Thread -> SUBSET Node]
    PROVE  StepOK(t)
<1>1. /\ op' \in [Thread -> Op]
      /\ \A u \in Thread \ {t} : op'[u] = op[u]
      /\ op'[t].at \in {"idle", "unlink"}
      /\ op'[t].at # "idle" => op'[t].node \in Node
  BY AfterGivesUp
<1>2. TypeOK'
  BY <1>1 DEF IInv, TypeOK
<1>3. Forward
  BY <1>1 DEF Forward
<1>4. Placed(t)' /\ Waits(t)' /\ Asks(t)'
  BY <1>1, AtRest
<1>5. QED
  BY <1>1, <1>2, <1>3, <1>4 DEF StepOK

LEMMA DropStep ==
    ASSUME IInv, NEW t \in Thread, NEW n \in Node, Drop(t, n)
    PROVE  StepOK(t)
<1> DEFINE r == <<"handle", t>>
<1>1. TypeOK /\ Counted /\ GivesUp(t, n) /\ n \in holds[t] /\ op[t].at = "idle"
      /\ holds' = [holds EXCEPT ![t] = @ \ {n}] /\ UNCHANGED <<flag, signal, born, early>>
  BY DEF Drop, Calls, IInv
<1>2. r \in Refs(n) /\ r[1] = "handle" /\ r[2] = t
  <2>1. r \in Ref /\ r[1] = "handle" /\ r[2] = t
    BY RefParts
  <2>2. QED
    BY <1>1, <2>1 DEF Refs, RefersTo
<1>3. ASSUME NEW x \in Ref, NEW k \in Node, x[1] = "handle"
      PROVE  k \in holds'[x[2]] <=> k \in holds[x[2]] /\ ~(x = r /\ k = n)
  <2>1. x[2] \in Thread /\ (x = r <=> x[2] = t)
    BY <1>2, <1>3, RefParts
  <2>2. QED
    BY <1>1, <2>1 DEF TypeOK
<1>4. ASSUME NEW x \in Ref, NEW k \in Node, x[1] = "release"
      PROVE  /\ op[x[2]].at = "unlink" /\ op[x[2]].node = k
             /\ ~(x = r /\ k = n)
             <=> x[2] # t /\ op[x[2]].at = "unlink" /\ op[x[2]].node = k
  BY <1>1, <1>2, <1>4
<1>5. Counted' /\ strong' \in [Node -> Nat] /\ freed' \subseteq born
  <2> HIDE DEF r
  <2>1. QED
    BY <1>1, <1>2, <1>3, <1>4, CountedGivesUp
<1>6. holds' \in [Thread -> SUBSET Node]
  BY <1>1 DEF TypeOK
<1>7. QED
  BY <1>1, <1>5, <1>6, ReleaseStep

LEMMA UnlinkStep ==
    ASSUME IInv, NEW t \in Thread, Unlink(t)
    PROVE  StepOK(t)
<1> DEFINE n == op[t].node
           r == <<"release", t>>
<1>1. TypeOK /\ Counted /\ GivesUp(t, n) /\ op[t].at = "unlink" /\ n \in Node
      /\ UNCHANGED <<flag, signal, born, holds, early>>
  BY DEF Unlink, IInv, Placed
<1>2. r \in Refs(n) /\ r[1] = "release" /\ r[2] = t
  <2>1. r \in Ref /\ r[1] = "release" /\ r[2] = t
    BY RefParts
  <2>2. QED
    BY <1>1, <2>1 DEF Refs, RefersTo
<1>3. ASSUME NEW x \in Ref, NEW k \in Node, x[1] = "handle"
      PROVE  k \in holds'[x[2]] <=> k \in holds[x[2]] /\ ~(x = r /\ k = n)
  BY <1>1, <1>2, <1>3
<1>4. ASSUME NEW x \in Ref, NEW k \in Node, x[1] = "release"
      PROVE  /\ op[x[2]].at = "unlink" /\ op[x[2]].node = k
             /\ ~(x = r /\ k = n)
             <=> x[2] # t /\ op[x[2]].at = "unlink" /\ op[x[2]].node = k
  <2>1. x = r <=> x[2] = t
    BY <1>2, <1>4, RefParts
  <2>2. QED
    BY <1>1, <2>1
<1>5. Counted' /\ strong' \in [Node -> Nat] /\ freed' \subseteq born
  <2> HIDE DEF r, n
  <2>1. QED
    BY <1>1, <1>2, <1>3, <1>4, CountedGivesUp
<1>6. holds' \in [Thread -> SUBSET Node]
  BY <1>1 DEF TypeOK
<1>7. QED
  BY <1>1, <1>5, <1>6, ReleaseStep

-----------------------------------------------------------------------------
(* cancel *)

LEMMA CancelStep ==
    ASSUME IInv, NEW t \in Thread, NEW n \in Node, Cancel(t, n)
    PROVE  StepOK(t)
<1>1. /\ op' \in [Thread -> Op] /\ op'[t].at = "signal" /\ op'[t].node = n
      /\ \A u \in Thread \ {t} : op'[u] = op[u]
  <2>1. TypeOK /\ "signal" \in Steps
    BY DEF IInv, Steps
  <2>2. QED
    BY <2>1, GoesTo DEF Cancel
<1>2. flag' = [flag EXCEPT ![n] = TRUE] /\ op[t].at = "idle"
  BY DEF Cancel, Calls
<1>3. TypeOK'
  BY <1>1, <1>2 DEF Cancel, IInv, TypeOK
<1>4. Counted'
  BY <1>1, <1>2, CountedStays DEF Cancel, IInv
<1>5. Forward
  BY <1>1, <1>2 DEF Cancel, Forward, IInv, TypeOK
<1>6. QED
  BY <1>1, <1>3, <1>4, <1>5, AtRest DEF StepOK

LEMMA SignalStep ==
    ASSUME IInv, NEW t \in Thread, Signal(t)
    PROVE  StepOK(t)
<1>1. /\ op' \in [Thread -> Op] /\ op'[t].at = "idle"
      /\ \A u \in Thread \ {t} : op'[u] = op[u]
  BY ReturnsTo DEF Signal, IInv
<1>2. op[t].at = "signal" /\ op[t].node \in Node
  BY DEF Signal, IInv, Placed
<1>3. TypeOK'
  BY <1>1, <1>2 DEF Signal, IInv, TypeOK
<1>4. Counted'
  BY <1>1, <1>2, CountedStays DEF Signal, IInv
<1>5. Forward
  BY <1>1, <1>2 DEF Signal, Forward, IInv, TypeOK
<1>6. QED
  BY <1>1, <1>3, <1>4, <1>5, AtRest DEF StepOK

LEMMA EarlyLookupStep ==
    ASSUME IInv, NEW t \in Thread, NEW n \in Node, EarlyLookup(t, n)
    PROVE  StepOK(t)
<1>1. /\ op' \in [Thread -> Op] /\ op'[t].at = "store" /\ op'[t].node = n
      /\ \A u \in Thread \ {t} : op'[u] = op[u]
  <2>1. TypeOK /\ "store" \in Steps
    BY DEF IInv, Steps
  <2>2. QED
    BY <2>1, GoesTo DEF EarlyLookup
<1>2. op[t].at = "idle" /\ early' = early \cup {n}
  BY DEF EarlyLookup, Calls
<1>3. TypeOK'
  BY <1>1, <1>2 DEF EarlyLookup, IInv, TypeOK
<1>4. Counted'
  BY <1>1, <1>2, CountedStays DEF EarlyLookup, IInv
<1>5. Forward
  BY <1>1, <1>2 DEF EarlyLookup, Forward
<1>6. Placed(t)' /\ Waits(t)' /\ Asks(t)'
  BY <1>1, <1>2 DEF Placed, Waits, Asks
<1>7. QED
  BY <1>1, <1>3, <1>4, <1>5, <1>6 DEF StepOK

LEMMA StoreStep ==
    ASSUME IInv, NEW t \in Thread, Store(t)
    PROVE  StepOK(t)
<1>1. /\ op' \in [Thread -> Op] /\ op'[t].at = "idle"
      /\ \A u \in Thread \ {t} : op'[u] = op[u]
  BY ReturnsTo DEF Store, IInv
<1>2. op[t].at = "store" /\ op[t].node \in Node /\ op[t].node \in early
  BY DEF Store, IInv, Placed
<1>3. TypeOK'
  BY <1>1, <1>2 DEF Store, IInv, TypeOK
<1>4. Counted'
  BY <1>1, <1>2, CountedStays DEF Store, IInv
<1>5. Forward
  BY <1>1, <1>2 DEF Store, Forward, IInv, TypeOK
<1>6. QED
  BY <1>1, <1>3, <1>4, <1>5, AtRest DEF StepOK

-----------------------------------------------------------------------------
(* is_cancelled *)

LEMMA AskStep ==
    ASSUME IInv, NEW t \in Thread, NEW n \in Node, Ask(t, n)
    PROVE  StepOK(t)
<1> DEFINE at == IF \E m \in Chain[n] : flag[m] THEN "askingLate" ELSE "asking"
<1>1. /\ op' \in [Thread -> Op] /\ op'[t].at = at /\ op'[t].node = n
      /\ \A u \in Thread \ {t} : op'[u] = op[u]
  <2>1. TypeOK /\ at \in Steps
    BY DEF IInv, Steps
  <2>2. Goes(t, at, n, n)
    BY DEF Ask
  <2> HIDE DEF at
  <2>3. QED
    BY <2>1, <2>2, GoesTo
<1>2. UNCHANGED <<flag, signal, born, freed, strong, holds, early>> /\ op[t].at = "idle"
  BY DEF Ask, Calls
<1>3. Placed(t)' /\ Waits(t)' /\ Asks(t)'
  BY <1>1, <1>2 DEF Placed, Waits, Asks
<1>4. QED
  BY <1>1, <1>2, <1>3, OnlyMoves

LEMMA AskNextStep ==
    ASSUME IInv, NEW t \in Thread, AskNext(t)
    PROVE  /\ StepOK(t)
           /\ op[t].at = "askingLate" /\ op'[t].at = "idle" => flag[op[t].node]
<1> DEFINE n == op[t].node
<1>1. /\ TypeOK /\ n \in Node /\ op[t].at \in {"asking", "askingLate"}
      /\ op[t].token \in Node \cup {None} /\ Asks(t)
      /\ UNCHANGED <<flag, signal, born, freed, strong, holds, early>>
  BY DEF AskNext, IInv, Placed, TypeOK, Op
<1>2. /\ Parent[n] = None => Chain[n] = {n}
      /\ Parent[n] # None => Chain[n] \subseteq {n} \cup Chain[Parent[n]]
  BY <1>1, ChainAbove
<1>3. CASE flag[n] \/ Parent[n] = None
  <2>1. Returns(t)
    BY <1>3 DEF AskNext, ParentOf
  <2>2. /\ op' \in [Thread -> Op] /\ op'[t].at = "idle"
        /\ \A u \in Thread \ {t} : op'[u] = op[u]
    BY <1>1, <2>1, ReturnsTo
  <2>3. StepOK(t)
    BY <1>1, <2>2, AtRest, OnlyMoves
  <2>4. op[t].at = "askingLate" => flag[n]
    BY <1>1, <1>2, <1>3 DEF Asks
  <2>5. QED
    BY <2>3, <2>4
<1>4. CASE ~flag[n] /\ Parent[n] # None
  <2>1. Goes(t, op[t].at, op[t].token, Parent[n])
    BY <1>4 DEF AskNext, ParentOf
  <2>2. Parent[n] \in Node /\ op[t].at \in Steps
    BY <1>1, <1>4, ParentIsAnother DEF Steps
  <2>3. /\ op' \in [Thread -> Op] /\ op'[t].at = op[t].at /\ op'[t].node = Parent[n]
        /\ \A u \in Thread \ {t} : op'[u] = op[u]
    <3> DEFINE at == op[t].at
               token == op[t].token
               p == Parent[n]
    <3>1. Goes(t, at, token, p) /\ at \in Steps /\ token \in Node \cup {None} /\ p \in Node
      BY <1>1, <2>1, <2>2
    <3> HIDE DEF at, token, p, n
    <3>2. /\ op' \in [Thread -> Op] /\ op'[t].at = at /\ op'[t].node = p
          /\ \A u \in Thread \ {t} : op'[u] = op[u]
      BY <1>1, <3>1, GoesTo
    <3>3. QED
      BY <3>2 DEF at, p
  <2>4. Asks(t)'
    BY <1>1, <1>2, <1>4, <2>3 DEF Asks
  <2>5. Placed(t)' /\ Waits(t)'
    BY <1>1, <2>2, <2>3 DEF Placed, Waits
  <2>6. StepOK(t)
    BY <1>1, <2>3, <2>4, <2>5, OnlyMoves
  <2>7. QED
    BY <1>1, <2>3, <2>6
<1>5. QED
  BY <1>3, <1>4

-----------------------------------------------------------------------------
(* cancelled *)

LEMMA SubscribesStep ==
    ASSUME IInv, NEW t \in Thread, NEW token \in Node, NEW n \in Node,
           Subscribes(t, token, n), op[t].at \in {"idle", "install"},
           \A m \in Chain[token] \ Chain[n] : Heard(m)
    PROVE  StepOK(t)
<1>1. /\ op' \in [Thread -> Op] /\ op'[t].at = "check"
      /\ op'[t].token = token /\ op'[t].node = n
      /\ \A u \in Thread \ {t} : op'[u] = op[u]
  <2>1. TypeOK /\ "check" \in Steps
    BY DEF IInv, Steps
  <2>2. QED
    BY <2>1, GoesTo DEF Subscribes
<1>2. TypeOK'
  BY <1>1 DEF Subscribes, IInv, TypeOK
<1>3. Counted'
  BY <1>1, CountedStays DEF Subscribes, IInv
<1>4. Forward
  BY <1>1 DEF Subscribes, Forward, IInv, TypeOK
<1>5. Passed(t)' = Chain[token] \ Chain[n]
  <2>1. n # None
    BY TreeAssumption
  <2>2. QED
    BY <1>1, <2>1 DEF Passed
<1>6. \A m \in Chain[token] \ Chain[n] : Heard(m)'
  BY <1>4, HeardStays, ChainIsClosed
<1>7. signal'[n] # "absent"
  BY DEF Subscribes, IInv, TypeOK
<1>8. Placed(t)' /\ Waits(t)' /\ Asks(t)'
  BY <1>1, <1>5, <1>6, <1>7 DEF Placed, Waits, Asks, Heard
<1>9. QED
  BY <1>1, <1>2, <1>3, <1>4, <1>8 DEF StepOK

LEMMA AwaitStep ==
    ASSUME IInv, NEW t \in Thread, NEW n \in Node, Await(t, n)
    PROVE  StepOK(t)
  BY SubscribesStep DEF Await, Calls

LEMMA InstallStep ==
    ASSUME IInv, NEW t \in Thread, Install(t)
    PROVE  StepOK(t)
<1> DEFINE n == op[t].node
           token == op[t].token
<1>1. op[t].at = "install" /\ n \in Node /\ token \in Node /\ Waits(t)
      /\ Subscribes(t, token, n)
  BY DEF Install, IInv, Placed
<1>2. \A m \in Chain[token] \ Chain[n] : Heard(m)
  BY <1>1 DEF Waits, Passed
<1> HIDE DEF n, token
<1>3. QED
  BY <1>1, <1>2, SubscribesStep

LEMMA CheckStep ==
    ASSUME IInv, NEW t \in Thread, Check(t)
    PROVE  StepOK(t)
<1> DEFINE n == op[t].node
           token == op[t].token
<1>1. /\ TypeOK /\ op[t].at = "check" /\ n \in Node /\ token \in Node
      /\ Waits(t) /\ signal[n] # "absent"
      /\ signal' = [signal EXCEPT ![n] = IF flag[n] THEN "true" ELSE @]
      /\ Goes(t, "read", token, n)
      /\ UNCHANGED <<flag, born, freed, strong, holds, early>>
  BY DEF Check, ReadsSet, IInv, Placed, Waits
<1>2. /\ op' \in [Thread -> Op] /\ op'[t].at = "read"
      /\ op'[t].token = token /\ op'[t].node = n
      /\ \A u \in Thread \ {t} : op'[u] = op[u]
  <2>1. "read" \in Steps
    BY DEF Steps
  <2> HIDE DEF n, token
  <2>2. QED
    BY <1>1, <2>1, GoesTo
<1>3. TypeOK'
  BY <1>1, <1>2 DEF TypeOK
<1>4. Counted'
  BY <1>1, <1>2, CountedStays DEF IInv
<1>5. Forward
  BY <1>1, <1>2 DEF Forward, TypeOK
<1>6. Heard(n)'
  <2>1. signal'[n] # "absent" /\ (flag[n] => signal'[n] = "true")
    BY <1>1 DEF TypeOK
  <2>2. QED
    BY <1>1, <1>2, <2>1 DEF Heard
<1>7. Passed(t)' = Passed(t)
  BY <1>2 DEF Passed
<1>8. \A m \in Passed(t) : Heard(m)'
  <2>1. Passed(t) \subseteq Node /\ \A m \in Passed(t) : Heard(m)
    BY <1>1, ChainIsClosed DEF Waits, Passed
  <2>2. QED
    BY <1>5, <2>1, HeardStays
<1>9. Placed(t)' /\ Waits(t)' /\ Asks(t)'
  <2>1. op'[t].node = n
    BY <1>2
  <2>2. Heard(op[t].node)'
    BY <1>6
  <2>3. (\A m \in Passed(t) : Heard(m))'
    BY <1>7, <1>8
  <2>4. Placed(t)' /\ Asks(t)'
    BY <1>1, <1>2 DEF Placed, Asks
  <2>5. QED
    BY <1>2, <1>6, <2>3, <2>4 DEF Waits, Heard
<1>10. QED
  BY <1>2, <1>3, <1>4, <1>5, <1>9 DEF StepOK

LEMMA ReadStep ==
    ASSUME IInv, NEW t \in Thread, Read(t)
    PROVE  StepOK(t)
<1> DEFINE n == op[t].node
           token == op[t].token
           p == Parent[n]
<1>1. /\ TypeOK /\ op[t].at = "read" /\ n \in Node /\ token \in Node
      /\ Waits(t) /\ Heard(n)
      /\ UNCHANGED <<flag, signal, born, freed, strong, holds, early>>
  BY DEF Read, IInv, Placed, Waits
<1>2. /\ p = None => Chain[n] = {n}
      /\ p # None => Chain[n] \subseteq {n} \cup Chain[p]
  BY <1>1, ChainAbove
<1>3. \A m \in Chain[token] : m \notin Chain[n] => Heard(m)
  BY <1>1, TreeAssumption DEF Waits, Passed
<1>4. CASE signal[n] = "true"
  <2>1. Returns(t)
    BY <1>4 DEF Read
  <2>2. /\ op' \in [Thread -> Op] /\ op'[t].at = "idle"
        /\ \A u \in Thread \ {t} : op'[u] = op[u]
    BY <1>1, <2>1, ReturnsTo
  <2>3. QED
    BY <1>1, <2>2, AtRest, OnlyMoves
<1>5. CASE signal[n] # "true" /\ p = None
  <2>1. Goes(t, "parked", token, None)
    BY <1>5 DEF Read, ParentOf
  <2>2. /\ op' \in [Thread -> Op] /\ op'[t].at = "parked"
        /\ op'[t].token = token /\ op'[t].node = None
        /\ \A u \in Thread \ {t} : op'[u] = op[u]
    <3>1. "parked" \in Steps
      BY DEF Steps
    <3> HIDE DEF n, token
    <3>2. QED
      BY <1>1, <2>1, <3>1, GoesTo
  <2>3. Forward
    BY <1>1, <2>2 DEF Forward
  <2>4. \A m \in Chain[token] : Heard(m)
    BY <1>1, <1>2, <1>3, <1>5
  <2>5. \A m \in Chain[token] : Heard(m)'
    BY <1>1, <2>3, <2>4, HeardStays, ChainIsClosed
  <2>6. Passed(t)' = Chain[token]
    BY <2>2 DEF Passed
  <2>7. Placed(t)' /\ Asks(t)' /\ Waits(t)'
    BY <1>1, <2>2, <2>5, <2>6 DEF Placed, Asks, Waits, Heard
  <2>8. QED
    BY <1>1, <2>2, <2>7, OnlyMoves
<1>6. CASE signal[n] # "true" /\ p # None
  <2>1. Goes(t, "install", token, p) /\ p \in Node
    BY <1>1, <1>6, ParentIsAnother DEF Read, ParentOf
  <2>2. /\ op' \in [Thread -> Op] /\ op'[t].at = "install"
        /\ op'[t].token = token /\ op'[t].node = p
        /\ \A u \in Thread \ {t} : op'[u] = op[u]
    <3>1. "install" \in Steps
      BY DEF Steps
    <3> HIDE DEF n, token, p
    <3>2. QED
      BY <1>1, <2>1, <3>1, GoesTo
  <2>3. Forward
    BY <1>1, <2>2 DEF Forward
  <2>4. \A m \in Chain[token] \ Chain[p] : Heard(m)
    BY <1>1, <1>2, <1>3, <1>6
  <2>5. \A m \in Chain[token] \ Chain[p] : Heard(m)'
    BY <1>1, <2>3, <2>4, HeardStays, ChainIsClosed
  <2>6. Passed(t)' = Chain[token] \ Chain[p]
    BY <2>1, <2>2, TreeAssumption DEF Passed
  <2>7. Placed(t)' /\ Asks(t)' /\ Waits(t)'
    BY <1>1, <2>1, <2>2, <2>5, <2>6 DEF Placed, Asks, Waits, Heard
  <2>8. QED
    BY <1>1, <2>2, <2>7, OnlyMoves
<1>7. QED
  BY <1>4, <1>5, <1>6

LEMMA WaitEnds ==
    ASSUME IInv, NEW t \in Thread, Wake(t) \/ GiveUp(t)
    PROVE  StepOK(t)
<1>1. /\ op[t].at = "parked" /\ Returns(t) /\ TypeOK
      /\ UNCHANGED <<flag, signal, born, freed, strong, holds, early>>
  BY DEF Wake, GiveUp, IInv
<1>2. /\ op' \in [Thread -> Op] /\ op'[t].at = "idle"
      /\ \A u \in Thread \ {t} : op'[u] = op[u]
  BY <1>1, ReturnsTo
<1>3. QED
  BY <1>1, <1>2, AtRest, OnlyMoves

-----------------------------------------------------------------------------
(* The invariant *)

LEMMA InitOK ==
    ASSUME Init
    PROVE  IInv
<1> DEFINE h == <<"handle", Main>>
<1>1. TypeOK
  <2>1. Idle \in Op
    BY DEF Idle, Op, Steps
  <2>2. QED
    BY <2>1, TreeAssumption DEF Init, TypeOK
<1>2. Counted
  <2>1. IsFiniteSet({}) /\ Cardinality({}) = 0 /\ IsFiniteSet({h}) /\ Cardinality({h}) = 1
    BY FS_EmptySet, FS_Singleton
  <2>2. h \in Ref /\ h[1] = "handle" /\ h[2] = Main
    BY TreeAssumption, RefParts
  <2>3. Parent[Root] = None /\ Root \in Node
    BY TreeAssumption
  <2>4. ASSUME NEW n \in Node, NEW x \in Ref PROVE RefersTo(x, n) <=> x = h /\ n = Root
    <3>1. /\ x = <<x[1], x[2]>> /\ n # None
          /\ x[1] \in {"handle", "child", "release"}
          /\ x[1] \in {"handle", "release"} => x[2] \in Thread
          /\ x[1] = "child" => x[2] \in Node
      BY RefParts, TreeAssumption
    <3>2. CASE x[1] = "handle"
      BY <2>2, <3>1, <3>2 DEF RefersTo, Init
    <3>3. CASE x[1] # "handle"
      BY <2>2, <2>3, <3>1, <3>3 DEF RefersTo, Init, Idle
    <3>4. QED
      BY <3>2, <3>3
  <2> HIDE DEF h
  <2>5. Refs(Root) = {h} /\ \A n \in Node \ {Root} : Refs(n) = {}
    BY <2>2, <2>3, <2>4 DEF Refs
  <2>6. ASSUME NEW n \in Node
        PROVE  /\ IsFiniteSet(Refs(n)) /\ strong[n] = Cardinality(Refs(n))
               /\ n \in born \ freed <=> Refs(n) # {}
    BY <2>1, <2>5 DEF Init
  <2>7. QED
    BY <2>6 DEF Counted
<1>3. \A t \in Thread : Placed(t) /\ Waits(t) /\ Asks(t)
  BY DEF Init, Idle, Placed, Waits, Asks
<1>4. QED
  BY <1>1, <1>2, <1>3 DEF IInv

LEMMA NextOK ==
    ASSUME IInv, [Next]_vars
    PROVE  IInv'
<1>1. CASE UNCHANGED vars
  <2>1. Counted'
    BY <1>1, CountedStays DEF IInv, vars
  <2>2. TypeOK'
    BY <1>1 DEF IInv, TypeOK, vars
  <2>3. \A t \in Thread : (Placed(t) /\ Waits(t) /\ Asks(t))'
    BY <1>1 DEF IInv, Placed, Waits, Heard, Passed, Asks, vars
  <2>4. QED
    BY <2>1, <2>2, <2>3 DEF IInv
<1>2. CASE Next
  <2>1. PICK t \in Thread :
            \/ Proceed(t) \/ GiveUp(t)
            \/ \E n \in Node : \/ Child(t, n) \/ Drop(t, n)
                               \/ Cancel(t, n) \/ EarlyLookup(t, n)
                               \/ Ask(t, n) \/ Await(t, n)
            \/ \E u \in Thread, n \in Node : Clone(t, u, n)
    BY <1>2 DEF Next
  <2>2. CASE Proceed(t)
    BY <2>2, SignalStep, StoreStep, AskNextStep, InstallStep, CheckStep,
       ReadStep, WaitEnds, UnlinkStep, StepKeeps DEF Proceed
  <2>3. CASE GiveUp(t)
    BY <2>3, WaitEnds, StepKeeps
  <2>4. ASSUME NEW n \in Node,
               \/ Child(t, n) \/ Drop(t, n) \/ Cancel(t, n)
               \/ EarlyLookup(t, n) \/ Ask(t, n) \/ Await(t, n)
        PROVE  IInv'
    BY <2>4, ChildStep, DropStep, CancelStep, EarlyLookupStep, AskStep,
       AwaitStep, StepKeeps
  <2>5. ASSUME NEW u \in Thread, NEW n \in Node, Clone(t, u, n) PROVE IInv'
    BY <2>5, CloneStep, StepKeeps
  <2>6. QED
    BY <2>1, <2>2, <2>3, <2>4, <2>5
<1>3. QED
  BY <1>1, <1>2

LEMMA InductiveInvariant == Spec => []IInv
<1>1. Init => IInv
  BY InitOK
<1>2. IInv /\ [Next]_vars => IInv'
  BY NextOK
<1>3. QED
  BY <1>1, <1>2, PTL DEF Spec

-----------------------------------------------------------------------------
(* Every variable of the tree keeps its type: counts are naturals, only    *)
(* what was made is freed, and a call stands where its code can.           *)
THEOREM TypeCorrect == Spec => []TypeOK
<1>1. IInv => TypeOK
  BY DEF IInv
<1>2. QED
  BY <1>1, InductiveInvariant, PTL

(* What lives is closed upwards, because a child refers to its parent. *)
LEMMA NeededLives ==
    ASSUME IInv, NEW n \in Sources
    PROVE  n \in Node /\ Chain[n] \subseteq born \ freed
<1>1. n \in Node /\ n \in born \ freed
  <2>1. CASE \E t \in Thread : n \in holds[t]
    BY <2>1, HeldLives DEF IInv
  <2>2. CASE \E t \in Thread : op[t].at = "unlink" /\ op[t].node = n
    <3>1. PICK t \in Thread : op[t].at = "unlink" /\ op[t].node = n
      BY <2>2
    <3> DEFINE d == <<"release", t>>
    <3>2. d \in Ref /\ d[1] = "release" /\ d[2] = t
      BY RefParts
    <3>3. n \in Node
      BY <3>1 DEF IInv, Placed
    <3>4. d \in Refs(n)
      BY <3>1, <3>2 DEF Refs, RefersTo
    <3>5. QED
      BY <3>3, <3>4 DEF IInv, Counted
  <2>3. QED
    BY <2>1, <2>2 DEF Sources
<1>2. Closed(born \ freed)
  <2> SUFFICES ASSUME NEW k \in born \ freed, Parent[k] # None
               PROVE  Parent[k] \in born \ freed
    BY DEF Closed
  <2> DEFINE c == <<"child", k>>
  <2>1. k \in Node /\ Parent[k] \in Node
    BY TreeAssumption DEF IInv, TypeOK
  <2>2. c \in Ref /\ c[1] = "child" /\ c[2] = k
    BY <2>1, RefParts
  <2>3. c \in Refs(Parent[k])
    BY <2>2 DEF Refs, RefersTo
  <2>4. QED
    BY <2>1, <2>3 DEF IInv, Counted
<1>3. born \ freed \in SUBSET Node
  BY DEF IInv, TypeOK
<1>4. QED
  BY <1>1, <1>2, <1>3, ChainIsLeast

(* A living node that nothing needs would have a child as little needed,   *)
(* deeper than itself, and the tree has a bottom.                          *)
LEMMA LivingIsNeeded ==
    ASSUME IInv, NEW n \in born \ freed
    PROVE  \E x \in Sources : n \in Chain[x]
<1> DEFINE Idlers == {k \in born \ freed : \A x \in Sources : k \notin Chain[x]}
<1>1. SUFFICES ASSUME n \in Idlers PROVE FALSE
  OBVIOUS
<1>2. PICK depth \in [Node -> 0..Cardinality(Node)] :
          \A k \in Node : Parent[k] # None => depth[Parent[k]] < depth[k]
  BY TreeAssumption
<1>3. Cardinality(Node) \in Nat /\ Idlers \subseteq Node
  BY TreeAssumption, FS_CardinalityType DEF IInv, TypeOK
<1>4. PICK k \in Idlers : \A j \in Idlers : depth[j] <= depth[k]
  <2> DEFINE D == {depth[j] : j \in Idlers}
  <2>1. D \subseteq 0..Cardinality(Node) /\ D # {}
    BY <1>1, <1>2, <1>3
  <2>2. PICK d \in D : \A e \in D : e <= d
    <3> HIDE DEF D
    <3>1. QED
      BY <1>3, <2>1, Greatest
  <2>3. QED
    BY <2>2
<1>5. k \in Node /\ k # None
  BY <1>3, TreeAssumption
<1>6. PICK r \in Refs(k) : TRUE
  BY <1>5 DEF IInv, Counted
<1>7. r \in Ref /\ RefersTo(r, k)
  BY DEF Refs
<1>8. CASE r[1] = "handle" \/ r[1] = "release"
  <2>1. k \in Sources
    BY <1>5, <1>7, <1>8, RefParts DEF RefersTo, Sources
  <2>2. k \in Chain[k]
    BY <1>5, ChainIsClosed
  <2>3. QED
    BY <1>4, <2>1, <2>2
<1>9. CASE r[1] = "child"
  <2> DEFINE m == r[2]
  <2>1. m \in born \ freed /\ Parent[m] = k /\ m \in Node
    BY <1>7, <1>9, RefParts DEF RefersTo
  <2>2. depth[k] < depth[m] /\ depth[k] \in Int /\ depth[m] \in Int
    BY <1>2, <1>3, <1>5, <2>1
  <2>3. m \notin Idlers
    BY <1>4, <2>2
  <2>4. PICK x \in Sources : m \in Chain[x]
    BY <2>1, <2>3
  <2>5. Closed(Chain[x])
    BY NeededLives, ChainIsClosed
  <2>6. k \in Chain[x]
    BY <1>5, <2>1, <2>4, <2>5 DEF Closed
  <2>7. QED
    BY <1>4, <2>6
<1>10. QED
  BY <1>7, <1>8, <1>9, RefParts

(* What is allocated is exactly what a handle or a release under way       *)
(* needs, for every tree, whoever clones, makes and drops tokens meanwhile *)
(* (Inner::parent, Inner::drop).                                           *)
THEOREM NothingLeaksOrDangles == Spec => []AliveIsNeeded
<1>1. IInv => AliveIsNeeded
  <2> SUFFICES ASSUME IInv PROVE AliveIsNeeded
    OBVIOUS
  <2>1. born \ freed = UNION {Chain[n] : n \in Sources}
    BY NeededLives, LivingIsNeeded
  <2>2. QED
    BY <2>1 DEF AliveIsNeeded
<1>2. QED
  BY <1>1, InductiveInvariant, PTL

(* A wait sleeps beside a cancelled token of its ancestry only while the   *)
(* cancel still has to send, or when its lookup of the channel was early   *)
(* (Inner::subscribe, Inner::cancel).                                      *)
THEOREM WakesAreNotLost == Spec => []NoLostWake
<1>1. IInv => NoLostWake
  <2> SUFFICES ASSUME IInv, NEW t \in Thread, op[t].at = "parked",
                      NEW m \in Chain[op[t].token]
               PROVE  Heard(m)
    BY DEF NoLostWake, Heard
  <2>1. op[t].node = None /\ Waits(t)
    BY DEF IInv, Placed
  <2>2. m \in Passed(t)
    BY <2>1 DEF Passed
  <2>3. QED
    BY <2>1, <2>2 DEF Waits
<1>2. QED
  BY <1>1, InductiveInvariant, PTL

(* A question asked after a token of the ancestry was cancelled ends at a  *)
(* flag that is set, however many cancels and drops pass meanwhile         *)
(* (Inner::is_cancelled).                                                  *)
THEOREM QuestionsSeeCancels == Spec => SeesCancel
<1> DEFINE Sees == \A t \in Thread :
                      op[t].at = "askingLate" /\ op'[t].at = "idle"
                          => flag[op[t].node]
<1>1. IInv /\ [Next]_vars => [Sees]_vars
  <2> SUFFICES ASSUME IInv, Next, NEW t \in Thread,
                      op[t].at = "askingLate", op'[t].at = "idle"
               PROVE  flag[op[t].node]
    OBVIOUS
  <2>1. PICK u \in Thread :
            \/ Proceed(u) \/ GiveUp(u)
            \/ \E n \in Node : \/ Child(u, n) \/ Drop(u, n)
                               \/ Cancel(u, n) \/ EarlyLookup(u, n)
                               \/ Ask(u, n) \/ Await(u, n)
            \/ \E v \in Thread, n \in Node : Clone(u, v, n)
    BY DEF Next
  <2>2. CASE AskNext(u)
    <3>1. \A v \in Thread \ {u} : op'[v] = op[v]
      BY <2>2, AskNextStep DEF StepOK
    <3>2. u = t
      BY <3>1
    <3>3. QED
      BY <2>2, <3>2, AskNextStep
  <2>3. CASE ~AskNext(u)
    <3>1. StepOK(u)
      <4>1. CASE Proceed(u)
        BY <2>3, <4>1, SignalStep, StoreStep, InstallStep, CheckStep, ReadStep,
           WaitEnds, UnlinkStep DEF Proceed
      <4>2. CASE ~Proceed(u)
        BY <2>1, <4>2, WaitEnds, ChildStep, DropStep, CancelStep,
           EarlyLookupStep, AskStep, AwaitStep, CloneStep
      <4>3. QED
        BY <4>1, <4>2
    <3>2. op[u].at # "askingLate" \/ op' = op
      BY <2>1, <2>3 DEF Proceed, Signal, Store, Install, Check, Read, Wake,
         Unlink, GiveUp, Child, Drop, Cancel, EarlyLookup, Ask, Await, Clone, Calls
    <3>3. QED
      BY <3>1, <3>2 DEF StepOK
  <2>4. QED
    BY <2>2, <2>3
<1>2. QED
  BY <1>1, InductiveInvariant, PTL DEF Spec, SeesCancel
=============================================================================
