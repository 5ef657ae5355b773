------------------------- MODULE CancellationToken -------------------------
(***************************************************************************)
(* A tree of cancellation tokens used by several threads at once.  A node  *)
(* points at its parent and at nothing below it: cancelling sets one flag, *)
(* a question or a wait looks at every node from its own to the root, and  *)
(* the last handle of a node frees it and, going up, whatever it alone     *)
(* kept.  The channel that wakes waiters is made by the first of them.     *)
(***************************************************************************)
EXTENDS Integers, FiniteSets

CONSTANTS Node, Root, Parent, Thread, None,
          Main    \* the thread that makes the root

(* A child is made from its parent, so that no node is its own ancestor. *)
ASSUME TreeAssumption ==
    /\ IsFiniteSet(Node) /\ IsFiniteSet(Thread)
    /\ Root \in Node /\ None \notin Node
    /\ Parent \in [Node -> Node \cup {None}]
    /\ Parent[Root] = None
    /\ Main \in Thread
    /\ \E depth \in [Node -> 0..Cardinality(Node)] :
          \A n \in Node : Parent[n] # None => depth[Parent[n]] < depth[n]

VARIABLES flag,     \* the flag of each node
          signal,   \* its channel, once built, and the value on it
          born,     \* nodes made so far
          freed,    \* nodes whose memory was given back
          strong,   \* the strong count of each node
          holds,    \* the nodes each thread has a handle on
          op,       \* what each thread is in the middle of
          early     \* history: nodes whose cancel looked up before it stored

vars == <<flag, signal, born, freed, strong, holds, op, early>>

(* Mutant: the walk up stops below the root. *)
ParentBelowRoot(n) == IF Parent[n] = Root THEN None ELSE Parent[n]

(* The next node of a walk up. *)
ParentOf(n) == Parent[n]

(* A node and its ancestors: whatever every walk up from it passes. *)
Chain == [n \in Node |->
    {m \in Node : \A S \in SUBSET Node :
        n \in S /\ (\A k \in S : Parent[k] = None \/ Parent[k] \in S) => m \in S}]

Steps == {"idle", "signal", "store", "install", "check",
          "read", "parked", "asking", "askingLate", "unlink"}

Op == [at : Steps, token : Node \cup {None}, node : Node \cup {None}]

Idle == [at |-> "idle", token |-> None, node |-> None]

TypeOK ==
    /\ flag \in [Node -> BOOLEAN]
    /\ signal \in [Node -> {"absent", "false", "true"}]
    /\ born \subseteq Node
    /\ freed \subseteq born
    /\ strong \in [Node -> Nat]
    /\ holds \in [Thread -> SUBSET Node]
    /\ op \in [Thread -> Op]
    /\ early \subseteq Node

Init ==
    /\ flag = [n \in Node |-> FALSE]
    /\ signal = [n \in Node |-> "absent"]
    /\ born = {Root}
    /\ freed = {}
    /\ strong = [n \in Node |-> IF n = Root THEN 1 ELSE 0]
    /\ holds = [t \in Thread |-> IF t = Main THEN {Root} ELSE {}]
    /\ op = [t \in Thread |-> Idle]
    /\ early = {}

Goes(t, at, token, node) ==
    op' = [op EXCEPT ![t] = [at |-> at, token |-> token, node |-> node]]

Returns(t) == op' = [op EXCEPT ![t] = Idle]

(* A thread that is in no call, with a handle to call with. *)
Calls(t, n) == op[t].at = "idle" /\ n \in holds[t]

-----------------------------------------------------------------------------
(* child_token, clone, and the drop of a handle *)

(* Mutant: a child keeps no strong reference to its parent. *)
ChildKeepsNothing(t, m) ==
    /\ m \notin born
    /\ Parent[m] # None
    /\ Calls(t, Parent[m])
    /\ born' = born \cup {m}
    /\ strong' = [strong EXCEPT ![m] = 1]
    /\ holds' = [holds EXCEPT ![t] = @ \cup {m}]
    /\ UNCHANGED <<flag, signal, freed, op, early>>

Child(t, m) ==
    /\ m \notin born
    /\ Parent[m] # None
    /\ Calls(t, Parent[m])
    /\ born' = born \cup {m}
    /\ strong' = [strong EXCEPT ![m] = 1, ![Parent[m]] = @ + 1]
    /\ holds' = [holds EXCEPT ![t] = @ \cup {m}]
    /\ UNCHANGED <<flag, signal, freed, op, early>>

(* Mutant: a clone is not counted. *)
CloneUncounted(t, u, n) ==
    /\ Calls(t, n)
    /\ n \notin holds[u]
    /\ holds' = [holds EXCEPT ![u] = @ \cup {n}]
    /\ UNCHANGED <<flag, signal, born, freed, strong, op, early>>

(* A clone is given to another thread. *)
Clone(t, u, n) ==
    /\ Calls(t, n)
    /\ n \notin holds[u]
    /\ strong' = [strong EXCEPT ![n] = @ + 1]
    /\ holds' = [holds EXCEPT ![u] = @ \cup {n}]
    /\ UNCHANGED <<flag, signal, born, freed, op, early>>

(* Mutant: the walk up the ancestry ends with the first node freed. *)
GivesUpOne(t, n) ==
    /\ strong' = [strong EXCEPT ![n] = @ - 1]
    /\ Returns(t)
    /\ freed' = IF strong[n] > 1 THEN freed ELSE freed \cup {n}

(* One strong reference to n goes, and with the last of them n: its link   *)
(* is taken out and consumed next (Inner::drop, Arc::into_inner).          *)
GivesUp(t, n) ==
    /\ strong' = [strong EXCEPT ![n] = @ - 1]
    /\ IF strong[n] > 1 THEN Returns(t) /\ UNCHANGED freed
       ELSE /\ freed' = freed \cup {n}
            /\ IF Parent[n] = None THEN Returns(t)
               ELSE Goes(t, "unlink", None, Parent[n])

Drop(t, n) ==
    /\ Calls(t, n)
    /\ holds' = [holds EXCEPT ![t] = @ \ {n}]
    /\ GivesUp(t, n)
    /\ UNCHANGED <<flag, signal, born, early>>

Unlink(t) ==
    /\ op[t].at = "unlink"
    /\ GivesUp(t, op[t].node)
    /\ UNCHANGED <<flag, signal, born, holds, early>>

-----------------------------------------------------------------------------
(* cancel *)

Cancel(t, n) ==
    /\ Calls(t, n)
    /\ flag' = [flag EXCEPT ![n] = TRUE]
    /\ Goes(t, "signal", n, n)
    /\ UNCHANGED <<signal, born, freed, strong, holds, early>>

(* A channel that is found stays, so that its lookup and the send on it    *)
(* are one step.                                                           *)
Signal(t) ==
    /\ op[t].at = "signal"
    /\ signal' = [signal EXCEPT ![op[t].node] = IF @ = "absent" THEN @ ELSE "true"]
    /\ Returns(t)
    /\ UNCHANGED <<flag, born, freed, strong, holds, early>>

(* OnceLock::get is an acquire load: it is not kept behind the store to    *)
(* another place that the code puts before it, and may find nothing yet.   *)
EarlyLookup(t, n) ==
    /\ Calls(t, n)
    /\ signal[n] = "absent"
    /\ early' = early \cup {n}
    /\ Goes(t, "store", n, n)
    /\ UNCHANGED <<flag, signal, born, freed, strong, holds>>

Store(t) ==
    /\ op[t].at = "store"
    /\ flag' = [flag EXCEPT ![op[t].node] = TRUE]
    /\ Returns(t)
    /\ UNCHANGED <<signal, born, freed, strong, holds, early>>

-----------------------------------------------------------------------------
(* is_cancelled *)

Ask(t, n) ==
    /\ Calls(t, n)
    /\ Goes(t, IF \E m \in Chain[n] : flag[m] THEN "askingLate" ELSE "asking", n, n)
    /\ UNCHANGED <<flag, signal, born, freed, strong, holds, early>>

AskNext(t) ==
    /\ op[t].at \in {"asking", "askingLate"}
    /\ LET up == ParentOf(op[t].node)
       IN  IF flag[op[t].node] \/ up = None THEN Returns(t)
           ELSE Goes(t, op[t].at, op[t].token, up)
    /\ UNCHANGED <<flag, signal, born, freed, strong, holds, early>>

-----------------------------------------------------------------------------
(* cancelled *)

(* subscribe: the channel is built unless it is there (get_or_init), ...   *)
Subscribes(t, token, n) ==
    /\ signal' = [signal EXCEPT ![n] = IF @ = "absent" THEN "false" ELSE @]
    /\ Goes(t, "check", token, n)
    /\ UNCHANGED <<flag, born, freed, strong, holds, early>>

Await(t, n) == Calls(t, n) /\ Subscribes(t, n, n)

Install(t) == op[t].at = "install" /\ Subscribes(t, op[t].token, op[t].node)

(* Mutant: the flag is not read again once the channel is there. *)
ReadsNothing(n) == FALSE

ReadsSet(n) == flag[n]

(* ... and the flag read again, and published if it is set. *)
Check(t) ==
    /\ op[t].at = "check"
    /\ LET n == op[t].node
       IN  /\ signal' = [signal EXCEPT ![n] = IF ReadsSet(n) THEN "true" ELSE @]
           /\ Goes(t, "read", op[t].token, n)
    /\ UNCHANGED <<flag, born, freed, strong, holds, early>>

(* The value is read: the wait is over, or goes on to the next node.       *)
Read(t) ==
    /\ op[t].at = "read"
    /\ LET n == op[t].node
           up == ParentOf(n)
       IN  IF signal[n] = "true" THEN Returns(t)
           ELSE IF up = None THEN Goes(t, "parked", op[t].token, None)
           ELSE Goes(t, "install", op[t].token, up)
    /\ UNCHANGED <<flag, signal, born, freed, strong, holds, early>>

(* Mutant: a wait is on the channel of its own node only. *)
WatchesOwn(t) == {op[t].token}

Watches(t) == Chain[op[t].token]

(* A send on any channel of the chain wakes the wait, which saw "false".   *)
Wake(t) ==
    /\ op[t].at = "parked"
    /\ \E m \in Watches(t) : signal[m] = "true"
    /\ Returns(t)
    /\ UNCHANGED <<flag, signal, born, freed, strong, holds, early>>

(* The future is dropped between two polls (run_until_cancelled). *)
GiveUp(t) ==
    /\ op[t].at = "parked"
    /\ Returns(t)
    /\ UNCHANGED <<flag, signal, born, freed, strong, holds, early>>

-----------------------------------------------------------------------------

(* The steps of a call that has begun. *)
Proceed(t) ==
    \/ Signal(t) \/ Store(t)
    \/ AskNext(t)
    \/ Install(t) \/ Check(t) \/ Read(t) \/ Wake(t)
    \/ Unlink(t)

Next ==
    \E t \in Thread :
       \/ Proceed(t) \/ GiveUp(t)
       \/ \E n \in Node : \/ Child(t, n) \/ Drop(t, n)
                          \/ Cancel(t, n) \/ EarlyLookup(t, n)
                          \/ Ask(t, n) \/ Await(t, n)
       \/ \E u \in Thread, n \in Node : Clone(t, u, n)

Spec == Init /\ [][Next]_vars

(* A thread finishes the call it is in; whether it makes one is its own.   *)
FairSpec == Spec /\ \A t \in Thread : WF_vars(Proceed(t))

-----------------------------------------------------------------------------

(* What a handle, or a release under way, stands at. *)
Sources ==
    {n \in Node : \E t \in Thread :
        n \in holds[t] \/ (op[t].at = "unlink" /\ op[t].node = n)}

(* What is allocated is what a handle, or a release under way, needs: a    *)
(* handle keeps its whole ancestry whichever neighbours other threads      *)
(* free, and two threads that release the last handles of one subtree      *)
(* never both leave it to the other (Inner::parent, Arc::into_inner).      *)
AliveIsNeeded == born \ freed = UNION {Chain[n] : n \in Sources}

(* No cancel falls between a waiter's look at a node and its sleep: for    *)
(* every node of its chain that was cancelled, the waiter is woken or the  *)
(* cancel is still about to send (subscribe, cancel).  Cancels whose       *)
(* lookup of the channel passed their store are excepted (early): those    *)
(* may lose the wake, which the comments of subscribe and of cancelled     *)
(* rule out and the code does not.                                         *)
NoLostWake ==
    \A t \in Thread : op[t].at = "parked" =>
        \A m \in Chain[op[t].token] :
            flag[m] => \/ signal[m] = "true"
                       \/ m \in early
                       \/ \E u \in Thread : op[u].at = "signal" /\ op[u].node = m

(* A call of is_cancelled that begins after a token of the chain was       *)
(* cancelled ends at a flag that is set, so it answers yes.                *)
SeesCancel ==
    [][\A t \in Thread :
          op[t].at = "askingLate" /\ op'[t].at = "idle"
              => flag[op[t].node]]_vars

(* A wait on a token of a cancelled chain ends (cancelled), unless every   *)
(* cancel of the chain is one whose lookup passed its store (early):       *)
(* beside those it may sleep for ever, as in NoLostWake.                   *)
CancelReaches ==
    \A t \in Thread :
        op[t].at = "parked" /\ (\E m \in Chain[op[t].token] \ early : flag[m])
            ~> op[t].at # "parked"
=============================================================================
