------------------------------ MODULE MCKernel ------------------------------
(* The instances of the kernel the runs check: which chains are declared   *)
(* over the two actions is each run's choice of Entries.                   *)
EXTENDS EffectKernel, TLC

CONSTANTS c1, c2,        \* controllers
          a1, a2,        \* actions
          ch1, ch2,      \* chains
          event, value   \* an input naming an event, an input naming content

MCKey == [action : Action, input : Input, attempt : 1..MaxAttempt]

(* Every condition holds, or a2 wants nothing of the event. *)
WantsAll == Action \X Input
WantsLess == WantsAll \ {<<a2, event>>}

(* Every source may show every input, or only the second shows the value. *)
DeliversAll == [ch \in Chain |-> Input]
DeliversEach == [ch \in Chain |-> IF ch = ch1 THEN {event} ELSE Input]

OneEntry   == [ch \in Chain |-> <<a1>>]
TwoEntries == [ch \in Chain |-> <<a1, a2>>]
TwoChains  == [ch \in Chain |-> IF ch = ch1 THEN <<a1>> ELSE <<a2>>]

ControllerSymmetry == Permutations(Controller)
=============================================================================
