----------------------------- MODULE MCRunStore -----------------------------
(* Three callers over one store and one run: two of them remember the same *)
(* step, for two tenants, and the third another step.                      *)
EXTENDS RunStore

CONSTANTS c1, c2, c3, r1, k1, k2, v1, v2, ours, theirs

MCStep == [c \in Request |-> [run |-> r1,
                              tenant |-> IF c = c2 THEN theirs ELSE ours,
                              key |-> IF c = c3 THEN k2 ELSE k1]]

MCYields == [c \in Request |-> IF c = c2 THEN {v1, v2} ELSE {v1}]
=============================================================================
