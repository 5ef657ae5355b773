----------------------------- MODULE MCRunLimit -----------------------------
(* A store at its record limit: three callers of three steps of one run,   *)
(* and a fourth of another run.                                            *)
EXTENDS RunStore

CONSTANTS c1, c2, c3, c4, r1, r2, k1, k2, k3, v1, ours

MCStep == [c \in Request |-> [run |-> IF c = c4 THEN r2 ELSE r1,
                              tenant |-> ours,
                              key |-> CASE c = c2 -> k2 [] c = c3 -> k3
                                        [] OTHER -> k1]]

MCYields == [c \in Request |-> {v1}]
=============================================================================
