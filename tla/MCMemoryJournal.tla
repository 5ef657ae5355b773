-------------------------- MODULE MCMemoryJournal --------------------------
(* Two attempts, two writers, room for seven of the eight-and-more events  *)
(* the two ladders can hold, so the ceiling refuses at every rung.         *)
EXTENDS MemoryJournal

CONSTANTS k1, k2, w1, w2
=============================================================================
