--------------------------- MODULE MCContinuation ---------------------------
(* One action of a few attempts over a chain of files: its first attempt   *)
(* is settled and forgotten again before the last file is sealed.          *)
EXTENDS Continuation
=============================================================================
