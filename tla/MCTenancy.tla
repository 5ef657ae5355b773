----------------------------- MODULE MCTenancy -----------------------------
(* Tenanted admission on a small pool, one tenant of double weight. *)
EXTENDS TenancyShell

CONSTANTS light, heavy, other

MCWeight == [t \in Tenant |-> IF t = heavy THEN 2 ELSE 1]
=============================================================================
