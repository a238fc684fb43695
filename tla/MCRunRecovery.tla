---------------------------- MODULE MCRunRecovery ----------------------------
(* Small instances of RunRecovery: every child belongs to the first run, so  *)
(* that one run has children and the others are its retries or neighbours.   *)
EXTENDS RunRecovery

CONSTANTS r1

MCChildOf == [c \in Child |-> r1]
=============================================================================
