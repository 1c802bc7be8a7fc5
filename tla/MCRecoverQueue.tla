--------------------------- MODULE MCRecoverQueue ---------------------------
(* Small instances of RecoverQueue. *)
EXTENDS RecoverQueue, TLC

GoroutineSymmetry == Permutations(Client) \cup Permutations(Job)
=============================================================================
