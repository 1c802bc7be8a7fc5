----------------------------- MODULE MCDiskLRU -----------------------------
(* Small instances of DiskLRU: the constants are given in the .cfg files. *)
EXTENDS DiskLRU
=============================================================================
