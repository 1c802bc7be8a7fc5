----------------------------- MODULE MCAccounts -----------------------------
(* Small instances of Accounts. *)
EXTENDS Accounts, TLC

ClientSymmetry == Permutations(Client)
=============================================================================
