------------------------------ MODULE SyncLog ------------------------------
(***************************************************************************)
(* What one synchronisation stream (one account, one domain) promises to   *)
(* the devices that share it, whatever the order of requests, failures and *)
(* restarts: a keyed store that moves only by atomic merges, each of which *)
(* carries a larger token than every merge before it.                      *)
(*                                                                         *)
(* SyncService.tla is the detailed specification that implements this one. *)
(***************************************************************************)
EXTENDS Naturals

CONSTANT Keys

VARIABLES
    tok,    \* the token of the last merge, 0 before the first one
    store   \* store[k]: the row of key k

logVars == <<tok, store>>

Row    == [at : Nat, deleted : BOOLEAN, seq : Nat]
NoRow  == [at |-> 0, deleted |-> FALSE, seq |-> 0]

Present(row) == row.seq > 0

LogTypeOK ==
    /\ tok \in Nat
    /\ store \in [Keys -> Row]

LogInit ==
    /\ tok = 0
    /\ store = [k \in Keys |-> NoRow]

-----------------------------------------------------------------------------
(* What a merge may do to the row of one key.                              *)

\* A write replaces the row only by a newer one, numbered inside the merge.
Written(old, new) ==
    /\ tok < new.seq
    /\ new.seq <= tok'
    /\ Present(old) => old.at < new.at

\* Only a deletion mark may be dropped.
Pruned(old, new) ==
    /\ Present(old)
    /\ old.deleted
    /\ new = NoRow

\* One push: all of its rows and its token appear together, and no two rows
\* share a number.
Merge ==
    /\ tok' > tok
    /\ LogTypeOK'
    /\ \A k \in Keys :
          \/ store'[k] = store[k]
          \/ Written(store[k], store'[k])
          \/ Pruned(store[k], store'[k])
    /\ \A j, k \in Keys :
          j # k /\ Present(store'[j]) => store'[j].seq # store'[k].seq

LogNext == Merge

LogSpec == LogInit /\ [][LogNext]_logVars
=============================================================================
