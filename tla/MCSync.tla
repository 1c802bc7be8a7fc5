------------------------------- MODULE MCSync -------------------------------
(* Small instances of SyncService, and the properties they are checked for. *)
EXTENDS SyncService, TLC

CONSTANTS k1, k2

Put(k, ts)  == [key |-> k, at |-> ts, deleted |-> FALSE]
Drop(k, ts) == [key |-> k, at |-> ts, deleted |-> TRUE]

\* An empty batch, single writes and deletions, two keys at once.
MCBatches == {<< >>, <<Put(k1, 1)>>, <<Drop(k1, 2)>>, <<Put(k2, 1), Put(k1, 2)>>}

\* One key only: a write and a newer deletion.
MCOneKey == {<<Put(k1, 1)>>, <<Drop(k1, 2)>>}

\* Two items with the same key in one batch.
MCTwice == {<<Put(k1, 2), Put(k1, 1)>>, <<Put(k1, 1), Put(k1, 2)>>, <<Put(k2, 1)>>}

DeviceSymmetry == Permutations(Device)
=============================================================================
