------------------------------ MODULE DiskLRU ------------------------------
(***************************************************************************)
(* The image cache of internal/cache: files in a directory, rows of        *)
(* cache_meta in the database, and the byte count `total` in memory.  The  *)
(* three are changed one after the other by request goroutines (Commit and *)
(* Get) and by one eviction at a time.                                     *)
(*                                                                         *)
(* A file is modelled by its length, 0 for none; a row by its size, 0 for  *)
(* none, and by its place in lru, which orders the rows by atime.          *)
(***************************************************************************)
EXTENDS Integers, FiniteSets, FiniteSetsExt, SequencesExt

CONSTANTS
    Keys,           \* cache keys
    Worker,         \* request goroutines
    Sizes,          \* lengths of the images
    Watermarks,     \* values of watermark() the limits can be set to
    Configured,     \* those of them the configuration may give to Open
    EvictionBatch,  \* Config.EvictionBatch
    MaxWrites,      \* bound: commits started
    MaxEvents       \* bound: events, requested evictions, changes of limits

ASSUME CacheAssumption ==
    /\ IsFiniteSet(Keys) /\ Keys # {}
    /\ Sizes \subseteq Nat \ {0}
    /\ Watermarks \subseteq Nat /\ Configured \subseteq Watermarks
    /\ EvictionBatch \in Nat \ {0}
    /\ MaxWrites \in Nat /\ MaxEvents \in Nat

VARIABLES
    file,       \* file[k]: length of the file at pathFor(k)
    size,       \* size[k]: the size column of the row of k
    lru,        \* the keys with a row, least recently used first
    total,      \* DiskLRU.total
    watermark,  \* DiskLRU.watermark()
    pc, key, n, seen,   \* of each worker: step, key, length, size read
    evict,      \* the step of the goroutine that holds evictMu, or "off"
    batch,      \* the rows it still has to treat
    serving,    \* Open has returned
    triggers,   \* goroutines started by maybeEvict that have not run yet
    writes, events,     \* counters for the bounds
    mixed       \* auxiliary: keys on which two operations met, or one broke off

stores   == <<file, size, lru>>
locals   == <<pc, key, n, seen>>
evicting == <<evict, batch, serving, triggers>>
counts   == <<writes, events>>
vars     == <<stores, total, watermark, locals, evicting, counts, mixed>>

Sum == MapThenSumSet(LAMBDA k : size[k], Keys)

Commits == {"rename", "readOld", "upsert", "count"}
Gets    == {"open", "drop", "forget", "touch"}

TypeOK ==
    /\ file \in [Keys -> Sizes \cup {0}]
    /\ size \in [Keys -> Sizes \cup {0}]
    /\ lru \in Seq(Keys) /\ IsInjective(lru)
    /\ ToSet(lru) = {k \in Keys : size[k] # 0}
    /\ total \in Int
    /\ watermark \in Watermarks
    /\ pc \in [Worker -> {"idle"} \cup Commits \cup Gets]
    /\ key \in [Worker -> Keys]
    /\ n \in [Worker -> Sizes \cup {0}]
    /\ seen \in [Worker -> Sizes \cup {0}]
    /\ evict \in {"off", "loop", "query", "remove", "delete", "forget"}
    /\ batch \in Seq([key : Keys, size : Sizes])
    /\ serving \in BOOLEAN
    /\ triggers \in Nat
    /\ mixed \subseteq Keys

Init ==
    /\ file = [k \in Keys |-> 0]
    /\ size = [k \in Keys |-> 0]
    /\ lru = <<>>
    /\ total = 0
    /\ watermark \in Configured
    /\ pc = [w \in Worker |-> "idle"]
    /\ key \in [Worker -> {CHOOSE k \in Keys : TRUE}]
    /\ n = [w \in Worker |-> 0]
    /\ seen = [w \in Worker |-> 0]
    /\ evict = "off"
    /\ batch = <<>>
    /\ serving = TRUE
    /\ triggers = 0
    /\ writes = 0 /\ events = 0
    /\ mixed = {}

-----------------------------------------------------------------------------
(* Rows.                                                                   *)

Without(k) == RemoveFirst(lru, k)

\* INSERT OR REPLACE with atime = now.
UpsertRow(k, s) ==
    /\ size' = [size EXCEPT ![k] = s]
    /\ lru' = Append(Without(k), k)

\* DELETE WHERE key = k, which may match no row.
DeleteRow(k) ==
    /\ size' = [size EXCEPT ![k] = 0]
    /\ lru' = Without(k)

\* The keys a commit or the eviction is working on.
Committing == {key[w] : w \in {v \in Worker : pc[v] \in Commits}}
Evicting   == {batch[i].key : i \in DOMAIN batch}

Return(w) ==
    /\ pc' = [pc EXCEPT ![w] = "idle"]
    /\ key' = [key EXCEPT ![w] = CHOOSE k \in Keys : TRUE]
    /\ n' = [n EXCEPT ![w] = 0]
    /\ seen' = [seen EXCEPT ![w] = 0]

Goto(w, step) ==
    /\ pc' = [pc EXCEPT ![w] = step]
    /\ UNCHANGED <<key, n, seen>>

-----------------------------------------------------------------------------
(* Writer.Commit, after the body was written to a temporary file.          *)

CommitStart(w) ==
    /\ pc[w] = "idle" /\ serving /\ writes < MaxWrites
    /\ \E k \in Keys, s \in Sizes :
          /\ pc' = [pc EXCEPT ![w] = "rename"]
          /\ key' = [key EXCEPT ![w] = k]
          /\ n' = [n EXCEPT ![w] = s]
          /\ mixed' = IF k \in Committing \cup Evicting THEN mixed \cup {k} ELSE mixed
    /\ writes' = writes + 1
    /\ UNCHANGED <<stores, total, watermark, seen, evicting, events>>

\* Too large, a failed write, or the rename failed five times: the temporary
\* file is removed.
CommitDiscard(w) ==
    /\ pc[w] = "rename"
    /\ Return(w)
    /\ UNCHANGED <<stores, total, watermark, evicting, counts, mixed>>

CommitRename(w) ==
    /\ pc[w] = "rename"
    /\ file' = [file EXCEPT ![key[w]] = n[w]]
    /\ Goto(w, "readOld")
    /\ UNCHANGED <<size, lru, total, watermark, evicting, counts, mixed>>

CommitReadOld(w) ==
    /\ pc[w] = "readOld"
    /\ seen' = [seen EXCEPT ![w] = size[key[w]]]
    /\ pc' = [pc EXCEPT ![w] = "upsert"]
    /\ UNCHANGED <<stores, total, watermark, key, n, evicting, counts, mixed>>

\* The error of this query is ignored: the old size stays 0.
CommitReadOldFails(w) ==
    /\ pc[w] = "readOld"
    /\ Goto(w, "upsert")
    /\ mixed' = mixed \cup {key[w]}
    /\ UNCHANGED <<stores, total, watermark, evicting, counts>>

CommitUpsert(w) ==
    /\ pc[w] = "upsert"
    /\ UpsertRow(key[w], n[w])
    /\ Goto(w, "count")
    /\ UNCHANGED <<file, total, watermark, evicting, counts, mixed>>

\* The statement fails, for example because the client went away and its
\* context was cancelled: stored = false, but the file is in place.
CommitUpsertFails(w) ==
    /\ pc[w] = "upsert"
    /\ Return(w)
    /\ mixed' = mixed \cup {key[w]}
    /\ UNCHANGED <<stores, total, watermark, evicting, counts>>

\* A goroutine is started if the total t is above the watermark m.
MaybeEvict(t, m) ==
    triggers' = IF t > m THEN triggers + 1 ELSE triggers

\* Mutant: a replaced entry is counted twice.
CommitCountNew(w) ==
    /\ pc[w] = "count"
    /\ total' = total + n[w]
    /\ MaybeEvict(total', watermark)
    /\ Return(w)
    /\ UNCHANGED <<stores, watermark, evict, batch, serving, counts, mixed>>

CommitCount(w) ==
    /\ pc[w] = "count"
    /\ total' = total + n[w] - seen[w]
    /\ MaybeEvict(total', watermark)
    /\ Return(w)
    /\ UNCHANGED <<stores, watermark, evict, batch, serving, counts, mixed>>

-----------------------------------------------------------------------------
(* Get                                                                     *)

GetMeta(w) ==
    /\ pc[w] = "idle" /\ serving
    /\ \E k \in Keys :
          /\ size[k] # 0
          /\ key' = [key EXCEPT ![w] = k]
          /\ seen' = [seen EXCEPT ![w] = size[k]]
    /\ pc' = [pc EXCEPT ![w] = "open"]
    /\ UNCHANGED <<stores, total, watermark, n, evicting, counts, mixed>>

\* The file is open from here on, whatever happens to its name.
GetOpen(w) ==
    /\ pc[w] = "open"
    /\ file[key[w]] # 0
    /\ n' = [n EXCEPT ![w] = file[key[w]]]
    /\ pc' = [pc EXCEPT ![w] = "touch"]
    /\ UNCHANGED <<stores, total, watermark, key, seen, evicting, counts, mixed>>

GetMissing(w) ==
    /\ pc[w] = "open"
    /\ file[key[w]] = 0
    /\ Goto(w, "drop")
    /\ mixed' = mixed \cup {key[w]}
    /\ UNCHANGED <<stores, total, watermark, evicting, counts>>

GetDrop(w) ==
    /\ pc[w] = "drop"
    /\ DeleteRow(key[w])
    /\ Goto(w, "forget")
    /\ UNCHANGED <<file, total, watermark, evicting, counts, mixed>>

GetForget(w) ==
    /\ pc[w] = "forget"
    /\ total' = total - seen[w]
    /\ Return(w)
    /\ UNCHANGED <<stores, watermark, evicting, counts, mixed>>

\* Mutant: a hit writes its row back instead of updating it.
GetTouchInserts(w) ==
    /\ pc[w] = "touch"
    /\ lru' = Append(Without(key[w]), key[w])
    /\ Return(w)
    /\ UNCHANGED <<file, size, total, watermark, evicting, counts, mixed>>

\* UPDATE atime, which may match no row.
GetTouch(w) ==
    /\ pc[w] = "touch"
    /\ lru' = IF size[key[w]] # 0 THEN Append(Without(key[w]), key[w]) ELSE lru
    /\ Return(w)
    /\ UNCHANGED <<file, size, total, watermark, evicting, counts, mixed>>

\* The file cannot be opened, the DELETE fails, or the UPDATE fails, which is
\* only logged.
GetFails(w) ==
    /\ pc[w] \in {"open", "drop", "touch"}
    /\ Return(w)
    /\ UNCHANGED <<stores, total, watermark, evicting, counts, mixed>>

-----------------------------------------------------------------------------
(* evict, run by whoever holds evictMu.                                    *)

\* A goroutine of maybeEvict: TryLock, and nothing if an eviction runs.
Trigger ==
    /\ triggers > 0
    /\ triggers' = triggers - 1
    /\ evict' = IF evict = "off" THEN "loop" ELSE evict
    /\ UNCHANGED <<stores, total, watermark, locals, batch, serving, counts, mixed>>

\* Evict, which waits for the lock: the administrator's request.
EvictNow ==
    /\ evict = "off" /\ events < MaxEvents
    /\ evict' = "loop"
    /\ events' = events + 1
    /\ UNCHANGED <<stores, total, watermark, locals, batch, serving, triggers, writes, mixed>>

EvictCheck ==
    /\ evict = "loop"
    /\ evict' = IF total > watermark THEN "query" ELSE "off"
    /\ serving' = (serving \/ evict' = "off")
    /\ UNCHANGED <<stores, total, watermark, locals, batch, triggers, counts, mixed>>

\* ORDER BY atime LIMIT EvictionBatch, with the sizes at that moment.
OldestRows ==
    [i \in 1 .. Min({Len(lru), EvictionBatch}) |-> [key |-> lru[i], size |-> size[lru[i]]]]

\* Mutant: an empty answer goes on with the loop.
EvictQueryGoesOn ==
    /\ evict = "query"
    /\ batch' = OldestRows
    /\ evict' = IF lru = <<>> THEN "loop" ELSE "remove"
    /\ mixed' = mixed \cup (Committing \cap {batch'[i].key : i \in DOMAIN batch'})
    /\ UNCHANGED <<stores, total, watermark, locals, serving, triggers, counts>>

\* The oldest rows are selected; an empty answer ends the eviction.
EvictQuery ==
    /\ evict = "query"
    /\ batch' = OldestRows
    /\ evict' = IF lru = <<>> THEN "off" ELSE "remove"
    /\ serving' = (serving \/ evict' = "off")
    /\ mixed' = mixed \cup (Committing \cap {batch'[i].key : i \in DOMAIN batch'})
    /\ UNCHANGED <<stores, total, watermark, locals, triggers, counts>>

\* The query fails: the eviction ends.
EvictQueryFails ==
    /\ evict = "query"
    /\ evict' = "off"
    /\ serving' = TRUE
    /\ UNCHANGED <<stores, total, watermark, locals, batch, triggers, counts, mixed>>

NextRow ==
    /\ batch' = Tail(batch)
    /\ evict' = IF Len(batch) = 1 THEN "loop" ELSE "remove"
    /\ UNCHANGED serving

\* The file is removed, or was not there.
EvictRemove ==
    /\ evict = "remove"
    /\ file' = [file EXCEPT ![Head(batch).key] = 0]
    /\ evict' = "delete"
    /\ UNCHANGED <<size, lru, total, watermark, locals, batch, serving, triggers, counts, mixed>>

\* Mutant: the row is deleted although the file stays.
EvictBusyDropsRow ==
    /\ evict = "remove"
    /\ DeleteRow(Head(batch).key)
    /\ evict' = "forget"
    /\ UNCHANGED <<file, total, watermark, locals, batch, serving, triggers, counts, mixed>>

\* The file is in use and cannot be removed: the row is kept for later.
EvictBusy ==
    /\ evict = "remove"
    /\ NextRow
    /\ UNCHANGED <<stores, total, watermark, locals, triggers, counts, mixed>>

EvictDelete ==
    /\ evict = "delete"
    /\ DeleteRow(Head(batch).key)
    /\ evict' = "forget"
    /\ UNCHANGED <<file, total, watermark, locals, batch, serving, triggers, counts, mixed>>

EvictDeleteFails ==
    /\ evict = "delete"
    /\ NextRow
    /\ mixed' = mixed \cup {Head(batch).key}
    /\ UNCHANGED <<stores, total, watermark, locals, triggers, counts>>

EvictForget ==
    /\ evict = "forget"
    /\ total' = total - Head(batch).size
    /\ NextRow
    /\ UNCHANGED <<stores, watermark, locals, triggers, counts, mixed>>

-----------------------------------------------------------------------------

\* SetLimits, called by the administrator's settings, also by those that were
\* saved when the server starts.
SetLimits ==
    /\ serving /\ events < MaxEvents
    /\ watermark' \in Watermarks
    /\ MaybeEvict(total, watermark')
    /\ events' = events + 1
    /\ UNCHANGED <<stores, total, locals, evict, batch, serving, writes, mixed>>

\* The process stops anywhere and Open runs again: the limits are those of the
\* configuration, total is the sum of the rows, and one eviction runs before
\* anything is served.
Restart ==
    /\ events < MaxEvents
    /\ events' = events + 1
    /\ watermark' \in Configured
    /\ total' = Sum
    /\ pc' = [w \in Worker |-> "idle"]
    /\ key' = [w \in Worker |-> CHOOSE k \in Keys : TRUE]
    /\ n' = [w \in Worker |-> 0]
    /\ seen' = [w \in Worker |-> 0]
    /\ evict' = "loop"
    /\ batch' = <<>>
    /\ serving' = FALSE
    /\ triggers' = 0
    /\ mixed' = mixed \cup Committing \cup Evicting
    /\ UNCHANGED <<stores, writes>>

Commit(w) == \/ CommitStart(w) \/ CommitDiscard(w) \/ CommitRename(w)
             \/ CommitReadOld(w) \/ CommitReadOldFails(w) \/ CommitUpsert(w)
             \/ CommitUpsertFails(w) \/ CommitCount(w)

Get(w) == \/ GetMeta(w) \/ GetOpen(w) \/ GetMissing(w) \/ GetDrop(w)
          \/ GetForget(w) \/ GetTouch(w) \/ GetFails(w)

Evict == \/ Trigger \/ EvictNow \/ EvictCheck \/ EvictQuery \/ EvictQueryFails
         \/ EvictRemove \/ EvictBusy \/ EvictDelete \/ EvictDeleteFails
         \/ EvictForget

Next ==
    \/ \E w \in Worker : Commit(w) \/ Get(w)
    \/ Evict
    \/ SetLimits
    \/ Restart

Spec == Init /\ [][Next]_vars

\* The goroutine that evicts is scheduled, and a file that keeps being tried
\* is not in use every time, nor does every DELETE fail.
Fairness ==
    /\ WF_vars(Trigger) /\ WF_vars(EvictCheck) /\ WF_vars(EvictQuery)
    /\ SF_vars(EvictRemove) /\ SF_vars(EvictDelete) /\ WF_vars(EvictForget)

FairSpec == Spec /\ Fairness

-----------------------------------------------------------------------------
(* Properties *)

\* No operation is changing the file or the row of k.
Quiet(k) ==
    /\ k \notin Committing \cup Evicting
    /\ \A w \in Worker : key[w] = k => pc[w] \notin {"drop", "forget"}

\* Row and file of an entry agree whenever nothing is at work on it, however
\* commits, hits, evictions, busy files and restarts of other entries fall,
\* as long as no two of them met on this entry (rename before the row, file
\* before the row in evict).
RowsMatchFiles ==
    \A k \in Keys \ mixed : Quiet(k) => file[k] = size[k]

\* The count in memory is the sum of the rows whenever nothing is under way,
\* as long as no two operations met on an entry (disklru.go:63).
TotalIsSumUnmixed ==
    mixed = {} /\ (\A k \in Keys : Quiet(k)) => total = Sum

\* An eviction ends, even if the count has drifted above what the rows can
\* give back, and the server gets to serve after a restart.
EvictionEnds == evict # "off" ~> evict = "off" /\ serving

-----------------------------------------------------------------------------
(* Statements of the sources and tests that the code does not keep *)

\* disklru_test.go:205: after any number of concurrent Puts of one key the
\* total is the size of that entry.
TotalIsSum ==
    (\A w \in Worker : pc[w] = "idle") /\ evict = "off" => total = Sum

\* disklru.go:231: Commit returning stored = false leaves the entry as it was.
NotStoredNotCached ==
    [][\A w \in Worker : CommitUpsertFails(w) => file[key[w]] = size[key[w]]]_vars

\* disklru.go:58: reads are safe next to writes.  The length a hit announces
\* is the length of the file it sends.
HitLengthMatches ==
    \A w \in Worker : pc[w] = "touch" => n[w] = seen[w]
=============================================================================
