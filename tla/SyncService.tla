---------------------------- MODULE SyncService ----------------------------
(***************************************************************************)
(* The push and pull handlers of internal/sync, the in-memory token store, *)
(* the two tables they work on, and the devices that call them.            *)
(*                                                                         *)
(* One stream (one account and one domain) is modelled: the tables and the *)
(* token map are keyed by stream, so streams share nothing but pushMu and  *)
(* the database's single writer; what another stream can do to this one is *)
(* to make it wait (PushAlloc not taken) or fail (PushFail).               *)
(*                                                                         *)
(* Numbers stand for tokens: st_<seq>_<hex> is modelled by <seq>, 0 is the *)
(* empty token.  A page token is always below the current token, so equal  *)
(* numbers are equal strings except after a restart that reuses a number.  *)
(***************************************************************************)
EXTENDS Integers, Sequences, FiniteSets

CONSTANTS
    Device,         \* the devices of the account
    Keys,           \* the entry keys of the domain
    Batches,        \* the item lists a device may push
    MaxPushItems,   \* service.go maxPushItems
    PageLimit,      \* the pull limit
    Retention,      \* service.go tombstoneRetentionMs
    MaxNow,         \* bound: the last reading of the clock
    MaxPushToken,   \* bound: no push arrives once the token reached this
    NoDevice        \* the holder of a free pushMu

Item == [key : Keys, at : Nat, deleted : BOOLEAN]

ASSUME SyncAssumption ==
    /\ IsFiniteSet(Keys)
    /\ MaxPushItems \in Nat
    /\ \A b \in Batches : b \in Seq(Item) /\ Len(b) <= MaxPushItems
    /\ PageLimit \in Nat \ {0}
    /\ Retention \in Nat
    /\ MaxNow \in Nat
    /\ MaxPushToken \in Nat
    /\ NoDevice \notin Device

VARIABLES
    now,        \* the wall clock, in milliseconds
    cur,        \* TokenStore.cur of this stream (memory)
    domTok,     \* sync_domains.sync_token of this stream (database)
    entries,    \* the committed sync_entries rows of this stream
    pushMu,     \* Service.pushMu: the device whose push holds it
    pc,         \* where the request of each device is in its handler
    items,      \* push: req.Items
    nowMs,      \* push: the clock reading taken on arrival
    token,      \* push: the token Next returned
    writes,     \* push: the rows its open transaction has upserted
    page,       \* pull: the rows of the page that was read
    pageEnd,    \* pull: seq of the page's last row if hasMore, else 0
    cursor,     \* device: the last syncToken a pull gave it, 0 for none
    replica,    \* device: the rows it has received
    seenTok,    \* auxiliary: domTok when the pull's query ran
    raced       \* auxiliary: some pull since the last full one was overtaken

serverVars == <<now, cur, domTok, entries, pushMu>>
pushVars   == <<items, nowMs, token, writes>>
pullVars   == <<page, pageEnd, seenTok>>
deviceVars == <<cursor, replica, raced>>
vars       == <<serverVars, pc, pushVars, pullVars, deviceVars>>

Row      == [at : Nat, deleted : BOOLEAN, seq : Nat]
NoRow    == [at |-> 0, deleted |-> FALSE, seq |-> 0]
NoRows   == [k \in Keys |-> NoRow]
Present(row) == row.seq > 0

\* The token lies beyond the retention window (service.go:107, :190).
Stale(tok) == now - tok > Retention

TypeOK ==
    /\ now \in Nat
    /\ cur \in Nat
    /\ domTok \in Nat
    /\ entries \in [Keys -> Row]
    /\ pushMu \in Device \cup {NoDevice}
    /\ pc \in [Device -> {"idle", "pushWait", "pushTx", "pullQuery", "pullToken"}]
    /\ items \in [Device -> Batches \cup {<<>>}]
    /\ nowMs \in [Device -> Nat]
    /\ token \in [Device -> Nat]
    /\ writes \in [Device -> [Keys -> Row]]
    /\ page \in [Device -> [Keys -> Row]]
    /\ pageEnd \in [Device -> Nat]
    /\ seenTok \in [Device -> Nat]
    /\ cursor \in [Device -> Nat]
    /\ replica \in [Device -> [Keys -> Row]]
    /\ raced \in [Device -> BOOLEAN]

Init ==
    /\ now = 0
    /\ cur = 0
    /\ domTok = 0
    /\ entries = NoRows
    /\ pushMu = NoDevice
    /\ pc = [d \in Device |-> "idle"]
    /\ items = [d \in Device |-> <<>>]
    /\ nowMs = [d \in Device |-> 0]
    /\ token = [d \in Device |-> 0]
    /\ writes = [d \in Device |-> NoRows]
    /\ page = [d \in Device |-> NoRows]
    /\ pageEnd = [d \in Device |-> 0]
    /\ seenTok = [d \in Device |-> 0]
    /\ cursor = [d \in Device |-> 0]
    /\ replica = [d \in Device |-> NoRows]
    /\ raced = [d \in Device |-> FALSE]

-----------------------------------------------------------------------------
(* The end of a request: its goroutine's locals are gone.                  *)

PushEnds(d) ==
    /\ pc' = [pc EXCEPT ![d] = "idle"]
    /\ items' = [items EXCEPT ![d] = <<>>]
    /\ nowMs' = [nowMs EXCEPT ![d] = 0]
    /\ token' = [token EXCEPT ![d] = 0]
    /\ writes' = [writes EXCEPT ![d] = NoRows]
    /\ UNCHANGED pullVars

PullEnds(d) ==
    /\ pc' = [pc EXCEPT ![d] = "idle"]
    /\ page' = [page EXCEPT ![d] = NoRows]
    /\ pageEnd' = [pageEnd EXCEPT ![d] = 0]
    /\ seenTok' = [seenTok EXCEPT ![d] = 0]
    /\ UNCHANGED pushVars

\* On 409 SYNC_FULL_REQUIRED the device clears what it holds and starts over
\* with an empty since (api.md, service.go:191).
DeviceStartsOver(d) ==
    /\ cursor' = [cursor EXCEPT ![d] = 0]
    /\ replica' = [replica EXCEPT ![d] = NoRows]
    /\ raced' = [raced EXCEPT ![d] = FALSE]

-----------------------------------------------------------------------------
(* Push *)

\* The base token is empty, current, or not yet beyond the window.
BaseAccepted(base) == base = 0 \/ base = cur \/ ~Stale(base)

\* Arrival: validation, the clock reading, the base token check.  All of it
\* happens before pushMu is asked for.  A device sends the last token it got
\* from a pull as its base, the empty one before its first pull.
PushArrive(d) ==
    /\ pc[d] = "idle"
    /\ cur < MaxPushToken
    /\ BaseAccepted(cursor[d])
    /\ pc' = [pc EXCEPT ![d] = "pushWait"]
    /\ \E b \in Batches : items' = [items EXCEPT ![d] = b]
    /\ nowMs' = [nowMs EXCEPT ![d] = now]
    /\ UNCHANGED <<serverVars, token, writes, pullVars, deviceVars>>

PushReject(d) ==
    /\ pc[d] = "idle"
    /\ ~BaseAccepted(cursor[d])
    /\ DeviceStartsOver(d)
    /\ UNCHANGED <<serverVars, pc, pushVars, pullVars>>

\* Mutant: an item as old as the stored row replaces it.
AcceptedOnTie(b) ==
    {i \in DOMAIN b : Present(entries[b[i].key]) => entries[b[i].key].at <= b[i].at}

\* LWW: the indices of the items newer than the row their key has.  Every
\* item is compared with the database, not with earlier items of the batch.
Accepted(b) ==
    {i \in DOMAIN b : Present(entries[b[i].key]) => entries[b[i].key].at < b[i].at}

\* TokenStore.Next: the first number of n new ones.
NextSeq(ms) == IF ms > cur + 1 THEN ms ELSE cur + 1

\* Mutant: an empty batch is not treated apart.
NextTokenPlain(n, ms) == NextSeq(ms) + n - 1

\* Mutant: the clock alone numbers the batch.
NextTokenOfClock(n, ms) == ms + n - 1

\* TokenStore.Next: the new token, the last of the n numbers (one if n = 0).
NextToken(n, ms) == NextSeq(ms) + (IF n > 0 THEN n - 1 ELSE 0)

\* The row of the i-th item when the items of acc take consecutive numbers.
RowOf(b, acc, i, first) ==
    [at      |-> b[i].at,
     deleted |-> b[i].deleted,
     seq     |-> first + Cardinality({j \in acc : j < i})]

\* INSERT OR REPLACE in order: the last accepted item of a key is what stays.
IsLastOfKey(b, acc, i) ==
    /\ i \in acc
    /\ \A j \in acc : b[j].key = b[i].key => j <= i

Upserts(b, acc, first, rows) ==
    \A k \in Keys :
        \/ /\ \A i \in acc : b[i].key # k
           /\ rows[k] = NoRow
        \/ \E i \in acc :
              /\ b[i].key = k
              /\ IsLastOfKey(b, acc, i)
              /\ rows[k] = RowOf(b, acc, i, first)

\* The lock is taken, the transaction reads the existing rows, and Next
\* advances the token in memory.  Rows of this stream are only written under
\* pushMu, so reading them and calling Next is one step.
PushAlloc(d) ==
    /\ pc[d] = "pushWait"
    /\ pushMu = NoDevice
    /\ pushMu' = d
    /\ LET acc == Accepted(items[d])
           new == NextToken(Cardinality(acc), nowMs[d])
       IN  /\ cur' = new
           /\ token' = [token EXCEPT ![d] = new]
           /\ \E last \in [Keys -> acc \cup {0}] :
                 LET rows == [k \in Keys |->
                                IF last[k] = 0 THEN NoRow
                                ELSE RowOf(items[d], acc, last[k], NextSeq(nowMs[d]))]
                 IN  /\ Upserts(items[d], acc, NextSeq(nowMs[d]), rows)
                     /\ writes' = [writes EXCEPT ![d] = rows]
    /\ pc' = [pc EXCEPT ![d] = "pushTx"]
    /\ UNCHANGED <<now, domTok, entries, items, nowMs, pullVars, deviceVars>>

\* Mutant: the age of a deletion mark is the one its device claims.
ExpiredByUpdatedAt(row, ms) == Present(row) /\ row.deleted /\ row.at < ms - Retention

\* Mutant: every old row is dropped.
ExpiredLive(row, ms) == Present(row) /\ row.seq < ms - Retention

\* DELETE of the deletion marks whose number is beyond the window.
Expired(row, ms) == Present(row) /\ row.deleted /\ row.seq < ms - Retention

AfterPush(d) ==
    [k \in Keys |->
        LET row == IF Present(writes[d][k]) THEN writes[d][k] ELSE entries[k]
        IN  IF Expired(row, nowMs[d]) THEN NoRow ELSE row]

\* The transaction commits; the mutex is released on return.  Whether the
\* device sees the response makes no difference to it: its cursor comes
\* from pulls.
PushCommit(d) ==
    /\ pc[d] = "pushTx"
    /\ entries' = AfterPush(d)
    /\ domTok' = token[d]
    /\ pushMu' = NoDevice
    /\ PushEnds(d)
    /\ UNCHANGED <<now, cur, deviceVars>>

\* Any statement may fail (cancelled request, another writer committed since
\* the snapshot, disk error): rollback, then unlock.  cur stays advanced.
PushFail(d) ==
    /\ pc[d] \in {"pushWait", "pushTx"}
    /\ pushMu' = IF pc[d] = "pushTx" THEN NoDevice ELSE pushMu
    /\ PushEnds(d)
    /\ UNCHANGED <<now, cur, domTok, entries, deviceVars>>

-----------------------------------------------------------------------------
(* Pull *)

\* Arrival: the since token is parsed and compared with the clock.
PullArrive(d) ==
    /\ pc[d] = "idle"
    /\ cursor[d] = 0 \/ ~Stale(cursor[d])
    /\ pc' = [pc EXCEPT ![d] = "pullQuery"]
    /\ UNCHANGED <<serverVars, pushVars, pullVars, deviceVars>>

PullReject(d) ==
    /\ pc[d] = "idle"
    /\ cursor[d] # 0 /\ Stale(cursor[d])
    /\ DeviceStartsOver(d)
    /\ UNCHANGED <<serverVars, pc, pushVars, pullVars>>

\* The keys of the rows past the cursor.
Fresh(d) == {k \in Keys : entries[k].seq > cursor[d]}

\* ks is the first page of them: SELECT ... ORDER BY seq LIMIT limit+1, cut
\* to limit rows.
IsPage(d, ks) ==
    /\ ks \subseteq Fresh(d)
    /\ \A k \in ks, j \in Fresh(d) \ ks : entries[k].seq < entries[j].seq
    /\ IF Cardinality(Fresh(d)) > PageLimit
       THEN Cardinality(ks) = PageLimit
       ELSE ks = Fresh(d)

\* Mutant: the page token is taken from the row that was cut off.
PageEndOfCutRow(d, ks, seq) ==
    IF ks = Fresh(d)
    THEN seq = 0
    ELSE \E k \in Fresh(d) \ ks :
            /\ seq = entries[k].seq
            /\ \A j \in Fresh(d) \ ks : seq <= entries[j].seq

\* The number of the page token: the last row of a page that is not the last
\* page, 0 if there are no more rows.
IsPageEnd(d, ks, seq) ==
    IF ks = Fresh(d)
    THEN seq = 0
    ELSE \E k \in ks : /\ seq = entries[k].seq
                       /\ \A j \in ks : entries[j].seq <= seq

\* The SELECT, on the rows committed at that moment.  Auxiliary: a device
\* whose cursor has left the window since the check was overtaken.
PullQuery(d) ==
    /\ pc[d] = "pullQuery"
    /\ \E ks \in SUBSET Fresh(d) :
          /\ IsPage(d, ks)
          /\ page' = [page EXCEPT ![d] = [k \in Keys |->
                                            IF k \in ks THEN entries[k] ELSE NoRow]]
          /\ \E seq \in {entries[k].seq : k \in Fresh(d)} \cup {0} :
                /\ IsPageEnd(d, ks, seq)
                /\ pageEnd' = [pageEnd EXCEPT ![d] = seq]
    /\ seenTok' = [seenTok EXCEPT ![d] = domTok]
    /\ raced' = [raced EXCEPT ![d] = @ \/ (cursor[d] # 0 /\ Stale(cursor[d]))]
    /\ pc' = [pc EXCEPT ![d] = "pullToken"]
    /\ UNCHANGED <<serverVars, pushVars, cursor, replica>>

\* The current token is read from memory after the query, and the response
\* reaches the device, which stores the rows and the token.  Auxiliary: on a
\* last page, a token other than the one committed when the query ran means
\* a push overtook the pull.
PullRespond(d) ==
    /\ pc[d] = "pullToken"
    /\ cursor' = [cursor EXCEPT ![d] = IF pageEnd[d] # 0 THEN pageEnd[d] ELSE cur]
    /\ replica' = [replica EXCEPT ![d] = [k \in Keys |->
                      IF Present(page[d][k]) THEN page[d][k] ELSE @[k]]]
    /\ raced' = [raced EXCEPT ![d] = @ \/ (pageEnd[d] = 0 /\ cur # seenTok[d])]
    /\ PullEnds(d)
    /\ UNCHANGED serverVars

\* The query fails or the response is lost: the device will ask again.
PullFail(d) ==
    /\ pc[d] \in {"pullQuery", "pullToken"}
    /\ PullEnds(d)
    /\ UNCHANGED <<serverVars, deviceVars>>

-----------------------------------------------------------------------------
(* The environment *)

Tick ==
    /\ now < MaxNow
    /\ now' \in (now + 1) .. MaxNow
    /\ UNCHANGED <<cur, domTok, entries, pushMu, pc, pushVars, pullVars, deviceVars>>

\* The process stops, whatever its requests were doing, and starts again:
\* open transactions roll back and Load restores the token from the database.
Restart ==
    /\ cur' = domTok
    /\ pushMu' = NoDevice
    /\ pc' = [d \in Device |-> "idle"]
    /\ items' = [d \in Device |-> <<>>]
    /\ nowMs' = [d \in Device |-> 0]
    /\ token' = [d \in Device |-> 0]
    /\ writes' = [d \in Device |-> NoRows]
    /\ page' = [d \in Device |-> NoRows]
    /\ pageEnd' = [d \in Device |-> 0]
    /\ seenTok' = [d \in Device |-> 0]
    /\ UNCHANGED <<now, domTok, entries, deviceVars>>

Push(d) == \/ PushArrive(d) \/ PushReject(d) \/ PushAlloc(d)
           \/ PushCommit(d) \/ PushFail(d)

Pull(d) == \/ PullArrive(d) \/ PullReject(d) \/ PullQuery(d)
           \/ PullRespond(d) \/ PullFail(d)

Next ==
    \/ \E d \in Device : Push(d) \/ Pull(d)
    \/ Tick
    \/ Restart

Spec == Init /\ [][Next]_vars

-----------------------------------------------------------------------------
(* Properties *)

\* pushMu is held by exactly the device whose push has its transaction open.
MutexOwned ==
    \A d \in Device : pc[d] = "pushTx" <=> pushMu = d

\* No committed row is numbered past the committed token, nor that past the
\* token in memory, and no number is given to two rows.
CommittedOrder ==
    /\ domTok <= cur
    /\ \A k \in Keys : entries[k].seq <= domTok
    /\ \A j, k \in Keys :
          j # k /\ Present(entries[j]) => entries[j].seq # entries[k].seq

\* The numbers of an open push lie above everything committed, so committing
\* it cannot put a row below a token that a page already handed out nor drop
\* a deletion mark it writes, and its rows are newer than those they replace.
OpenPushOrder ==
    \A d \in Device : pc[d] = "pushTx" =>
        /\ domTok < token[d]
        /\ token[d] <= cur
        /\ \A k \in Keys : Present(writes[d][k]) =>
              /\ domTok < writes[d][k].seq
              /\ nowMs[d] <= writes[d][k].seq
              /\ writes[d][k].seq <= token[d]
              /\ Present(entries[k]) => entries[k].at < writes[d][k].at
        /\ \A j, k \in Keys :
              j # k /\ Present(writes[d][j]) => writes[d][j].seq # writes[d][k].seq

\* Entries of a stream are numbered in commit order without repetition, also
\* across failed pushes and restarts (token.go Next, service.go pushMu).
SeqOrder == MutexOwned /\ CommittedOrder /\ OpenPushOrder

\* A device none of whose pulls was overtaken by a push holds every row at or
\* below its cursor exactly as the server has it: page tokens skip nothing,
\* whatever is pushed, fails or restarts between two pages (Pull, hasMore).
UnracedDeviceComplete ==
    \A d \in Device : ~raced[d] =>
        \A k \in Keys :
            Present(entries[k]) /\ entries[k].seq <= cursor[d]
                => replica[d][k] = entries[k]

\* What makes it inductive: such a cursor is a committed token, and a page in
\* flight holds every row between the cursor and the token it will hand out.
PageLimitTok(d) == IF pageEnd[d] # 0 THEN pageEnd[d] ELSE seenTok[d]

OpenPullOrder ==
    /\ \A d \in Device : ~raced[d] => cursor[d] <= domTok
    /\ \A d \in Device : pc[d] = "pullToken" /\ ~raced[d] =>
          /\ PageLimitTok(d) <= domTok
          /\ \A k \in Keys :
                /\ Present(entries[k]) /\ cursor[d] < entries[k].seq
                      /\ entries[k].seq <= PageLimitTok(d)
                   => page[d][k] = entries[k]
                /\ Present(page[d][k]) /\ Present(entries[k])
                   => cursor[d] < entries[k].seq

\* The device still shows an entry whose deletion mark the server dropped.
Ghost(d, k) ==
    /\ Present(replica[d][k]) /\ ~replica[d][k].deleted
    /\ ~Present(entries[k])

\* A deletion mark is dropped only when every such device is too far behind:
\* its next pull and its next push are both answered with 409, so it can
\* neither keep the entry nor bring it back (prune, since and baseToken).
DroppedDeletionsForceResync ==
    \A d \in Device, k \in Keys : ~raced[d] /\ Ghost(d, k) =>
        /\ cursor[d] # 0 /\ Stale(cursor[d])
        /\ ~BaseAccepted(cursor[d])

\* Last writer wins: the row of a key changes only to one with a larger
\* updatedAt, except that an expired deletion mark disappears.
LastWriterWins ==
    [][\A k \in Keys : entries'[k] # entries[k] /\ Present(entries[k]) =>
          \/ entries[k].at < entries'[k].at
          \/ entries[k].deleted /\ entries'[k] = NoRow]_vars

\* The stream is a log of atomic merges with increasing tokens.
Log == INSTANCE SyncLog WITH tok <- domTok, store <- entries
ImplementsLog == Log!LogSpec

-----------------------------------------------------------------------------
(* Statements of the documentation that the code does not keep *)

\* PLAN.md:182: pulling page after page loses nothing.  A device that only
\* ever follows its cursor has every row at or below it.
NothingLost ==
    \A d \in Device, k \in Keys :
        Present(entries[k]) /\ entries[k].seq <= cursor[d]
            => replica[d][k] = entries[k]

\* token.go:72: the numbers stay monotonic across restarts.  A push never
\* numbers its rows at or below a token some device already holds.
NewNumbersAboveHandedOut ==
    [][\A d, c \in Device, k \in Keys :
          PushAlloc(d) /\ Present(writes'[d][k]) => writes'[d][k].seq > cursor[c]]_vars

\* api.md:131: with hasMore, the returned token continues the pull.  The page
\* token is accepted if the device sends it back at once.
PageTokenAccepted ==
    [][\A d \in Device :
          PullRespond(d) /\ pageEnd[d] # 0 => ~(now - cursor'[d] > Retention)]_vars

\* api.md:118: of the items with one key, the largest updatedAt wins.
LargestOfBatchWins ==
    [][\A d \in Device : PushAlloc(d) =>
          \A i \in Accepted(items[d]) :
              writes'[d][items[d][i].key].at >= items[d][i].at]_vars
=============================================================================
