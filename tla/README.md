# Formal models of pixiv-relay

TLA+ models of the server in this repository (Go, SQLite), checked with TLC
and partly proved with TLAPS. Paths are relative to the repository root;
`internal/...` is `src/internal/...` in `PROJECT.json`.

## 1. Inventory of the system

pixiv-relay is one process: an HTTP server over one SQLite database (WAL,
foreign keys on, 5 s busy timeout) and one directory of cached images.
`internal/app` wires the parts below; they share the database pool, the
directory, and the in-memory objects named here.

| Part | State it keeps | Operations | What makes it correct |
|---|---|---|---|
| `sync` | `sync_entries`, `sync_domains`; in memory `TokenStore.cur`, `pushMu` | `Push`, `Pull`, `Load` at start | rows numbered in commit order, LWW, no update or deletion lost to a device that follows its token |
| `cache` (disk LRU) | `cache_meta` rows, files, in memory `total`, limits, `evictMu` | `Open`, `Get`, `NewWriter`/`Write`/`Commit`, `Put`, `Evict`, `SetLimits` | row and file agree, `total` is the sum of the rows, eviction reaches the watermark |
| `img` | map of flights | `Fetch` (hit, leader, follower) | one upstream fetch per key, only whole images cached, followers answered |
| `recover` + `sources` | `recover_cache`; in memory `inflight`, worker semaphore, per-source limiter and semaphore | `Query`, `Enqueue`, `work`, mirror and snapshot fetch | one job per work, an answer is not fetched again before it expires, isolation of accounts |
| `auth` | `accounts`, `devices`; in memory invite codes, static account | `Register`, `Refresh`, `Wrap` | one device per refresh token, revoked devices stay out |
| `admin` | `settings`; hot values in limiters, cache, queue; base values read from the environment | `PATCH settings`, paged list, delete device and account, evict | memory and database agree after a change, deletion leaves nothing behind, a list shows every account once |
| `common.Limiter` | token buckets per address or account | `allow`, `SetRate`, `sweep` | quota kept, `Retry-After` honest |
| `relay` | none beyond the request | one upstream request under a deadline | an answer that is whole or an error, and in time |
| `config` | the environment | `Load` at start | the parts and the administration read the same |
| `db.Migrate`, `cmd/server`, `app` | `schema_migrations`, the port, requests under way | migrate, listen, shut down | each migration once and whole, no request before the last one, a graceful stop cuts nothing |
| `crypto`, `web` | none | | (not modelled) |

How they interact: handlers run concurrently, one goroutine per request,
under the request's context, which is cancelled when the client goes away.
`auth.Wrap` runs before every handler and hands it an account id; nothing
checks the account again afterwards. `recover` workers and the eviction
goroutine outlive the requests that start them and die with the process.
`admin` changes live objects of the other parts and deletes their rows.
SQLite runs one writer at a time; a transaction that read before another one
committed cannot write any more (`SQLITE_BUSY_SNAPSHOT`) and fails.

What is hard: values read before a lock or a query and used after it (base
token, current token, `oldSize`, cache lookups before `Enqueue`), in-memory
state moved before the database commits (`Next`, `total`), files and rows
changed in two steps, goroutines that outlive account deletion, restarts.
`PROJECT.json` lists these as `hazards`, each at its line.

Beyond the parts above, a few facts about SQLite shape every model: ids are
`INTEGER PRIMARY KEY` without `AUTOINCREMENT`, so the largest id is given out
again once its row is gone; `devices` and `sync_domains` have foreign keys to
`accounts`, `sync_entries` and `recover_cache` have none; a transaction that
starts with a `SELECT` works on that snapshot.

## 2. Plan

Written, in this order, the most important behaviour first:

1. `SyncService`, with `SyncLog` as what it promises.
2. `DiskLRU`, then `ImgFlight`, which sees the cache from outside.
3. `RecoverQueue`, then `Sources`, which is one step of it (`JobResult`) in
   detail. `Sources` checks the liveness that `RecoverQueue` assumes.
4. `Accounts`: tokens, devices, deletion, reuse of ids.
5. `Settings`: the values changed at run time, and `Environment`, the values
   under them.
6. `RateLimiter`, with `Quota` as what it promises.
7. `Server`: migrations, start and stop.
8. `AccountList`: a listing whose rows change between its pages.
9. `Relay`: one request under a deadline.

Every module with variables has its theorems in a `_proofs` module, section 5 says in which.

To come:

- Theorems: every invariant that a run checks has one. What is left is a
  statement across modules: that the walk of a job in `Sources` is a
  `JobResult` of `RecoverQueue`.
- A composition of `Accounts`, `SyncService` and `RecoverQueue` over the tables
  they share, so that deletion of an account is one action for all of them.
  `RecoverQueue` and `Accounts` each have the deletion now, with the rows they
  keep.

`PROJECT.json` lists one run per component, and the one counterexample that
concerns users most; the other counterexamples, and the liveness of
`RecoverQueue`, are `.cfg` files beside them (sections 4 and 6). A type invariant
that is proved is not checked again in the run of its module.

## 3. Modules

Every module has the state of its component as variables, an action per step
between two points where another goroutine can get in (a lock, a statement, a
system call), and `Next` as the disjunction of them. A handler's locals are
variables indexed by goroutine; `pc` (or `step`) is where it is. Everything in
memory is reset by `Restart`, everything in SQLite or the file system stays.
Variables marked *auxiliary* are not in the code: they record history for a
property and guard nothing. Definitions marked `Mutant:` are plausible bugs that
replace a definition to show that a property notices.

| Module | Models | State | Actions |
|---|---|---|---|
| `SyncLog` | what the sync stream promises: a log of atomic merges with increasing tokens | `tok`, `store` | merge |
| `SyncService` | `sync/service.go`, `token.go`, one stream, the devices on it | `cur` (memory), `domTok`, `entries` (tables), `pushMu`, locals of push and pull, cursor and replica of each device | `PushArrive/Reject/Alloc/Commit/Fail`, `PullArrive/Reject/Query/Respond/Fail`, `Tick`, `Restart` |
| `DiskLRU` | `cache/disklru.go` | `file`, `size`, `lru`, `total`, `watermark`, locals of workers, the eviction's batch | the steps of `Commit`, `Get`, `evict`; `SetLimits`, `Restart` |
| `ImgFlight` | `img/service.go`, `handleFetch` and the flights | `cached`, `inflight`, locals of requests | lookup, enter as leader or follower, upstream, commit, leave; `Evict` |
| `RecoverQueue` | `recover/service.go`, `queue.go` for one pid and several accounts | `row` (recover_cache), `inflight`, `sem`, locals of queries and jobs | lookup, `Enqueue`, `Mark`, the steps of `work`, `Expire`, delete, register, `Restart` |
| `Sources` | `recover/sources`, the loop over sources of `queue.go` | `free` (limiter), `held` (slots), `cached` by the jobs and `elsewhere`, a job's source, page, misses, pages, deadline | start, cache hit, reserve, wait, slot, request, answer, body, timeouts, `Tick` |
| `Accounts` | `auth/service.go`, `middleware.go`, deletions of `admin/service.go` | `account`, `device`, `data` (tables), `staticId`, locals and snapshots of requests | register, join, refresh, authenticate, use, delete device or account, expiry, `Restart` |
| `Settings` | `admin/settings.go`, the PATCH handler | `setting` (table), `live` (values in force), `enabled`, locals of requests | arrive, persist, resolve a key, apply a hook, `Restart` |
| `Environment` | `config.Load` and `EnvSnapshotFromEnv` for the variables behind the settings | none (operators) | gives `Settings` its constants `Loaded` and `Base` in `MCSettings` |
| `Quota` | what a rate limit promises: a level per key that time raises and a granted request lowers; who asks nothing for longer than the time to live may start anew | `level`, `idle`, `rate`, `verdict` | ask, change, pass |
| `RateLimiter` | `common/ratelimit.go` | `held`, `tokens`, `at`, `last` (the map of buckets), `rate`, the last `verdict` per key | `Allow` with its sweep, `SetRate`, `Tick` |
| `Server` | `db/migrate.go`, `cmd/server/main.go` | `schema`, `recorded`, `writer` (database), `port`, `pc`, `next`, `server`, `active` of each process | check, apply and commit a migration, build, notify, listen, stop, drain, exit, kill |
| `AccountList` | `ListAccounts` of `admin/service.go`, `common/pagination.go` | `rows` (accounts), `cursor` (the client's), the `pages` shown | a page, register, delete |
| `Relay` | `relay/service.go`, `routes.go`, `DecodeJSON` | `req`, `stage`, `left` (deadline), `agent`, `got` | receive, respond, read, finish, fail, expire |

Choices a reader should know:

- `SyncService` has one stream: tables and token map are keyed by stream, so
  streams share only `pushMu` and the database's writer, which can make a
  push wait or fail, and both happen here anyway. A token `st_<seq>_<hex>` is
  its number. `raced[d]` says that a push committed between the query of a pull
  of `d` and its reading of the current token.
- `DiskLRU` keeps lengths, not bytes. `mixed` collects the keys on which two
  operations met or one broke off half-way. `Configured` are the limits `Open` may
  be given, at every start; `SetLimits` comes after it, for the settings that were
  saved as for those that are changed.
- `ImgFlight` tells whole images from parts, and nothing else of their content.
- `RecoverQueue` has one pid; `Shared` is `RECOVER_SHARED`. `left` holds the
  placeholders that a crash or a failed statement left, `raced` the ids deleted
  while a query or a job used them, `holder` who has an id.
- `Sources` has one work for all jobs: limiter and slots are shared by all
  works alike, and two jobs of one work also share the cache. `elsewhere` are the
  images that `img` or earlier runs have put there by the same keys, or will: they
  may be cut off at the source by now, or gone. Evictions are not an action: a
  lookup may miss anyway (`Reserve`). `x/time/rate` is modelled from how it is used
  with a burst of one: `free` is when the next token is there. `calls` counts calls
  of `do`; the client follows redirects (relay/service.go:110 sets no
  `CheckRedirect`), so one call may be up to ten requests, all under one token and
  one slot.
- `Accounts` names the owner of a row, so that an id given out again is told
  from its first use. `stale` marks transactions whose snapshot is outdated.
- `Settings` hands over the keys of a hook in one step, as `SetLimits` and the
  like do; `alone` and `synced` say that a request applied while no other did.
  `Loaded` is what the parts start with, `Base` what lies under the overrides;
  without overrides they are two readings of the same environment.
- `RateLimiter` counts units instead of fractions: a token is `Cost` units, a tick
  brings `rate` of them. `x/time/rate` is modelled by what it is used for: a
  bucket that is advanced when it is looked at, and capped. `SetLimit` advances
  first, so the time before the change counts at the old rate. `granted` and
  `supplied` are auxiliary counters, `promise` the first moment that
  `Retry-After` has named.
- `Server` has several processes on one database and one port, since nothing in the
  code excludes it (a restart by an orchestrator overlaps). SQLite's write lock
  is `writer`; a failed statement, a lock that does not come in five seconds and
  a bad configuration are all `StartFails`. `Last` stands for the migrations of
  `internal/db/migrations`, none of which can be applied twice.
- `AccountList` models a page as the one statement it is. `created_at` is read
  before the transaction that inserts, so rows may come in out of order.
- `Relay` measures bodies in units of which three become four in base64, and lists
  the checks in their order only as far as their status differs.

## 4. Runs

All runs finish in about two minutes or less with two workers. Bounds are
constants (`Max...`) or sets in the `.cfg`; what they cut off is more of the
same, as said below.

| Run | Question | Instance and why it is enough |
|---|---|---|
| `sync_core` | Are rows numbered in commit order, does a device that no push overtook hold everything below its cursor, does a dropped deletion mark leave no device with the entry, do the tables implement `SyncLog`? | 2 devices, 2 keys, pages of one row, batches that write, delete, write both keys; clock to 4, retention 1: two pushes, a paged pull and a restart fit in all orders, and a deletion that expires before a late device comes; a third device repeats the second. |
| `sync_lost` | (counterexample) does following the cursor lose nothing? | section 6 |
| `cache_core` | Do rows, files and count agree, and does every eviction end? | 2 keys, 2 workers, 2 writes, 2 lengths, a configured watermark that two images may pass and one below either image to change to, two events (restart, changed limit, requested eviction) besides failing statements and busy files at any time, batches of one row so that an eviction takes several queries. A limit is changed, taken back by a restart, or set again after it. |
| `img_core` | One leader per key, every request answered? | 3 goroutines, 5 requests, 2 keys, 2 evictions or failed reads: a leader, followers, and a second generation that leads after the first failed. |
| `recover_core` | One job per account and pid, no placeholder without a job, no slot lost, no row for the next owner of an id? | 2 accounts, 2 query goroutines, 2 jobs, 1 slot, one id given out again, shared answers, failing statements, restarts: two queries of one account and of two meet between lookup and `Enqueue`, with a job before and after them. |
| `sources_core` | Quota, slots, complete answers, honest not_found, and do jobs end? | 2 jobs, a snapshot of two addresses and a mirror of three pages with a gap, one slot each, a token per tick, deadline after two ticks, so that tokens, slots and answers all can be too late. Two images are in the cache from elsewhere, one that the mirror has no more and one that it may serve cut off; a lookup finds them or not. |
| `accounts_core` | Is a refresh token exchanged once, and does nothing pass to the next owner of an id but for requests under way? | 2 requests, 2 ids, 4 owners or token pairs, static tokens on: two lookups and a deletion in all orders, and ids given out again. |
| `settings_core` | Does a request that applies alone put the whole table in force, whatever happened before it? | 2 requests, 3 keys in 2 hooks, 3 bodies, failing reads, restarts. |
| `rate_core` | Does no key get more than its quota however buckets come and go, is `Retry-After` enough, do the buckets implement `Quota`? | 2 keys, a burst of two tokens, a sweep above one bucket, buckets forgotten after two ticks, a rate that fills a bucket by then and one that fills two thirds of it, six ticks: a bucket is emptied, forgotten before it is full, made anew and changed in every order, twice over. |
| `server_core` | Is the schema what is recorded, does no request meet a gap, does a graceful stop cut nothing, does every start and stop end? | 2 processes, 3 migrations, 2 requests each: two that migrate at once, one that starts while the other stops, crashes at every step. |
| `list_core` | Does a listing show every account once? | 4 ids, 2 times, pages of one or two: rows with equal times, rows before and after the cursor, ids used again. No bound on the number of pages: `cursor` returns to the start. |
| `relay_core` | Is an answer whole, and is there one? | Every combination of faults, sizes up to one over the limit, two spellings of a header, three timeouts; an upstream that stops at every unit. |

Symmetry is used over devices, clients and goroutines only in runs without
liveness. `CHECK_DEADLOCK FALSE` stands where the system may stop for good: all
requests of the bound are answered, all jobs are done, the clock is at its bound.
In the sync, settings, server and list runs there is always a step.

`MCRecoverQueue_live` is one more configuration that passes: `JobsEnd`, every job
gets a slot and ends, without reuse of ids and without symmetry.

Fairness, in the runs with liveness only:

- `DiskLRU` (`EvictionEnds`): the goroutine that evicts runs on (weak), and
  removing a file and deleting a row succeed again and again if tried again and
  again (strong), since a file that is open and a statement that fails are not so
  for ever. Commits and hits are not fair.
- `ImgFlight` (`Answered`): a request takes its next step; the upstream answers
  or the connection breaks. The client of `img` has no timeout for a whole answer,
  so an upstream that is silent for ever is outside this property.
- `RecoverQueue` (`JobsEnd`): goroutines run on; a job that waits for a slot
  again and again finds it free gets it (strong: a Go channel serves its
  waiters in order); the sources' part of a job ends, because of `jobTimeout`.
- `Server` (`StartsAndStopsEnd`): `main` runs on; a statement or a lock that does not
  come is an error after `busy_timeout`, and `Shutdown` returns after its ten
  seconds. Nothing is assumed of requests, of signals or of other processes.
- `Relay` (`AnsweredAtLast`): the clock goes on and the timer of the context fires.
  Nothing is assumed of the upstream, which may stall at every unit.
- `Sources` (`JobsEnd`): time passes, timers fire, and a job proceeds where it
  depends on nobody. Nothing is assumed of sources or slots: this is the reason
  the previous assumption is sound.

## 5. Proofs

Checked by TLAPS for all values of the constants that satisfy the named
assumptions (`SyncAssumption`, `CacheAssumption`, `FlightAssumption`,
`RecoverAssumption`, `SourcesAssumption`, `AccountsAssumption`,
`SettingsAssumption`, `LimiterAssumption`, `ServerAssumption`, `ListAssumption`,
`RelayAssumption`: sets finite, bounds naturals, null values outside their sets,
every key has a hook). TLC evaluates them in every run. Four say more than that
bounds are bounds: `CacheAssumption` has finitely many keys and at least one,
because a sum is taken over them; `SourcesAssumption` and `RecoverAssumption`
have finitely many jobs, because slots are counted by a cardinality; and
`LimiterAssumption` names in `Short` how much of a bucket the slowest rate may
leave empty in `Ttl`. That restricts no rate, since `Short` may be as large as the
burst: it is 0 at the default rates of writes and images, 8/18 of a bucket for
registrations (ten an hour, burst of three, ten minutes), and 20 of 30 tokens for
images if the administration sets them to one a minute (settings.go:42).

All invariants that a passing run checks are theorems, and so are both
refinements and the action property `LastWriterWins` of `SyncService`. Each rests on an inductive
invariant, which was model-checked on the instances of section 4 before it was
proved.

- **`SyncService_proofs`**. `TypeCorrect`. `NumbersFollowCommits`: `SeqOrder` is
  inductive with the types: the lock is held by the push whose transaction is open
  (`MutexOwned`), committed rows have distinct numbers up to the committed
  token, that is at most the token in memory (`CommittedOrder`), and the numbers
  of an open push lie above everything committed (`OpenPushOrder`); without the
  last, a commit could not be shown to keep the order. `LastWriterAlwaysWins`
  and `ServiceImplementsLog` follow step by step: only `PushCommit` writes, and
  it is a merge of `SyncLog`, everything else a stutter.
  `UnracedDevicesMissNothing` adds `OpenPullOrder`: what a pull has read is
  complete up to the token that was committed when it read.
  `DroppedMarksForceResync` needs `GhostInv`: a device that still shows an entry
  without a row, or will once the page read for it arrives, has a cursor that
  lies beyond the window and below the committed token (`Behind`). A commit that
  drops a mark keeps it because the mark is older than the window and whoever
  has reached its number holds the mark itself (`DroppedMarks`); a query keeps it
  because a cursor beyond the window makes the pull count as overtaken.
- **`Upstream_proofs`** (`ImgFlight`, `Relay`). `FlightInv` (in `ImgFlight`): `inflight`
  names a request that is leading that key, and every request that leads is
  named. `OneFlightPerKey` and `FollowersAreWoken` are consequences.
  `AnswersAreWhole` rests on `Whole`: what was read is a beginning of the upstream's
  body, nothing before it responds, and a reader that stops before the upstream has
  read the unit over the limit that turns the answer into an error.
- **`DiskLRU_proofs`**. `IInv == Sound /\ Matching /\ CountIsKept`. `Matching`:
  on a key where no two operations met there is at most one commit or one row
  of a batch at work, and the step it is at tells what is in the file and what
  in the row; on every other such key they are equal (`RowsAreTheFiles`).
  `CountIsKept`: `total` is the sum of what each key counts for, its row but for
  one that a commit has written and not added yet, or that the eviction has
  deleted and not taken off (`TotalIsTheSum`). That a sum moves by what one key
  moves (`TotalOfExcept`) is induction over the set of keys, which an induction
  theorem with an operator parameter cannot give: instead, of the sets for which
  it would fail there is a smallest one (`SmallestSet`, from the
  well-foundedness of strict inclusion), and it has no last key to add.
  `mixed` excuses only keys: `RowsMatchFiles` is about each key that is not mixed
  whatever happened to the others; the count is shared, so `TotalIsSumUnmixed`
  is about histories in which no two operations met on any key. Without that
  it is false (section 6).
- **`RecoverQueue_proofs`**. `IInv == Typed /\ Slotted /\ OneJobPerPid /\
  Placeholders`. Slots are counted by the cardinality of the set of jobs that hold
  one. `RowsKeepOwner` states of rows, queries and jobs that they belong to whoever
  has their id now, unless the id was deleted while one of them used it: an id that
  is given out again brings nothing with it. The two parts need each other, since a
  job writes the row and an answer is copied for the query.
- **`Sources_proofs`**. `Slotted`: the slots taken of a source are as many as the
  jobs whose request it has to answer. `TokensSpaced`: the tokens of a source
  used, and handed out for any moment up to one to come, are no more than the
  intervals until then allow, also when a job that is cancelled gives one back
  and others were handed out after it; `SourcesArePolite` is that of now. `Apart`:
  those not used up are `Every` apart, and the next one comes `Every` after the last
  of them, which is why a token that is given back is not too close to another
  (`TokensAreApart`). `Walked`: at a mirror, the pages found are all that are served
  below the page the job is at, and of the others only such as the cache had; `miss`
  counts the missing ones just below it; and whatever source the job has passed
  over had nothing or a request failed. `AnswersAreComplete` and `NotFoundIsHonest`
  are its two ends.
- **`Accounts_proofs`**. `RefreshedOnce` needs that a transaction that has read
  a device row still finds it unless its snapshot is outdated (`Refreshing`),
  and that numbers not yet issued were never exchanged (`PairsUnused`).
  `DevicesKeepOwner` needs the same of a join (`Joining`). `DataKeepsOwner` adds
  `Kept`: a request that no deletion overtook acts for the owner it
  authenticated, and the same holds of the id kept for the static tokens.
- **`Admin_proofs`** (`Settings`, `AccountList`). `AlonePutsTableInForce` rests on
  `AloneKnows`: what a request alone has read is what the table says, and the
  hooks it has called are in force. `ListingIsOnce` rests on an order: whatever
  has been shown precedes or is the cursor, and an account that stayed and has
  not been shown follows it.
- **`Serving_proofs`** (`RateLimiter`, `Server`). `LimiterImplementsQuota` maps the
  level of a key to what its bucket would hold if it were looked at now, or the
  burst if there is no bucket; the keys that `Quota` lets start anew are those the
  sweep drops, which raises their level to the burst (`Forgiven`). `QuotaIsKept`
  needs to know how much that can be: since its last call a bucket has got its share
  of the burst but `Short`, whatever rates were set meanwhile (`Fed`), so a sweep
  gives a key `Short` at most (`SweptLacksShort`), and what it has gained is paid for
  by the time before its last call (`Banked`). `RetryAfterIsEnough` needs that a
  promise is about a bucket that nobody has taken from since.
  `SchemaIsAsRecorded` needs that whoever is about to commit holds the one write
  transaction (`WriterCommits`) and has seen everything before its migration
  (`SeenBefore`); `RequestsMeetWholeSchema` that a process past `build` has seen
  all (`ReadyIsMigrated`); `SuccessIsGraceful` that a process that stops has no
  listener and gets none (`StoppingIsDeaf`).

Model-checked only:

- Liveness: `EvictionEnds`, `Answered`, `JobsEnd` (of `Sources` and of
  `RecoverQueue`), `StartsAndStopsEnd`, `AnsweredAtLast`. They rest on weak and
  strong fairness, whose `ENABLED` the prover has no rule for. The safety part
  of `Answered`, that a follower's leader has yet to leave, is a theorem
  (`FollowersAreWoken`).
- That `Environment`'s operators read a value as the code does: they are checked on
  the values of `MCSettings`. `Settings` is proved for any `Loaded` and `Base`.
- Everything in section 6, being violated.

## 6. Statements the code does not keep

Each is a definition at the end of its module, quotes its source, and is
violated by the run of the `.cfg` named here. The one in bold is a run and a
finding in `PROJECT.json`. Where a `.cfg` has several statements, `tlc -continue`
shows a behaviour for each.

| Configuration | Definition | What the code does | What is said |
|---|---|---|---|
| **`MCSync_lost`** | `NothingLost` | `Pull` reads rows first (service.go:198) and the current token afterwards from memory (:231); a push in between is below the cursor and never sent to that device | PLAN.md:182 翻页续拉不丢不重 |
| `MCSync_reuse` | `NewNumbersAboveHandedOut` | `Next` publishes a token before the commit (token.go:93), a pull hands it out, a restart forgets it | token.go:72 保证跨进程重启后仍单调 |
| `MCSync_reuse` | `PageTokenAccepted` | a page token is the number of an old row (service.go:235), and tokens older than 90 days get 409 (:190): a full pull of old rows starts over for ever | api.md:131 |
| `MCSync_twice` | `LargestOfBatchWins` | items of a batch are compared with the database only (service.go:131), so of two for one key the later in the list stays | api.md:118 同 key updatedAt 大者胜 |
| `MCDiskLRU_races` | `TotalIsSum` | old size, row and count are three steps (disklru.go:266-272): two commits of one key both add their size in full | disklru_test.go:204, disklru.go:63 |
| `MCDiskLRU_races` | `NotStoredNotCached` | a failed upsert (disklru.go:270) does not undo the rename | disklru.go:231 |
| `MCDiskLRU_races` | `HitLengthMatches` | `Get` reads the row, then opens the file (disklru.go:171), which may be a newer one | disklru.go:58 读写与淘汰并发安全 |
| `MCImgFlight_twice` | `FetchOnlyUncached` | the cache is not looked up again after the flight is entered (img/service.go:99) | img_test.go:342, img/service.go:34 |
| `MCImgFlight_part` | `CachedImagesWhole` | the error of `io.Copy` is dropped (img/service.go:198) and what arrived is committed | disklru.go:4 |
| `MCRecoverQueue_again` | `NoJobForAnswered` | lookup and entry into `inflight` are apart (recover/service.go:175): an answer just written is overwritten by a placeholder | recover/service.go:154, queue.go:75 |
| `MCRecoverQueue_deleted` | `DeletedLeavesNothing` | a job writes its row after its account was deleted (queue.go:117) | api.md:173 |
| `MCRecoverQueue_failed` | `NotFoundMeansMissing` | a timeout or an unreachable host counts as not there (queue.go:114) | api.md:139 全部源均无 |
| `MCSources_downloads` | `DownloadsWithinSlots` | the slot is given back with the headers (sources.go:157), before the body | PLAN.md:190 每源 ≤ 2 |
| `MCAccounts_static` | `StaticIsShared` | the id of the shared account is looked up at start (middleware.go:88), and can be deleted and given out again | middleware.go:39 |
| `MCAccounts_writes` | `WritesForOwner` | a request keeps the id it authenticated with | PLAN.md:182 账号隔离 |
| `MCSettings_gone` | `PatchInForce` | `applyAll` runs under the request's context and takes any error for a missing row (settings.go:117) | api.md:165, settings.go:16 |
| `MCSettings_order` | `PatchInForce` | nothing orders two PATCH requests between commit and hooks (admin/routes.go:89) | api.md:165 立即热生效 |
| `MCSettings_start` | `OverridesComeFirst` | overrides are read only if `ADMIN_TOKEN` is set (app.go:103) | settings.go:16 |
| `MCSettings_start` | `EnvironmentReadAlike` | the base under the overrides is read with other parsers than `config.Load`: a rate of `120.5`, a watermark of 1, codes with blanks between them count for the parts and not, or differently, for the administration | settings.go:97 与 config 包"非法回落默认"语义一致 |
| `MCRateLimiter_slow` | `NothingGained` | a bucket is dropped ten minutes after its last request (ratelimit.go:82), full or not: 10 registrations an hour (auth/routes.go:41) come to a fresh burst of 3 if others fill the map; `QuotaKept` is what holds | ratelimit.go:16 空转超过 ttl 的桶惰性回收 |
| `MCRelay_body` | `BodyUpToLimit` | the JSON around a body may have 1 MB itself (common/validate.go:11), so a body above 768 KB is refused with 400 (relay_test.go:283 notes it) | api.md:84 body 上限 1 MB（解码后 |
| `MCRelay_body` | `AlwaysAgent` | with `User-Agent` in two spellings, one of them empty, the order of the map decides which is sent (relay/service.go:165) | relay/service.go:22 |

Five more are stated in prose only. The placeholder in `recover_cache` gets an expiry
of 15 minutes that nothing reads: `lookup` ignores placeholders
(recover/service.go:182), and `Enqueue` asks the map (0004_recover.sql:7 speaks of
a guard). The limiter of the administration is `NewLimiter(30.0/60, 5)`
(admin/middleware.go:22), 30 requests an hour, where the comment and
admin_test.go:220 say 30 a minute. The client of `img` has no timeout for a whole
answer (img/service.go:151), and followers do not notice that their own client has
gone. The interval between two requests to a source
(PLAN.md:190, ≥ 1 s) is not kept: the limiter is asked before the slot
(sources.go:140), so calls that waited for slots go out together, and the client
follows up to ten redirects within a call. `PoliteOverall` and `TokensApart` are
what holds, of calls. And a sync stream that nobody pushes to for 90 days
answers 409 to devices that are up to date.

## 7. Not modelled

- `crypto`: stored values are taken to be read back unchanged.
- `web`: static files, the fallback to `index.html`, and headers depend on nothing
  but the request.
- `config` beyond the variables of the settings, and what `app.New` wires: the
  models take from there what is shared. For the other parts a stop of the process
  is a `Restart` at any moment: `Shutdown` waits for handlers (`Server`), but
  nothing waits for the workers of `recover`.
- `ClientIP`: which key a request has is a choice of the caller in `RateLimiter`.
- `common` errors, responses, logging; validation that rejects before any state is
  touched, other than in `Relay`, where the order of the checks shows.
- In `disklru.go`, paths and layouts, the sweep of temporary files at `Open`, and
  the check of the tables at start beyond the sum.
- In `sources`, reading back a temporary file is assumed to succeed; `Put`
  ignores an error there (disklru.go:284).
- The counts of devices and entries in the list of accounts, the overview and
  the statistics, which only read.
