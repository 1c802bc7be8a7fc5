---------------------------- MODULE RecoverQueue ----------------------------
(***************************************************************************)
(* internal/recover: queries for a deleted illustration, the queue of jobs *)
(* that look for it, and the rows of recover_cache, for one pid and several*)
(* accounts.  Jobs for other pids only compete for the same slots, as the  *)
(* jobs of other accounts do here.  The sources are seen from outside: a   *)
(* job ends with pages, with all sources answering "not there", or with a  *)
(* failure or timeout of some source and no pages.                         *)
(***************************************************************************)
EXTENDS Integers, FiniteSets, FiniteSetsExt

CONSTANTS
    MaxAccount,     \* account ids are 1 .. MaxAccount
    Client,         \* request goroutines
    Job,            \* worker goroutines; one per account is enough
    Slots,          \* GlobalConcurrent
    Shared,         \* RECOVER_SHARED
    MaxRegistered   \* bound: registrations after an account was deleted

ASSUME RecoverAssumption ==
    /\ MaxAccount \in Nat \ {0}
    /\ IsFiniteSet(Job)
    /\ Slots \in Nat \ {0}
    /\ Shared \in BOOLEAN
    /\ MaxRegistered \in Nat

Account == 1 .. MaxAccount

VARIABLES
    registered, \* the ids in the table accounts
    holder,     \* how often each id was given out: names the account that has it
    row,        \* row[a]: the row (a, pid) of recover_cache
    inflight,   \* Queue.inflight
    sem,        \* slots of Queue.sem that are taken
    pc, user, userHolder,           \* of each request: step and account
    jpc, owner, ownerHolder, found, \* of each worker: step, account, result
    left,       \* auxiliary: accounts whose row a crash or an error left behind
    raced       \* auxiliary: ids deleted while a request or a job used them

accounts == <<registered, holder>>
clients  == <<pc, user, userHolder>>
jobs     == <<jpc, owner, ownerHolder, found>>
vars     == <<accounts, row, inflight, sem, clients, jobs, left, raced>>

\* Rows "missing" and "failed" both have the status not_found: the reason is
\* not stored, here it is kept for the properties.
NotFound == {"missing", "failed"}
Results  == {"ready"} \cup NotFound
NoRow    == [status |-> "none", live |-> FALSE, holder |-> 0]

\* status and expire > now
Answer(a) == row[a].live /\ row[a].status \in Results

Using  == {"queued", "run", "write", "release", "forget"}
Taking == {"run", "write", "release"}

TypeOK ==
    /\ registered \subseteq Account
    /\ holder \in [Account -> Nat]
    /\ row \in [Account -> [status : {"none", "fetching"} \cup Results,
                            live : BOOLEAN, holder : Nat]]
    /\ inflight \subseteq Account
    /\ sem \in 0 .. Slots
    /\ pc \in [Client -> {"idle", "lookup", "enqueue", "mark"}]
    /\ user \in [Client -> Account] /\ userHolder \in [Client -> Nat]
    /\ jpc \in [Job -> {"off"} \cup Using]
    /\ owner \in [Job -> Account] /\ ownerHolder \in [Job -> Nat]
    /\ found \in [Job -> Results]
    /\ left \subseteq Account /\ raced \subseteq Account

Init ==
    /\ registered = Account
    /\ holder = [a \in Account |-> 1]
    /\ row = [a \in Account |-> NoRow]
    /\ inflight = {}
    /\ sem = 0
    /\ pc = [c \in Client |-> "idle"]
    /\ user = [c \in Client |-> 1] /\ userHolder = [c \in Client |-> 0]
    /\ jpc = [j \in Job |-> "off"]
    /\ owner = [j \in Job |-> 1] /\ ownerHolder = [j \in Job |-> 0]
    /\ found = [j \in Job |-> "ready"]
    /\ left = {} /\ raced = {}

-----------------------------------------------------------------------------
(* Query                                                                   *)

Respond(c) ==
    /\ pc' = [pc EXCEPT ![c] = "idle"]
    /\ user' = [user EXCEPT ![c] = 1]
    /\ userHolder' = [userHolder EXCEPT ![c] = 0]

\* auth.Wrap: the account exists when its token is looked up.
Authenticate(c) ==
    /\ pc[c] = "idle"
    /\ \E a \in registered :
          /\ user' = [user EXCEPT ![c] = a]
          /\ userHolder' = [userHolder EXCEPT ![c] = holder[a]]
    /\ pc' = [pc EXCEPT ![c] = "lookup"]
    /\ UNCHANGED <<accounts, row, inflight, sem, jobs, left, raced>>

\* The rows a query of account a may be answered from.
Visible(a) == IF Shared THEN Account ELSE {a}

\* 200 or 404, or 500 when the row cannot be read.
LookupAnswers(c) ==
    /\ pc[c] = "lookup"
    /\ Respond(c)
    /\ UNCHANGED <<accounts, row, inflight, sem, jobs, left, raced>>

LookupMisses(c) ==
    /\ pc[c] = "lookup"
    /\ \A a \in Visible(user[c]) : ~Answer(a)
    /\ pc' = [pc EXCEPT ![c] = "enqueue"]
    /\ UNCHANGED <<accounts, row, inflight, sem, user, userHolder, jobs, left, raced>>

\* Enqueue: a job for the account is under way.
EnqueueKnown(c) ==
    /\ pc[c] = "enqueue"
    /\ user[c] \in inflight
    /\ Respond(c)
    /\ UNCHANGED <<accounts, row, inflight, sem, jobs, left, raced>>

\* Mutant: the map is not asked.
EnqueueAlways(c) ==
    /\ pc[c] = "enqueue"
    /\ inflight' = inflight \cup {user[c]}
    /\ pc' = [pc EXCEPT ![c] = "mark"]
    /\ UNCHANGED <<accounts, row, sem, user, userHolder, jobs, left, raced>>

EnqueueNew(c) ==
    /\ pc[c] = "enqueue"
    /\ user[c] \notin inflight
    /\ inflight' = inflight \cup {user[c]}
    /\ pc' = [pc EXCEPT ![c] = "mark"]
    /\ UNCHANGED <<accounts, row, sem, user, userHolder, jobs, left, raced>>

\* go work(...)
StartJob(c) ==
    \E j \in Job :
        /\ jpc[j] = "off"
        /\ jpc' = [jpc EXCEPT ![j] = "queued"]
        /\ owner' = [owner EXCEPT ![j] = user[c]]
        /\ ownerHolder' = [ownerHolder EXCEPT ![j] = userHolder[c]]
        /\ UNCHANGED found

\* The placeholder is written, whatever the row held, and the job starts.
Mark(c) ==
    /\ pc[c] = "mark"
    /\ row' = [row EXCEPT ![user[c]] =
                 [status |-> "fetching", live |-> TRUE, holder |-> userHolder[c]]]
    /\ StartJob(c)
    /\ Respond(c)
    /\ left' = left \ {user[c]}
    /\ UNCHANGED <<accounts, inflight, sem, raced>>

\* The statement fails, which is only logged.
MarkFails(c) ==
    /\ pc[c] = "mark"
    /\ StartJob(c)
    /\ Respond(c)
    /\ UNCHANGED <<accounts, row, inflight, sem, left, raced>>

-----------------------------------------------------------------------------
(* work                                                                    *)

JobGoto(j, step) == jpc' = [jpc EXCEPT ![j] = step]

\* Mutant: starts without waiting for a slot.
JobStartNow(j) ==
    /\ jpc[j] = "queued"
    /\ sem' = sem + 1
    /\ JobGoto(j, "run")
    /\ UNCHANGED <<accounts, row, inflight, clients, owner, ownerHolder, found, left, raced>>

JobStart(j) ==
    /\ jpc[j] = "queued"
    /\ sem < Slots
    /\ sem' = sem + 1
    /\ JobGoto(j, "run")
    /\ UNCHANGED <<accounts, row, inflight, clients, owner, ownerHolder, found, left, raced>>

\* The sources were asked one after the other, or jobTimeout ended the job.
JobResult(j) ==
    /\ jpc[j] = "run"
    /\ \E r \in Results : found' = [found EXCEPT ![j] = r]
    /\ JobGoto(j, "write")
    /\ UNCHANGED <<accounts, row, inflight, sem, clients, owner, ownerHolder, left, raced>>

\* Mutant: only pages are written.
JobWriteReadyOnly(j) ==
    /\ jpc[j] = "write"
    /\ row' = IF found[j] = "ready"
              THEN [row EXCEPT ![owner[j]] =
                       [status |-> "ready", live |-> TRUE, holder |-> ownerHolder[j]]]
              ELSE row
    /\ JobGoto(j, "release")
    /\ found' = [found EXCEPT ![j] = "ready"]
    /\ UNCHANGED <<accounts, inflight, sem, clients, owner, ownerHolder, left, raced>>

\* writeResult or writeStatus, with the time to live of the result.
JobWrite(j) ==
    /\ jpc[j] = "write"
    /\ row' = [row EXCEPT ![owner[j]] =
                 [status |-> found[j], live |-> TRUE, holder |-> ownerHolder[j]]]
    /\ JobGoto(j, "release")
    /\ found' = [found EXCEPT ![j] = "ready"]
    /\ UNCHANGED <<accounts, inflight, sem, clients, owner, ownerHolder, left, raced>>

\* The statement fails, which is only logged.
JobWriteFails(j) ==
    /\ jpc[j] = "write"
    /\ JobGoto(j, "release")
    /\ left' = left \cup {owner[j]}
    /\ found' = [found EXCEPT ![j] = "ready"]
    /\ UNCHANGED <<accounts, row, inflight, sem, clients, owner, ownerHolder, raced>>

\* Mutant: the slot is not given back.
JobReleaseNothing(j) ==
    /\ jpc[j] = "release"
    /\ JobGoto(j, "forget")
    /\ UNCHANGED <<accounts, row, inflight, sem, clients, owner, ownerHolder, found, left, raced>>

JobRelease(j) ==
    /\ jpc[j] = "release"
    /\ sem' = sem - 1
    /\ JobGoto(j, "forget")
    /\ UNCHANGED <<accounts, row, inflight, clients, owner, ownerHolder, found, left, raced>>

JobForget(j) ==
    /\ jpc[j] = "forget"
    /\ inflight' = inflight \ {owner[j]}
    /\ jpc' = [jpc EXCEPT ![j] = "off"]
    /\ owner' = [owner EXCEPT ![j] = 1]
    /\ ownerHolder' = [ownerHolder EXCEPT ![j] = 0]
    /\ UNCHANGED <<accounts, row, sem, clients, found, left, raced>>

-----------------------------------------------------------------------------
(* Time, accounts, restarts                                                *)

\* The clock passes the expire of a row.
Expire(a) ==
    /\ row[a].live
    /\ row' = [row EXCEPT ![a].live = FALSE]
    /\ UNCHANGED <<accounts, inflight, sem, clients, jobs, left, raced>>

\* The ids a request or a job is using.
InUse == {user[c] : c \in {d \in Client : pc[d] # "idle"}}
            \cup {owner[j] : j \in {i \in Job : jpc[i] # "off"}}

\* Mutant: the rows of recover_cache are forgotten.
DeleteAccountOnly(a) ==
    /\ a \in registered
    /\ registered' = registered \ {a}
    /\ raced' = IF a \in InUse THEN raced \cup {a} ELSE raced
    /\ UNCHANGED <<row, left, holder, inflight, sem, clients, jobs>>

\* admin.DeleteAccount, in one transaction.
DeleteAccount(a) ==
    /\ a \in registered
    /\ registered' = registered \ {a}
    /\ row' = [row EXCEPT ![a] = NoRow]
    /\ left' = left \ {a}
    /\ raced' = IF a \in InUse THEN raced \cup {a} ELSE raced
    /\ UNCHANGED <<holder, inflight, sem, clients, jobs>>

Registrations == MapThenSumSet(LAMBDA a : holder[a] - 1, Account)

\* auth.Register: the id of a new account is one above the largest in the
\* table, so the id of the last account is given out again once it is deleted.
Register(a) ==
    /\ \A b \in registered : b < a
    /\ a = 1 \/ a - 1 \in registered
    /\ Registrations < MaxRegistered
    /\ registered' = registered \cup {a}
    /\ holder' = [holder EXCEPT ![a] = @ + 1]
    /\ UNCHANGED <<row, inflight, sem, clients, jobs, left, raced>>

\* The process stops; nothing waits for the workers.
Restart ==
    /\ left' = {a \in Account : row[a].status = "fetching"}
    /\ inflight' = {}
    /\ sem' = 0
    /\ pc' = [c \in Client |-> "idle"]
    /\ user' = [c \in Client |-> 1] /\ userHolder' = [c \in Client |-> 0]
    /\ jpc' = [j \in Job |-> "off"]
    /\ owner' = [j \in Job |-> 1] /\ ownerHolder' = [j \in Job |-> 0]
    /\ found' = [j \in Job |-> "ready"]
    /\ UNCHANGED <<accounts, row, raced>>

Query(c) == \/ Authenticate(c) \/ LookupAnswers(c) \/ LookupMisses(c)
            \/ EnqueueKnown(c) \/ EnqueueNew(c) \/ Mark(c) \/ MarkFails(c)

Work(j) == \/ JobStart(j) \/ JobResult(j) \/ JobWrite(j) \/ JobWriteFails(j)
           \/ JobRelease(j) \/ JobForget(j)

Next ==
    \/ \E c \in Client : Query(c)
    \/ \E j \in Job : Work(j)
    \/ \E a \in Account : Expire(a) \/ DeleteAccount(a) \/ Register(a)
    \/ Restart

Spec == Init /\ [][Next]_vars

\* Goroutines are scheduled, jobTimeout ends a job that hangs, and those that
\* wait for a slot get one in turn (a Go channel is first come, first served).
Fairness ==
    /\ \A c \in Client : WF_vars(Mark(c) \/ MarkFails(c))
    /\ \A j \in Job : /\ SF_vars(JobStart(j))
                      /\ WF_vars(JobResult(j) \/ JobWrite(j) \/ JobWriteFails(j)
                                    \/ JobRelease(j) \/ JobForget(j))

FairSpec == Spec /\ Fairness

-----------------------------------------------------------------------------
(* Properties *)

\* Who is between the insertion into inflight and the deletion from it.
Marking(c) == pc[c] = "mark"
Working(j) == jpc[j] # "off"

\* At most one job per account and pid is queued, running or being started,
\* and inflight names exactly those (queue.go:75).
OneJobPerPid ==
    /\ \A i, j \in Job : Working(i) /\ Working(j) /\ owner[i] = owner[j] => i = j
    /\ \A c, d \in Client : Marking(c) /\ Marking(d) /\ user[c] = user[d] => c = d
    /\ \A c \in Client, j \in Job : Marking(c) /\ Working(j) => user[c] # owner[j]
    /\ inflight = {owner[j] : j \in {i \in Job : Working(i)}}
                    \cup {user[c] : c \in {d \in Client : Marking(d)}}

\* A placeholder has a job that will replace it, unless a restart or a failed
\* statement left it behind: the 202 a client polls on is not the last word.
FetchingHasJob ==
    \A a \in Account : row[a].status = "fetching" => a \in inflight \cup left

Holding == {j \in Job : jpc[j] \in Taking}

\* Slots are neither lost nor given back twice (queue.go:104-105).
SlotsMatchJobs == sem = Cardinality(Holding)

\* A row belongs to the account that has the id, unless the account was
\* deleted while a request or a job of it was under way (admin.DeleteAccount).
RowsHaveOwner ==
    \A a \in Account \ raced : row[a].status # "none" =>
        a \in registered /\ row[a].holder = holder[a]

\* Every job ends, and its account can enqueue another.
JobsEnd == \A a \in Account : a \in inflight ~> a \notin inflight

-----------------------------------------------------------------------------
(* Statements of the documents and comments that the code does not keep *)

\* service.go:138-154: an answer that has not expired triggers no job.
NoJobForAnswered ==
    [][\A c \in Client : EnqueueNew(c) => ~Answer(user[c])]_vars

\* docs/api.md:173: deleting an account removes its recover_cache.
DeletedLeavesNothing ==
    \A a \in Account \ registered : row[a].status = "none"

\* docs/api.md:139: 404 means that no source has it.
NotFoundMeansMissing == \A a \in Account : row[a].status # "failed"
=============================================================================
