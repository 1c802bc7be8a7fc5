------------------------------ MODULE Sources ------------------------------
(***************************************************************************)
(* How jobs of the recover queue ask the sources for the pages of a work   *)
(* (internal/recover/sources, and the loop over the sources in queue.go):  *)
(* the rate limiter and the slots that all jobs share per source, the      *)
(* deadline of a job, the search over pages, and the image cache the pages *)
(* are put into.  What becomes of the answer is in RecoverQueue, whose     *)
(* step JobResult stands for a whole job here.                             *)
(*                                                                         *)
(* All jobs recover one work, for different accounts: jobs for different   *)
(* works share the limiters and the slots just the same, but no images.    *)
(* What the sources have does not change while the jobs run.  Requests     *)
(* fail, answer late or never; a temporary file that was written can be    *)
(* read again.  The cache is the one of internal/img, by the same keys: it *)
(* may have images from there or from earlier runs, also such as were cut  *)
(* off or are gone at the source.                                          *)
(***************************************************************************)
EXTENDS Integers, Sequences, FiniteSets

CONSTANTS
    Job,            \* the jobs
    Order,          \* RECOVER_SOURCES: the sources, the first choice first
    Mirrors,        \* those of them that are mirrors; the rest is a snapshot
    MaxPages,       \* sources.go maxPages
    SnapPages,      \* the number of addresses in a snapshot
    MaxConcurrent,  \* slots of one source
    Every,          \* ProbeEvery, in ticks of the clock
    JobTimeout,     \* queue.go jobTimeout, in ticks
    Upstreams,      \* what the sources may have: functions of Image to Kind
    Stored,         \* what others may have put into the cache: sets of images
    MaxTime         \* bound: the last reading of the clock

Origin == {Order[i] : i \in DOMAIN Order}
PageCount(s) == IF s \in Mirrors THEN MaxPages ELSE SnapPages
Image == {u \in Origin \X (0 .. MaxPages + SnapPages) : u[2] < PageCount(u[1])}

\* An image; a body that is not one or has the wrong size; nothing.
Kind == {"image", "junk", "absent"}

ASSUME SourcesAssumption ==
    /\ IsFiniteSet(Job)
    /\ Order \in Seq(Origin) /\ Order # <<>>
    /\ MaxPages \in Nat \ {0} /\ SnapPages \in Nat \ {0}
    /\ MaxConcurrent \in Nat \ {0}
    /\ Every \in Nat /\ JobTimeout \in Nat /\ MaxTime \in Nat
    /\ Upstreams \subseteq [Image -> Kind]
    /\ Stored \subseteq SUBSET Image

VARIABLES
    now,        \* the clock
    up,         \* what the sources have
    elsewhere,  \* the images that others have put into the cache, or will
    cached,     \* the images that jobs have put into the cache
    free,       \* limiter of a source: when its next token is there
    held,       \* slots of a source that are taken
    step,       \* where a job is
    at,         \* job: index in Order of the source it asks
    page,       \* job: the page it is at
    ask,        \* job: the request it is about to make or has made
    miss,       \* job: misses in a row (mirror.go miss)
    pages,      \* job: the pages it has found at this source
    snap,       \* job: its account pushed a snapshot of the work
    due,        \* job: when its token is there
    deadline,   \* job: when its context ends
    calls,       \* auxiliary: calls of do for a source that got a slot
    failed      \* auxiliary: some request of the job failed or timed out

clock == <<now, up, elsewhere>>
walk  == <<at, page, ask, miss, pages>>
local == <<snap, deadline>>
vars  == <<clock, cached, free, held, step, walk, local, due, calls, failed>>

Source(j)  == Order[at[j]]
Current(j) == <<Source(j), page[j]>>
Running(j) == step[j] \notin {"off", "done"}
TimedOut(j) == now >= deadline[j]

\* The job ended with pages (ready), or without (not_found).
Ready(j)    == step[j] = "done" /\ at[j] <= Len(Order)
NotFound(j) == step[j] = "done" /\ at[j] > Len(Order)

TypeOK ==
    /\ now \in 0 .. MaxTime
    /\ up \in Upstreams /\ elsewhere \in Stored
    /\ cached \subseteq Image
    /\ free \in [Origin -> Nat]
    /\ held \in [Origin -> 0 .. MaxConcurrent]
    /\ step \in [Job -> {"off", "page", "wait", "slot", "ask", "body", "done"}]
    /\ at \in [Job -> 1 .. Len(Order) + 1]
    /\ page \in [Job -> Nat]
    /\ ask \in [Job -> {"head", "range", "get"}]
    /\ miss \in [Job -> 0 .. 1]
    /\ pages \in [Job -> SUBSET Nat]
    /\ \A j \in Job : Running(j) => at[j] <= Len(Order) /\ Current(j) \in Image
    /\ snap \in [Job -> BOOLEAN]
    /\ due \in [Job -> Nat]
    /\ deadline \in [Job -> Nat]
    /\ calls \in [Origin -> Nat]
    /\ failed \in [Job -> BOOLEAN]

FirstAsk(i) ==
    IF i <= Len(Order) /\ Order[i] \notin Mirrors THEN "head" ELSE "get"

Init ==
    /\ now = 0
    /\ up \in Upstreams /\ elsewhere \in Stored
    /\ cached = {}
    /\ free = [s \in Origin |-> 0]
    /\ held = [s \in Origin |-> 0]
    /\ step = [j \in Job |-> "off"]
    /\ at = [j \in Job |-> 1]
    /\ page = [j \in Job |-> 0]
    /\ ask = [j \in Job |-> FirstAsk(1)]
    /\ miss = [j \in Job |-> 0]
    /\ pages = [j \in Job |-> {}]
    /\ snap = [j \in Job |-> FALSE]
    /\ due = [j \in Job |-> 0]
    /\ deadline = [j \in Job |-> 0]
    /\ calls = [s \in Origin |-> 0]
    /\ failed = [j \in Job |-> FALSE]

-----------------------------------------------------------------------------
(* The loops over sources and pages.                                       *)

Goto(j, s) == step' = [step EXCEPT ![j] = s]

\* Mutant: the error of a source ends the job.
SourceFailureFinal(j) ==
    /\ at' = [at EXCEPT ![j] = Len(Order) + 1]
    /\ Goto(j, "done")
    /\ page' = [page EXCEPT ![j] = 0]
    /\ ask' = [ask EXCEPT ![j] = "get"]
    /\ miss' = [miss EXCEPT ![j] = 0]
    /\ pages' = [pages EXCEPT ![j] = {}]

\* The source returned an error: the next one is asked, and after the last
\* the work is not found.
SourceFails(j) ==
    /\ at' = [at EXCEPT ![j] = @ + 1]
    /\ Goto(j, IF at[j] = Len(Order) THEN "done" ELSE "page")
    /\ page' = [page EXCEPT ![j] = 0]
    /\ ask' = [ask EXCEPT ![j] = FirstAsk(at[j] + 1)]
    /\ miss' = [miss EXCEPT ![j] = 0]
    /\ pages' = [pages EXCEPT ![j] = {}]

\* The source returned the pages it found, if any.
SourceEnds(j, found) ==
    IF found = {}
    THEN SourceFails(j)
    ELSE /\ Goto(j, "done")
         /\ pages' = [pages EXCEPT ![j] = found]
         /\ miss' = [miss EXCEPT ![j] = 0]
         /\ UNCHANGED <<at, page, ask>>

NextPage(j, found, misses) ==
    /\ Goto(j, "page")
    /\ page' = [page EXCEPT ![j] = @ + 1]
    /\ ask' = [ask EXCEPT ![j] = FirstAsk(at[j])]
    /\ pages' = [pages EXCEPT ![j] = found]
    /\ miss' = [miss EXCEPT ![j] = misses]
    /\ UNCHANGED at

\* Mutant: the first miss ends the search.
MirrorPageStopsEarly(j, outcome) ==
    LET found  == IF outcome = "ok" THEN pages[j] \cup {page[j]} ELSE pages[j]
        misses == IF outcome = "ok" THEN 0 ELSE miss[j] + 1
    IN  IF outcome = "error" \/ found = {} THEN SourceFails(j)
        ELSE IF page[j] + 1 = MaxPages \/ misses = 1 THEN SourceEnds(j, found)
        ELSE NextPage(j, found, misses)

\* A mirror is given up when its first page is missing or any request fails;
\* otherwise two misses in a row are its end.
MirrorPage(j, outcome) ==
    LET found  == IF outcome = "ok" THEN pages[j] \cup {page[j]} ELSE pages[j]
        misses == IF outcome = "ok" THEN 0 ELSE miss[j] + 1
    IN  IF outcome = "error" \/ found = {} THEN SourceFails(j)
        ELSE IF page[j] + 1 = MaxPages \/ misses = 2 THEN SourceEnds(j, found)
        ELSE NextPage(j, found, misses)

\* A snapshot goes on with the next address, whatever became of this one.
SnapshotPage(j, outcome) ==
    LET found == IF outcome = "ok" THEN pages[j] \cup {page[j]} ELSE pages[j]
    IN  IF page[j] + 1 = SnapPages THEN SourceEnds(j, found)
        ELSE NextPage(j, found, 0)

PageEnds(j, outcome) ==
    /\ IF Source(j) \in Mirrors THEN MirrorPage(j, outcome)
                                ELSE SnapshotPage(j, outcome)
    /\ failed' = [failed EXCEPT ![j] = @ \/ outcome = "error"]
    /\ UNCHANGED <<clock, local>>

-----------------------------------------------------------------------------
(* Start, and the cache.                                                   *)

\* work got a slot of the queue; loadSnapshot found a snapshot or none.
Start(j) ==
    /\ step[j] = "off"
    /\ now + JobTimeout <= MaxTime
    /\ Goto(j, "page")
    /\ snap' \in {[snap EXCEPT ![j] = b] : b \in BOOLEAN}
    /\ deadline' = [deadline EXCEPT ![j] = now + JobTimeout]
    /\ UNCHANGED <<clock, cached, free, held, walk, due, calls, failed>>

\* snapshot.go: nothing to ask without a snapshot.
NoSnapshot(j) ==
    /\ step[j] = "page" /\ Source(j) \notin Mirrors /\ ~snap[j]
    /\ SourceFails(j)
    /\ UNCHANGED <<clock, cached, free, held, local, due, calls, failed>>

\* The job is about to make a request and has something to ask.
Asking(j) ==
    step[j] = "page" /\ (Source(j) \in Mirrors \/ snap[j])

\* fetchImage finds the image in the cache, and does not check it again.
Hit(j) ==
    /\ Asking(j) /\ ask[j] = "get" /\ ~TimedOut(j)
    /\ Current(j) \in cached \cup elsewhere
    /\ PageEnds(j, "ok")
    /\ UNCHANGED <<cached, free, held, due, calls>>

-----------------------------------------------------------------------------
(* acquire: the limiter, then a slot.                                      *)

Later(a, b) == IF a < b THEN b ELSE a

\* Mutant: tokens that nobody took are saved up, as with a larger burst.
ReserveSaves(j) ==
    /\ Asking(j)
    /\ ~TimedOut(j) /\ Later(now, free[Source(j)]) <= deadline[j]
    /\ due' = [due EXCEPT ![j] = Later(now, free[Source(j)])]
    /\ free' = [free EXCEPT ![Source(j)] = @ + Every]
    /\ Goto(j, "wait")
    /\ UNCHANGED <<clock, cached, held, walk, local, calls, failed>>

\* Mutant: the limiter is not asked for the requests of the probe.
ReserveGetOnly(j) ==
    /\ Asking(j)
    /\ ~TimedOut(j) /\ Later(now, free[Source(j)]) <= deadline[j]
    /\ due' = [due EXCEPT ![j] = IF ask[j] = "get" THEN Later(now, free[Source(j)])
                                                   ELSE now]
    /\ free' = IF ask[j] = "get"
               THEN [free EXCEPT ![Source(j)] = Later(now, @) + Every]
               ELSE free
    /\ Goto(j, "wait")
    /\ UNCHANGED <<clock, cached, held, walk, local, calls, failed>>

\* lim.Wait takes the next token, which is Every after the one before.  The
\* cache missed: it never had the image or has evicted it, or the lookup
\* failed, which counts as a miss.
Reserve(j) ==
    /\ Asking(j)
    /\ ~TimedOut(j) /\ Later(now, free[Source(j)]) <= deadline[j]
    /\ due' = [due EXCEPT ![j] = Later(now, free[Source(j)])]
    /\ free' = [free EXCEPT ![Source(j)] = Later(now, @) + Every]
    /\ Goto(j, "wait")
    /\ UNCHANGED <<clock, cached, held, walk, local, calls, failed>>

\* The context has ended, or would end before the token is there.
ReserveFails(j) ==
    /\ Asking(j)
    /\ TimedOut(j) \/ Later(now, free[Source(j)]) > deadline[j]
    /\ PageEnds(j, "error")
    /\ UNCHANGED <<cached, free, held, due, calls>>

WaitEnds(j) ==
    /\ step[j] = "wait" /\ now >= due[j]
    /\ Goto(j, "slot")
    /\ UNCHANGED <<clock, cached, free, held, walk, local, due, calls, failed>>

\* The context ends first; the token goes back unless it is there already
\* or another job has reserved the next one.
WaitCancelled(j) ==
    /\ step[j] = "wait" /\ TimedOut(j)
    /\ free' = IF due[j] >= now /\ free[Source(j)] = due[j] + Every
               THEN [free EXCEPT ![Source(j)] = due[j]]
               ELSE free
    /\ PageEnds(j, "error")
    /\ UNCHANGED <<cached, held, due, calls>>

\* Mutant: the slots have no limit.
TakeSlotAlways(j) ==
    /\ step[j] = "slot"
    /\ held' = [held EXCEPT ![Source(j)] = @ + 1]
    /\ calls' = [calls EXCEPT ![Source(j)] = @ + 1]
    /\ Goto(j, "ask")
    /\ UNCHANGED <<clock, cached, free, walk, local, due, failed>>

\* A slot is free: the request is sent.  Redirects that the client follows
\* are part of the call.
TakeSlot(j) ==
    /\ step[j] = "slot" /\ held[Source(j)] < MaxConcurrent
    /\ held' = [held EXCEPT ![Source(j)] = @ + 1]
    /\ calls' = [calls EXCEPT ![Source(j)] = @ + 1]
    /\ Goto(j, "ask")
    /\ UNCHANGED <<clock, cached, free, walk, local, due, failed>>

SlotCancelled(j) ==
    /\ step[j] = "slot" /\ TimedOut(j)
    /\ PageEnds(j, "error")
    /\ UNCHANGED <<cached, free, held, due, calls>>

-----------------------------------------------------------------------------
(* do: the slot is given back when the headers are there or the request    *)
(* has failed; the body is read afterwards.                                *)

\* Mutant: only an answer gives the slot back.
ReleaseOnAnswer(j) ==
    held' = [held EXCEPT ![Source(j)] = IF TimedOut(j) THEN @ ELSE @ - 1]

Release(j) == held' = [held EXCEPT ![Source(j)] = @ - 1]

\* The connection fails, or the answer is a status the caller gives up on.
AskFails(j) ==
    /\ step[j] = "ask"
    /\ Release(j)
    /\ PageEnds(j, "error")
    /\ UNCHANGED <<cached, free, due, calls>>

\* Mutant: the request is made without the context of the job.
AskHasNoContext(j) == ~TimedOut(j) /\ AskFails(j)

AskTimesOut(j) == TimedOut(j) /\ AskFails(j)

\* The probe goes on to the next request for the same page.
AskNext(j, next) ==
    /\ ask' = [ask EXCEPT ![j] = next]
    /\ Goto(j, "page")
    /\ UNCHANGED <<clock, at, page, miss, pages, local, failed>>

\* probeAlive: HEAD is not supported, so a range is asked for.
HeadUnsupported(j) ==
    /\ step[j] = "ask" /\ ask[j] = "head"
    /\ Release(j)
    /\ AskNext(j, "range")
    /\ UNCHANGED <<cached, free, due, calls>>

\* probeAlive: the address is alive and has an image, by its headers.
ProbeAnswers(j) ==
    /\ step[j] = "ask" /\ ask[j] \in {"head", "range"}
    /\ Release(j)
    /\ IF up[Current(j)] = "absent" THEN PageEnds(j, "missing")
                                    ELSE AskNext(j, "get")
    /\ UNCHANGED <<cached, free, due, calls>>

\* fetchImage: nothing there, or no image by its headers.
GetMisses(j) ==
    /\ step[j] = "ask" /\ ask[j] = "get" /\ up[Current(j)] = "absent"
    /\ Release(j)
    /\ PageEnds(j, "missing")
    /\ UNCHANGED <<cached, free, due, calls>>

GetAnswers(j) ==
    /\ step[j] = "ask" /\ ask[j] = "get" /\ up[Current(j)] # "absent"
    /\ Release(j)
    /\ Goto(j, "body")
    /\ UNCHANGED <<clock, cached, free, walk, local, due, calls, failed>>

\* The whole body is there and passes the check of its size.  That Put may
\* end without having stored it, which is no error, and that the image may be
\* evicted again, only make a later lookup miss, as Reserve allows anyway.
BodyWhole(j) ==
    /\ step[j] = "body" /\ up[Current(j)] = "image"
    /\ cached' = cached \cup {Current(j)}
    /\ PageEnds(j, "ok")
    /\ UNCHANGED <<free, held, due, calls>>

BodyRefused(j) ==
    /\ step[j] = "body" /\ up[Current(j)] = "junk"
    /\ PageEnds(j, "missing")
    /\ UNCHANGED <<cached, free, held, due, calls>>

\* The body breaks off, or a file operation or Put fails.
BodyFails(j) ==
    /\ step[j] = "body"
    /\ PageEnds(j, "error")
    /\ UNCHANGED <<cached, free, held, due, calls>>

BodyTimesOut(j) == TimedOut(j) /\ BodyFails(j)

-----------------------------------------------------------------------------
(* Time, and what happens when.                                            *)

Tick ==
    /\ now < MaxTime
    /\ now' = now + 1
    /\ UNCHANGED <<up, elsewhere, cached, free, held, step, walk, local, due, calls, failed>>

\* What a job does by itself, however silent the sources are.
Proceed(j) ==
    \/ NoSnapshot(j) \/ Reserve(j) \/ ReserveFails(j) \/ WaitEnds(j)
    \/ WaitCancelled(j) \/ SlotCancelled(j) \/ AskTimesOut(j) \/ BodyTimesOut(j)

\* What depends on a source, a slot or the cache.
Advance(j) ==
    \/ Hit(j) \/ TakeSlot(j) \/ AskFails(j) \/ HeadUnsupported(j)
    \/ ProbeAnswers(j) \/ GetMisses(j) \/ GetAnswers(j)
    \/ BodyWhole(j) \/ BodyRefused(j) \/ BodyFails(j)

Next ==
    \/ \E j \in Job : Start(j) \/ Proceed(j) \/ Advance(j)
    \/ Tick

Spec == Init /\ [][Next]_vars

\* Goroutines are scheduled, timers fire and time passes.  Nothing is assumed
\* of the sources, nor of the slots: every wait ends with the context.
Fairness == WF_vars(Tick) /\ \A j \in Job : WF_vars(Proceed(j))

FairSpec == Spec /\ Fairness

-----------------------------------------------------------------------------
(* Properties *)

\* No slot is lost or given back twice, on any path through a request.
SlotsMatchRequests ==
    \A s \in Origin :
        held[s] = Cardinality({j \in Job : step[j] = "ask" /\ Source(j) = s})

\* Whatever the jobs do at once, retry or abandon, a source gets no more than
\* one call per interval since the start, on the whole (sources.go:138-142).
PoliteOverall ==
    \A s \in Origin : calls[s] > 0 => (calls[s] - 1) * Every <= now

Calling(j, s) == step[j] \in {"wait", "slot", "ask"} /\ Source(j) = s

\* The tokens of calls that wait or are under way are an interval apart, however
\* long nobody asked before, and whoever was cancelled and gave one back: calls
\* get closer only by waiting for a slot (sources.go:140-146).
TokensApart ==
    \A s \in Origin, i, j \in Job :
        i # j /\ Calling(i, s) /\ Calling(j, s) =>
            due[i] + Every <= due[j] \/ due[j] + Every <= due[i]

Served == {u \in Image : up[u] = "image"}

\* The pages of a mirror among the images had before which no two in a row are
\* missing; the first page has to be there.
WorkAt(s, had) ==
    {n \in 0 .. MaxPages - 1 :
        /\ <<s, n>> \in had
        /\ <<s, 0>> \in had
        /\ ~\E m \in 1 .. n - 1 : m + 1 < n /\ <<s, m>> \notin had /\ <<s, m + 1>> \notin had}

\* An answer from a mirror has every page of the work that the mirror serves, up
\* to two missing in a row, and nothing but these and what the cache adds: it
\* stands for the time to live of the answer (mirror.go:33-58).
MirrorComplete ==
    \A j \in Job :
        Ready(j) /\ Source(j) \in Mirrors =>
            /\ WorkAt(Source(j), Served) \subseteq pages[j]
            /\ pages[j] \subseteq WorkAt(Source(j), Served \cup elsewhere)

\* A job without a failed request ends in not_found only if no mirror has
\* the work and none of the addresses of its snapshot is alive.
NotFoundHonest ==
    \A j \in Job, s \in Origin :
        NotFound(j) /\ ~failed[j] =>
            IF s \in Mirrors THEN WorkAt(s, Served) = {}
            ELSE snap[j] => \A u \in Served : u[1] # s

\* Every job ends, though the sources may never answer: the context of the
\* job ends every wait, and every source after it fails at once.  This is
\* what RecoverQueue assumes of JobResult.
JobsEnd == \A j \in Job : step[j] = "page" ~> step[j] = "done"

-----------------------------------------------------------------------------
(* Statements of the documentation that the code does not keep *)

\* PLAN.md:190, sources.go:3: no more than MaxConcurrent downloads of one
\* source at once.
DownloadsWithinSlots ==
    \A s \in Origin :
        Cardinality({j \in Job : step[j] \in {"ask", "body"} /\ Source(j) = s})
            <= MaxConcurrent
=============================================================================
