----------------------------- MODULE ImgFlight -----------------------------
(***************************************************************************)
(* GET /img/v1/fetch of internal/img: requests for one key share a flight. *)
(* The first that misses the cache leads and asks the upstream, the others *)
(* wait for it and look again.  The cache (DiskLRU) is seen from outside:  *)
(* a key is cached with its whole image, with a part of it, or not at all. *)
(* Rejected URLs never get here and are left out.                          *)
(***************************************************************************)
EXTENDS Integers, FiniteSets

CONSTANTS
    Keys,           \* cache keys, one per URL
    Request,        \* request goroutines
    NoRequest,      \* not a request: no flight for a key
    MaxArrivals,    \* bound: requests that arrive
    MaxEvents       \* bound: evictions and failed cache reads

ASSUME FlightAssumption ==
    /\ NoRequest \notin Request
    /\ MaxArrivals \in Nat /\ MaxEvents \in Nat

VARIABLES
    cached,     \* what the cache holds for each key
    inflight,   \* the request that leads the flight of a key
    pc,         \* the step each request is at
    want,       \* the key each request asks for
    body,       \* what a leader received and wrote to its temporary file
    arrivals, events    \* counters for the bounds

vars == <<cached, inflight, pc, want, body, arrivals, events>>

Images  == {"whole", "part"}
Leading == {"request", "commit", "leave"}
Steps   == {"idle", "lookup", "enter", "wait"} \cup Leading

Leads(r) == pc[r] \in Leading

TypeOK ==
    /\ cached \in [Keys -> Images \cup {"none"}]
    /\ inflight \in [Keys -> Request \cup {NoRequest}]
    /\ pc \in [Request -> Steps]
    /\ want \in [Request -> Keys]
    /\ body \in [Request -> Images \cup {"none"}]
    /\ arrivals \in Nat
    /\ events \in Nat

Init ==
    /\ cached = [k \in Keys |-> "none"]
    /\ inflight = [k \in Keys |-> NoRequest]
    /\ pc = [r \in Request |-> "idle"]
    /\ want \in [Request -> Keys]
    /\ body = [r \in Request |-> "none"]
    /\ arrivals = 0 /\ events = 0

-----------------------------------------------------------------------------

Goto(r, step) == pc' = [pc EXCEPT ![r] = step]

Arrive(r) ==
    /\ pc[r] = "idle" /\ arrivals < MaxArrivals
    /\ \E k \in Keys : want' = [want EXCEPT ![r] = k]
    /\ Goto(r, "lookup")
    /\ arrivals' = arrivals + 1
    /\ UNCHANGED <<cached, inflight, body, events>>

\* serveHit: the cached file is sent and the request is done.
LookupHit(r) ==
    /\ pc[r] = "lookup"
    /\ cached[want[r]] # "none"
    /\ Goto(r, "idle")
    /\ UNCHANGED <<cached, inflight, want, body, arrivals, events>>

LookupMiss(r) ==
    /\ pc[r] = "lookup"
    /\ cached[want[r]] = "none"
    /\ Goto(r, "enter")
    /\ UNCHANGED <<cached, inflight, want, body, arrivals, events>>

\* A cache that cannot be read counts as a miss.
LookupDegraded(r) ==
    /\ pc[r] = "lookup"
    /\ cached[want[r]] # "none" /\ events < MaxEvents
    /\ Goto(r, "enter")
    /\ events' = events + 1
    /\ UNCHANGED <<cached, inflight, want, body, arrivals>>

\* Mutant: whoever missed becomes leader.
EnterLeadAlways(r) ==
    /\ pc[r] = "enter"
    /\ inflight' = [inflight EXCEPT ![want[r]] = r]
    /\ Goto(r, "request")
    /\ UNCHANGED <<cached, want, body, arrivals, events>>

EnterLead(r) ==
    /\ pc[r] = "enter"
    /\ inflight[want[r]] = NoRequest
    /\ inflight' = [inflight EXCEPT ![want[r]] = r]
    /\ Goto(r, "request")
    /\ UNCHANGED <<cached, want, body, arrivals, events>>

EnterFollow(r) ==
    /\ pc[r] = "enter"
    /\ inflight[want[r]] # NoRequest
    /\ Goto(r, "wait")
    /\ UNCHANGED <<cached, inflight, want, body, arrivals, events>>

\* The upstream cannot be reached, or answers anything but 200, or with an
\* image too large to cache, which is only passed on.
UpstreamUncached(r) ==
    /\ pc[r] = "request"
    /\ Goto(r, "leave")
    /\ UNCHANGED <<cached, inflight, want, body, arrivals, events>>

\* Mutant: the body of an answer that is no image is stored too.
UpstreamBodyAny(r) ==
    /\ pc[r] = "request"
    /\ \E b \in Images \cup {"error page"} : body' = [body EXCEPT ![r] = b]
    /\ Goto(r, "commit")
    /\ UNCHANGED <<cached, inflight, want, arrivals, events>>

\* 200: the body is passed on and written to the cache until it ends or
\* breaks off; the error of the copy is ignored.
UpstreamBody(r) ==
    /\ pc[r] = "request"
    /\ \E b \in Images : body' = [body EXCEPT ![r] = b]
    /\ Goto(r, "commit")
    /\ UNCHANGED <<cached, inflight, want, arrivals, events>>

CommitDone(r) ==
    /\ pc[r] = "commit"
    /\ cached' = [cached EXCEPT ![want[r]] = body[r]]
    /\ body' = [body EXCEPT ![r] = "none"]
    /\ Goto(r, "leave")
    /\ UNCHANGED <<inflight, want, arrivals, events>>

\* Mutant: asks the upstream again until the image is stored.
CommitRetries(r) ==
    /\ pc[r] = "commit"
    /\ body' = [body EXCEPT ![r] = "none"]
    /\ Goto(r, "request")
    /\ UNCHANGED <<cached, inflight, want, arrivals, events>>

\* Nothing is stored: too large, or the disk, the database or the client failed.
CommitDegraded(r) ==
    /\ pc[r] = "commit"
    /\ body' = [body EXCEPT ![r] = "none"]
    /\ Goto(r, "leave")
    /\ UNCHANGED <<cached, inflight, want, arrivals, events>>

\* Mutant: done is signalled to one follower instead of closed.
LeaveWakesOne(r) ==
    /\ pc[r] = "leave"
    /\ inflight' = [inflight EXCEPT ![want[r]] = NoRequest]
    /\ LET Waiting == {s \in Request : pc[s] = "wait" /\ want[s] = want[r]}
       IN \/ Waiting = {} /\ Goto(r, "idle")
          \/ \E s \in Waiting : pc' = [pc EXCEPT ![r] = "idle", ![s] = "lookup"]
    /\ UNCHANGED <<cached, want, body, arrivals, events>>

\* Forget the flight and wake everyone who waits for it, under the mutex.
Leave(r) ==
    /\ pc[r] = "leave"
    /\ inflight' = [inflight EXCEPT ![want[r]] = NoRequest]
    /\ pc' = [s \in Request |->
                 IF s = r THEN "idle"
                 ELSE IF pc[s] = "wait" /\ want[s] = want[r] THEN "lookup"
                 ELSE pc[s]]
    /\ UNCHANGED <<cached, want, body, arrivals, events>>

\* The eviction of DiskLRU removes the entry at any time.
Evict(k) ==
    /\ cached[k] # "none" /\ events < MaxEvents
    /\ cached' = [cached EXCEPT ![k] = "none"]
    /\ events' = events + 1
    /\ UNCHANGED <<inflight, pc, want, body, arrivals>>

Step(r) ==
    \/ LookupHit(r) \/ LookupMiss(r) \/ LookupDegraded(r)
    \/ EnterLead(r) \/ EnterFollow(r)
    \/ UpstreamUncached(r) \/ UpstreamBody(r)
    \/ CommitDone(r) \/ CommitDegraded(r)
    \/ Leave(r)

Next == \/ \E r \in Request : Arrive(r) \/ Step(r)
        \/ \E k \in Keys : Evict(k)

Spec == Init /\ [][Next]_vars

\* Goroutines are scheduled, and an upstream that was asked answers or breaks
\* the connection.  Requests need not arrive.
FairSpec == Spec /\ \A r \in Request : WF_vars(Step(r))

-----------------------------------------------------------------------------
(* Properties *)

\* At most one request for a key is at the upstream (service.go:34).
OneFlight ==
    \A r, s \in Request : Leads(r) /\ Leads(s) /\ want[r] = want[s] => r = s

\* No follower waits for a flight nobody flies: whoever waits has a leader
\* that has not left yet (service.go:101, 220-225).
FollowersHaveLeader ==
    \A r \in Request : pc[r] = "wait" =>
        \E s \in Request : Leads(s) /\ want[s] = want[r] /\ inflight[want[r]] = s

\* The map and the requests agree; with TypeOK this is inductive.
FlightInv ==
    /\ \A k \in Keys : inflight[k] # NoRequest =>
          Leads(inflight[k]) /\ want[inflight[k]] = k
    /\ \A r \in Request : Leads(r) => inflight[want[r]] = r
    /\ \A r \in Request : pc[r] = "wait" => inflight[want[r]] # NoRequest

\* Every request is answered: a follower is not left behind by leaders that
\* fail one after the other, as long as arrivals come to an end.
Answered == \A r \in Request : pc[r] # "idle" ~> pc[r] = "idle"

-----------------------------------------------------------------------------
(* Statements of the documents and tests that the code does not keep *)

\* PLAN.md:165 and img_test.go:342: concurrent requests for one key go out
\* once.  Nobody asks the upstream for what is in the cache by then.
FetchOnlyUncached ==
    [][\A r \in Request : EnterLead(r) => cached[want[r]] = "none"]_vars

\* disklru.go:4: the size is checked before the rename.  What is cached is the
\* whole image.
CachedImagesWhole == \A k \in Keys : cached[k] # "part"
=============================================================================
