-------------------------------- MODULE Server --------------------------------
(***************************************************************************)
(* The life of server processes on one database and one port: migrations,  *)
(* app.New, the listener in its goroutine, and the stop, which waits for   *)
(* requests but not for ever.  A deployment has one process, but nothing   *)
(* keeps a new one from starting while the old one stops, so there may be  *)
(* several.  SQLite runs one writing transaction at a time.                *)
(***************************************************************************)
EXTENDS Integers

CONSTANTS
    Process,
    Last,           \* the migrations are 1..Last, in the order of their names
    MaxActive,      \* bound of requests under way
    None            \* no process

ASSUME ServerAssumption == Last \in Nat /\ MaxActive \in Nat /\ None \notin Process

Migrations == 1..Last

VARIABLES
    schema,     \* migrations whose statements are in the database
    recorded,   \* rows of schema_migrations
    writer,     \* the process with an open transaction that writes
    port,       \* the process that listens
    pc,         \* where main is
    next,       \* Migrate: the migration it looks at
    server,     \* the goroutine that listens
    active,     \* requests under way
    ended,      \* how the process ended last
    cut         \* auxiliary: requests that end did not wait for

database   == <<schema, recorded, writer>>
ending     == <<ended, cut>>
serverVars == <<database, port, pc, next, server, active, ending>>

Starting == {"check", "apply", "commit", "build", "launch"}
Stopping == {"drain", "exit"}
Running  == Starting \cup Stopping \cup {"wait"}

ServerTypeOK ==
    /\ schema \subseteq Migrations /\ recorded \subseteq Migrations
    /\ writer \in Process \cup {None} /\ port \in Process \cup {None}
    /\ pc \in [Process -> Running \cup {"down"}]
    /\ next \in [Process -> 1..Last + 1]
    /\ server \in [Process -> {"none", "starting", "listening"}]
    /\ active \in [Process -> 0..MaxActive]
    /\ ended \in [Process -> {"new", "success", "failure", "killed"}]
    /\ cut \in [Process -> 0..MaxActive]

ServerInit ==
    /\ schema = {} /\ recorded = {} /\ writer = None /\ port = None
    /\ pc = [p \in Process |-> "down"]
    /\ next = [p \in Process |-> 1]
    /\ server = [p \in Process |-> "none"]
    /\ active = [p \in Process |-> 0]
    /\ ended = [p \in Process |-> "new"]
    /\ cut = [p \in Process |-> 0]

-----------------------------------------------------------------------------

\* What the system does with the rest of a process.
End(p, how) ==
    /\ pc' = [pc EXCEPT ![p] = "down"]
    /\ next' = [next EXCEPT ![p] = 1]
    /\ server' = [server EXCEPT ![p] = "none"]
    /\ active' = [active EXCEPT ![p] = 0]
    /\ cut' = [cut EXCEPT ![p] = active[p]]
    /\ ended' = [ended EXCEPT ![p] = how]
    /\ writer' = IF writer = p THEN None ELSE writer
    /\ port' = IF port = p THEN None ELSE port
    /\ UNCHANGED <<schema, recorded>>

Goto(p, to) == pc' = [pc EXCEPT ![p] = to]

Start(p) ==
    /\ pc[p] = "down" /\ Goto(p, "check")
    /\ UNCHANGED <<database, port, next, server, active, ending>>

\* Mutant: one step too far.
AllSeenLate(p) == next[p] > Last + 1

AllSeen(p) == next[p] > Last

\* SELECT COUNT, outside of the transaction.
Check(p) ==
    /\ pc[p] = "check"
    /\ IF AllSeen(p)
       THEN Goto(p, "build") /\ UNCHANGED next
       ELSE IF next[p] \in recorded
       THEN next' = [next EXCEPT ![p] = @ + 1] /\ UNCHANGED pc
       ELSE Goto(p, "apply") /\ UNCHANGED next
    /\ UNCHANGED <<database, port, server, active, ending>>

\* Mutant: without a transaction, each statement is committed at once.
ApplyAtOnce(p) ==
    /\ pc[p] = "apply" /\ writer = None
    /\ next[p] \notin schema
    /\ writer' = p /\ Goto(p, "commit")
    /\ schema' = schema \cup {next[p]}
    /\ UNCHANGED <<recorded, port, next, server, active, ending>>

\* The statements of the file run in a new transaction; none of them can run twice.
Apply(p) ==
    /\ pc[p] = "apply" /\ writer = None
    /\ next[p] \notin schema
    /\ writer' = p /\ Goto(p, "commit")
    /\ UNCHANGED <<schema, recorded, port, next, server, active, ending>>

\* The record goes in, and both are committed.
Commit(p) ==
    /\ pc[p] = "commit" /\ next[p] \notin recorded
    /\ schema' = schema \cup {next[p]}
    /\ recorded' = recorded \cup {next[p]}
    /\ writer' = None
    /\ next' = [next EXCEPT ![p] = @ + 1]
    /\ Goto(p, "check")
    /\ UNCHANGED <<port, server, active, ending>>

Build(p) ==
    /\ pc[p] = "build" /\ Goto(p, "launch")
    /\ server' = [server EXCEPT ![p] = "starting"]
    /\ UNCHANGED <<database, port, next, active, ending>>

\* Mutant: a migration that fails is passed over.
StartFailsOn(p) ==
    /\ pc[p] \in {"check", "apply", "commit", "build"}
    /\ IF pc[p] = "apply"
       THEN /\ next' = [next EXCEPT ![p] = @ + 1] /\ Goto(p, "check")
            /\ UNCHANGED <<database, port, server, active, ending>>
       ELSE End(p, "failure")

\* Any step may fail (a statement, the lock after its timeout, the cache, a key,
\* a bad address): main gives up, and the transaction is rolled back.
StartFails(p) ==
    /\ pc[p] \in {"check", "apply", "commit", "build"}
    /\ End(p, "failure")

\* From here on signals do not kill.
Notify(p) ==
    /\ pc[p] = "launch" /\ Goto(p, "wait")
    /\ UNCHANGED <<database, port, next, server, active, ending>>

\* Mutant: a listener that comes up late stays up.
ListenLate(p) ==
    /\ server[p] = "starting"
    /\ \/ /\ port = None
          /\ server' = [server EXCEPT ![p] = "listening"] /\ port' = p
          /\ UNCHANGED <<database, pc, next, active, ending>>
       \/ port # None /\ End(p, "failure")

\* The goroutine finds the port free, or taken, or the server shut down already.
Listen(p) ==
    /\ server[p] = "starting"
    /\ \/ /\ pc[p] \in Stopping
          /\ server' = [server EXCEPT ![p] = "none"]
          /\ UNCHANGED <<database, port, pc, next, active, ending>>
       \/ /\ pc[p] \notin Stopping /\ port = None
          /\ server' = [server EXCEPT ![p] = "listening"] /\ port' = p
          /\ UNCHANGED <<database, pc, next, active, ending>>
       \/ port # None /\ End(p, "failure")

Request(p) ==
    /\ server[p] = "listening" /\ active[p] < MaxActive
    /\ active' = [active EXCEPT ![p] = @ + 1]
    /\ UNCHANGED <<database, port, pc, next, server, ending>>

Answer(p) ==
    /\ active[p] > 0
    /\ active' = [active EXCEPT ![p] = @ - 1]
    /\ UNCHANGED <<database, port, pc, next, server, ending>>

\* SIGTERM or SIGINT; Shutdown closes the listener first.
Stop(p) ==
    /\ pc[p] = "wait" /\ Goto(p, "drain")
    /\ server' = [server EXCEPT ![p] = IF @ = "listening" THEN "none" ELSE @]
    /\ port' = IF port = p THEN None ELSE port
    /\ UNCHANGED <<database, next, active, ending>>

\* Mutant: the listener is closed without waiting.
DrainedAtOnce(p) ==
    /\ pc[p] = "drain" /\ Goto(p, "exit")
    /\ UNCHANGED <<database, port, next, server, active, ending>>

\* Shutdown, which looks now and then, finds no connection in use.
Drained(p) ==
    /\ pc[p] = "drain" /\ active[p] = 0 /\ Goto(p, "exit")
    /\ UNCHANGED <<database, port, next, server, active, ending>>

\* main closes the database and returns.
Exit(p) == pc[p] = "exit" /\ End(p, "success")

\* Mutant: Shutdown without a deadline.
DrainTimeoutNever(p) == FALSE

\* Ten seconds have gone.
DrainTimeout(p) == pc[p] = "drain" /\ active[p] > 0 /\ End(p, "failure")

\* Killed, by the power or by a signal before Notify.
Kill(p) == pc[p] \in Running /\ End(p, "killed")

Main(p) ==
    \/ Check(p) \/ Apply(p) \/ Commit(p) \/ Build(p) \/ StartFails(p) \/ Notify(p)
    \/ Drained(p) \/ DrainTimeout(p) \/ Exit(p)

ServerNext ==
    \E p \in Process :
       Start(p) \/ Main(p) \/ Listen(p) \/ Request(p) \/ Answer(p) \/ Stop(p) \/ Kill(p)

ServerSpec == ServerInit /\ [][ServerNext]_serverVars

\* main runs on, a lock that does not come is an error after busy_timeout, and
\* Shutdown returns after ten seconds at the latest.
FairSpec == ServerSpec /\ \A p \in Process : WF_serverVars(Main(p))

-----------------------------------------------------------------------------
(* Properties *)

\* Whatever fails, crashes or starts at the same time, a migration is in the
\* schema if and only if it is recorded, and none is in before those that precede
\* it (db/migrate.go:40, :51).
SchemaAsRecorded ==
    /\ schema = recorded
    /\ \A m \in recorded : 1..m \subseteq recorded

\* No request meets a database on which a migration is missing (main.go:33).
ServesWholeSchema == \A p \in Process : active[p] > 0 \/ port = p => schema = Migrations

\* A process that ended with success has answered every request it took, though
\* its listener may only come up while it stops (main.go:51, :65).
SuccessCutsNothing == \A p \in Process : ended[p] = "success" => cut[p] = 0

\* A process that starts is ready or gone at last, and one that stops is gone
\* whatever its requests and other processes do (main.go:59, db.go:17).
StartsAndStopsEnd ==
    \A p \in Process :
       /\ pc[p] \in Starting ~> pc[p] \in {"wait", "down"}
       /\ pc[p] \in Stopping ~> pc[p] = "down"
=============================================================================
