------------------------------ MODULE Settings ------------------------------
(***************************************************************************)
(* The settings of internal/admin that can be changed while the server     *)
(* runs: the table of overrides, the values in force (in the cache, the    *)
(* recover queue, the two limiters and auth), and PATCH requests that      *)
(* write the table, read it back key by key and hand every value to the    *)
(* part it belongs to.                                                     *)
(***************************************************************************)
EXTENDS Integers, Sequences

CONSTANTS
    Request,        \* goroutines that serve PATCH requests
    Keys, Values,
    Loaded,         \* Loaded[k]: what the part that uses k starts with (Environment)
    Base,           \* Base[k]: what the administration takes from the environment
    NoValue,        \* no row in settings
    Hooks,          \* the keys each call of applyAll hands over, in order
    Patches,        \* the validated bodies of requests
    FailingReads    \* reads of the table may fail

ASSUME SettingsAssumption ==
    /\ Loaded \in [Keys -> Values] /\ Base \in [Keys -> Values]
    /\ NoValue \notin Values
    /\ Hooks \in Seq(SUBSET Keys)
    /\ \A k \in Keys : \E i \in DOMAIN Hooks : k \in Hooks[i]
    /\ \A p \in Patches : DOMAIN p \subseteq Keys /\ \A k \in DOMAIN p : p[k] \in Values
    /\ FailingReads \in BOOLEAN

VARIABLES
    setting,    \* setting[k]: the override stored for k
    live,       \* live[k]: the value of k in force
    enabled,    \* ADMIN_TOKEN is not empty
    pc,         \* where each request is
    patch,      \* the body of each request
    unread,     \* resolveAll: the keys it has yet to read
    got,        \* resolveAll: the values it has read
    hook,       \* applyAll: the hook it calls next
    alone,      \* auxiliary: no other request between persist and end, no failed read
    synced      \* auxiliary: the last request to apply was alone, nothing written since

local == <<pc, patch, unread, got, hook, alone>>
vars  == <<setting, live, enabled, local, synced>>

Body == [Keys -> Values \cup {NoValue}]

TypeOK ==
    /\ setting \in Body
    /\ live \in [Keys -> Values]
    /\ enabled \in BOOLEAN
    /\ pc \in [Request -> {"idle", "persist", "read", "apply"}]
    /\ patch \in [Request -> Body]
    /\ unread \in [Request -> SUBSET Keys]
    /\ got \in [Request -> [Keys -> Values]]
    /\ hook \in [Request -> Nat \ {0}]
    /\ alone \in [Request -> BOOLEAN]
    /\ synced \in BOOLEAN

Empty == [k \in Keys |-> NoValue]

Init ==
    /\ setting = Empty
    /\ enabled \in BOOLEAN
    /\ live = IF enabled THEN Base ELSE Loaded
    /\ pc = [r \in Request |-> "idle"]
    /\ patch = [r \in Request |-> Empty]
    /\ unread = [r \in Request |-> {}]
    /\ got = [r \in Request |-> Base]
    /\ hook = [r \in Request |-> 1]
    /\ alone = [r \in Request |-> FALSE]
    /\ synced = enabled

-----------------------------------------------------------------------------

\* A row of the table over the environment and the default.
Resolved(k, table) == IF table[k] # NoValue THEN table[k] ELSE Base[k]

Effective == [k \in Keys |-> Resolved(k, setting)]

\* Past persist, with values to read or to hand over.
Applying == {r \in Request : pc[r] \in {"read", "apply"}}

End(r) ==
    /\ pc' = [pc EXCEPT ![r] = "idle"]
    /\ patch' = [patch EXCEPT ![r] = Empty]
    /\ unread' = [unread EXCEPT ![r] = {}]
    /\ got' = [got EXCEPT ![r] = Base]
    /\ hook' = [hook EXCEPT ![r] = 1]
    /\ alone' = [alone EXCEPT ![r] = FALSE]

Arrive(r) ==
    /\ enabled /\ pc[r] = "idle"
    /\ \E p \in Patches :
          patch' = [patch EXCEPT ![r] = [k \in Keys |-> IF k \in DOMAIN p THEN p[k] ELSE NoValue]]
    /\ pc' = [pc EXCEPT ![r] = "persist"]
    /\ UNCHANGED <<setting, live, enabled, unread, got, hook, alone, synced>>

\* One transaction for all keys; from here on everything is read back.
Persist(r) ==
    /\ pc[r] = "persist"
    /\ setting' = [k \in Keys |-> IF patch[r][k] # NoValue THEN patch[r][k] ELSE setting[k]]
    /\ pc' = [pc EXCEPT ![r] = "read"]
    /\ unread' = [unread EXCEPT ![r] = Keys]
    /\ alone' = [q \in Request |-> q = r /\ Applying = {}]
    /\ synced' = FALSE
    /\ UNCHANGED <<live, enabled, patch, got, hook>>

PersistFails(r) ==
    /\ pc[r] = "persist"
    /\ End(r)
    /\ UNCHANGED <<setting, live, enabled, synced>>

Read(r, k, v) ==
    /\ pc[r] = "read" /\ k \in unread[r]
    /\ got' = [got EXCEPT ![r][k] = v]
    /\ unread' = [unread EXCEPT ![r] = @ \ {k}]
    /\ pc' = [pc EXCEPT ![r] = IF unread[r] = {k} THEN "apply" ELSE "read"]
    /\ UNCHANGED <<setting, live, enabled, patch, hook, synced>>

\* Mutant: a key without a row has no value.
ResolveRow(r, k) ==
    /\ Read(r, k, setting[k])
    /\ UNCHANGED alone

Resolve(r, k) ==
    /\ Read(r, k, Resolved(k, setting))
    /\ UNCHANGED alone

\* The read fails, as every read does once the client has gone: as if no row.
ResolveFails(r, k) ==
    /\ FailingReads
    /\ Read(r, k, Base[k])
    /\ alone' = [alone EXCEPT ![r] = FALSE]

\* Mutant: only the keys of the patch are handed over.
ApplyPatched(r) ==
    /\ pc[r] = "apply"
    /\ live' = [k \in Keys |-> IF k \in Hooks[hook[r]] /\ patch[r][k] # NoValue THEN got[r][k] ELSE live[k]]
    /\ IF hook[r] < Len(Hooks)
       THEN hook' = [hook EXCEPT ![r] = @ + 1] /\ synced' = FALSE
            /\ UNCHANGED <<pc, patch, unread, got, alone>>
       ELSE synced' = alone[r] /\ End(r)
    /\ UNCHANGED <<setting, enabled>>

\* One call of applyAll; the request ends after the last.
Apply(r) ==
    /\ pc[r] = "apply"
    /\ live' = [k \in Keys |-> IF k \in Hooks[hook[r]] THEN got[r][k] ELSE live[k]]
    /\ IF hook[r] < Len(Hooks)
       THEN hook' = [hook EXCEPT ![r] = @ + 1] /\ synced' = FALSE
            /\ UNCHANGED <<pc, patch, unread, got, alone>>
       ELSE synced' = alone[r] /\ End(r)
    /\ UNCHANGED <<setting, enabled>>

\* Requests end.  NewService applies the table, if there is an administration.
Restart ==
    /\ enabled' \in BOOLEAN
    /\ \E failed \in IF FailingReads THEN SUBSET Keys ELSE {{}} :
          /\ live' = [k \in Keys |->
                IF ~enabled' THEN Loaded[k]
                ELSE IF k \in failed THEN Base[k] ELSE Resolved(k, setting)]
          /\ synced' = (enabled' /\ failed = {})
    /\ pc' = [r \in Request |-> "idle"]
    /\ patch' = [r \in Request |-> Empty]
    /\ unread' = [r \in Request |-> {}]
    /\ got' = [r \in Request |-> Base]
    /\ hook' = [r \in Request |-> 1]
    /\ alone' = [r \in Request |-> FALSE]
    /\ UNCHANGED setting

Next ==
    \/ \E r \in Request :
          \/ Arrive(r) \/ Persist(r) \/ PersistFails(r) \/ Apply(r)
          \/ \E k \in Keys : Resolve(r, k) \/ ResolveFails(r, k)
    \/ Restart

Spec == Init /\ [][Next]_vars

-----------------------------------------------------------------------------
(* Properties *)

\* A request that applies alone puts the whole table in force, whatever earlier
\* requests that overlapped or failed have left (admin/settings.go:146).
SyncedIsEffective == synced => live = Effective

-----------------------------------------------------------------------------
(* Statements of the documents that the code does not keep *)

Quiet == \A r \in Request : pc[r] = "idle"

OverridesInForce == \A k \in Keys : setting[k] # NoValue => live[k] = setting[k]

\* docs/api.md:165: what PATCH stores is in force at once.
PatchInForce == enabled /\ Quiet => OverridesInForce

\* admin/settings.go:16: an override goes before the environment and the default.
OverridesComeFirst == Quiet /\ ~enabled => OverridesInForce

\* admin/settings.go:97: both read the environment in the same way, so turning
\* the administration on changes nothing.
EnvironmentReadAlike == setting = Empty => live = Loaded
=============================================================================
