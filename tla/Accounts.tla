------------------------------ MODULE Accounts ------------------------------
(***************************************************************************)
(* internal/auth and the deletions of internal/admin: accounts, devices    *)
(* and their token pairs, and the requests that act in an account after    *)
(* they were authenticated.                                                *)
(*                                                                         *)
(* Ids are rowids: a new row gets the largest id plus one, so the largest  *)
(* id is given out again after it is deleted.  A transaction that starts   *)
(* with a SELECT works on that snapshot, and its first write fails if      *)
(* another commit came in between; one that starts with a write is atomic. *)
(* Whoever owns an account is named by a number, as is a token pair.       *)
(***************************************************************************)
EXTENDS Integers, FiniteSets

CONSTANTS
    MaxId,          \* bound: ids of accounts and devices are 1 .. MaxId
    Client,         \* request goroutines
    StaticTokens,   \* STATIC_TOKENS is not empty
    MaxIssued       \* bound: token pairs and accounts created

ASSUME AccountsAssumption ==
    /\ MaxId \in Nat \ {0}
    /\ StaticTokens \in BOOLEAN
    /\ MaxIssued \in Nat

Id == 1 .. MaxId

VARIABLES
    account,    \* account[a]: the owner of the account with id a, 0 for no row
    device,     \* device[d]: the row of devices with id d
    data,       \* data[a]: the owners whose data is stored under account_id a
    staticId,   \* Middleware.staticAccountID, 0 for none
    pc, acct, who, dev, old,    \* of each request: step and what it read
    stale,      \* requests whose transaction has an outdated snapshot
    issued,     \* numbers of token pairs and owners given out so far
    rotations,  \* auxiliary: rotations[t]: times the refresh token t was accepted
    raced       \* auxiliary: ids deleted while an authenticated request held them

requests == <<pc, acct, who, dev, old>>
tables   == <<account, device, data>>
auxes    == <<issued, rotations, raced>>
vars     == <<tables, staticId, requests, stale, auxes>>

StaticOwner == 1
Tokens      == 1 .. MaxIssued

\* owner is auxiliary: who the account belonged to when the device joined.
Device   == [account : Id, token : Tokens, access : BOOLEAN, refresh : BOOLEAN, owner : Nat]
NoDevice == [account |-> 0, token |-> 0, access |-> FALSE, refresh |-> FALSE, owner |-> 0]

TypeOK ==
    /\ account \in [Id -> Nat]
    /\ device \in [Id -> Device \cup {NoDevice}]
    /\ data \in [Id -> SUBSET Nat]
    /\ staticId \in Id \cup {0}
    /\ pc \in [Client -> {"idle", "join", "refresh", "use"}]
    /\ acct \in [Client -> Id \cup {0}]
    /\ who \in [Client -> Nat]
    /\ dev \in [Client -> Id \cup {0}]
    /\ old \in [Client -> Tokens \cup {0}]
    /\ stale \subseteq Client
    /\ issued \in Nat
    /\ rotations \in [Tokens -> Nat]
    /\ raced \subseteq Id

\* NewMiddleware has made sure that the shared account exists.
Init ==
    /\ account = [a \in Id |-> IF StaticTokens /\ a = 1 THEN StaticOwner ELSE 0]
    /\ device = [d \in Id |-> NoDevice]
    /\ data = [a \in Id |-> {}]
    /\ staticId = IF StaticTokens THEN 1 ELSE 0
    /\ pc = [c \in Client |-> "idle"]
    /\ acct = [c \in Client |-> 0] /\ who = [c \in Client |-> 0]
    /\ dev = [c \in Client |-> 0] /\ old = [c \in Client |-> 0]
    /\ stale = {}
    /\ issued = 1
    /\ rotations = [t \in Tokens |-> 0]
    /\ raced = {}

-----------------------------------------------------------------------------

Accounts == {a \in Id : account[a] # 0}
Devices  == {d \in Id : device[d] # NoDevice}

\* The rowid of a new row in a table with the rows S: the largest plus one.
IsNextId(i, S) == (\A j \in S : j < i) /\ (i = 1 \/ i - 1 \in S)

\* A commit makes the snapshots of all open transactions outdated.
Committed == stale' = {c \in Client : pc'[c] \in {"join", "refresh"}}

Return(c) ==
    /\ pc' = [pc EXCEPT ![c] = "idle"]
    /\ acct' = [acct EXCEPT ![c] = 0] /\ who' = [who EXCEPT ![c] = 0]
    /\ dev' = [dev EXCEPT ![c] = 0] /\ old' = [old EXCEPT ![c] = 0]

\* issueTokens
IssueDevice(d, a, owner) ==
    /\ issued < MaxIssued
    /\ IsNextId(d, Devices)
    /\ device' = [device EXCEPT ![d] =
          [account |-> a, token |-> issued + 1, access |-> TRUE, refresh |-> TRUE,
           owner |-> owner]]
    /\ issued' = issued + 1

-----------------------------------------------------------------------------
(* Register                                                                *)

\* A new account: the transaction starts with the INSERT.
RegisterNew ==
    /\ \E a, d \in Id :
          /\ IsNextId(a, Accounts)
          /\ account' = [account EXCEPT ![a] = issued + 1]
          /\ IssueDevice(d, a, issued + 1)
    /\ UNCHANGED <<data, staticId, requests, rotations, raced>>
    /\ Committed

\* The account that belongs to the key is read.
JoinLookup(c) ==
    /\ pc[c] = "idle"
    /\ \E a \in Accounts :
          /\ account[a] # StaticOwner
          /\ acct' = [acct EXCEPT ![c] = a]
          /\ who' = [who EXCEPT ![c] = account[a]]
    /\ pc' = [pc EXCEPT ![c] = "join"]
    /\ UNCHANGED <<tables, staticId, dev, old, stale, auxes>>

\* Mutant: no transaction around SELECT and INSERT.
JoinAutocommit(c) ==
    /\ pc[c] = "join"
    /\ acct[c] \in Accounts
    /\ \E d \in Id : IssueDevice(d, acct[c], who[c])
    /\ Return(c)
    /\ UNCHANGED <<account, data, staticId, rotations, raced>>
    /\ Committed

JoinCommit(c) ==
    /\ pc[c] = "join"
    /\ c \notin stale
    /\ acct[c] \in Accounts
    /\ \E d \in Id : IssueDevice(d, acct[c], who[c])
    /\ Return(c)
    /\ UNCHANGED <<account, data, staticId, rotations, raced>>
    /\ Committed

-----------------------------------------------------------------------------
(* Refresh                                                                 *)

RefreshLookup(c) ==
    /\ pc[c] = "idle"
    /\ \E d \in Devices :
          /\ device[d].refresh
          /\ dev' = [dev EXCEPT ![c] = d]
          /\ old' = [old EXCEPT ![c] = device[d].token]
    /\ pc' = [pc EXCEPT ![c] = "refresh"]
    /\ UNCHANGED <<tables, staticId, acct, who, stale, auxes>>

\* UPDATE WHERE id
Rotate(c) ==
    /\ issued < MaxIssued
    /\ device' = [device EXCEPT ![dev[c]].token = issued + 1,
                                ![dev[c]].access = TRUE, ![dev[c]].refresh = TRUE]
    /\ issued' = issued + 1
    /\ rotations' = [rotations EXCEPT ![old[c]] = @ + 1]

\* Mutant: no transaction around SELECT and UPDATE.
RefreshAutocommit(c) ==
    /\ pc[c] = "refresh"
    /\ dev[c] \in Devices
    /\ Rotate(c)
    /\ Return(c)
    /\ UNCHANGED <<account, data, staticId, raced>>
    /\ Committed

\* Mutant: the row is written whether it is still there or not.
RefreshUpsert(c) ==
    /\ pc[c] = "refresh"
    /\ Rotate(c)
    /\ Return(c)
    /\ UNCHANGED <<account, data, staticId, raced>>
    /\ Committed

RefreshCommit(c) ==
    /\ pc[c] = "refresh"
    /\ c \notin stale
    /\ Rotate(c)
    /\ Return(c)
    /\ UNCHANGED <<account, data, staticId, raced>>
    /\ Committed

\* The snapshot is outdated, or the database failed: rollback, 500.
Rollback(c) ==
    /\ pc[c] \in {"join", "refresh"}
    /\ Return(c)
    /\ stale' = stale \ {c}
    /\ UNCHANGED <<tables, staticId, auxes>>

-----------------------------------------------------------------------------
(* Requests that act in an account                                         *)

Authenticate(c) ==
    /\ pc[c] = "idle"
    /\ \E d \in Devices :
          /\ device[d].access
          /\ acct' = [acct EXCEPT ![c] = device[d].account]
          /\ who' = [who EXCEPT ![c] = device[d].owner]
    /\ pc' = [pc EXCEPT ![c] = "use"]
    /\ UNCHANGED <<tables, staticId, dev, old, stale, auxes>>

\* A static token maps to the account looked up when the process started.
AuthenticateStatic(c) ==
    /\ pc[c] = "idle"
    /\ staticId # 0
    /\ acct' = [acct EXCEPT ![c] = staticId]
    /\ who' = [who EXCEPT ![c] = StaticOwner]
    /\ pc' = [pc EXCEPT ![c] = "use"]
    /\ UNCHANGED <<tables, staticId, dev, old, stale, auxes>>

\* Push: sync_domains refers to accounts, so nothing is written without one.
Use(c) ==
    /\ pc[c] = "use"
    /\ acct[c] \in Accounts
    /\ data' = [data EXCEPT ![acct[c]] = @ \cup {who[c]}]
    /\ Return(c)
    /\ UNCHANGED <<account, device, staticId, auxes>>
    /\ Committed

\* A request that writes nothing, or may not.
UseNothing(c) ==
    /\ pc[c] = "use"
    /\ Return(c)
    /\ UNCHANGED <<tables, staticId, stale, auxes>>

-----------------------------------------------------------------------------
(* Administration, time, restarts                                          *)

DeleteDevice(d) ==
    /\ d \in Devices
    /\ device' = [device EXCEPT ![d] = NoDevice]
    /\ UNCHANGED <<account, data, staticId, requests, auxes>>
    /\ Committed

DevicesWithout(a) ==
    [d \in Id |-> IF device[d].account = a THEN NoDevice ELSE device[d]]

\* Requests that are past their authentication for account a.
Holds(a) == \E c \in Client : pc[c] = "use" /\ acct[c] = a

\* Mutant: sync_entries is forgotten.
DeleteAccountKeepsData(a) ==
    /\ a \in Accounts
    /\ device' = DevicesWithout(a)
    /\ account' = [account EXCEPT ![a] = 0]
    /\ raced' = IF Holds(a) \/ a = staticId THEN raced \cup {a} ELSE raced
    /\ UNCHANGED <<data, staticId, requests, issued, rotations>>
    /\ Committed

\* The transaction starts with a DELETE.
DeleteAccount(a) ==
    /\ a \in Accounts
    /\ device' = DevicesWithout(a)
    /\ data' = [data EXCEPT ![a] = {}]
    /\ account' = [account EXCEPT ![a] = 0]
    /\ raced' = IF Holds(a) \/ a = staticId THEN raced \cup {a} ELSE raced
    /\ UNCHANGED <<staticId, requests, issued, rotations>>
    /\ Committed

ExpireAccess(d) ==
    /\ device[d].access
    /\ device' = [device EXCEPT ![d].access = FALSE]
    /\ UNCHANGED <<account, data, staticId, requests, stale, auxes>>

ExpireRefresh(d) ==
    /\ device[d].refresh
    /\ device' = [device EXCEPT ![d].refresh = FALSE]
    /\ UNCHANGED <<account, data, staticId, requests, stale, auxes>>

\* Requests end; ensureStaticAccount finds the shared account or creates it.
Restart ==
    /\ pc' = [c \in Client |-> "idle"]
    /\ acct' = [c \in Client |-> 0] /\ who' = [c \in Client |-> 0]
    /\ dev' = [c \in Client |-> 0] /\ old' = [c \in Client |-> 0]
    /\ stale' = {}
    /\ IF ~StaticTokens THEN UNCHANGED <<account, staticId>>
       ELSE \E a \in Id :
               /\ staticId' = a
               /\ \/ account[a] = StaticOwner /\ UNCHANGED account
                  \/ /\ StaticOwner \notin {account[b] : b \in Id}
                     /\ IsNextId(a, Accounts)
                     /\ account' = [account EXCEPT ![a] = StaticOwner]
    /\ UNCHANGED <<device, data, auxes>>

Request(c) ==
    \/ JoinLookup(c) \/ JoinCommit(c) \/ RefreshLookup(c) \/ RefreshCommit(c)
    \/ Rollback(c) \/ Authenticate(c) \/ AuthenticateStatic(c)
    \/ Use(c) \/ UseNothing(c)

Next ==
    \/ RegisterNew
    \/ \E c \in Client : Request(c)
    \/ \E i \in Id : \/ DeleteDevice(i) \/ DeleteAccount(i)
                     \/ ExpireAccess(i) \/ ExpireRefresh(i)
    \/ Restart

Spec == Init /\ [][Next]_vars

-----------------------------------------------------------------------------
(* Properties *)

\* A refresh token buys one new pair, whoever presents it at the same time
\* (auth/service.go:108).
RefreshOnce == \A t \in Tokens : rotations[t] <= 1

\* A device belongs to the owner of its account: no device that joined an
\* account survives into the one that is given its id next.
DevicesOfOwner ==
    \A d \in Devices : device[d].account \in Accounts /\ account[device[d].account] = device[d].owner

\* Data under an id belongs to its owner, unless the account was deleted under
\* an authenticated request, or was the shared one (admin/service.go:232).
DataOfOwnerUnraced == \A a \in Id \ raced : data[a] \subseteq {account[a]}

-----------------------------------------------------------------------------
(* Statements of the documents and comments that the code does not keep *)

\* auth/middleware.go:39: a static token maps to the shared account.
StaticIsShared ==
    \A c \in Client :
        pc[c] = "use" /\ who[c] = StaticOwner /\ acct[c] \in Accounts
            => account[acct[c]] = StaticOwner

\* PLAN.md:182: accounts are isolated.  What is written under an id is written
\* for the owner of the account that has it.
WritesForOwner == [][\A c \in Client : Use(c) => account[acct[c]] = who[c]]_vars
=============================================================================
