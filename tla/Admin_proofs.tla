------------------------------ MODULE Admin_proofs ------------------------------
(***************************************************************************)
(* Theorems about the two parts of internal/admin that keep a state of     *)
(* their own, Settings and AccountList, for any constants.                 *)
(*                                                                         *)
(* Settings: while a request is alone past its commit the table does not   *)
(* change and nobody else hands values over, so what it has read is still  *)
(* in the table and what it has handed over in force.                      *)
(*                                                                         *)
(* AccountList: nothing that was shown is behind the cursor, and whatever  *)
(* has stayed since the first page was shown or is behind it.              *)
(***************************************************************************)
EXTENDS Settings, AccountList, FiniteSetTheorems, TLAPS

-----------------------------------------------------------------------------
(* Settings *)

LEMMA Constants ==
    /\ Base \in [Keys -> Values] /\ Loaded \in [Keys -> Values] /\ NoValue \notin Values
    /\ Len(Hooks) \in Nat /\ DOMAIN Hooks = 1 .. Len(Hooks)
    /\ \A i \in 1 .. Len(Hooks) : Hooks[i] \subseteq Keys
    /\ \A k \in Keys : \E i \in 1 .. Len(Hooks) : k \in Hooks[i]
    /\ \A p \in Patches : DOMAIN p \subseteq Keys /\ \A k \in DOMAIN p : p[k] \in Values
  BY SettingsAssumption DEF SettingsAssumption

Handed(r) == \A i \in 1 .. hook[r] - 1 : \A k \in Hooks[i] : live[k] = Resolved(k, setting)

AloneKnows ==
    \A r \in Request : alone[r] =>
        /\ Applying = {r}
        /\ \A k \in Keys \ unread[r] : got[r][k] = Resolved(k, setting)
        /\ Handed(r)

Ready ==
    \A r \in Request :
        /\ pc[r] = "apply" => unread[r] = {} /\ hook[r] <= Len(Hooks)
        /\ pc[r] # "apply" => hook[r] = 1

IInv == TypeOK /\ Ready /\ AloneKnows /\ SyncedIsEffective

LEMMA ResolvedTyped ==
    ASSUME TypeOK, NEW k \in Keys
    PROVE  Resolved(k, setting) \in Values /\ Resolved(k, setting') \in Values \cup {setting'[k]}
  BY Constants DEF TypeOK, Resolved, Body

LEMMA StepTyped == TypeOK /\ [Next]_vars => TypeOK'
  <1> SUFFICES ASSUME TypeOK, [Next]_vars PROVE TypeOK'
    OBVIOUS
  <1> USE Constants DEF TypeOK, Body
  <1>1. ASSUME NEW r \in Request, Arrive(r) PROVE TypeOK'
    <2>1. patch' \in [Request -> Body]
      BY <1>1 DEF Arrive
    <2> QED
      BY <1>1, <2>1 DEF Arrive
  <1>2. ASSUME NEW r \in Request, Persist(r) PROVE TypeOK'
    <2>1. setting' \in Body
      BY <1>2 DEF Persist
    <2> QED
      BY <1>2, <2>1 DEF Persist
  <1>3. ASSUME NEW r \in Request, PersistFails(r) PROVE TypeOK'
    BY <1>3 DEF PersistFails, End, Empty
  <1>4. ASSUME NEW r \in Request, Apply(r) PROVE TypeOK'
    <2>1. live' \in [Keys -> Values] /\ setting' = setting /\ enabled' = enabled
      <3>1. \A k \in Keys : got[r][k] \in Values /\ live[k] \in Values
        OBVIOUS
      <3> QED
        BY <1>4, <3>1 DEF Apply
    <2>2. CASE hook[r] < Len(Hooks)
      <3>1. hook' \in [Request -> Nat \ {0}]
        BY <1>4, <2>2 DEF Apply
      <3> QED
        BY <1>4, <2>1, <2>2, <3>1 DEF Apply
    <2>3. CASE ~(hook[r] < Len(Hooks))
      <3>1. End(r) /\ synced' = alone[r]
        BY <1>4, <2>3 DEF Apply
      <3>2. Empty \in Body
        BY DEF Empty
      <3>3. patch' \in [Request -> Body] /\ got' \in [Request -> [Keys -> Values]]
        BY <3>1, <3>2 DEF End
      <3>4. /\ pc' \in [Request -> {"idle", "persist", "read", "apply"}]
            /\ unread' \in [Request -> SUBSET Keys] /\ hook' \in [Request -> Nat \ {0}]
            /\ alone' \in [Request -> BOOLEAN] /\ synced' \in BOOLEAN
        BY <3>1 DEF End
      <3> QED
        BY <2>1, <3>3, <3>4
    <2> QED
      BY <2>2, <2>3
  <1>5. ASSUME NEW r \in Request, NEW k \in Keys, Resolve(r, k) \/ ResolveFails(r, k) PROVE TypeOK'
    <2>1. ASSUME NEW v \in Values, Read(r, k, v), alone' \in [Request -> BOOLEAN] PROVE TypeOK'
      <3>1. got' \in [Request -> [Keys -> Values]]
        BY <2>1 DEF Read
      <3> QED
        BY <2>1, <3>1 DEF Read
    <2> QED
      BY <1>5, <2>1, ResolvedTyped DEF Resolve, ResolveFails
  <1>6. CASE Restart
    <2>1. live' \in [Keys -> Values]
      BY <1>6, ResolvedTyped DEF Restart
    <2>2. synced' \in BOOLEAN
      BY <1>6 DEF Restart
    <2> QED
      BY <1>6, <2>1, <2>2 DEF Restart, Empty
  <1>7. CASE UNCHANGED vars
    BY <1>7 DEF vars, local
  <1> QED
    BY <1>1, <1>2, <1>3, <1>4, <1>5, <1>6, <1>7 DEF Next

LEMMA StepAlone ==
    ASSUME TypeOK, TypeOK', Ready, AloneKnows, SyncedIsEffective, [Next]_vars
    PROVE  Ready' /\ AloneKnows' /\ SyncedIsEffective'
  <1> USE Constants DEF TypeOK
  <1>1. ASSUME NEW r \in Request, Arrive(r) PROVE Ready' /\ AloneKnows' /\ SyncedIsEffective'
    BY <1>1 DEF Arrive, Ready, AloneKnows, Applying, Handed, SyncedIsEffective, Effective, Resolved
  <1>2. ASSUME NEW r \in Request, Persist(r) PROVE Ready' /\ AloneKnows' /\ SyncedIsEffective'
    <2>1. Ready' /\ SyncedIsEffective'
      BY <1>2 DEF Persist, Ready, SyncedIsEffective
    <2>2. ASSUME NEW q \in Request, alone'[q] PROVE q = r /\ Applying = {}
      BY <1>2, <2>2 DEF Persist
    <2>3. Applying = {} => Applying' = {r}
      BY <1>2 DEF Persist, Applying
    <2>4. unread'[r] = Keys /\ hook'[r] = 1
      BY <1>2 DEF Persist, Ready
    <2>5. Handed(r)'
      BY <2>4 DEF Handed
    <2> QED
      BY <2>1, <2>2, <2>3, <2>4, <2>5 DEF AloneKnows
  <1>3. ASSUME NEW r \in Request, PersistFails(r) PROVE Ready' /\ AloneKnows' /\ SyncedIsEffective'
    BY <1>3 DEF PersistFails, End, Ready, AloneKnows, Applying, Handed, SyncedIsEffective, Effective, Resolved
  <1>4. ASSUME NEW r \in Request, Apply(r) PROVE Ready' /\ AloneKnows' /\ SyncedIsEffective'
    <2>1. hook[r] \in 1 .. Len(Hooks) /\ unread[r] = {} /\ r \in Applying
      BY <1>4 DEF Apply, Ready, Applying
    <2>2. \A q \in Request : alone[q] => q = r
      BY <2>1 DEF AloneKnows
    <2>3. alone[r] => \A i \in 1 .. hook[r] : \A k \in Hooks[i] : live'[k] = Resolved(k, setting)
      <3> SUFFICES ASSUME alone[r], NEW i \in 1 .. hook[r], NEW k \in Hooks[i]
                   PROVE  live'[k] = Resolved(k, setting)
        OBVIOUS
      <3>1. k \in Keys
        BY <2>1
      <3>2. got[r][k] = Resolved(k, setting)
        BY <2>1, <3>1 DEF AloneKnows
      <3>3. CASE k \in Hooks[hook[r]]
        BY <1>4, <3>1, <3>2, <3>3 DEF Apply
      <3>4. CASE k \notin Hooks[hook[r]]
        <4>1. i \in 1 .. hook[r] - 1
          BY <3>4
        <4>2. live[k] = Resolved(k, setting)
          BY <4>1 DEF AloneKnows, Handed
        <4> QED
          BY <1>4, <3>1, <3>4, <4>2 DEF Apply
      <3> QED
        BY <3>3, <3>4
    <2>4. CASE hook[r] < Len(Hooks)
      <3>1. Ready' /\ SyncedIsEffective'
        BY <1>4, <2>1, <2>4 DEF Apply, Ready, SyncedIsEffective
      <3>2. alone' = alone /\ Applying' = Applying /\ setting' = setting /\ unread' = unread /\ got' = got
        BY <1>4, <2>4 DEF Apply, Applying
      <3>3. hook'[r] - 1 = hook[r]
        BY <1>4, <2>1, <2>4 DEF Apply
      <3>4. alone[r] => Handed(r)'
        BY <2>3, <3>2, <3>3 DEF Handed
      <3> QED
        BY <2>2, <3>1, <3>2, <3>4 DEF AloneKnows, Resolved
    <2>5. CASE ~(hook[r] < Len(Hooks))
      <3>1. Ready'
        BY <1>4, <2>5 DEF Apply, End, Ready
      <3>2. \A q \in Request : ~alone'[q]
        BY <1>4, <2>2, <2>5 DEF Apply, End
      <3>3. hook[r] = Len(Hooks) /\ synced' = alone[r] /\ setting' = setting
        BY <1>4, <2>1, <2>5 DEF Apply
      <3>4. alone[r] => \A k \in Keys : live'[k] = Resolved(k, setting)
        BY <2>3, <3>3
      <3>5. live' \in [Keys -> Values]
        OBVIOUS
      <3>6. alone[r] => live' = Effective'
        BY <3>3, <3>4, <3>5 DEF Effective, Resolved
      <3> QED
        BY <3>1, <3>2, <3>3, <3>6 DEF AloneKnows, SyncedIsEffective
    <2> QED
      BY <2>4, <2>5
  <1>5. ASSUME NEW r \in Request, NEW k \in Keys, NEW v, Read(r, k, v),
               \A q \in Request : alone'[q] => alone[q],
               alone'[r] => v = Resolved(k, setting)
        PROVE Ready' /\ AloneKnows' /\ SyncedIsEffective'
    <2>1. pc[r] = "read" /\ hook[r] = 1 /\ Len(Hooks) >= 1
      BY <1>5 DEF Read, Ready
    <2>2. Ready'
      BY <1>5, <2>1 DEF Read, Ready
    <2>3. SyncedIsEffective'
      BY <1>5 DEF Read, SyncedIsEffective, Effective, Resolved
    <2>4. Applying' = Applying
      BY <1>5, <2>1 DEF Read, Applying
    <2>5. \A q \in Request : Handed(q) => Handed(q)'
      BY <1>5 DEF Read, Handed, Resolved
    <2>6. ASSUME NEW q \in Request, alone'[q], NEW j \in Keys \ unread'[q]
          PROVE got'[q][j] = Resolved(j, setting')
      <3>1. setting' = setting
        BY <1>5 DEF Read
      <3>2. CASE q = r /\ j = k
        BY <1>5, <2>6, <3>1, <3>2 DEF Read
      <3>3. CASE ~(q = r /\ j = k)
        <4>1. j \in Keys \ unread[q] /\ got'[q][j] = got[q][j]
          BY <1>5, <2>6, <3>3 DEF Read
        <4> QED
          BY <1>5, <2>6, <3>1, <4>1 DEF AloneKnows
      <3> QED
        BY <3>2, <3>3
    <2> QED
      BY <1>5, <2>2, <2>3, <2>4, <2>5, <2>6 DEF AloneKnows
  <1>6. ASSUME NEW r \in Request, NEW k \in Keys, Resolve(r, k) \/ ResolveFails(r, k)
        PROVE Ready' /\ AloneKnows' /\ SyncedIsEffective'
    BY <1>5, <1>6 DEF Resolve, ResolveFails
  <1>7. CASE Restart
    <2>1. Ready' /\ AloneKnows'
      BY <1>7 DEF Restart, Ready, AloneKnows
    <2>2. SyncedIsEffective'
      BY <1>7 DEF Restart, SyncedIsEffective, Effective, Resolved
    <2> QED
      BY <2>1, <2>2
  <1>8. CASE UNCHANGED vars
    BY <1>8 DEF vars, local, Ready, AloneKnows, Applying, Handed, SyncedIsEffective, Effective, Resolved
  <1> QED
    BY <1>1, <1>2, <1>3, <1>4, <1>6, <1>7, <1>8 DEF Next

\* The invariant is inductive: what a request that is alone has read stays true.
THEOREM SettingsInductive == Spec => []IInv
  <1>1. Init => IInv
    <2> SUFFICES ASSUME Init PROVE IInv
      OBVIOUS
    <2>1. TypeOK
      BY Constants DEF Init, TypeOK, Body, Empty
    <2>2. Effective = Base
      BY Constants DEF Init, Effective, Resolved, Empty
    <2> QED
      BY <2>1, <2>2 DEF Init, IInv, Ready, AloneKnows, SyncedIsEffective
  <1>2. IInv /\ [Next]_vars => IInv'
    BY StepTyped, StepAlone DEF IInv
  <1> QED
    BY <1>1, <1>2, PTL DEF Spec

\* Every variable keeps its type; a key without an override has a value.
THEOREM SettingsTypeCorrect == Spec => []TypeOK
  BY SettingsInductive, PTL DEF IInv

\* A request that applies alone puts the whole table in force
\* (admin/settings.go:146).
THEOREM AlonePutsTableInForce == Spec => []SyncedIsEffective
  BY SettingsInductive, PTL DEF IInv

-----------------------------------------------------------------------------
(* AccountList *)

\* What was shown is not behind the cursor.
ShownBefore == cursor # None => \A r \in Listed : r = cursor \/ Precedes(r, cursor)

\* What has stayed was shown, or is behind the cursor.
StayedShown == \A r \in stayed : r \in Listed \/ (cursor # None /\ Precedes(cursor, r))

ShownOnce == \A i, j \in DOMAIN pages : i # j => pages[i] \cap pages[j] = {}

ListInv == ListTypeOK /\ IsFiniteSet(rows) /\ ShownBefore /\ StayedShown /\ ShownOnce

LEMMA PrecedesIsOrder ==
  ASSUME NEW r \in Account, NEW s \in Account, NEW t \in Account
  PROVE  /\ Precedes(r, s) \/ Precedes(s, r) \/ r = s
         /\ ~ Precedes(r, r)
         /\ Precedes(r, s) /\ Precedes(s, t) => Precedes(r, t)
<1>1. \A a \in Account : a.id \in Int /\ a.created \in Int
  <2>1. 1..MaxId \subseteq Int /\ Time \subseteq Int
    BY ListAssumption
  <2> QED
    BY <2>1 DEF Account
<1>2. r.id = s.id /\ r.created = s.created => r = s
  BY DEF Account
<1> QED
  BY <1>1, <1>2 DEF Precedes

LEMMA NoneIsNoAccount == None \notin Account
<1>1. 1..MaxId \subseteq Nat /\ Time \subseteq Int
  BY ListAssumption
<1>2. Account \subseteq [id : Nat, created : Int]
  BY <1>1 DEF Account
<1> QED
  BY <1>2, ListAssumption

\* A page without a next cursor shows all that is left; any other shows what is
\* not behind its cursor.
LEMMA PageCutsAtCursor ==
  ASSUME NEW from \in SUBSET Account, IsFiniteSet(from), NEW limit \in Nat \ {0},
         NEW fetched, NEW items, NEW next,
         IsFirst(fetched, from, limit + 1), IsFirst(items, fetched, limit),
         IsNext(next, fetched, items, limit)
  PROVE  /\ items \subseteq from
         /\ next = None => items = from
         /\ next # None => /\ next \in items
                           /\ \A r \in items : r = next \/ Precedes(r, next)
                           /\ \A r \in from \ items : Precedes(next, r)
<1>1. fetched \subseteq from /\ items \subseteq fetched
  BY DEF IsFirst
<1>2. Cardinality(from) \in Nat /\ IsFiniteSet(fetched) /\ Cardinality(fetched) \in Nat
  BY <1>1, FS_Subset, FS_CardinalityType
<1>3. CASE Cardinality(fetched) > limit
  <2>1. next \in items /\ \A r \in items : r = next \/ Precedes(r, next)
    BY <1>3 DEF IsNext
  <2>2. \A r \in from \ items : Precedes(next, r)
    BY <1>1, <2>1 DEF IsFirst
  <2>3. next # None
    <3>1. next \in Account
      BY <1>1, <2>1
    <3> QED
      BY <3>1, NoneIsNoAccount
  <2> QED
    BY <1>1, <2>1, <2>2, <2>3
<1>4. CASE ~(Cardinality(fetched) > limit)
  <2>1. next = None
    BY <1>4 DEF IsNext
  <2>2. Cardinality(fetched) = Cardinality(from)
    BY <1>2, <1>4 DEF IsFirst
  <2>3. fetched = from
    BY <1>1, <2>2, FS_Subset
  <2>4. Cardinality(items) = Cardinality(fetched)
    BY <1>2, <1>4 DEF IsFirst
  <2>5. items = fetched
    BY <1>1, <1>2, <2>4, FS_Subset
  <2> QED
    BY <2>1, <2>3, <2>5
<1> QED
  BY <1>3, <1>4

LEMMA ListInvariant == ASSUME ListInv, NEW limit \in 1..MaxLimit, ListAccounts(limit) PROVE ListInv'
<1>a. PICK fetched \in SUBSET After : \E items \in SUBSET fetched :
         /\ IsFirst(fetched, After, limit + 1) /\ IsFirst(items, fetched, limit)
         /\ \E next \in fetched \cup {None} : IsNext(next, fetched, items, limit) /\ cursor' = next
         /\ IF cursor = None
            THEN pages' = <<items>> /\ stayed' = rows
            ELSE pages' = Append(pages, items) /\ UNCHANGED stayed
         /\ UNCHANGED rows
  BY DEF ListAccounts
<1>1. PICK items \in SUBSET fetched :
         /\ IsFirst(fetched, After, limit + 1) /\ IsFirst(items, fetched, limit)
         /\ \E next \in fetched \cup {None} : IsNext(next, fetched, items, limit) /\ cursor' = next
         /\ IF cursor = None
            THEN pages' = <<items>> /\ stayed' = rows
            ELSE pages' = Append(pages, items) /\ UNCHANGED stayed
         /\ UNCHANGED rows
  BY <1>a
<1>2. After \in SUBSET Account /\ IsFiniteSet(After) /\ After \subseteq rows
  <2>1. After \subseteq rows
    BY DEF After
  <2> QED
    BY <2>1, FS_Subset DEF ListInv, ListTypeOK
<1>3. limit \in Nat \ {0}
  BY ListAssumption
<1>4. /\ items \subseteq After
      /\ cursor' = None => items = After
      /\ cursor' # None => /\ cursor' \in items
                           /\ \A r \in items : r = cursor' \/ Precedes(r, cursor')
                           /\ \A r \in After \ items : Precedes(cursor', r)
  BY <1>1, <1>2, <1>3, PageCutsAtCursor
<1>5. items \in SUBSET Account
  BY <1>2, <1>4
<1>6. cursor' \in Account \cup {None}
  BY <1>4, <1>5
<1>7. CASE cursor = None
  <2>1. pages' = <<items>> /\ stayed' = rows /\ rows' = rows /\ After = rows
    BY <1>1, <1>7 DEF After
  <2>2. Listed' = items
    BY <2>1 DEF Listed
  <2>3. ListTypeOK'
    BY <1>5, <1>6, <2>1 DEF ListInv, ListTypeOK
  <2>4. ShownBefore' /\ StayedShown'
    BY <1>4, <2>1, <2>2 DEF ShownBefore, StayedShown
  <2>5. ShownOnce'
    BY <2>1 DEF ShownOnce
  <2> QED
    BY <2>1, <2>3, <2>4, <2>5 DEF ListInv
<1>8. CASE cursor # None
  <2>1. pages' = Append(pages, items) /\ stayed' = stayed /\ rows' = rows
    BY <1>1, <1>8
  <2>2. pages \in Seq(SUBSET Account) /\ cursor \in Account
    BY <1>8 DEF ListInv, ListTypeOK
  <2>3. /\ DOMAIN pages' = 1..Len(pages) + 1 /\ DOMAIN pages = 1..Len(pages)
        /\ pages'[Len(pages) + 1] = items
        /\ \A i \in DOMAIN pages : pages'[i] = pages[i]
    BY <1>5, <2>1, <2>2
  <2>4. Listed' = Listed \cup items
    <3>1. Len(pages) \in Nat
      BY <2>2
    <3> QED
      BY <2>3, <3>1 DEF Listed
  <2>5. \A r \in After : r \in rows /\ Precedes(cursor, r)
    BY <1>8 DEF After
  <2>6. \A r \in Listed : r \in Account /\ (r = cursor \/ Precedes(r, cursor))
    BY <1>8, <2>2 DEF ListInv, ShownBefore, Listed
  <2>7. Listed \cap items = {}
    BY <1>4, <1>5, <2>2, <2>5, <2>6, PrecedesIsOrder
  <2>8. ShownOnce'
    <3>1. \A i \in DOMAIN pages : pages[i] \cap items = {}
      BY <2>7 DEF Listed
    <3> QED
      BY <2>2, <2>3, <3>1 DEF ListInv, ShownOnce
  <2>9. ShownBefore'
    <3> SUFFICES ASSUME cursor' # None, NEW r \in Listed' PROVE r = cursor' \/ Precedes(r, cursor')
      BY DEF ShownBefore
    <3>1. CASE r \in items
      BY <1>4, <3>1
    <3>2. CASE r \in Listed
      <4>1. cursor' \in Account /\ Precedes(cursor, cursor')
        BY <1>4, <1>5, <2>5
      <4> QED
        BY <2>2, <2>6, <3>2, <4>1, PrecedesIsOrder
    <3> QED
      BY <2>4, <3>1, <3>2
  <2>10. StayedShown'
    <3> SUFFICES ASSUME NEW r \in stayed, r \notin Listed', r \notin items
                 PROVE  cursor' # None /\ Precedes(cursor', r)
      BY <2>1, <2>4 DEF StayedShown
    <3>1. r \in rows /\ Precedes(cursor, r)
      BY <1>8, <2>4 DEF ListInv, ListTypeOK, StayedShown
    <3>2. r \in After
      BY <1>8, <3>1 DEF After
    <3> QED
      BY <1>4, <3>2
  <2>11. ListTypeOK'
    BY <1>5, <1>6, <2>1, <2>2 DEF ListInv, ListTypeOK
  <2> QED
    BY <2>1, <2>8, <2>9, <2>10, <2>11 DEF ListInv
<1> QED
  BY <1>7, <1>8

LEMMA RegisterInvariant == ASSUME ListInv, NEW t \in Time, Register(t) PROVE ListInv'
<1>1. PICK id \in 1..MaxId : IsNewId(id) /\ rows' = rows \cup {[id |-> id, created |-> t]}
  BY DEF Register
<1>2. UNCHANGED <<cursor, pages, stayed>>
  BY DEF Register
<1>3. \A r \in rows : r.id # id
  <2> SUFFICES ASSUME NEW r \in rows, r.id = id PROVE FALSE
    OBVIOUS
  <2>1. id < id
    BY <1>1 DEF IsNewId
  <2> QED
    BY <2>1, ListAssumption
<1>4. ListTypeOK'
  <2>1. [id |-> id, created |-> t] \in Account
    BY DEF Account
  <2> QED
    BY <1>1, <1>2, <1>3, <2>1 DEF ListInv, ListTypeOK
<1>5. IsFiniteSet(rows')
  BY <1>1, FS_AddElement DEF ListInv
<1>6. ShownBefore' /\ StayedShown' /\ ShownOnce'
  BY <1>2 DEF ListInv, ShownBefore, StayedShown, ShownOnce, Listed
<1> QED
  BY <1>4, <1>5, <1>6 DEF ListInv

LEMMA DeleteInvariant == ASSUME ListInv, NEW r \in rows, DeleteAccount(r) PROVE ListInv'
<1>1. ListTypeOK'
  BY DEF DeleteAccount, ListInv, ListTypeOK
<1>2. IsFiniteSet(rows')
  BY FS_Subset DEF DeleteAccount, ListInv
<1>3. ShownBefore' /\ StayedShown' /\ ShownOnce'
  BY DEF DeleteAccount, ListInv, ShownBefore, StayedShown, ShownOnce, Listed
<1> QED
  BY <1>1, <1>2, <1>3 DEF ListInv

LEMMA ListingInvariant == ListSpec => []ListInv
<1>1. ListInit => ListInv
  BY FS_EmptySet DEF ListInit, ListInv, ListTypeOK, ShownBefore, StayedShown, ShownOnce
<1>2. ListInv /\ [ListNext]_listVars => ListInv'
  <2>1. ListInv /\ ListNext => ListInv'
    BY ListInvariant, RegisterInvariant, DeleteInvariant DEF ListNext
  <2>2. ListInv /\ UNCHANGED listVars => ListInv'
    BY DEF listVars, ListInv, ListTypeOK, ShownBefore, StayedShown, ShownOnce, Listed
  <2> QED
    BY <2>1, <2>2
<1> QED
  BY <1>1, <1>2, PTL DEF ListSpec

\* Every variable of AccountList keeps its type; no two accounts have one id.
THEOREM ListTypeCorrect == ListSpec => []ListTypeOK
<1>1. ListInv => ListTypeOK
  BY DEF ListInv
<1> QED
  BY <1>1, ListingInvariant, PTL

\* For any limits, any clock and any registrations and deletions between the
\* pages, a listing shows nothing twice, and in the end all that has stayed
\* (admin/service.go:146, :179).
THEOREM ListingIsOnce == ListSpec => []ListedOnce
<1>1. ListInv => ListedOnce
  BY DEF ListInv, ShownOnce, StayedShown, ListedOnce
<1> QED
  BY <1>1, ListingInvariant, PTL
=============================================================================
