------------------------------ MODULE AccountList ------------------------------
(***************************************************************************)
(* The list of accounts of internal/admin, read page by page while         *)
(* accounts come and go.  A page is one statement; between two pages the   *)
(* server keeps nothing, and the cursor that the client hands back names   *)
(* the last row it was shown.  SQLite gives the id of the last account out *)
(* again once that account is deleted.                                     *)
(***************************************************************************)
EXTENDS Integers, FiniteSets, Sequences

CONSTANTS
    MaxId,          \* bound of the ids
    Time,           \* values of created_at
    MaxLimit,       \* ParseLimit leaves no limit above it
    None            \* the empty cursor

ASSUME ListAssumption ==
    /\ MaxId \in Nat /\ Time \subseteq Int /\ MaxLimit \in Nat \ {0}
    /\ None \notin [id : Nat, created : Int]

Account == [id : 1..MaxId, created : Time]

VARIABLES
    rows,       \* the table of accounts
    cursor,     \* what the client asks the next page with
    pages,      \* the pages of the listing so far
    stayed      \* auxiliary: accounts that are there since its first page

listVars == <<rows, cursor, pages, stayed>>

ListTypeOK ==
    /\ rows \subseteq Account /\ \A r, s \in rows : r.id = s.id => r = s
    /\ cursor \in Account \cup {None}
    /\ pages \in Seq(SUBSET Account)
    /\ stayed \subseteq rows

ListInit == rows = {} /\ cursor = None /\ pages = <<>> /\ stayed = {}

-----------------------------------------------------------------------------

Precedes(r, s) == r.created < s.created \/ (r.created = s.created /\ r.id < s.id)

\* ORDER BY created_at, id LIMIT n.
IsFirst(page, from, n) ==
    /\ page \subseteq from /\ \A r \in page, s \in from \ page : Precedes(r, s)
    /\ Cardinality(page) = IF Cardinality(from) < n THEN Cardinality(from) ELSE n

\* Mutant: only created_at is compared.
AfterByTime == IF cursor = None THEN rows ELSE {r \in rows : cursor.created < r.created}

After == IF cursor = None THEN rows ELSE {r \in rows : Precedes(cursor, r)}

\* Mutant: the cursor names the row that was cut off.
IsNextCut(next, fetched, items, limit) ==
    IF Cardinality(fetched) > limit
    THEN next \in fetched /\ \A r \in fetched \ {next} : Precedes(r, next)
    ELSE next = None

\* The last row that is shown, if one more was found.
IsNext(next, fetched, items, limit) ==
    IF Cardinality(fetched) > limit
    THEN next \in items /\ \A r \in items \ {next} : Precedes(r, next)
    ELSE next = None

\* One row more than the page holds is fetched.
ListAccounts(limit) ==
    \E fetched \in SUBSET After : \E items \in SUBSET fetched :
       /\ IsFirst(fetched, After, limit + 1) /\ IsFirst(items, fetched, limit)
       /\ \E next \in fetched \cup {None} :
             IsNext(next, fetched, items, limit) /\ cursor' = next
       /\ IF cursor = None
          THEN pages' = <<items>> /\ stayed' = rows
          ELSE pages' = Append(pages, items) /\ UNCHANGED stayed
       /\ UNCHANGED rows

\* Mutant: ids count the accounts.
IsNewIdByCount(id) == id = Cardinality(rows) + 1

\* SQLite: one more than the largest id that is in the table.
IsNewId(id) == \A n \in 1..MaxId : n < id <=> (\E r \in rows : n <= r.id)

\* The clock is read before the transaction, so a row may come in before others.
Register(t) ==
    \E id \in 1..MaxId :
       /\ IsNewId(id)
       /\ rows' = rows \cup {[id |-> id, created |-> t]}
       /\ UNCHANGED <<cursor, pages, stayed>>

DeleteAccount(r) ==
    /\ rows' = rows \ {r} /\ stayed' = stayed \ {r}
    /\ UNCHANGED <<cursor, pages>>

ListNext ==
    \/ \E limit \in 1..MaxLimit : ListAccounts(limit)
    \/ \E t \in Time : Register(t)
    \/ \E r \in rows : DeleteAccount(r)

ListSpec == ListInit /\ [][ListNext]_listVars

-----------------------------------------------------------------------------
(* Properties *)

Listed == UNION {pages[i] : i \in DOMAIN pages}

\* Whatever is registered or deleted between its pages, and however its limit
\* changes, a listing shows no account twice, and one that has ended has shown
\* every account that was there all the time (admin/service.go:179).
ListedOnce ==
    /\ \A i, j \in DOMAIN pages : i # j => pages[i] \cap pages[j] = {}
    /\ cursor = None => stayed \subseteq Listed
=============================================================================
