---------------------------- MODULE DiskLRU_proofs ----------------------------
(***************************************************************************)
(* Theorems about DiskLRU, for any keys, goroutines, sizes and batches.    *)
(*                                                                         *)
(* The argument has three parts.  A key on which no two operations met has *)
(* at most one commit or one row of a batch at work on it, and the step it *)
(* is at tells what is in the file and in the row (Matching).  The count   *)
(* has for such a key the size of its row, but for a row that a commit has *)
(* yet to count in or the eviction to count out (CountIsKept).  That a sum *)
(* over finitely many keys moves by what one of them moves is proved from  *)
(* the sets of keys, of which those where it would fail have a smallest.   *)
(***************************************************************************)
EXTENDS DiskLRU, FiniteSetTheorems, SequenceTheorems, TLAPS

-----------------------------------------------------------------------------
(* Sums over the keys *)

\* Strict inclusion of the finite sets of keys is well founded.
LEMMA SmallestSet ==
    ASSUME NEW S, IsFiniteSet(S), NEW T \in SUBSET SUBSET S, T # {}
    PROVE  \E x \in T : \A y \in T : y \subseteq x => y = x
  <1>1. IsWellFoundedOn(StrictSubsetOrdering(S), SUBSET S)
    BY FS_StrictSubsetOrderingWellFounded, FS_FiniteSubsetsOfFinite
  <1>2. \E x \in T : \A y \in T : <<y, x>> \notin StrictSubsetOrdering(S)
    BY <1>1, WFMin
  <1> QED
    BY <1>2 DEF StrictSubsetOrdering

Total(f) == MapThenSumSet(LAMBDA k : f[k], Keys)

\* The sums of f over all parts of T, taken as the fold takes them.
Pick(s) == CHOOSE k \in s : TRUE
Plus(f, g, s) == IF s = {} THEN 0 ELSE f[Pick(s)] + g[s \ {Pick(s)}]
Partial(f, T) == {g \in [SUBSET T -> Int] : \A s \in SUBSET T : g[s] = Plus(f, g, s)}

LEMMA PickIsIn == ASSUME NEW s, s # {} PROVE Pick(s) \in s
  BY DEF Pick

LEMMA PartialIsUnique ==
    ASSUME NEW f, NEW T \in SUBSET Keys, NEW g \in Partial(f, T), NEW h \in Partial(f, T)
    PROVE  g = h
  <1> DEFINE Differ == {s \in SUBSET T : g[s] # h[s]}
  <1>1. ASSUME Differ # {} PROVE FALSE
    <2>1. IsFiniteSet(T)
      BY CacheAssumption, FS_Subset
    <2>2. PICK s \in Differ : \A r \in Differ : r \subseteq s => r = s
      <3> HIDE DEF Differ
      <3>1. Differ \in SUBSET SUBSET T
        BY DEF Differ
      <3> QED
        BY <1>1, <2>1, <3>1, SmallestSet
    <2>3. s \in SUBSET T /\ g[s] # h[s] /\ g[s] = Plus(f, g, s) /\ h[s] = Plus(f, h, s)
      BY DEF Partial
    <2>4. s # {}
      BY <2>3 DEF Plus
    <2>5. g[s \ {Pick(s)}] = h[s \ {Pick(s)}]
      BY <2>2, <2>3, <2>4, PickIsIn
    <2> QED
      BY <2>3, <2>5 DEF Plus
  <1>2. \A s \in SUBSET T : g[s] = h[s]
    BY <1>1
  <1> QED
    BY <1>2 DEF Partial

LEMMA PartialExists ==
    ASSUME NEW f \in [Keys -> Int], NEW T \in SUBSET Keys
    PROVE  Partial(f, T) # {}
  <1> DEFINE Bad == {s \in SUBSET Keys : Partial(f, s) = {}}
  <1> SUFFICES ASSUME Bad # {} PROVE FALSE
    OBVIOUS
  <1>1. PICK s \in Bad : \A r \in Bad : r \subseteq s => r = s
    <2> HIDE DEF Bad
    <2>1. Bad \in SUBSET SUBSET Keys
      BY DEF Bad
    <2> QED
      BY <2>1, CacheAssumption, SmallestSet
  <1>2. s \in SUBSET Keys /\ Partial(f, s) = {}
    OBVIOUS
  <1> DEFINE Of(r) == CHOOSE g : g \in Partial(f, r)
  <1>3. ASSUME NEW r \in SUBSET s, r # s PROVE Of(r) \in Partial(f, r)
    <2>1. Partial(f, r) # {}
      BY <1>1, <1>2, <1>3
    <2> QED
      BY <2>1
  <1> DEFINE Rest == s \ {Pick(s)}
             Whole == IF s = {} THEN 0 ELSE f[Pick(s)] + Of(Rest)[Rest]
             g == [r \in SUBSET s |-> IF r = s THEN Whole ELSE Of(r)[r]]
  <1> HIDE DEF Bad, Of
  <1>4. ASSUME NEW r \in SUBSET s, r # s PROVE g[r] \in Int /\ g[r] = Plus(f, g, r)
    <2>1. Of(r) \in [SUBSET r -> Int] /\ g[r] = Of(r)[r] /\ Of(r)[r] = Plus(f, Of(r), r)
      BY <1>3, <1>4 DEF Partial
    <2>2. CASE r = {}
      BY <2>1, <2>2 DEF Plus
    <2>3. CASE r # {}
      <3> DEFINE u == r \ {Pick(r)}
                 h == [q \in SUBSET u |-> Of(r)[q]]
      <3>1. u \in SUBSET r /\ u \in SUBSET s /\ u # s /\ u \in SUBSET Keys
        BY <1>2, <1>4, <2>3, PickIsIn
      <3>2. h \in Partial(f, u)
        <4>1. \A q \in SUBSET u : Of(r)[q] = Plus(f, Of(r), q) /\ Of(r)[q] \in Int
          BY <1>3, <1>4, <3>1 DEF Partial
        <4>2. \A q \in SUBSET u : Plus(f, Of(r), q) = Plus(f, h, q)
          BY PickIsIn DEF Plus
        <4> QED
          BY <4>1, <4>2 DEF Partial
      <3>3. Of(u) \in Partial(f, u)
        BY <1>3, <3>1
      <3>4. h = Of(u)
        BY <3>1, <3>2, <3>3, PartialIsUnique
      <3>5. h[u] = Of(r)[u]
        OBVIOUS
      <3>6. g[u] = Of(u)[u]
        BY <3>1
      <3>7. g[u] = Of(r)[u]
        BY <3>4, <3>5, <3>6
      <3> QED
        BY <2>1, <2>3, <3>7 DEF Plus
    <2> QED
      BY <2>2, <2>3
  <1>5. g[s] \in Int /\ g[s] = Plus(f, g, s)
    <2>1. g[s] = Whole
      OBVIOUS
    <2>2. CASE s = {}
      BY <2>1, <2>2 DEF Plus
    <2>3. CASE s # {}
      <3>1. Rest \in SUBSET s /\ Rest # s /\ Pick(s) \in Keys
        BY <1>2, <2>3, PickIsIn
      <3>2. g[Rest] = Of(Rest)[Rest] /\ g[Rest] \in Int
        BY <1>4, <3>1
      <3> QED
        BY <2>1, <2>3, <3>1, <3>2 DEF Plus
    <2> QED
      BY <2>2, <2>3
  <1>6. g \in Partial(f, s)
    <2> HIDE DEF g
    <2>1. g = [r \in SUBSET s |-> g[r]]
      BY DEF g
    <2> QED
      BY <1>4, <1>5, <2>1 DEF Partial
  <1> QED
    BY <1>2, <1>6

\* The fold over the keys is the value of that function at the whole set.
LEMMA TotalIsPartial ==
    ASSUME NEW f \in [Keys -> Int]
    PROVE  \E g \in Partial(f, Keys) : Total(f) = g[Keys]
  <1> DEFINE Folds(g) == g = [s \in SUBSET Keys |->
                            IF s = {} THEN 0 ELSE f[CHOOSE k \in s : TRUE] + g[s \ {CHOOSE k \in s : TRUE}]]
             fold == CHOOSE g : Folds(g)
  <1>1. Total(f) = fold[Keys]
    BY DEF Total, MapThenSumSet, MapThenFoldSet
  <1>2. PICK g : g \in Partial(f, Keys)
    BY PartialExists
  <1>3. Folds(g)
    <2>1. g \in [SUBSET Keys -> Int] /\ \A s \in SUBSET Keys : g[s] = Plus(f, g, s)
      BY <1>2 DEF Partial
    <2> QED
      BY <2>1 DEF Plus, Pick
  <1>4. Folds(fold)
    <2> HIDE DEF Folds
    <2> QED
      BY <1>3
  <1>5. fold \in Partial(f, Keys)
    <2> DEFINE Bad == {s \in SUBSET Keys : fold[s] # g[s]}
    <2> HIDE DEF fold
    <2>1. \A s \in SUBSET Keys : fold[s] = Plus(f, fold, s)
      BY <1>4 DEF Plus, Pick
    <2>2. \A s \in SUBSET Keys : g[s] = Plus(f, g, s)
      BY <1>2 DEF Partial
    <2>3. ASSUME Bad # {} PROVE FALSE
      <3>1. PICK s \in Bad : \A r \in Bad : r \subseteq s => r = s
        <4> HIDE DEF Bad
        <4>1. Bad \in SUBSET SUBSET Keys
          BY DEF Bad
        <4> QED
          BY <2>3, <4>1, CacheAssumption, SmallestSet
      <3>2. s # {}
        BY <2>1, <2>2 DEF Plus
      <3>3. fold[s \ {Pick(s)}] = g[s \ {Pick(s)}]
        BY <3>1, <3>2, PickIsIn
      <3> QED
        BY <2>1, <2>2, <3>3 DEF Plus
    <2>4. \A s \in SUBSET Keys : fold[s] = g[s]
      BY <2>3
    <2>5. fold = g
      BY <1>2, <1>4, <2>4 DEF Partial
    <2> QED
      BY <1>2, <2>5
  <1> QED
    BY <1>1, <1>5

LEMMA TotalIsInt == ASSUME NEW f \in [Keys -> Int] PROVE Total(f) \in Int
  BY TotalIsPartial DEF Partial

LEMMA TotalOfNothing == Total([k \in Keys |-> 0]) = 0
  <1> DEFINE f == [k \in Keys |-> 0]
  <1>1. PICK g \in Partial(f, Keys) : Total(f) = g[Keys]
    BY TotalIsPartial
  <1> DEFINE Bad == {s \in SUBSET Keys : g[s] # 0}
  <1>2. ASSUME Bad # {} PROVE FALSE
    <2>1. PICK s \in Bad : \A r \in Bad : r \subseteq s => r = s
      <3> HIDE DEF Bad
      <3>1. Bad \in SUBSET SUBSET Keys
        BY DEF Bad
      <3> QED
        BY <1>2, <3>1, CacheAssumption, SmallestSet
    <2>2. g[s] = Plus(f, g, s)
      BY DEF Partial
    <2>3. s # {}
      BY <2>2 DEF Plus
    <2>4. Pick(s) \in Keys /\ g[s \ {Pick(s)}] = 0
      BY <2>1, <2>3, PickIsIn
    <2> QED
      BY <2>2, <2>3, <2>4 DEF Plus
  <1> QED
    BY <1>1, <1>2

\* A sum of which one part changes.
LEMMA TotalOfExcept ==
    ASSUME NEW f \in [Keys -> Int], NEW j \in Keys, NEW v \in Int
    PROVE  Total([f EXCEPT ![j] = v]) = Total(f) + v - f[j]
  <1> DEFINE e == [f EXCEPT ![j] = v]
  <1>0. e \in [Keys -> Int]
    OBVIOUS
  <1>1. PICK g \in Partial(f, Keys) : Total(f) = g[Keys]
    BY TotalIsPartial
  <1>2. PICK h \in Partial(e, Keys) : Total(e) = h[Keys]
    BY <1>0, TotalIsPartial
  <1> DEFINE Bad == {s \in SUBSET Keys : h[s] # g[s] + (IF j \in s THEN v - f[j] ELSE 0)}
  <1>3. ASSUME Bad # {} PROVE FALSE
    <2>1. PICK s \in Bad : \A r \in Bad : r \subseteq s => r = s
      <3> HIDE DEF Bad
      <3>1. Bad \in SUBSET SUBSET Keys
        BY DEF Bad
      <3> QED
        BY <1>3, <3>1, CacheAssumption, SmallestSet
    <2>2. s \in SUBSET Keys /\ h[s] # g[s] + (IF j \in s THEN v - f[j] ELSE 0)
      OBVIOUS
    <2>3. h[s] = Plus(e, h, s) /\ g[s] = Plus(f, g, s)
      BY DEF Partial
    <2>4. s # {}
      BY <2>2, <2>3 DEF Plus
    <2> DEFINE r == s \ {Pick(s)}
    <2>5. r \in SUBSET Keys /\ r # s /\ Pick(s) \in s /\ Pick(s) \in Keys
      BY <2>4, PickIsIn
    <2>6. h[r] = g[r] + (IF j \in r THEN v - f[j] ELSE 0)
      BY <2>1, <2>5
    <2>7. g[r] \in Int /\ h[r] \in Int
      BY <2>5 DEF Partial
    <2>8. h[s] = e[Pick(s)] + h[r] /\ g[s] = f[Pick(s)] + g[r]
      BY <2>3, <2>4 DEF Plus
    <2>9. CASE j = Pick(s)
      <3>1. j \in s /\ j \notin r /\ e[Pick(s)] = v
        BY <2>5, <2>9
      <3> QED
        BY <2>2, <2>6, <2>7, <2>8, <2>9, <3>1
    <2>10. CASE j # Pick(s)
      <3>1. (j \in s <=> j \in r) /\ e[Pick(s)] = f[Pick(s)] /\ f[Pick(s)] \in Int /\ f[j] \in Int
        BY <2>5, <2>10
      <3> QED
        BY <2>2, <2>6, <2>7, <2>8, <3>1
    <2> QED
      BY <2>9, <2>10
  <1>4. h[Keys] = g[Keys] + (v - f[j]) /\ g[Keys] \in Int
    BY <1>3 DEF Partial
  <1> QED
    BY <1>1, <1>2, <1>4

-----------------------------------------------------------------------------
(* The order of the rows *)

\* Position i is the only one that is left out.
LEMMA RemoveAtPosition ==
    ASSUME NEW S, NEW s \in Seq(S), IsInjective(s), NEW i \in 1 .. Len(s)
    PROVE  /\ RemoveAt(s, i) \in Seq(S)
           /\ IsInjective(RemoveAt(s, i))
           /\ ToSet(RemoveAt(s, i)) = ToSet(s) \ {s[i]}
  <1> DEFINE low  == SubSeq(s, 1, i - 1)
             high == SubSeq(s, i + 1, Len(s))
             rest == low \o high
  <1>0. i \in Int /\ Len(s) \in Nat /\ 1 <= i /\ i <= Len(s) /\ \A j \in 1 .. Len(s) : s[j] \in S
    OBVIOUS
  <1>1. low \in Seq(S) /\ Len(low) = i - 1 /\ \A j \in 1 .. i - 1 : low[j] = s[j]
    BY <1>0
  <1>2. /\ high \in Seq(S) /\ Len(high) = Len(s) - i
        /\ \A j \in 1 .. Len(s) - i : high[j] = s[j + i]
    BY <1>0
  <1>3. /\ rest \in Seq(S) /\ Len(rest) = Len(s) - 1
        /\ \A j \in 1 .. Len(s) - 1 : rest[j] = IF j < i THEN s[j] ELSE s[j + 1]
    <2> HIDE DEF low, high
    <2>1. rest \in Seq(S) /\ Len(rest) = Len(low) + Len(high)
      BY <1>1, <1>2
    <2>2. \A j \in 1 .. Len(low) + Len(high) : rest[j] = IF j <= Len(low) THEN low[j] ELSE high[j - Len(low)]
      BY <1>1, <1>2
    <2>3. Len(low) + Len(high) = Len(s) - 1
      BY <1>0, <1>1, <1>2
    <2>4. ASSUME NEW j \in 1 .. Len(s) - 1 PROVE rest[j] = IF j < i THEN s[j] ELSE s[j + 1]
      <3>1. CASE j < i
        BY <1>0, <1>1, <2>2, <2>3, <3>1
      <3>2. CASE ~(j < i)
        <4>1. j - (i - 1) \in 1 .. Len(s) - i /\ (j - (i - 1)) + i = j + 1
          BY <1>0, <3>2
        <4>2. rest[j] = high[j - (i - 1)]
          BY <1>0, <1>1, <2>2, <2>3, <3>2
        <4> DEFINE m == j - (i - 1)
        <4>3. m \in 1 .. Len(s) - i /\ m + i = j + 1 /\ rest[j] = high[m]
          BY <4>1, <4>2
        <4> HIDE DEF m
        <4>4. high[m] = s[m + i]
          BY <1>2, <4>3
        <4> QED
          BY <3>2, <4>3, <4>4
      <3> QED
        BY <3>1, <3>2
    <2> QED
      BY <2>1, <2>3, <2>4
  <1> HIDE DEF rest
  <1>4. DOMAIN rest = 1 .. Len(s) - 1 /\ DOMAIN s = 1 .. Len(s)
    BY <1>3
  <1>5. \A j \in 1 .. Len(s) - 1 : \E m \in 1 .. Len(s) : m # i /\ rest[j] = s[m] /\ m = IF j < i THEN j ELSE j + 1
    BY <1>0, <1>3
  <1>6. \A m \in 1 .. Len(s) : m # i => \E j \in 1 .. Len(s) - 1 : rest[j] = s[m]
    <2> SUFFICES ASSUME NEW m \in 1 .. Len(s), m # i PROVE \E j \in 1 .. Len(s) - 1 : rest[j] = s[m]
      OBVIOUS
    <2>1. CASE m < i
      BY <1>0, <1>3, <2>1
    <2>2. CASE m > i
      <3>1. m - 1 \in 1 .. Len(s) - 1 /\ ~(m - 1 < i) /\ (m - 1) + 1 = m
        BY <1>0, <2>2
      <3> QED
        BY <1>3, <3>1
    <2> QED
      BY <1>0, <2>1, <2>2
  <1>7. \A j, m \in 1 .. Len(s) : s[j] = s[m] => j = m
    BY <1>4 DEF IsInjective
  <1>8. IsInjective(rest)
    <2> SUFFICES ASSUME NEW a \in 1 .. Len(s) - 1, NEW b \in 1 .. Len(s) - 1, rest[a] = rest[b] PROVE a = b
      BY <1>4 DEF IsInjective
    <2>1. PICK x \in 1 .. Len(s) : rest[a] = s[x] /\ x = IF a < i THEN a ELSE a + 1
      BY <1>5
    <2>2. PICK y \in 1 .. Len(s) : rest[b] = s[y] /\ y = IF b < i THEN b ELSE b + 1
      BY <1>5
    <2>3. x = y
      BY <1>7, <2>1, <2>2
    <2> QED
      BY <1>0, <2>1, <2>2, <2>3
  <1>9. ToSet(rest) = ToSet(s) \ {s[i]}
    <2>1. ASSUME NEW j \in 1 .. Len(s) - 1 PROVE rest[j] \in ToSet(s) \ {s[i]}
      BY <1>4, <1>5, <1>7 DEF ToSet
    <2>2. ASSUME NEW m \in 1 .. Len(s), s[m] # s[i] PROVE s[m] \in ToSet(rest)
      <3>1. m # i
        BY <2>2
      <3> QED
        BY <1>4, <1>6, <3>1 DEF ToSet
    <2>3. ToSet(rest) \subseteq ToSet(s) \ {s[i]}
      BY <1>4, <2>1 DEF ToSet
    <2>4. ToSet(s) \ {s[i]} \subseteq ToSet(rest)
      BY <1>4, <2>2 DEF ToSet
    <2> QED
      BY <2>3, <2>4
  <1>10. rest = RemoveAt(s, i)
    BY DEF rest, RemoveAt
  <1> QED
    BY <1>3, <1>8, <1>9, <1>10

LEMMA WithoutKey ==
    ASSUME lru \in Seq(Keys), IsInjective(lru), NEW k
    PROVE  /\ Without(k) \in Seq(Keys)
           /\ IsInjective(Without(k))
           /\ ToSet(Without(k)) = ToSet(lru) \ {k}
  <1>1. CASE \E i \in 1 .. Len(lru) : lru[i] = k
    <2>1. PICK i \in 1 .. Len(lru) : lru[i] = k
      BY <1>1
    <2>2. \A j \in 1 .. Len(lru) : lru[j] = k => j = i
      BY <2>1 DEF IsInjective
    <2>3. {j \in 1 .. Len(lru) : lru[j] = k} = {i}
      BY <2>1, <2>2
    <2>4. Min({i}) = i
      BY <2>1 DEF Min
    <2>5. SelectInSeq(lru, LAMBDA v : v = k) = i
      BY <2>3, <2>4 DEF SelectInSeq
    <2>6. Without(k) = RemoveAt(lru, i)
      BY <1>1, <2>5 DEF Without, RemoveFirst
    <2> QED
      BY <2>1, <2>6, RemoveAtPosition
  <1>2. CASE ~ \E i \in 1 .. Len(lru) : lru[i] = k
    <2>1. Without(k) = lru
      BY <1>2 DEF Without, RemoveFirst
    <2>2. k \notin ToSet(lru)
      BY <1>2 DEF ToSet
    <2> QED
      BY <2>1, <2>2
  <1> QED
    BY <1>1, <1>2

LEMMA AppendNew ==
    ASSUME NEW S, NEW s \in Seq(S), IsInjective(s), NEW e \in S, e \notin ToSet(s)
    PROVE  /\ Append(s, e) \in Seq(S)
           /\ IsInjective(Append(s, e))
           /\ ToSet(Append(s, e)) = ToSet(s) \cup {e}
  <1> DEFINE t == Append(s, e)
  <1>1. /\ t \in Seq(S) /\ Len(t) = Len(s) + 1 /\ Len(s) \in Nat
        /\ \A i \in 1 .. Len(s) : t[i] = s[i]
        /\ t[Len(s) + 1] = e
    BY AppendProperties
  <1>2. DOMAIN t = 1 .. Len(s) + 1 /\ DOMAIN s = 1 .. Len(s)
    BY <1>1
  <1>3. \A i \in 1 .. Len(s) : s[i] # e
    BY <1>2 DEF ToSet
  <1> HIDE DEF t
  <1>4. \A i \in 1 .. Len(s) + 1 : i \in 1 .. Len(s) \/ i = Len(s) + 1
    BY <1>1
  <1>5. IsInjective(t)
    BY <1>1, <1>2, <1>3, <1>4 DEF IsInjective
  <1>6. ToSet(t) = ToSet(s) \cup {e}
    <2>1. \A i \in 1 .. Len(s) : i \in 1 .. Len(s) + 1
      BY <1>1
    <2>2. Len(s) + 1 \in 1 .. Len(s) + 1
      BY <1>1
    <2> QED
      BY <1>1, <1>2, <1>4, <2>1, <2>2 DEF ToSet
  <1> QED
    BY <1>1, <1>5, <1>6 DEF t

-----------------------------------------------------------------------------
(* Types *)

RowsTyped ==
    /\ file \in [Keys -> Sizes \cup {0}]
    /\ size \in [Keys -> Sizes \cup {0}]
    /\ lru \in Seq(Keys) /\ IsInjective(lru)
    /\ ToSet(lru) = {k \in Keys : size[k] # 0}

LocalsTyped ==
    /\ pc \in [Worker -> {"idle"} \cup Commits \cup Gets]
    /\ key \in [Worker -> Keys]
    /\ n \in [Worker -> Sizes \cup {0}]
    /\ seen \in [Worker -> Sizes \cup {0}]

EvictTyped ==
    /\ evict \in {"off", "loop", "query", "remove", "delete", "forget"}
    /\ batch \in Seq([key : Keys, size : Sizes])
    /\ serving \in BOOLEAN
    /\ triggers \in Nat

Typed ==
    /\ RowsTyped /\ LocalsTyped /\ EvictTyped
    /\ total \in Int
    /\ watermark \in Watermarks
    /\ mixed \subseteq Keys

\* A batch is treated to its last row, and names no key twice.
BatchTreated ==
    /\ batch = <<>> <=> evict \in {"off", "loop", "query"}
    /\ \A i, j \in DOMAIN batch : batch[i].key = batch[j].key => i = j

LocalsSound ==
    \A w \in Worker :
       /\ pc[w] \in Commits => n[w] # 0
       /\ pc[w] \in {"drop", "forget"} => key[w] \in mixed

Sound == Typed /\ BatchTreated /\ LocalsSound

LEMMA ConstantsTyped ==
    /\ IsFiniteSet(Keys) /\ (CHOOSE k \in Keys : TRUE) \in Keys
    /\ Sizes \subseteq Nat /\ 0 \notin Sizes /\ Watermarks \subseteq Nat
    /\ Configured \subseteq Watermarks
    /\ EvictionBatch \in Nat /\ EvictionBatch >= 1
  BY CacheAssumption

LEMMA UpsertTyped ==
    ASSUME RowsTyped, NEW k \in Keys, NEW s \in Sizes, UpsertRow(k, s), file' \in [Keys -> Sizes \cup {0}]
    PROVE  RowsTyped'
  <1>1. /\ Without(k) \in Seq(Keys) /\ IsInjective(Without(k))
        /\ ToSet(Without(k)) = ToSet(lru) \ {k}
    BY WithoutKey DEF RowsTyped
  <1>2. lru' \in Seq(Keys) /\ IsInjective(lru') /\ ToSet(lru') = ToSet(lru) \cup {k}
    BY <1>1, AppendNew DEF UpsertRow
  <1>3. size' \in [Keys -> Sizes \cup {0}] /\ {j \in Keys : size'[j] # 0} = {j \in Keys : size[j] # 0} \cup {k}
    BY ConstantsTyped DEF UpsertRow, RowsTyped
  <1> QED
    BY <1>2, <1>3 DEF RowsTyped

LEMMA DeleteTyped ==
    ASSUME RowsTyped, NEW k \in Keys, DeleteRow(k), file' \in [Keys -> Sizes \cup {0}]
    PROVE  RowsTyped'
  <1>1. /\ lru' \in Seq(Keys) /\ IsInjective(lru')
        /\ ToSet(lru') = ToSet(lru) \ {k}
    BY WithoutKey DEF RowsTyped, DeleteRow
  <1>2. size' \in [Keys -> Sizes \cup {0}] /\ {j \in Keys : size'[j] # 0} = {j \in Keys : size[j] # 0} \ {k}
    BY ConstantsTyped DEF DeleteRow, RowsTyped
  <1> QED
    BY <1>1, <1>2 DEF RowsTyped

LEMMA TouchTyped ==
    ASSUME RowsTyped, NEW k \in Keys, UNCHANGED <<file, size>>,
           lru' = IF size[k] # 0 THEN Append(Without(k), k) ELSE lru
    PROVE  RowsTyped'
  <1>1. /\ Without(k) \in Seq(Keys) /\ IsInjective(Without(k))
        /\ ToSet(Without(k)) = ToSet(lru) \ {k}
    BY WithoutKey DEF RowsTyped
  <1>2. CASE size[k] # 0
    <2>1. lru' \in Seq(Keys) /\ IsInjective(lru') /\ ToSet(lru') = (ToSet(lru) \ {k}) \cup {k}
      BY <1>1, <1>2, AppendNew
    <2>2. k \in ToSet(lru)
      BY <1>2 DEF RowsTyped
    <2> QED
      BY <2>1, <2>2 DEF RowsTyped
  <1>3. CASE ~(size[k] # 0)
    BY <1>3 DEF RowsTyped
  <1> QED
    BY <1>2, <1>3

\* The rows an eviction takes are rows, and each of them once.
LEMMA OldestTyped ==
    ASSUME RowsTyped
    PROVE  /\ OldestRows \in Seq([key : Keys, size : Sizes])
           /\ OldestRows = <<>> <=> lru = <<>>
           /\ \A i \in DOMAIN OldestRows : OldestRows[i].size = size[OldestRows[i].key]
           /\ \A i, j \in DOMAIN OldestRows : OldestRows[i].key = OldestRows[j].key => i = j
  <1> DEFINE m == Min({Len(lru), EvictionBatch})
             row(i) == [key |-> lru[i], size |-> size[lru[i]]]
  <1>1. Len(lru) \in Nat /\ DOMAIN lru = 1 .. Len(lru) /\ \A i \in 1 .. Len(lru) : lru[i] \in Keys
    BY DEF RowsTyped
  <1>2. m \in Nat /\ m <= Len(lru) /\ (m = 0 <=> Len(lru) = 0)
    <2>1. m = IF Len(lru) <= EvictionBatch THEN Len(lru) ELSE EvictionBatch
      <3> DEFINE less == IF Len(lru) <= EvictionBatch THEN Len(lru) ELSE EvictionBatch
                 two  == {Len(lru), EvictionBatch}
      <3>1. \A x \in two : (\A y \in two : x =< y) <=> x = less
        BY <1>1, ConstantsTyped
      <3>2. less \in two
        OBVIOUS
      <3> HIDE DEF less, two
      <3>3. (CHOOSE x \in two : \A y \in two : x =< y) = less
        BY <3>1, <3>2
      <3>4. m = less
        BY <3>3 DEF two, Min
      <3> QED
        BY <3>4 DEF less
    <2> QED
      BY <1>1, <2>1, ConstantsTyped
  <1> HIDE DEF m
  <1>3. OldestRows = [i \in 1 .. m |-> row(i)]
    BY DEF OldestRows, m
  <1>4. \A i \in 1 .. m : i \in DOMAIN lru /\ lru[i] \in Keys /\ size[lru[i]] # 0
    <2>1. \A i \in 1 .. m : i \in DOMAIN lru
      BY <1>1, <1>2
    <2> QED
      BY <1>1, <2>1 DEF RowsTyped, ToSet
  <1>5. \A i \in 1 .. m : row(i) \in [key : Keys, size : Sizes]
    BY <1>4 DEF RowsTyped
  <1>6. OldestRows \in [1 .. m -> [key : Keys, size : Sizes]]
    BY <1>3, <1>5
  <1>7. OldestRows \in Seq([key : Keys, size : Sizes]) /\ Len(OldestRows) = m /\ DOMAIN OldestRows = 1 .. m
    <2>1. OldestRows \in Seq([key : Keys, size : Sizes])
      BY <1>2, <1>6, SeqDef
    <2>2. DOMAIN OldestRows = 1 .. m
      BY <1>6
    <2> QED
      BY <1>2, <2>1, <2>2, LenProperties
  <1>8. OldestRows = <<>> <=> lru = <<>>
    <2>1. OldestRows = <<>> <=> m = 0
      BY <1>2, <1>7
    <2>2. lru = <<>> <=> Len(lru) = 0
      BY DEF RowsTyped
    <2> QED
      BY <1>2, <2>1, <2>2
  <1>9. \A i \in 1 .. m : OldestRows[i].key = lru[i] /\ OldestRows[i].size = size[lru[i]]
    BY <1>3
  <1>10. \A i, j \in 1 .. m : lru[i] = lru[j] => i = j
    BY <1>4 DEF RowsTyped, IsInjective
  <1> QED
    BY <1>7, <1>8, <1>9, <1>10

\* The batch without its first row.
LEMMA NextRowTyped ==
    ASSUME EvictTyped, BatchTreated, evict \in {"remove", "delete", "forget"}, NextRow
    PROVE  /\ batch' \in Seq([key : Keys, size : Sizes])
           /\ evict' \in {"loop", "remove"}
           /\ batch' = <<>> <=> evict' = "loop"
           /\ \A i \in DOMAIN batch' : i + 1 \in DOMAIN batch /\ i + 1 # 1 /\ batch'[i] = batch[i + 1]
           /\ \A i \in DOMAIN batch : i # 1 => i - 1 \in DOMAIN batch' /\ batch'[i - 1] = batch[i]
           /\ \A i, j \in DOMAIN batch' : batch'[i].key = batch'[j].key => i = j
  <1>1. batch \in Seq([key : Keys, size : Sizes]) /\ batch # <<>>
    BY DEF EvictTyped, BatchTreated
  <1>2. /\ batch' \in Seq([key : Keys, size : Sizes])
        /\ Len(batch') = Len(batch) - 1
        /\ \A i \in 1 .. Len(batch') : batch'[i] = batch[i + 1]
    BY <1>1, HeadTailProperties DEF NextRow
  <1>3. DOMAIN batch = 1 .. Len(batch) /\ DOMAIN batch' = 1 .. Len(batch) - 1 /\ Len(batch) \in Nat \ {0}
    BY <1>1, <1>2
  <1>4. batch' = <<>> <=> Len(batch) = 1
    BY <1>2, <1>3
  <1>5. evict' = IF Len(batch) = 1 THEN "loop" ELSE "remove"
    BY DEF NextRow
  <1>6. \A i \in DOMAIN batch' : i \in Int /\ i + 1 \in DOMAIN batch /\ i + 1 # 1 /\ batch'[i] = batch[i + 1]
    BY <1>2, <1>3
  <1>7. ASSUME NEW i \in DOMAIN batch, i # 1 PROVE i - 1 \in DOMAIN batch' /\ batch'[i - 1] = batch[i]
    <2>1. i - 1 \in DOMAIN batch' /\ (i - 1) + 1 = i
      BY <1>3, <1>7
    <2> QED
      BY <1>6, <2>1
  <1>8. ASSUME NEW i \in DOMAIN batch', NEW j \in DOMAIN batch', batch'[i].key = batch'[j].key
        PROVE  i = j
    <2>1. i + 1 = j + 1
      BY <1>6, <1>8 DEF BatchTreated
    <2> QED
      BY <1>6, <2>1
  <1> QED
    BY <1>2, <1>4, <1>5, <1>6, <1>7, <1>8

\* The locals of the other goroutines stay, and mixed only grows.
OthersWork(w) ==
    /\ \A v \in Worker : v # w =>
          pc'[v] = pc[v] /\ key'[v] = key[v] /\ n'[v] = n[v] /\ seen'[v] = seen[v]
    /\ mixed \subseteq mixed' /\ mixed' \subseteq Keys

LEMMA LengthsAreNat ==
    ASSUME LocalsTyped, NEW w \in Worker
    PROVE  n[w] \in Nat /\ seen[w] \in Nat
  <1>1. n[w] \in Sizes \cup {0} /\ seen[w] \in Sizes \cup {0}
    BY DEF LocalsTyped
  <1>2. \A s \in Sizes \cup {0} : s \in Nat
    BY ConstantsTyped
  <1> QED
    BY <1>1, <1>2

LEMMA ReturnTyped ==
    ASSUME LocalsTyped, NEW w \in Worker, Return(w)
    PROVE  LocalsTyped' /\ pc'[w] = "idle"
  BY ConstantsTyped DEF LocalsTyped, Return

LEMMA GotoTyped ==
    ASSUME LocalsTyped, NEW w \in Worker, NEW to \in Commits \cup Gets, Goto(w, to)
    PROVE  LocalsTyped' /\ pc'[w] = to
  BY DEF LocalsTyped, Goto, Commits, Gets

LEMMA WorkingKeys ==
    ASSUME LocalsTyped, EvictTyped
    PROVE  /\ Committing \subseteq Keys /\ Evicting \subseteq Keys
           /\ \A i \in DOMAIN batch : batch[i] \in [key : Keys, size : Sizes]
  <1>1. \A i \in DOMAIN batch : batch[i] \in [key : Keys, size : Sizes]
    <2> DEFINE Row == [key : Keys, size : Sizes]
    <2>1. batch \in Seq(Row)
      BY DEF EvictTyped
    <2> HIDE DEF Row
    <2>2. \A i \in DOMAIN batch : batch[i] \in Row
      BY <2>1
    <2> QED
      BY <2>2 DEF Row
  <1> QED
    BY <1>1 DEF LocalsTyped, Committing, Evicting

\* What the steps of a commit come to for the goroutine and for the batch.
LEMMA CommitLocals ==
    ASSUME Sound, NEW w \in Worker, Commit(w)
    PROVE  /\ LocalsTyped' /\ OthersWork(w) /\ EvictTyped' /\ total' \in Int
           /\ UNCHANGED <<watermark, evict, batch, serving>>
           /\ pc'[w] \in Commits => n'[w] # 0
           /\ pc'[w] \in {"idle"} \cup Commits
  <1> USE ConstantsTyped DEF Sound, Typed, LocalsTyped, EvictTyped, LocalsSound, OthersWork
  <1>1. CASE CommitStart(w)
    <2>1. PICK k \in Keys, s \in Sizes :
             /\ pc' = [pc EXCEPT ![w] = "rename"]
             /\ key' = [key EXCEPT ![w] = k]
             /\ n' = [n EXCEPT ![w] = s]
             /\ mixed' = IF k \in Committing \cup Evicting THEN mixed \cup {k} ELSE mixed
      BY <1>1 DEF CommitStart
    <2>2. UNCHANGED <<total, watermark, seen, evict, batch, serving, triggers>>
      BY <1>1 DEF CommitStart, evicting
    <2> QED
      BY <2>1, <2>2 DEF Commits
  <1>2. CASE CommitDiscard(w) \/ CommitUpsertFails(w)
    <2>1. Return(w) /\ UNCHANGED <<total, watermark, evict, batch, serving, triggers>>
      BY <1>2 DEF CommitDiscard, CommitUpsertFails, evicting
    <2>2. mixed \subseteq mixed' /\ mixed' \subseteq Keys
      BY <1>2 DEF CommitDiscard, CommitUpsertFails
    <2>3. LocalsTyped' /\ pc'[w] = "idle"
      BY <2>1, ReturnTyped
    <2> QED
      BY <2>1, <2>2, <2>3 DEF Return, Commits
  <1>3. CASE CommitRename(w) \/ CommitReadOldFails(w) \/ CommitUpsert(w)
    <2>1. PICK to \in Commits : Goto(w, to)
      BY <1>3 DEF CommitRename, CommitReadOldFails, CommitUpsert, Commits
    <2>2. UNCHANGED <<total, watermark, evict, batch, serving, triggers>>
      BY <1>3 DEF CommitRename, CommitReadOldFails, CommitUpsert, evicting
    <2>3. mixed \subseteq mixed' /\ mixed' \subseteq Keys
      BY <1>3 DEF CommitRename, CommitReadOldFails, CommitUpsert
    <2>4. LocalsTyped' /\ pc'[w] = to
      BY <2>1, GotoTyped
    <2>5. pc[w] \in Commits
      BY <1>3 DEF CommitRename, CommitReadOldFails, CommitUpsert, Commits
    <2> QED
      BY <2>1, <2>2, <2>3, <2>4, <2>5 DEF Goto
  <1>4. CASE CommitReadOld(w)
    <2>1. pc[w] \in Commits /\ "upsert" \in Commits /\ size[key[w]] \in Sizes \cup {0}
      BY <1>4 DEF CommitReadOld, Commits, RowsTyped
    <2> QED
      BY <1>4, <2>1 DEF CommitReadOld, evicting
  <1>5. CASE CommitCount(w)
    <2>1. Return(w) /\ total' = total + n[w] - seen[w]
          /\ MaybeEvict(total', watermark) /\ UNCHANGED <<watermark, evict, batch, serving, mixed>>
      BY <1>5 DEF CommitCount
    <2>2. LocalsTyped' /\ pc'[w] = "idle"
      BY <2>1, ReturnTyped
    <2>3. total' \in Int /\ triggers' \in Nat
      BY <2>1 DEF MaybeEvict
    <2> QED
      BY <2>1, <2>2, <2>3 DEF Return, Commits
  <1> QED
    BY <1>1, <1>2, <1>3, <1>4, <1>5 DEF Commit

\* The same for the steps of a Get, of which no key in a batch hears.
LEMMA GetLocals ==
    ASSUME Sound, NEW w \in Worker, Get(w)
    PROVE  /\ LocalsTyped' /\ OthersWork(w) /\ EvictTyped' /\ total' \in Int
           /\ UNCHANGED <<file, watermark, evict, batch, serving>>
           /\ pc[w] \notin Commits /\ pc'[w] \in {"idle"} \cup Gets
           /\ pc'[w] \in {"drop", "forget"} => key'[w] \in mixed'
  <1> USE ConstantsTyped DEF Sound, Typed, LocalsTyped, EvictTyped, LocalsSound, OthersWork
  <1>0. UNCHANGED <<file, watermark, evict, batch, serving, triggers>>
    BY DEF Get, GetMeta, GetOpen, GetMissing, GetDrop, GetForget, GetTouch, GetFails, stores, evicting
  <1>1. CASE GetMeta(w)
    <2>1. PICK k \in Keys : key' = [key EXCEPT ![w] = k] /\ seen' = [seen EXCEPT ![w] = size[k]]
      BY <1>1 DEF GetMeta
    <2>2. size[k] \in Sizes \cup {0}
      BY DEF RowsTyped
    <2> QED
      BY <1>0, <1>1, <2>1, <2>2 DEF GetMeta, Commits, Gets
  <1>2. CASE GetOpen(w)
    <2>1. file[key[w]] \in Sizes \cup {0}
      BY DEF RowsTyped
    <2> QED
      BY <1>0, <1>2, <2>1 DEF GetOpen, Commits, Gets
  <1>3. CASE GetMissing(w) \/ GetDrop(w)
    <2>1. PICK to \in {"drop", "forget"} : Goto(w, to)
      BY <1>3 DEF GetMissing, GetDrop
    <2>2. mixed \subseteq mixed' /\ mixed' \subseteq Keys /\ UNCHANGED total /\ key[w] \in mixed'
      BY <1>3 DEF GetMissing, GetDrop
    <2>3. pc[w] \notin Commits /\ to \in Gets
      BY <1>3 DEF GetMissing, GetDrop, Commits, Gets
    <2>4. LocalsTyped' /\ pc'[w] = to
      BY <2>1, <2>3, GotoTyped
    <2> QED
      BY <1>0, <2>1, <2>2, <2>3, <2>4 DEF Goto
  <1>4. CASE GetForget(w) \/ GetTouch(w) \/ GetFails(w)
    <2>1. Return(w) /\ UNCHANGED mixed
      BY <1>4 DEF GetForget, GetTouch, GetFails
    <2>2. total' \in Int
      <3>1. seen[w] \in Int
        BY LengthsAreNat
      <3> QED
        BY <1>4, <3>1 DEF GetForget, GetTouch, GetFails
    <2>3. LocalsTyped' /\ pc'[w] = "idle"
      BY <2>1, ReturnTyped
    <2>4. pc[w] \notin Commits
      BY <1>4 DEF GetForget, GetTouch, GetFails, Commits
    <2> QED
      BY <1>0, <2>1, <2>2, <2>3, <2>4 DEF Return
  <1> QED
    BY <1>1, <1>2, <1>3, <1>4 DEF Get

LEMMA RowsUntouched == RowsTyped /\ UNCHANGED stores => RowsTyped'
  BY DEF stores, RowsTyped

LEMMA WorkerSound ==
    ASSUME Sound, NEW w \in Worker, Commit(w) \/ Get(w)
    PROVE  Sound'
  <1>1. /\ LocalsTyped' /\ OthersWork(w) /\ EvictTyped' /\ total' \in Int
        /\ UNCHANGED <<watermark, evict, batch>>
        /\ pc'[w] \in Commits => n'[w] # 0
        /\ pc'[w] \in {"drop", "forget"} => key'[w] \in mixed'
    BY CommitLocals, GetLocals DEF Commits, Gets
  <1>2. LocalsSound'
    BY <1>1 DEF Sound, LocalsSound, OthersWork
  <1>3. BatchTreated'
    BY <1>1 DEF Sound, BatchTreated
  <1>4. RowsTyped'
    <2>0. RowsTyped /\ LocalsTyped /\ LocalsSound
      BY DEF Sound, Typed
    <2>1. CASE CommitRename(w)
      <3>1. n[w] \in Sizes \cup {0}
        BY <2>0 DEF LocalsTyped
      <3> QED
        BY <2>0, <2>1, <3>1 DEF CommitRename, RowsTyped
    <2>2. CASE CommitUpsert(w)
      <3>1. n[w] \in Sizes /\ key[w] \in Keys
        BY <2>0, <2>2 DEF LocalsTyped, LocalsSound, CommitUpsert, Commits
      <3>2. UpsertRow(key[w], n[w]) /\ file' \in [Keys -> Sizes \cup {0}]
        BY <2>0, <2>2 DEF CommitUpsert, RowsTyped
      <3> QED
        BY <2>0, <3>1, <3>2, UpsertTyped
    <2>3. CASE GetDrop(w)
      <3>1. DeleteRow(key[w]) /\ key[w] \in Keys /\ file' \in [Keys -> Sizes \cup {0}]
        BY <2>0, <2>3 DEF GetDrop, LocalsTyped, RowsTyped
      <3> QED
        BY <2>0, <3>1, DeleteTyped
    <2>4. CASE GetTouch(w)
      <3>1. key[w] \in Keys
        BY <2>0 DEF LocalsTyped
      <3> QED
        BY <2>0, <2>4, <3>1, TouchTyped DEF GetTouch
    <2>5. CASE UNCHANGED stores
      BY <2>0, <2>5, RowsUntouched
    <2> QED
      BY <2>1, <2>2, <2>3, <2>4, <2>5
      DEF Commit, CommitStart, CommitDiscard, CommitReadOld, CommitReadOldFails, CommitUpsertFails,
          CommitCount, Get, GetMeta, GetOpen, GetMissing, GetForget, GetFails, stores
  <1> QED
    BY <1>1, <1>2, <1>3, <1>4 DEF Sound, Typed, OthersWork

LEMMA EvictSound ==
    ASSUME Sound, Evict
    PROVE  Sound'
  <1>0. RowsTyped /\ LocalsTyped /\ EvictTyped /\ BatchTreated /\ LocalsSound
        /\ total \in Int /\ watermark \in Watermarks /\ mixed \subseteq Keys
    BY DEF Sound, Typed
  <1>1. UNCHANGED <<pc, key, n, seen, watermark>>
    BY DEF Evict, Trigger, EvictNow, EvictCheck, EvictQuery, EvictQueryFails, EvictRemove, EvictBusy,
           EvictDelete, EvictDeleteFails, EvictForget, locals
  <1>2. LocalsTyped'
    BY <1>0, <1>1 DEF LocalsTyped
  <1> DEFINE Row == [key : Keys, size : Sizes]
  <1>3. ASSUME evict \in {"remove", "delete", "forget"}
        PROVE  Head(batch) = batch[1] /\ 1 \in DOMAIN batch /\ batch[1] \in Row
    <2>1. batch \in Seq(Row) /\ batch # <<>>
      BY <1>0, <1>3 DEF EvictTyped, BatchTreated
    <2> HIDE DEF Row
    <2> QED
      BY <2>1
  <1>4. ASSUME RowsTyped', EvictTyped', BatchTreated', total' \in Int,
               mixed \subseteq mixed', mixed' \subseteq Keys
        PROVE  Sound'
    BY <1>0, <1>1, <1>2, <1>4 DEF Sound, Typed, LocalsSound
  <1>5. ASSUME UNCHANGED <<batch, total, mixed>>, UNCHANGED stores,
               evict' \in {"off", "loop", "query"}, evict \in {"off", "loop", "query"},
               serving' \in BOOLEAN, triggers' \in Nat
        PROVE  Sound'
    BY <1>0, <1>4, <1>5, RowsUntouched DEF EvictTyped, BatchTreated
  <1>6. CASE Trigger
    <2>1. triggers' \in Nat
      BY <1>0, <1>6 DEF Trigger, EvictTyped
    <2>2. CASE evict \in {"off", "loop", "query"}
      BY <1>0, <1>5, <1>6, <2>1, <2>2 DEF Trigger, EvictTyped
    <2>3. CASE evict \notin {"off", "loop", "query"}
      <3>1. evict' = evict /\ UNCHANGED <<batch, total, mixed, serving>> /\ UNCHANGED stores
        BY <1>6, <2>3 DEF Trigger
      <3> QED
        BY <1>0, <1>4, <2>1, <3>1, RowsUntouched DEF EvictTyped, BatchTreated
    <2> QED
      BY <2>2, <2>3
  <1>7. CASE EvictNow \/ EvictCheck \/ EvictQueryFails
    BY <1>0, <1>5, <1>7 DEF EvictNow, EvictCheck, EvictQueryFails, EvictTyped
  <1>8. CASE EvictQuery
    <2>1. batch' = OldestRows /\ evict' = (IF lru = <<>> THEN "off" ELSE "remove")
          /\ UNCHANGED <<total, triggers>> /\ serving' \in BOOLEAN /\ UNCHANGED stores
      BY <1>0, <1>8 DEF EvictQuery, EvictTyped
    <2>2. EvictTyped' /\ BatchTreated'
      BY <1>0, <2>1, OldestTyped DEF EvictTyped, BatchTreated
    <2>3. mixed \subseteq mixed' /\ mixed' \subseteq Keys
      BY <1>0, <1>8, WorkingKeys DEF EvictQuery
    <2> QED
      BY <1>0, <1>4, <2>1, <2>2, <2>3, RowsUntouched
  <1>9. CASE EvictRemove
    <2>1. EvictTyped' /\ BatchTreated' /\ UNCHANGED <<total, mixed>>
      BY <1>0, <1>9 DEF EvictRemove, EvictTyped, BatchTreated
    <2>2. RowsTyped'
      BY <1>0, <1>9 DEF EvictRemove, RowsTyped
    <2> QED
      BY <1>0, <1>4, <2>1, <2>2
  <1>10. CASE EvictDelete
    <2>1. EvictTyped' /\ BatchTreated' /\ UNCHANGED <<total, mixed>>
      BY <1>0, <1>10 DEF EvictDelete, EvictTyped, BatchTreated
    <2>2. DeleteRow(batch[1].key) /\ batch[1].key \in Keys /\ file' \in [Keys -> Sizes \cup {0}]
      BY <1>0, <1>3, <1>10 DEF EvictDelete, RowsTyped
    <2>3. RowsTyped'
      BY <1>0, <2>2, DeleteTyped
    <2> QED
      BY <1>0, <1>4, <2>1, <2>3
  <1>11. CASE EvictBusy \/ EvictDeleteFails \/ EvictForget
    <2>1. NextRow /\ evict \in {"remove", "delete", "forget"} /\ UNCHANGED stores /\ UNCHANGED triggers
      BY <1>11 DEF EvictBusy, EvictDeleteFails, EvictForget
    <2>2. EvictTyped' /\ BatchTreated'
      <3>1. /\ batch' \in Seq([key : Keys, size : Sizes])
            /\ evict' \in {"loop", "remove"}
            /\ batch' = <<>> <=> evict' = "loop"
            /\ \A i, j \in DOMAIN batch' : batch'[i].key = batch'[j].key => i = j
        BY <1>0, <2>1, NextRowTyped
      <3>2. UNCHANGED <<serving, triggers>>
        BY <2>1 DEF NextRow
      <3>3. EvictTyped'
        BY <1>0, <3>1, <3>2 DEF EvictTyped
      <3> QED
        BY <3>1, <3>3 DEF BatchTreated
    <2>3. batch[1].key \in Keys /\ batch[1].size \in Nat /\ Head(batch) = batch[1]
      BY <1>3, <2>1, ConstantsTyped
    <2>4. total' \in Int
      BY <1>0, <1>11, <2>3 DEF EvictBusy, EvictDeleteFails, EvictForget
    <2>5. mixed \subseteq mixed' /\ mixed' \subseteq Keys
      BY <1>0, <1>11, <2>3 DEF EvictBusy, EvictDeleteFails, EvictForget
    <2> QED
      BY <1>0, <1>4, <2>1, <2>2, <2>4, <2>5, RowsUntouched
  <1> QED
    BY <1>6, <1>7, <1>8, <1>9, <1>10, <1>11 DEF Evict

LEMMA SumIsInt == RowsTyped => Sum \in Int /\ Sum = Total(size)
  <1> SUFFICES ASSUME RowsTyped PROVE Sum \in Int /\ Sum = Total(size)
    OBVIOUS
  <1>1. Sum = Total(size)
    BY DEF Sum, Total
  <1>2. \A s \in Sizes \cup {0} : s \in Int
    BY ConstantsTyped
  <1>3. size \in [Keys -> Int]
    BY <1>2 DEF RowsTyped
  <1> QED
    BY <1>1, <1>3, TotalIsInt

LEMMA RestartSound ==
    ASSUME Sound, Restart
    PROVE  Sound'
  <1>1. RowsTyped' /\ total' \in Int
    BY RowsUntouched, SumIsInt DEF Sound, Typed, Restart
  <1>2. LocalsTyped' /\ LocalsSound'
    BY ConstantsTyped DEF Restart, LocalsTyped, LocalsSound, Commits
  <1>3. EvictTyped' /\ BatchTreated'
    <2>1. batch' = <<>> /\ evict' = "loop" /\ serving' = FALSE /\ triggers' = 0
      BY DEF Restart
    <2>2. batch' \in Seq([key : Keys, size : Sizes]) /\ Len(batch') = 0
      BY <2>1
    <2>3. DOMAIN batch' = {}
      BY <2>2
    <2> QED
      BY <2>1, <2>2, <2>3 DEF EvictTyped, BatchTreated
  <1>4. mixed' \subseteq Keys
    BY WorkingKeys DEF Sound, Typed, Restart
  <1>5. watermark' \in Watermarks
    BY ConstantsTyped DEF Restart
  <1> QED
    BY <1>1, <1>2, <1>3, <1>4, <1>5 DEF Sound, Typed, Restart

LEMMA StepSound == Sound /\ [Next]_vars => Sound'
  <1> SUFFICES ASSUME Sound, [Next]_vars PROVE Sound'
    OBVIOUS
  <1>1. CASE SetLimits
    <2>1. triggers' \in Nat
      BY <1>1 DEF SetLimits, MaybeEvict, Sound, Typed, EvictTyped
    <2> QED
      BY <1>1, <2>1, RowsUntouched
      DEF SetLimits, locals, Sound, Typed, LocalsTyped, EvictTyped, BatchTreated, LocalsSound
  <1>2. CASE UNCHANGED vars
    BY <1>2, RowsUntouched DEF vars, locals, evicting, Sound, Typed, LocalsTyped, EvictTyped, BatchTreated, LocalsSound
  <1> QED
    BY <1>1, <1>2, WorkerSound, EvictSound, RestartSound DEF Next

-----------------------------------------------------------------------------
(* Rows and files *)

\* On a key on which nothing met, a commit is alone.
Alone ==
    \A w \in Worker : pc[w] \in Commits /\ key[w] \notin mixed =>
       /\ \A i \in DOMAIN batch : batch[i].key # key[w]
       /\ \A v \in Worker : pc[v] \in Commits /\ key[v] = key[w] => v = w

\* So it knows the file and the row of its key.
Knows(w) ==
    /\ pc[w] = "rename" => file[key[w]] = size[key[w]]
    /\ pc[w] \in {"readOld", "upsert", "count"} => file[key[w]] = n[w]
    /\ pc[w] = "upsert" => seen[w] = size[key[w]]
    /\ pc[w] = "count" => size[key[w]] = n[w]

CommitKnows == \A w \in Worker : key[w] \notin mixed => Knows(w)

\* What the step of the eviction says of the row it treats, and of those to come.
Treated(i) ==
    /\ i # 1 \/ evict = "remove" => file[batch[i].key] = size[batch[i].key]
    /\ i = 1 /\ evict \in {"delete", "forget"} => file[batch[i].key] = 0
    /\ i = 1 /\ evict = "forget" => size[batch[i].key] = 0
    /\ i # 1 \/ evict # "forget" => batch[i].size = size[batch[i].key]

EvictKnows == \A i \in DOMAIN batch : batch[i].key \notin mixed => Treated(i)

IsFree(k) ==
    /\ \A w \in Worker : pc[w] \in Commits => key[w] # k
    /\ \A i \in DOMAIN batch : batch[i].key # k

RestMatches == \A k \in Keys \ mixed : IsFree(k) => file[k] = size[k]

Matching == Alone /\ CommitKnows /\ EvictKnows /\ RestMatches

LEMMA FreeIsQuiet ==
    ASSUME NEW k
    PROVE  IsFree(k) <=> k \notin Committing \cup Evicting
  BY DEF IsFree, Committing, Evicting

\* A Get changes no file, and no row of a key on which nothing met.
LEMMA GetMatching ==
    ASSUME Sound, Matching, NEW w \in Worker, Get(w)
    PROVE  Matching'
  <1>1. /\ OthersWork(w) /\ UNCHANGED <<file, evict, batch>>
        /\ pc[w] \notin Commits /\ pc'[w] \notin Commits
    BY GetLocals DEF Commits, Gets
  <1>2. \A k \in Keys : k \notin mixed' => size'[k] = size[k]
    <2>1. CASE GetDrop(w)
      <3>1. key[w] \in mixed
        BY <2>1 DEF Sound, LocalsSound, GetDrop
      <3> QED
        BY <1>1, <2>1, <3>1 DEF GetDrop, DeleteRow, OthersWork, Sound, Typed, RowsTyped
    <2>2. CASE ~GetDrop(w)
      BY <2>2 DEF Get, GetMeta, GetOpen, GetMissing, GetForget, GetTouch, GetFails, stores
    <2> QED
      BY <2>1, <2>2
  <1>3. /\ \A v \in Worker : pc'[v] \in Commits =>
              v # w /\ pc[v] = pc'[v] /\ key'[v] = key[v] /\ n'[v] = n[v] /\ seen'[v] = seen[v]
        /\ \A v \in Worker : pc[v] \in Commits => pc'[v] = pc[v] /\ key'[v] = key[v]
        /\ mixed \subseteq mixed'
    BY <1>1 DEF OthersWork
  <1>4. Alone'
    BY <1>1, <1>3 DEF Matching, Alone
  <1>5. CommitKnows'
    <2> SUFFICES ASSUME NEW v \in Worker, key'[v] \notin mixed' PROVE Knows(v)'
      BY DEF CommitKnows
    <2>1. CASE pc'[v] \in Commits
      <3>1. Knows(v) /\ key[v] \in Keys
        BY <1>3, <2>1 DEF Matching, CommitKnows, Sound, Typed, LocalsTyped
      <3> QED
        BY <1>1, <1>2, <1>3, <2>1, <3>1 DEF Knows
    <2>2. CASE pc'[v] \notin Commits
      BY <2>2 DEF Knows, Commits
    <2> QED
      BY <2>1, <2>2
  <1>6. EvictKnows'
    <2> SUFFICES ASSUME NEW i \in DOMAIN batch, batch[i].key \notin mixed' PROVE Treated(i)'
      BY <1>1 DEF EvictKnows
    <2>1. Treated(i) /\ batch[i].key \in Keys
      BY <1>3, WorkingKeys DEF Matching, EvictKnows, Sound, Typed
    <2> QED
      BY <1>1, <1>2, <2>1 DEF Treated
  <1>7. RestMatches'
    BY <1>1, <1>2, <1>3 DEF Matching, RestMatches, IsFree
  <1> QED
    BY <1>4, <1>5, <1>6, <1>7 DEF Matching

\* A step of a commit that knows afterwards what it has to know, or ends with a
\* row for its file, unless something met on its key.
LEMMA CommitKeepsMatching ==
    ASSUME Sound, Matching, NEW w \in Worker, pc[w] \in Commits, OthersWork(w),
           UNCHANGED <<evict, batch>>,
           \A k \in Keys : k # key[w] => file'[k] = file[k] /\ size'[k] = size[k],
           pc'[w] \in Commits \cup {"idle"},
           pc'[w] \in Commits => key'[w] = key[w],
           key[w] \notin mixed' =>
              IF pc'[w] \in Commits THEN Knows(w)' ELSE file'[key[w]] = size'[key[w]]
    PROVE  Matching'
  <1> DEFINE k == key[w]
  <1>0. k \in Keys /\ mixed \subseteq mixed' /\ \A v \in Worker : key[v] \in Keys
    BY DEF Sound, Typed, LocalsTyped, OthersWork
  <1>1. \A v \in Worker : pc'[v] \in Commits => pc[v] \in Commits /\ key'[v] = key[v]
    BY DEF OthersWork
  <1>2. Alone'
    BY <1>0, <1>1 DEF Matching, Alone
  <1>3. CommitKnows'
    <2> SUFFICES ASSUME NEW v \in Worker, key'[v] \notin mixed' PROVE Knows(v)'
      BY DEF CommitKnows
    <2>1. CASE pc'[v] \in Commits
      <3>1. CASE v = w
        BY <2>1, <3>1
      <3>2. CASE v # w
        <4>1. key[v] # k /\ Knows(v) /\ pc'[v] = pc[v] /\ key'[v] = key[v] /\ n'[v] = n[v] /\ seen'[v] = seen[v]
          BY <1>0, <1>1, <2>1, <3>2 DEF Matching, Alone, CommitKnows, OthersWork
        <4> QED
          BY <1>0, <4>1 DEF Knows
      <3> QED
        BY <3>1, <3>2
    <2>2. CASE pc'[v] \notin Commits
      BY <2>2 DEF Knows, Commits
    <2> QED
      BY <2>1, <2>2
  <1>4. EvictKnows'
    <2> SUFFICES ASSUME NEW i \in DOMAIN batch, batch[i].key \notin mixed' PROVE Treated(i)'
      BY DEF EvictKnows
    <2>1. Treated(i) /\ batch[i].key \in Keys
      BY <1>0, WorkingKeys DEF Matching, EvictKnows, Sound, Typed
    <2>2. batch[i].key # k
      BY <1>0 DEF Matching, Alone
    <2> QED
      BY <2>1, <2>2 DEF Treated
  <1>5. RestMatches'
    <2> SUFFICES ASSUME NEW j \in Keys, j \notin mixed', IsFree(j)' PROVE file'[j] = size'[j]
      BY DEF RestMatches
    <2>1. CASE j = k
      <3>1. pc'[w] \notin Commits
        BY <2>1 DEF IsFree
      <3> QED
        BY <2>1, <3>1
    <2>2. CASE j # k
      <3>1. IsFree(j)
        BY <2>2 DEF IsFree, OthersWork
      <3> QED
        BY <1>0, <2>2, <3>1 DEF Matching, RestMatches
    <2> QED
      BY <2>1, <2>2
  <1> QED
    BY <1>2, <1>3, <1>4, <1>5 DEF Matching

LEMMA CommitMatching ==
    ASSUME Sound, Matching, NEW w \in Worker, Commit(w)
    PROVE  Matching'
  <1>0. /\ OthersWork(w) /\ UNCHANGED <<evict, batch>>
        /\ pc'[w] \in Commits \cup {"idle"}
    BY CommitLocals
  <1>1. /\ pc \in [Worker -> {"idle"} \cup Commits \cup Gets] /\ key \in [Worker -> Keys] /\ key[w] \in Keys
        /\ n \in [Worker -> Sizes \cup {0}] /\ seen \in [Worker -> Sizes \cup {0}]
        /\ file \in [Keys -> Sizes \cup {0}] /\ size \in [Keys -> Sizes \cup {0}]
    BY DEF Sound, Typed, LocalsTyped, RowsTyped
  <1>2. CASE CommitStart(w)
    <2>1. PICK k \in Keys :
             /\ pc[w] = "idle" /\ pc'[w] = "rename" /\ key'[w] = k
             /\ k \notin mixed' => k \notin Committing \cup Evicting
             /\ UNCHANGED <<file, size>>
      BY <1>1, <1>2 DEF CommitStart, stores
    <2>2. k \notin mixed' => IsFree(k)
      BY <2>1, FreeIsQuiet
    <2>3. \A v \in Worker : v # w => pc'[v] = pc[v] /\ key'[v] = key[v] /\ n'[v] = n[v] /\ seen'[v] = seen[v]
      BY <1>0 DEF OthersWork
    <2>4. mixed \subseteq mixed' /\ "idle" \notin Commits /\ "rename" \in Commits
      BY <1>0 DEF OthersWork, Commits
    <2>5. Alone'
      <3> SUFFICES ASSUME NEW v \in Worker, pc'[v] \in Commits, key'[v] \notin mixed'
                   PROVE  /\ \A i \in DOMAIN batch : batch[i].key # key'[v]
                          /\ \A u \in Worker : pc'[u] \in Commits /\ key'[u] = key'[v] => u = v
        BY <1>0 DEF Alone
      <3>1. CASE v = w
        BY <2>1, <2>2, <2>3, <3>1 DEF IsFree
      <3>2. CASE v # w
        BY <2>1, <2>2, <2>3, <2>4, <3>2 DEF IsFree, Matching, Alone
      <3> QED
        BY <3>1, <3>2
    <2>6. CommitKnows'
      <3> SUFFICES ASSUME NEW v \in Worker, key'[v] \notin mixed' PROVE Knows(v)'
        BY DEF CommitKnows
      <3>1. CASE v = w
        BY <2>1, <2>2, <2>4, <3>1 DEF Knows, Matching, RestMatches
      <3>2. CASE v # w
        BY <2>1, <2>3, <2>4, <3>2 DEF Knows, Matching, CommitKnows
      <3> QED
        BY <3>1, <3>2
    <2>7. EvictKnows'
      BY <1>0, <2>1, <2>4 DEF EvictKnows, Treated, Matching
    <2>8. RestMatches'
      <3> SUFFICES ASSUME NEW j \in Keys, j \notin mixed', IsFree(j)' PROVE file[j] = size[j]
        BY <2>1 DEF RestMatches
      <3>1. IsFree(j)
        BY <1>0, <2>1, <2>3, <2>4 DEF IsFree
      <3> QED
        BY <2>4, <3>1 DEF Matching, RestMatches
    <2> QED
      BY <2>5, <2>6, <2>7, <2>8 DEF Matching
  <1>3. ASSUME pc[w] \in Commits,
               \A k \in Keys : k # key[w] => file'[k] = file[k] /\ size'[k] = size[k],
               pc'[w] \in Commits => key'[w] = key[w],
               key[w] \notin mixed' =>
                  IF pc'[w] \in Commits THEN Knows(w)' ELSE file'[key[w]] = size'[key[w]]
        PROVE  Matching'
    BY <1>0, <1>3, CommitKeepsMatching
  <1>4. key[w] \notin mixed' => Knows(w) /\ key[w] \notin mixed
    BY <1>0 DEF Matching, CommitKnows, OthersWork
  <1>5. CASE CommitDiscard(w)
    <2>1. pc[w] = "rename" /\ pc'[w] = "idle" /\ UNCHANGED <<file, size>>
      BY <1>1, <1>5 DEF CommitDiscard, Return, stores
    <2> QED
      BY <1>3, <1>4, <2>1 DEF Knows, Commits
  <1>6. CASE CommitRename(w)
    <2>1. /\ pc[w] = "rename" /\ pc'[w] = "readOld" /\ key'[w] = key[w] /\ n'[w] = n[w]
          /\ file' = [file EXCEPT ![key[w]] = n[w]] /\ size' = size
      BY <1>1, <1>6 DEF CommitRename, Goto
    <2>2. file'[key[w]] = n[w] /\ \A k \in Keys : k # key[w] => file'[k] = file[k]
      BY <1>1, <2>1
    <2> QED
      BY <1>3, <2>1, <2>2 DEF Knows, Commits
  <1>7. CASE CommitReadOld(w)
    <2>1. /\ pc[w] = "readOld" /\ pc'[w] = "upsert" /\ key'[w] = key[w] /\ n'[w] = n[w]
          /\ seen'[w] = size[key[w]] /\ UNCHANGED <<file, size>>
      BY <1>1, <1>7 DEF CommitReadOld, stores
    <2> QED
      BY <1>3, <1>4, <2>1 DEF Knows, Commits
  <1>8. CASE CommitReadOldFails(w) \/ CommitUpsertFails(w)
    <2>1. /\ pc[w] \in {"readOld", "upsert"} /\ key[w] \in mixed' /\ UNCHANGED <<file, size>>
          /\ pc'[w] = "idle" \/ key'[w] = key[w]
      BY <1>1, <1>8 DEF CommitReadOldFails, CommitUpsertFails, Goto, Return, stores
    <2> QED
      BY <1>3, <2>1 DEF Commits
  <1>9. CASE CommitUpsert(w)
    <2>1. /\ pc[w] = "upsert" /\ pc'[w] = "count" /\ key'[w] = key[w] /\ n'[w] = n[w]
          /\ size' = [size EXCEPT ![key[w]] = n[w]] /\ file' = file
      BY <1>1, <1>9 DEF CommitUpsert, UpsertRow, Goto
    <2>2. size'[key[w]] = n[w] /\ \A k \in Keys : k # key[w] => size'[k] = size[k]
      BY <1>1, <2>1
    <2> QED
      BY <1>3, <1>4, <2>1, <2>2 DEF Knows, Commits
  <1>10. CASE CommitCount(w)
    <2>1. pc[w] = "count" /\ pc'[w] = "idle" /\ UNCHANGED <<file, size>>
      BY <1>1, <1>10 DEF CommitCount, Return, stores
    <2> QED
      BY <1>3, <1>4, <2>1 DEF Knows, Commits
  <1> QED
    BY <1>2, <1>5, <1>6, <1>7, <1>8, <1>9, <1>10 DEF Commit

\* Steps that change no file and no row, and take no row into the batch.
LEMMA StillMatching ==
    ASSUME Sound, Matching, UNCHANGED <<file, size, pc, key, n, seen, batch>>,
           mixed \subseteq mixed', evict' = evict \/ batch = <<>>
    PROVE  Matching'
  <1>1. Alone' /\ CommitKnows' /\ RestMatches'
    BY DEF Matching, Alone, CommitKnows, Knows, RestMatches, IsFree
  <1>2. EvictKnows'
    <2>1. CASE evict' = evict
      BY <2>1 DEF Matching, EvictKnows, Treated
    <2>2. CASE batch = <<>>
      <3>1. DOMAIN batch = {}
        BY <2>2
      <3> QED
        BY <3>1 DEF EvictKnows
    <2> QED
      BY <2>1, <2>2
  <1> QED
    BY <1>1, <1>2 DEF Matching

LEMMA EvictMatching ==
    ASSUME Sound, Matching, Evict
    PROVE  Matching'
  <1>0. /\ EvictTyped /\ BatchTreated /\ RowsTyped /\ LocalsTyped
        /\ UNCHANGED <<pc, key, n, seen>>
        /\ \A i \in DOMAIN batch : batch[i].key \in Keys
        /\ \A w \in Worker : key[w] \in Keys
    <2>1. UNCHANGED <<pc, key, n, seen>>
      BY DEF Evict, Trigger, EvictNow, EvictCheck, EvictQuery, EvictQueryFails, EvictRemove, EvictBusy,
             EvictDelete, EvictDeleteFails, EvictForget, locals
    <2>2. EvictTyped /\ BatchTreated /\ RowsTyped /\ LocalsTyped
      BY DEF Sound, Typed
    <2> QED
      BY <2>1, <2>2, WorkingKeys DEF LocalsTyped
  <1> DEFINE Row == [key : Keys, size : Sizes]
             h == batch[1].key
  <1>1. ASSUME evict \in {"remove", "delete", "forget"}
        PROVE  Head(batch) = batch[1] /\ 1 \in DOMAIN batch /\ h \in Keys
    <2>1. batch \in Seq(Row) /\ batch # <<>>
      BY <1>0, <1>1 DEF EvictTyped, BatchTreated
    <2> HIDE DEF Row
    <2>2. Head(batch) = batch[1] /\ 1 \in DOMAIN batch
      BY <2>1
    <2> QED
      BY <1>0, <2>2
  <1>2. CASE Trigger \/ EvictNow \/ EvictCheck \/ EvictQueryFails
    <2>1. UNCHANGED <<file, size, batch, mixed>>
      BY <1>2 DEF Trigger, EvictNow, EvictCheck, EvictQueryFails, stores
    <2>2. evict' = evict \/ evict \in {"off", "loop", "query"}
      BY <1>2 DEF Trigger, EvictNow, EvictCheck, EvictQueryFails
    <2> QED
      BY <1>0, <2>1, <2>2, StillMatching DEF BatchTreated
  <1>3. CASE EvictQuery
    <2>1. /\ batch = <<>> /\ batch' = OldestRows /\ evict' \in {"off", "remove"}
          /\ mixed' = mixed \cup (Committing \cap {batch'[i].key : i \in DOMAIN batch'})
          /\ UNCHANGED <<file, size>>
      BY <1>0, <1>3 DEF EvictQuery, stores, BatchTreated
    <2>2. evict' = "remove" \/ DOMAIN batch' = {}
      <3>1. CASE lru = <<>>
        <4>1. batch' = <<>>
          BY <1>0, <2>1, <3>1, OldestTyped
        <4> QED
          BY <4>1
      <3> QED
        BY <1>3, <3>1 DEF EvictQuery
    <2>3. ASSUME NEW i \in DOMAIN batch', batch'[i].key \notin mixed'
          PROVE  /\ \A w \in Worker : pc[w] \in Commits => key[w] # batch'[i].key
                 /\ file[batch'[i].key] = size[batch'[i].key]
                 /\ batch'[i].size = size[batch'[i].key]
      <3>1. \A w \in Worker : pc[w] \in Commits => key[w] # batch'[i].key
        BY <2>1, <2>3 DEF Committing
      <3>2. IsFree(batch'[i].key)
        <4>1. DOMAIN batch = {}
          BY <2>1
        <4> QED
          BY <3>1, <4>1 DEF IsFree
      <3>3. batch'[i].key \in Keys
        <4>1. batch' \in Seq(Row)
          BY <1>0, <2>1, OldestTyped
        <4> HIDE DEF Row
        <4>2. batch'[i] \in Row
          BY <4>1
        <4> QED
          BY <4>2 DEF Row
      <3>4. batch'[i].size = size[batch'[i].key]
        BY <1>0, <2>1, OldestTyped
      <3>5. batch'[i].key \notin mixed
        BY <2>1, <2>3
      <3> QED
        BY <3>1, <3>2, <3>3, <3>4, <3>5 DEF Matching, RestMatches
    <2>4. Alone'
      BY <1>0, <2>1, <2>3 DEF Matching, Alone
    <2>5. CommitKnows'
      BY <1>0, <2>1 DEF Matching, CommitKnows, Knows
    <2>6. EvictKnows'
      BY <2>1, <2>2, <2>3 DEF EvictKnows, Treated
    <2>7. RestMatches'
      <3> SUFFICES ASSUME NEW k \in Keys, k \notin mixed', IsFree(k)' PROVE file[k] = size[k]
        BY <2>1 DEF RestMatches
      <3>1. DOMAIN batch = {}
        BY <2>1
      <3>2. IsFree(k) /\ k \notin mixed
        BY <1>0, <2>1, <3>1 DEF IsFree
      <3> QED
        BY <3>2 DEF Matching, RestMatches
    <2> QED
      BY <2>4, <2>5, <2>6, <2>7 DEF Matching
  <1>4. CASE EvictRemove \/ EvictDelete
    <2>1. /\ evict \in {"remove", "delete"} /\ batch' = batch /\ mixed' = mixed
          /\ Head(batch) = batch[1] /\ 1 \in DOMAIN batch /\ h \in Keys
      BY <1>1, <1>4 DEF EvictRemove, EvictDelete
    <2>2. \A k \in Keys : k # h => file'[k] = file[k] /\ size'[k] = size[k]
      BY <1>0, <1>4, <2>1 DEF EvictRemove, EvictDelete, DeleteRow, RowsTyped
    <2>3. \A i \in DOMAIN batch : i # 1 => batch[i].key # h
      BY <1>0, <2>1 DEF BatchTreated
    <2>4. Alone'
      BY <1>0, <2>1 DEF Matching, Alone
    <2>5. CommitKnows'
      <3> SUFFICES ASSUME NEW w \in Worker, key[w] \notin mixed, pc[w] \in Commits PROVE Knows(w)'
        BY <1>0, <2>1 DEF CommitKnows, Knows, Commits
      <3>1. key[w] # h /\ Knows(w) /\ key[w] \in Keys
        BY <1>0, <2>1 DEF Matching, Alone, CommitKnows
      <3> QED
        BY <1>0, <2>2, <3>1 DEF Knows
    <2>6. EvictKnows'
      <3> SUFFICES ASSUME NEW i \in DOMAIN batch, batch[i].key \notin mixed PROVE Treated(i)'
        BY <2>1 DEF EvictKnows
      <3>1. Treated(i) /\ batch[i].key \in Keys
        BY <1>0 DEF Matching, EvictKnows
      <3>2. CASE i # 1
        BY <2>1, <2>2, <2>3, <3>1, <3>2 DEF Treated
      <3>3. CASE i = 1 /\ EvictRemove
        <4>1. evict = "remove" /\ evict' = "delete" /\ file' = [file EXCEPT ![h] = 0] /\ size' = size
          BY <2>1, <3>3 DEF EvictRemove
        <4>2. file'[h] = 0
          BY <1>0, <2>1, <4>1 DEF RowsTyped
        <4> QED
          BY <2>1, <3>1, <3>3, <4>1, <4>2 DEF Treated
      <3>4. CASE i = 1 /\ EvictDelete
        <4>1. evict = "delete" /\ evict' = "forget" /\ size' = [size EXCEPT ![h] = 0] /\ file' = file
          BY <2>1, <3>4 DEF EvictDelete, DeleteRow
        <4>2. size'[h] = 0
          BY <1>0, <2>1, <4>1 DEF RowsTyped
        <4> QED
          BY <2>1, <3>1, <3>4, <4>1, <4>2 DEF Treated
      <3> QED
        BY <1>4, <3>2, <3>3, <3>4
    <2>7. RestMatches'
      <3> SUFFICES ASSUME NEW k \in Keys, k \notin mixed, IsFree(k)' PROVE file'[k] = size'[k]
        BY <2>1 DEF RestMatches
      <3>1. IsFree(k) /\ k # h
        BY <1>0, <2>1 DEF IsFree
      <3> QED
        BY <2>2, <3>1 DEF Matching, RestMatches
    <2> QED
      BY <2>4, <2>5, <2>6, <2>7 DEF Matching
  <1>5. CASE EvictBusy \/ EvictDeleteFails \/ EvictForget
    <2>1. /\ NextRow /\ evict \in {"remove", "delete", "forget"} /\ UNCHANGED <<file, size>>
          /\ mixed \subseteq mixed' /\ Head(batch) = batch[1] /\ 1 \in DOMAIN batch /\ h \in Keys
      BY <1>1, <1>5 DEF EvictBusy, EvictDeleteFails, EvictForget, stores
    <2>2. /\ \A i \in DOMAIN batch' : i + 1 \in DOMAIN batch /\ i + 1 # 1 /\ batch'[i] = batch[i + 1]
          /\ \A i \in DOMAIN batch : i # 1 => i - 1 \in DOMAIN batch' /\ batch'[i - 1] = batch[i]
          /\ batch' = <<>> <=> evict' = "loop"
          /\ evict' \in {"loop", "remove"}
      BY <1>0, <2>1, NextRowTyped
    <2>3. h \notin mixed' => file[h] = size[h]
      <3>1. CASE EvictBusy \/ EvictForget
        BY <2>1, <3>1 DEF EvictBusy, EvictForget, Matching, EvictKnows, Treated
      <3>2. CASE EvictDeleteFails
        BY <2>1, <3>2 DEF EvictDeleteFails
      <3> QED
        BY <1>5, <3>1, <3>2
    <2>4. Alone'
      BY <1>0, <2>1, <2>2 DEF Matching, Alone
    <2>5. CommitKnows'
      BY <1>0, <2>1 DEF Matching, CommitKnows, Knows
    <2>6. EvictKnows'
      <3> SUFFICES ASSUME NEW i \in DOMAIN batch', batch'[i].key \notin mixed' PROVE Treated(i)'
        BY DEF EvictKnows
      <3> DEFINE m == i + 1
      <3>1. m \in DOMAIN batch /\ m # 1 /\ batch'[i] = batch[m]
        BY <2>2
      <3> HIDE DEF m
      <3>2. Treated(m)
        BY <2>1, <3>1 DEF Matching, EvictKnows
      <3>3. evict' = "remove"
        <4>1. CASE batch' = <<>>
          <5>1. DOMAIN batch' = {}
            BY <4>1
          <5> QED
            BY <5>1
        <4> QED
          BY <2>2, <4>1
      <3> QED
        BY <2>1, <3>1, <3>2, <3>3 DEF Treated
    <2>7. RestMatches'
      <3> SUFFICES ASSUME NEW k \in Keys, k \notin mixed', IsFree(k)', k # h PROVE file[k] = size[k]
        BY <2>1, <2>3 DEF RestMatches
      <3>1. \A i \in DOMAIN batch : batch[i].key # k
        BY <2>2 DEF IsFree
      <3>2. IsFree(k)
        BY <1>0, <3>1 DEF IsFree
      <3> QED
        BY <2>1, <3>2 DEF Matching, RestMatches
    <2> QED
      BY <2>4, <2>5, <2>6, <2>7 DEF Matching
  <1> QED
    BY <1>2, <1>3, <1>4, <1>5 DEF Evict

LEMMA RestartMatching ==
    ASSUME Sound, Matching, Restart
    PROVE  Matching'
  <1>1. /\ UNCHANGED <<file, size>> /\ batch' = <<>>
        /\ \A w \in Worker : pc'[w] = "idle"
        /\ mixed' = mixed \cup Committing \cup Evicting
    BY DEF Restart, stores
  <1>2. DOMAIN batch' = {}
    BY <1>1
  <1>3. Alone' /\ CommitKnows' /\ EvictKnows'
    BY <1>1, <1>2 DEF Alone, CommitKnows, Knows, EvictKnows, Commits
  <1>4. RestMatches'
    BY <1>1, FreeIsQuiet DEF Matching, RestMatches
  <1> QED
    BY <1>3, <1>4 DEF Matching

LEMMA StepMatching == Sound /\ Matching /\ [Next]_vars => Matching'
  <1> SUFFICES ASSUME Sound, Matching, [Next]_vars PROVE Matching'
    OBVIOUS
  <1>1. CASE SetLimits \/ UNCHANGED vars
    BY <1>1, StillMatching DEF SetLimits, vars, stores, locals, evicting
  <1> QED
    BY <1>1, CommitMatching, GetMatching, EvictMatching, RestartMatching DEF Next

-----------------------------------------------------------------------------
(* The count *)

\* The size c[k] that the count has for k: that of the row, unless a commit has
\* yet to count its row in, or the eviction has yet to count it out.
Counts(c) ==
    \A k \in Keys :
       /\ \A w \in Worker : pc[w] = "count" /\ key[w] = k => c[k] = seen[w]
       /\ evict = "forget" /\ k = batch[1].key => c[k] = batch[1].size
       /\ (\A w \in Worker : pc[w] = "count" => key[w] # k) /\ (evict = "forget" => k # batch[1].key)
             => c[k] = size[k]

CountIsKept == mixed = {} => \E c \in [Keys -> Int] : Counts(c) /\ total = Total(c)

LEMMA SizesAreInt ==
    ASSUME Sound
    PROVE  /\ size \in [Keys -> Int]
           /\ \A k \in Keys : file[k] \in Int /\ size[k] \in Int
           /\ \A w \in Worker : key[w] \in Keys /\ n[w] \in Int /\ seen[w] \in Int
           /\ \A i \in DOMAIN batch : batch[i].key \in Keys /\ batch[i].size \in Int
           /\ total \in Int
  <1>1. \A s \in Sizes \cup {0} : s \in Int
    BY ConstantsTyped
  <1>2. \A i \in DOMAIN batch : batch[i].key \in Keys /\ batch[i].size \in Int
    BY <1>1, WorkingKeys DEF Sound, Typed
  <1>3. \A w \in Worker : key[w] \in Keys /\ n[w] \in Int /\ seen[w] \in Int
    BY <1>1 DEF Sound, Typed, LocalsTyped
  <1> QED
    BY <1>1, <1>2, <1>3 DEF Sound, Typed, RowsTyped

\* Steps that neither change a row nor begin or end to count one.
LEMMA SameCount ==
    ASSUME CountIsKept, mixed \subseteq mixed', UNCHANGED <<size, total>>,
           \A w \in Worker : pc'[w] = "count" <=> pc[w] = "count",
           \A w \in Worker : pc[w] = "count" => key'[w] = key[w] /\ seen'[w] = seen[w],
           evict' = "forget" <=> evict = "forget", evict = "forget" => batch' = batch
    PROVE  CountIsKept'
  <1> SUFFICES ASSUME mixed' = {} PROVE \E c \in [Keys -> Int] : Counts(c)' /\ total' = Total(c)
    BY DEF CountIsKept
  <1>1. PICK c \in [Keys -> Int] : Counts(c) /\ total = Total(c)
    BY DEF CountIsKept
  <1>2. Counts(c)'
    BY <1>1 DEF Counts
  <1> QED
    BY <1>1, <1>2

LEMMA CommitCounts ==
    ASSUME Sound, Matching, CountIsKept, NEW w \in Worker, Commit(w)
    PROVE  CountIsKept'
  <1>0. /\ OthersWork(w) /\ UNCHANGED <<evict, batch>>
        /\ LocalsTyped
        /\ key[w] \in Keys /\ n[w] \in Int /\ seen[w] \in Int /\ mixed \subseteq mixed'
    BY CommitLocals, SizesAreInt DEF Sound, Typed, OthersWork
  <1>1. CASE pc[w] # "count" /\ pc'[w] # "count" /\ UNCHANGED <<size, total>>
    BY <1>0, <1>1, SameCount DEF OthersWork
  <1> DEFINE k == key[w]
  <1>2. ASSUME mixed' = {}, pc[w] \in Commits
        PROVE  /\ Knows(w) /\ mixed = {}
               /\ \A v \in Worker : pc[v] = "count" /\ key[v] = k => v = w
               /\ evict = "forget" => k # batch[1].key
    <2>1. mixed = {}
      BY <1>0, <1>2
    <2>2. evict = "forget" => 1 \in DOMAIN batch
      <3>1. ASSUME evict = "forget" PROVE 1 \in DOMAIN batch
        <4> DEFINE Row == [key : Keys, size : Sizes]
        <4>1. batch \in Seq(Row) /\ batch # <<>>
          BY <3>1 DEF Sound, Typed, EvictTyped, BatchTreated
        <4> HIDE DEF Row
        <4> QED
          BY <4>1
      <3> QED
        BY <3>1
    <2> QED
      BY <1>2, <2>1, <2>2 DEF Matching, Alone, CommitKnows, Commits
  <1>3. CASE CommitUpsert(w)
    <2> SUFFICES ASSUME mixed' = {} PROVE \E c \in [Keys -> Int] : Counts(c)' /\ total' = Total(c)
      BY DEF CountIsKept
    <2>1. /\ pc[w] = "upsert" /\ pc'[w] = "count" /\ key'[w] = k /\ seen'[w] = seen[w] /\ total' = total
          /\ \A j \in Keys : j # k => size'[j] = size[j]
      BY <1>0, <1>3 DEF CommitUpsert, UpsertRow, Goto, LocalsTyped, Sound, Typed, RowsTyped
    <2>2. /\ mixed = {} /\ seen[w] = size[k]
          /\ \A v \in Worker : pc[v] = "count" => key[v] # k
          /\ evict = "forget" => k # batch[1].key
      BY <1>2, <2>1 DEF Knows, Commits
    <2>3. PICK c \in [Keys -> Int] : Counts(c) /\ total = Total(c)
      BY <2>2 DEF CountIsKept
    <2>4. c[k] = seen[w]
      BY <1>0, <2>2, <2>3 DEF Counts
    <2>5. Counts(c)'
      BY <1>0, <2>1, <2>2, <2>3, <2>4 DEF Counts, OthersWork
    <2> QED
      BY <2>1, <2>3, <2>5
  <1>4. CASE CommitCount(w)
    <2> SUFFICES ASSUME mixed' = {} PROVE \E c \in [Keys -> Int] : Counts(c)' /\ total' = Total(c)
      BY DEF CountIsKept
    <2>1. /\ pc[w] = "count" /\ pc'[w] = "idle" /\ total' = total + n[w] - seen[w] /\ size' = size
      BY <1>0, <1>4 DEF CommitCount, Return, LocalsTyped, stores
    <2>2. /\ mixed = {} /\ size[k] = n[w]
          /\ \A v \in Worker : pc[v] = "count" /\ key[v] = k => v = w
          /\ evict = "forget" => k # batch[1].key
      BY <1>2, <2>1 DEF Knows, Commits
    <2>3. PICK c \in [Keys -> Int] : Counts(c) /\ total = Total(c)
      BY <2>2 DEF CountIsKept
    <2>4. c[k] = seen[w] /\ size[k] \in Int
      BY <1>0, <2>1, <2>2, <2>3 DEF Counts
    <2>9. PICK d : d = [c EXCEPT ![k] = size[k]]
      OBVIOUS
    <2>5. d \in [Keys -> Int] /\ d[k] = size[k] /\ \A j \in Keys : j # k => d[j] = c[j]
      BY <1>0, <2>4, <2>9
    <2>6. Total(d) = Total(c) + size[k] - c[k]
      BY <1>0, <2>4, <2>9, TotalOfExcept
    <2>7. total' = Total(d)
      BY <1>0, <2>1, <2>2, <2>3, <2>4, <2>6, SizesAreInt
    <2>8. Counts(d)'
      BY <1>0, <2>1, <2>2, <2>3, <2>5 DEF Counts, OthersWork
    <2> QED
      BY <2>5, <2>7, <2>8
  <1>5. CASE ~CommitUpsert(w) /\ ~CommitCount(w)
    <2>1. UNCHANGED <<size, total>>
      BY <1>5 DEF Commit, CommitStart, CommitDiscard, CommitRename, CommitReadOld, CommitReadOldFails,
             CommitUpsertFails, stores
    <2>2. pc[w] # "count" /\ pc'[w] # "count"
      BY <1>0, <1>5 DEF Commit, CommitStart, CommitDiscard, CommitRename, CommitReadOld, CommitReadOldFails,
             CommitUpsertFails, Goto, Return, LocalsTyped
    <2> QED
      BY <1>1, <2>1, <2>2
  <1> QED
    BY <1>3, <1>4, <1>5

LEMMA GetCounts ==
    ASSUME Sound, CountIsKept, NEW w \in Worker, Get(w)
    PROVE  CountIsKept'
  <1>0. /\ OthersWork(w) /\ UNCHANGED <<evict, batch>> /\ mixed \subseteq mixed'
        /\ pc[w] # "count" /\ pc'[w] # "count"
    BY GetLocals DEF OthersWork, Commits, Gets
  <1>1. CASE UNCHANGED <<size, total>>
    BY <1>0, <1>1, SameCount DEF OthersWork
  <1>2. CASE GetDrop(w) \/ GetForget(w)
    <2>1. key[w] \in mixed'
      BY <1>2 DEF GetDrop, GetForget, Sound, LocalsSound
    <2> QED
      BY <2>1 DEF CountIsKept
  <1> QED
    BY <1>1, <1>2 DEF Get, GetMeta, GetOpen, GetMissing, GetTouch, GetFails, stores

LEMMA EvictCounts ==
    ASSUME Sound, Matching, CountIsKept, Evict
    PROVE  CountIsKept'
  <1>0. /\ UNCHANGED <<pc, key, n, seen>> /\ mixed \subseteq mixed'
        /\ BatchTreated /\ LocalsTyped /\ EvictTyped
    <2>1. UNCHANGED <<pc, key, n, seen>> /\ mixed \subseteq mixed'
      BY DEF Evict, Trigger, EvictNow, EvictCheck, EvictQuery, EvictQueryFails, EvictRemove, EvictBusy,
             EvictDelete, EvictDeleteFails, EvictForget, locals
    <2> QED
      BY <2>1 DEF Sound, Typed
  <1> DEFINE h == batch[1].key
  <1>1. CASE UNCHANGED <<size, total>> /\ (evict = "forget" <=> evict' = "forget") /\ (evict = "forget" => batch' = batch)
    BY <1>0, <1>1, SameCount
  <1>2. ASSUME evict \in {"remove", "delete", "forget"}
        PROVE  Head(batch) = batch[1] /\ 1 \in DOMAIN batch /\ h \in Keys
    <2> DEFINE Row == [key : Keys, size : Sizes]
    <2>1. batch \in Seq(Row) /\ batch # <<>>
      BY <1>0, <1>2 DEF EvictTyped, BatchTreated
    <2> HIDE DEF Row
    <2>2. Head(batch) = batch[1] /\ 1 \in DOMAIN batch
      BY <2>1
    <2> QED
      BY <2>2, SizesAreInt
  <1>3. ASSUME mixed = {}, evict \in {"delete", "forget"}
        PROVE  /\ Treated(1)
               /\ \A w \in Worker : pc[w] = "count" => key[w] # h
    BY <1>2, <1>3 DEF Matching, EvictKnows, Alone, Commits
  <1>4. CASE EvictDelete
    <2> SUFFICES ASSUME mixed' = {} PROVE \E c \in [Keys -> Int] : Counts(c)' /\ total' = Total(c)
      BY DEF CountIsKept
    <2>1. /\ evict = "delete" /\ evict' = "forget" /\ total' = total /\ batch' = batch /\ h \in Keys /\ mixed = {}
          /\ \A j \in Keys : j # h => size'[j] = size[j]
      BY <1>0, <1>2, <1>4 DEF EvictDelete, DeleteRow, Sound, Typed, RowsTyped
    <2>2. size[h] = batch[1].size /\ \A w \in Worker : pc[w] = "count" => key[w] # h
      BY <1>3, <2>1 DEF Treated
    <2>3. PICK c \in [Keys -> Int] : Counts(c) /\ total = Total(c)
      BY <2>1 DEF CountIsKept
    <2>4. c[h] = batch[1].size
      BY <2>1, <2>2, <2>3 DEF Counts
    <2>5. Counts(c)'
      BY <1>0, <2>1, <2>2, <2>3, <2>4 DEF Counts
    <2> QED
      BY <2>1, <2>3, <2>5
  <1>5. CASE EvictForget
    <2> SUFFICES ASSUME mixed' = {} PROVE \E c \in [Keys -> Int] : Counts(c)' /\ total' = Total(c)
      BY DEF CountIsKept
    <2>1. /\ evict = "forget" /\ total' = total - batch[1].size /\ h \in Keys /\ mixed = {}
          /\ size' = size /\ NextRow /\ 1 \in DOMAIN batch
      BY <1>0, <1>2, <1>5 DEF EvictForget, stores
    <2>2. evict' \in {"loop", "remove"}
      BY <2>1 DEF NextRow
    <2>3. size[h] = 0 /\ \A w \in Worker : pc[w] = "count" => key[w] # h
      BY <1>3, <2>1 DEF Treated
    <2>4. PICK c \in [Keys -> Int] : Counts(c) /\ total = Total(c)
      BY <2>1 DEF CountIsKept
    <2>10. PICK d : d = [c EXCEPT ![h] = 0]
      OBVIOUS
    <2>5. c[h] = batch[1].size /\ batch[1].size \in Int
      BY <2>1, <2>4, SizesAreInt DEF Counts
    <2>6. d \in [Keys -> Int] /\ d[h] = 0 /\ \A j \in Keys : j # h => d[j] = c[j]
      BY <2>1, <2>10
    <2>7. Total(d) = Total(c) + 0 - c[h]
      <3>1. 0 \in Int
        OBVIOUS
      <3> HIDE DEF h
      <3> QED
        BY <2>1, <2>10, <3>1, TotalOfExcept
    <2>8. total' = Total(d)
      BY <2>1, <2>4, <2>5, <2>7, SizesAreInt
    <2>9. Counts(d)'
      BY <1>0, <2>1, <2>2, <2>3, <2>4, <2>6 DEF Counts
    <2> QED
      BY <2>6, <2>8, <2>9
  <1>6. CASE EvictBusy
    BY <1>1, <1>6 DEF EvictBusy, NextRow, stores
  <1>7. CASE EvictDeleteFails
    BY <1>7 DEF EvictDeleteFails, CountIsKept
  <1> QED
    BY <1>1, <1>4, <1>5, <1>6, <1>7
    DEF Evict, Trigger, EvictNow, EvictCheck, EvictQuery, EvictQueryFails, EvictRemove, stores

LEMMA RestartCounts ==
    ASSUME Sound, Restart
    PROVE  CountIsKept'
  <1> SUFFICES ASSUME mixed' = {} PROVE \E c \in [Keys -> Int] : Counts(c)' /\ total' = Total(c)
    BY DEF CountIsKept
  <1>1. total' = Total(size) /\ size \in [Keys -> Int]
    BY SumIsInt, SizesAreInt DEF Restart, Sound, Typed
  <1>2. size' = size /\ evict' = "loop" /\ \A w \in Worker : pc'[w] = "idle"
    BY DEF Restart, stores
  <1>3. Counts(size)'
    BY <1>2 DEF Counts
  <1>4. Counts(size)' => \E c \in [Keys -> Int] : Counts(c)' /\ total' = Total(c)
    BY <1>1, <1>2 DEF Counts
  <1> QED
    BY <1>3, <1>4

LEMMA StepCounts == Sound /\ Matching /\ CountIsKept /\ [Next]_vars => CountIsKept'
  <1> SUFFICES ASSUME Sound, Matching, CountIsKept, [Next]_vars PROVE CountIsKept'
    OBVIOUS
  <1>1. CASE SetLimits \/ UNCHANGED vars
    BY <1>1, SameCount DEF SetLimits, vars, stores, locals, evicting
  <1> QED
    BY <1>1, CommitCounts, GetCounts, EvictCounts, RestartCounts DEF Next

-----------------------------------------------------------------------------

\* The inductive invariant: what whoever works on a key knows of its file and
\* its row, and what the count has for every key.
IInv == Sound /\ Matching /\ CountIsKept

LEMMA InitIInv == Init => IInv
  <1> SUFFICES ASSUME Init PROVE IInv
    OBVIOUS
  <1>1. lru = <<>> /\ batch = <<>> /\ DOMAIN batch = {} /\ DOMAIN lru = {}
    BY DEF Init
  <1>2. Sound
    <2>1. lru \in Seq(Keys) /\ IsInjective(lru) /\ ToSet(lru) = {}
      BY <1>1 DEF IsInjective, ToSet
    <2>2. batch \in Seq([key : Keys, size : Sizes])
      BY <1>1
    <2>3. RowsTyped
      BY <2>1 DEF Init, RowsTyped
    <2>4. LocalsTyped
      BY ConstantsTyped DEF Init, LocalsTyped
    <2>5. watermark \in Watermarks
      BY ConstantsTyped DEF Init
    <2> QED
      BY <1>1, <2>2, <2>3, <2>4, <2>5 DEF Init, Sound, Typed, EvictTyped, BatchTreated, LocalsSound, Commits
  <1>3. Matching
    BY <1>1 DEF Init, Matching, Alone, CommitKnows, Knows, EvictKnows, RestMatches, Commits
  <1>4. CountIsKept
    <2> DEFINE c == [k \in Keys |-> 0]
    <2>1. c \in [Keys -> Int] /\ total = Total(c)
      BY TotalOfNothing DEF Init
    <2>2. Counts(c)
      BY DEF Init, Counts
    <2> QED
      BY <2>1, <2>2 DEF CountIsKept
  <1> QED
    BY <1>2, <1>3, <1>4 DEF IInv

\* The three parts are preserved together by every step.
THEOREM CacheInductive == Spec => []IInv
  <1>1. IInv /\ [Next]_vars => IInv'
    BY StepSound, StepMatching, StepCounts DEF IInv
  <1> QED
    BY InitIInv, <1>1, PTL DEF Spec

\* Every variable of DiskLRU keeps its type; the order lru names every row, and
\* none twice.
THEOREM CacheTypeCorrect == Spec => []TypeOK
  <1>1. IInv => TypeOK
    BY DEF IInv, Sound, Typed, RowsTyped, LocalsTyped, EvictTyped, TypeOK
  <1> QED
    BY <1>1, CacheInductive, PTL

\* Row and file agree on every key nothing is at work on and on which no two
\* operations met, for any keys, goroutines and batches (disklru.go:255, :341).
THEOREM RowsAreTheFiles == Spec => []RowsMatchFiles
  <1>1. IInv => RowsMatchFiles
    BY FreeIsQuiet DEF IInv, Matching, RestMatches, RowsMatchFiles, Quiet
  <1> QED
    BY <1>1, CacheInductive, PTL

\* The count in memory is the sum of the rows when nothing is under way and no
\* two operations have met on a key (disklru.go:63, :272, :350).
THEOREM TotalIsTheSum == Spec => []TotalIsSumUnmixed
  <1>1. IInv => TotalIsSumUnmixed
    <2> SUFFICES ASSUME IInv, mixed = {}, \A k \in Keys : Quiet(k) PROVE total = Sum
      BY DEF TotalIsSumUnmixed
    <2>1. PICK c \in [Keys -> Int] : Counts(c) /\ total = Total(c)
      BY DEF IInv, CountIsKept
    <2>2. ASSUME NEW k \in Keys PROVE c[k] = size[k]
      <3>1. IsFree(k)
        BY FreeIsQuiet DEF Quiet
      <3>2. evict = "forget" => k # batch[1].key
        <4>1. ASSUME evict = "forget" PROVE 1 \in DOMAIN batch
          <5> DEFINE Row == [key : Keys, size : Sizes]
          <5>1. batch \in Seq(Row) /\ batch # <<>>
            BY <4>1 DEF IInv, Sound, Typed, EvictTyped, BatchTreated
          <5> HIDE DEF Row
          <5> QED
            BY <5>1
        <4> QED
          BY <3>1, <4>1 DEF IsFree
      <3> QED
        BY <2>1, <3>1, <3>2 DEF Counts, IsFree, Commits
    <2>3. c = size
      BY <2>2 DEF IInv, Sound, Typed, RowsTyped
    <2> QED
      BY <2>1, <2>3, SumIsInt DEF IInv, Sound, Typed
  <1> QED
    BY <1>1, CacheInductive, PTL
=============================================================================
