------------------------- MODULE SyncService_proofs -------------------------
(***************************************************************************)
(* Theorems about SyncService, for any devices, keys, batches, page limit  *)
(* and retention window.                                                   *)
(***************************************************************************)
EXTENDS SyncService, FiniteSetTheorems, TLAPS

-----------------------------------------------------------------------------
(* Facts about the operators.                                              *)

\* The indices of the accepted items are indices of the batch.
LEMMA AcceptedIndices ==
    ASSUME NEW b \in Batches \cup {<<>>}
    PROVE  /\ b \in Seq(Item)
           /\ Accepted(b) \subseteq 1 .. Len(b)
           /\ Accepted(b) \subseteq Nat \ {0}
           /\ IsFiniteSet(Accepted(b))
           /\ Cardinality(Accepted(b)) \in Nat
<1>1. b \in Seq(Item) /\ Len(b) \in Nat /\ DOMAIN b = 1 .. Len(b)
  <2>1. CASE b \in Batches
    BY <2>1, SyncAssumption
  <2>2. CASE b = <<>>
    BY <2>2
  <2> QED
    BY <2>1, <2>2
<1>2. Accepted(b) \subseteq 1 .. Len(b)
  BY <1>1 DEF Accepted
<1>3. IsFiniteSet(1 .. Len(b))
  BY <1>1, FS_Interval
<1>4. IsFiniteSet(Accepted(b)) /\ Cardinality(Accepted(b)) \in Nat
  BY <1>2, <1>3, FS_Subset, FS_CardinalityType
<1> QED
  BY <1>1, <1>2, <1>4

\* Items further down the batch get larger numbers, and all of the numbers
\* fit between the first number and the token.
LEMMA RanksIncrease ==
    ASSUME NEW acc, acc \subseteq Nat, IsFiniteSet(acc),
           NEW i \in acc, NEW j \in acc
    PROVE  LET rank(n) == Cardinality({m \in acc : m < n})
           IN  /\ rank(i) \in Nat
               /\ rank(i) + 1 <= Cardinality(acc)
               /\ i < j => rank(i) < rank(j)
<1> DEFINE below(n) == {m \in acc : m < n}
<1>1. \A n : IsFiniteSet(below(n)) /\ Cardinality(below(n)) \in Nat
  <2> TAKE n
  <2>1. below(n) \in SUBSET acc
    OBVIOUS
  <2> QED
    BY <2>1, FS_Subset, FS_CardinalityType
<1>2. i \notin below(i)
  OBVIOUS
<1>3. /\ IsFiniteSet(below(i) \cup {i})
      /\ Cardinality(below(i) \cup {i}) = Cardinality(below(i)) + 1
  <2> HIDE DEF below
  <2> QED
    BY <1>1, <1>2, FS_AddElement
<1>4. Cardinality(below(i) \cup {i}) <= Cardinality(acc)
  <2>1. below(i) \cup {i} \in SUBSET acc
    OBVIOUS
  <2> QED
    BY <2>1, FS_Subset
<1>5. ASSUME i < j
      PROVE  Cardinality(below(i) \cup {i}) <= Cardinality(below(j))
  <2>1. \A m \in acc : m < i => m < j
    BY <1>5
  <2>2. below(i) \cup {i} \in SUBSET below(j)
    BY <2>1, <1>5
  <2> HIDE DEF below
  <2> QED
    BY <2>2, <1>1, FS_Subset
<1>6. Cardinality(acc) \in Nat
  BY FS_CardinalityType
<1>7. Cardinality(below(i)) \in Nat /\ Cardinality(below(j)) \in Nat
  BY <1>1
<1>8. Cardinality(below(i)) + 1 <= Cardinality(acc)
  <2> HIDE DEF below
  <2> QED BY <1>3, <1>4
<1>9. i < j => Cardinality(below(i)) < Cardinality(below(j))
  <2> HIDE DEF below
  <2> QED BY <1>3, <1>5, <1>7
<1> QED
  BY <1>7, <1>8, <1>9

\* Next: the first number is above the current token and at least 1, and n
\* numbers from it on end at the new token.
LEMMA NextAdvances ==
    ASSUME NEW n \in Nat, NEW ms \in Nat, cur \in Nat
    PROVE  /\ NextSeq(ms) \in Nat
           /\ NextToken(n, ms) \in Nat
           /\ cur < NextSeq(ms)
           /\ ms <= NextSeq(ms)
           /\ NextSeq(ms) <= NextToken(n, ms)
           /\ n > 0 => NextToken(n, ms) = NextSeq(ms) + n - 1
BY DEF NextSeq, NextToken

-----------------------------------------------------------------------------
(* PushAlloc is the step that everything about numbers rests on.           *)

LEMMA AllocatedRows ==
    ASSUME TypeOK, NEW d \in Device, PushAlloc(d)
    PROVE  /\ cur' \in Nat
           /\ cur < cur'
           /\ token' = [token EXCEPT ![d] = cur']
           /\ \E rows \in [Keys -> Row] :
                 /\ writes' = [writes EXCEPT ![d] = rows]
                 /\ \A k \in Keys : Present(rows[k]) =>
                       /\ cur < rows[k].seq
                       /\ nowMs[d] <= rows[k].seq
                       /\ rows[k].seq <= cur'
                       /\ Present(entries[k]) => entries[k].at < rows[k].at
                 /\ \A j, k \in Keys :
                       j # k /\ Present(rows[j]) => rows[j].seq # rows[k].seq
<1> DEFINE b == items[d]
           acc == Accepted(b)
           ms == nowMs[d]
           first == NextSeq(ms)
           new == NextToken(Cardinality(acc), ms)
           rank(i) == Cardinality({m \in acc : m < i})
<1>1. b \in Batches \cup {<<>>} /\ ms \in Nat /\ cur \in Nat
  BY DEF TypeOK
<1>2. /\ b \in Seq(Item)
      /\ acc \subseteq 1 .. Len(b)
      /\ acc \subseteq Nat \ {0}
      /\ IsFiniteSet(acc)
      /\ Cardinality(acc) \in Nat
  <2> HIDE DEF b
  <2> QED BY <1>1, AcceptedIndices
<1>3. /\ first \in Nat
      /\ new \in Nat
      /\ cur < first
      /\ ms <= first
      /\ first <= new
      /\ Cardinality(acc) > 0 => new = first + Cardinality(acc) - 1
  BY <1>1, <1>2, NextAdvances
<1>4. cur' = new /\ token' = [token EXCEPT ![d] = new]
  BY DEF PushAlloc
<1>5. PICK last \in [Keys -> acc \cup {0}] :
          LET rows == [k \in Keys |->
                         IF last[k] = 0 THEN NoRow ELSE RowOf(b, acc, last[k], first)]
          IN  /\ Upserts(b, acc, first, rows)
              /\ writes' = [writes EXCEPT ![d] = rows]
  BY DEF PushAlloc
<1> DEFINE rows == [k \in Keys |->
                      IF last[k] = 0 THEN NoRow ELSE RowOf(b, acc, last[k], first)]
<1>6. \A i \in acc :
          /\ rank(i) \in Nat
          /\ rank(i) + 1 <= Cardinality(acc)
          /\ \A j \in acc : i < j => rank(i) < rank(j)
  <2> HIDE DEF acc
  <2> QED BY <1>2, RanksIncrease
<1>7. \A i \in acc :
          /\ RowOf(b, acc, i, first) \in Row
          /\ RowOf(b, acc, i, first).seq = first + rank(i)
          /\ RowOf(b, acc, i, first).at = b[i].at
          /\ cur < first + rank(i)
          /\ ms <= first + rank(i)
          /\ first + rank(i) <= new
  <2> TAKE i \in acc
  <2>1. b[i] \in Item
    BY <1>2
  <2>2. b[i].at \in Nat /\ b[i].deleted \in BOOLEAN
    BY <2>1 DEF Item
  <2>3. rank(i) \in Nat /\ rank(i) + 1 <= Cardinality(acc)
    BY <1>6
  <2> HIDE DEF b, acc, first, new, rank, ms
  <2>4. /\ cur < first + rank(i) /\ ms <= first + rank(i)
        /\ first + rank(i) <= new /\ first + rank(i) \in Nat
    BY <2>3, <1>1, <1>2, <1>3
  <2>5. RowOf(b, acc, i, first) = [at |-> b[i].at, deleted |-> b[i].deleted,
                                   seq |-> first + rank(i)]
    BY DEF RowOf, rank
  <2> QED
    BY <2>2, <2>4, <2>5 DEF Row
<1>8. \A k \in Keys : last[k] # 0 =>
          /\ last[k] \in acc
          /\ b[last[k]].key = k
  <2> TAKE k \in Keys
  <2> HAVE last[k] # 0
  <2>1. last[k] \in acc
    OBVIOUS
  <2>2. rows[k] = RowOf(b, acc, last[k], first)
    OBVIOUS
  <2>3. rows[k].seq > 0
    <3>1. rows[k].seq = first + rank(last[k]) /\ cur < first + rank(last[k])
      BY <2>1, <2>2, <1>7
    <3>2. rank(last[k]) \in Nat /\ first \in Nat
      BY <2>1, <1>3, <1>6
    <3> HIDE DEF rows, rank, first
    <3> QED
      BY <1>1, <3>1, <3>2
  <2>4. PICK i \in acc : b[i].key = k /\ rows[k] = RowOf(b, acc, i, first)
    BY <1>5, <2>3 DEF Upserts, NoRow
  <2>5. rank(i) = rank(last[k])
    <3>1. first + rank(i) = first + rank(last[k])
      BY <2>1, <2>2, <2>4, <1>7
    <3>2. rank(i) \in Nat /\ rank(last[k]) \in Nat /\ first \in Nat
      BY <2>1, <1>6, <1>3
    <3> HIDE DEF rank, first
    <3> QED
      BY <3>1, <3>2
  <2>6. i = last[k]
    <3>1. i \in Nat /\ last[k] \in Nat
      BY <2>1, <1>2
    <3>2. ~(i < last[k]) /\ ~(last[k] < i)
      <4>1. /\ i < last[k] => rank(i) < rank(last[k])
            /\ last[k] < i => rank(last[k]) < rank(i)
        BY <2>1, <1>6
      <4>2. rank(i) \in Nat /\ rank(last[k]) \in Nat
        BY <2>1, <1>6
      <4> HIDE DEF rank
      <4> QED
        BY <4>1, <4>2, <2>5
    <3> QED
      BY <3>1, <3>2
  <2> QED
    BY <2>1, <2>4, <2>6
<1>9. rows \in [Keys -> Row]
  <2>1. NoRow \in Row
    BY DEF NoRow, Row
  <2>2. \A k \in Keys : rows[k] \in Row
    BY <2>1, <1>7, <1>8
  <2> QED
    BY <2>2
<1>10. ASSUME NEW k \in Keys, Present(rows[k])
       PROVE  /\ last[k] # 0
              /\ rows[k] = RowOf(b, acc, last[k], first)
  BY <1>10 DEF Present, NoRow
<1>11. ASSUME NEW k \in Keys, Present(rows[k])
       PROVE  /\ cur < rows[k].seq
              /\ ms <= rows[k].seq
              /\ rows[k].seq <= new
              /\ Present(entries[k]) => entries[k].at < rows[k].at
  <2>1. last[k] \in acc /\ b[last[k]].key = k /\ rows[k] = RowOf(b, acc, last[k], first)
    BY <1>8, <1>10, <1>11
  <2>2. Present(entries[k]) => entries[k].at < b[last[k]].at
    BY <2>1 DEF Accepted
  <2> QED
    BY <2>1, <2>2, <1>7
<1>12. ASSUME NEW j \in Keys, NEW k \in Keys, j # k, Present(rows[j])
       PROVE  rows[j].seq # rows[k].seq
  <2>1. CASE ~Present(rows[k])
    BY <2>1, <1>9, <1>12 DEF Present, Row
  <2>2. CASE Present(rows[k])
    <3>1. /\ last[j] \in acc /\ b[last[j]].key = j /\ rows[j] = RowOf(b, acc, last[j], first)
          /\ last[k] \in acc /\ b[last[k]].key = k /\ rows[k] = RowOf(b, acc, last[k], first)
      BY <1>8, <1>10, <1>12, <2>2
    <3>2. last[j] # last[k] /\ last[j] \in Nat /\ last[k] \in Nat
      BY <3>1, <1>2, <1>12
    <3>3. rank(last[j]) # rank(last[k])
      <4>1. /\ last[j] < last[k] => rank(last[j]) < rank(last[k])
            /\ last[k] < last[j] => rank(last[k]) < rank(last[j])
            /\ rank(last[j]) \in Nat /\ rank(last[k]) \in Nat
        BY <3>1, <1>6
      <4> HIDE DEF rank
      <4> QED
        BY <3>2, <4>1
    <3>4. rows[j].seq = first + rank(last[j]) /\ rows[k].seq = first + rank(last[k])
      BY <3>1, <1>7
    <3>5. rank(last[j]) \in Nat /\ rank(last[k]) \in Nat /\ first \in Nat
      BY <3>1, <1>3, <1>6
    <3> HIDE DEF rank, first, rows
    <3> QED
      BY <3>3, <3>4, <3>5
  <2> QED
    BY <2>1, <2>2
<1>13. writes' = [writes EXCEPT ![d] = rows]
  BY <1>5
<1> HIDE DEF rows, new, b, acc, first
<1>14. cur < cur' /\ cur' \in Nat
  BY <1>1, <1>3, <1>4
<1> QED
  BY <1>4, <1>9, <1>11, <1>12, <1>13, <1>14

-----------------------------------------------------------------------------
(* Type correctness, one lemma per action that writes more than pc.        *)

LEMMA NoRowIsRow == NoRow \in Row /\ NoRows \in [Keys -> Row] /\ ~Present(NoRow)
BY DEF NoRow, NoRows, Row, Present

LEMMA PushArriveTypes ==
    ASSUME TypeOK, NEW d \in Device, PushArrive(d)
    PROVE  TypeOK'
BY DEF TypeOK, PushArrive, serverVars, pullVars, deviceVars

LEMMA PushAllocTypes ==
    ASSUME TypeOK, NEW d \in Device, PushAlloc(d)
    PROVE  TypeOK'
<1>1. /\ cur' \in Nat
      /\ token' = [token EXCEPT ![d] = cur']
      /\ \E rows \in [Keys -> Row] : writes' = [writes EXCEPT ![d] = rows]
  BY AllocatedRows
<1>2. /\ pushMu' = d
      /\ pc' = [pc EXCEPT ![d] = "pushTx"]
      /\ UNCHANGED <<now, domTok, entries, items, nowMs, pullVars, deviceVars>>
  BY DEF PushAlloc
<1> QED
  BY <1>1, <1>2 DEF TypeOK, pullVars, deviceVars

LEMMA PushCommitTypes ==
    ASSUME TypeOK, NEW d \in Device, PushCommit(d)
    PROVE  TypeOK'
<1>1. AfterPush(d) \in [Keys -> Row]
  BY NoRowIsRow DEF TypeOK, AfterPush
<1> QED
  BY <1>1, NoRowIsRow DEF TypeOK, PushCommit, PushEnds, pullVars, deviceVars

LEMMA PushFailTypes ==
    ASSUME TypeOK, NEW d \in Device, PushFail(d)
    PROVE  TypeOK'
BY NoRowIsRow DEF TypeOK, PushFail, PushEnds, pullVars, deviceVars

LEMMA RejectTypes ==
    ASSUME TypeOK, NEW d \in Device, PushReject(d) \/ PullReject(d)
    PROVE  TypeOK'
<1>1. /\ cursor' = [cursor EXCEPT ![d] = 0]
      /\ replica' = [replica EXCEPT ![d] = NoRows]
      /\ raced' = [raced EXCEPT ![d] = FALSE]
      /\ UNCHANGED <<serverVars, pc, pushVars, pullVars>>
  BY DEF PushReject, PullReject, DeviceStartsOver
<1>2. replica' \in [Device -> [Keys -> Row]] /\ cursor' \in [Device -> Nat]
  BY <1>1, NoRowIsRow DEF TypeOK
<1>3. raced' \in [Device -> BOOLEAN]
  BY <1>1 DEF TypeOK
<1> QED
  BY <1>1, <1>2, <1>3 DEF TypeOK, serverVars, pushVars, pullVars

LEMMA PullQueryTypes ==
    ASSUME TypeOK, NEW d \in Device, PullQuery(d)
    PROVE  TypeOK'
<1>1. PICK ks \in SUBSET Fresh(d), seq \in {entries[k].seq : k \in Fresh(d)} \cup {0} :
          /\ page' = [page EXCEPT ![d] = [k \in Keys |->
                                            IF k \in ks THEN entries[k] ELSE NoRow]]
          /\ pageEnd' = [pageEnd EXCEPT ![d] = seq]
  BY DEF PullQuery
<1>2. seq \in Nat
  BY DEF TypeOK, Fresh, Row
<1>3. [k \in Keys |-> IF k \in ks THEN entries[k] ELSE NoRow] \in [Keys -> Row]
  BY NoRowIsRow DEF TypeOK
<1>4. /\ seenTok' = [seenTok EXCEPT ![d] = domTok]
      /\ raced' \in [Device -> BOOLEAN]
      /\ pc' = [pc EXCEPT ![d] = "pullToken"]
      /\ UNCHANGED <<serverVars, pushVars, cursor, replica>>
  BY DEF PullQuery, TypeOK
<1> QED
  BY <1>1, <1>2, <1>3, <1>4 DEF TypeOK, serverVars, pushVars

LEMMA PullRespondTypes ==
    ASSUME TypeOK, NEW d \in Device, PullRespond(d)
    PROVE  TypeOK'
<1>1. [k \in Keys |-> IF Present(page[d][k]) THEN page[d][k] ELSE replica[d][k]]
          \in [Keys -> Row]
  BY DEF TypeOK
<1> QED
  BY <1>1, NoRowIsRow DEF TypeOK, PullRespond, PullEnds, serverVars, pushVars

LEMMA OtherTypes ==
    ASSUME TypeOK,
           \/ \E d \in Device : PullArrive(d) \/ PullFail(d)
           \/ Tick \/ Restart \/ UNCHANGED vars
    PROVE  TypeOK'
<1>1. ASSUME NEW d \in Device, PullArrive(d) \/ PullFail(d)
      PROVE  TypeOK'
  <2>1. CASE PullArrive(d)
    BY <2>1 DEF TypeOK, PullArrive, serverVars, pushVars, pullVars, deviceVars
  <2>2. CASE PullFail(d)
    BY <2>2, NoRowIsRow DEF TypeOK, PullFail, PullEnds, serverVars, pushVars, deviceVars
  <2> QED
    BY <1>1, <2>1, <2>2
<1>2. CASE Tick
  <2>1. now' \in Nat
    BY <1>2, SyncAssumption DEF Tick, TypeOK
  <2> QED
    BY <1>2, <2>1 DEF TypeOK, Tick, pushVars, pullVars, deviceVars
<1>3. CASE Restart
  <2>1. /\ pc' = [d \in Device |-> "idle"]
        /\ items' = [d \in Device |-> <<>>]
        /\ writes' = [d \in Device |-> NoRows]
        /\ page' = [d \in Device |-> NoRows]
        /\ \A f \in {nowMs', token', pageEnd', seenTok'} : f = [d \in Device |-> 0]
        /\ cur' = domTok
        /\ pushMu' = NoDevice
        /\ UNCHANGED <<now, domTok, entries, deviceVars>>
    BY <1>3 DEF Restart
  <2>2. writes' \in [Device -> [Keys -> Row]] /\ page' \in [Device -> [Keys -> Row]]
    BY <2>1, NoRowIsRow
  <2>3. \A f \in {nowMs', token', pageEnd', seenTok'} : f \in [Device -> Nat]
    BY <2>1
  <2> QED
    BY <2>1, <2>2, <2>3 DEF TypeOK, deviceVars
<1>4. CASE UNCHANGED vars
  BY <1>4 DEF TypeOK, vars, serverVars, pushVars, pullVars, deviceVars
<1> QED
  BY <1>1, <1>2, <1>3, <1>4

\* Every variable keeps its type.
THEOREM TypeCorrect == Spec => []TypeOK
<1>1. Init => TypeOK
  BY NoRowIsRow, SyncAssumption DEF Init, TypeOK
<1>2. TypeOK /\ [Next]_vars => TypeOK'
  BY PushArriveTypes, PushAllocTypes, PushCommitTypes, PushFailTypes, RejectTypes,
     PullQueryTypes, PullRespondTypes, OtherTypes DEF Next, Push, Pull
<1> QED
  BY <1>1, <1>2, PTL DEF Spec

-----------------------------------------------------------------------------
(* Numbers: SeqOrder is inductive relative to the types.                   *)

\* The steps that neither open, close nor commit a push.
LEMMA SeqOrderBystander ==
    ASSUME SeqOrder,
           UNCHANGED <<cur, domTok, entries, pushMu, token, writes>>,
           \A d \in Device : /\ pc'[d] = "pushTx" <=> pc[d] = "pushTx"
                             /\ pc[d] = "pushTx" => nowMs'[d] = nowMs[d]
    PROVE  SeqOrder'
BY DEF SeqOrder, MutexOwned, CommittedOrder, OpenPushOrder

LEMMA BystanderSteps ==
    ASSUME TypeOK,
           \/ \E d \in Device : \/ PushArrive(d) \/ PushReject(d) \/ Pull(d)
           \/ Tick \/ UNCHANGED vars
    PROVE  /\ UNCHANGED <<cur, domTok, entries, pushMu, token, writes>>
           /\ \A d \in Device : /\ pc'[d] = "pushTx" <=> pc[d] = "pushTx"
                                /\ pc[d] = "pushTx" => nowMs'[d] = nowMs[d]
<1>1. ASSUME NEW e \in Device, PushArrive(e) \/ PushReject(e) \/ Pull(e)
      PROVE  /\ UNCHANGED <<cur, domTok, entries, pushMu, token, writes>>
             /\ \A d \in Device : /\ pc'[d] = "pushTx" <=> pc[d] = "pushTx"
                                  /\ pc[d] = "pushTx" => nowMs'[d] = nowMs[d]
  <2>1. CASE PushArrive(e)
    BY <2>1 DEF PushArrive, serverVars, TypeOK
  <2>2. CASE PushReject(e) \/ PullReject(e)
    BY <2>2 DEF PushReject, PullReject, serverVars, pushVars
  <2>3. CASE PullArrive(e)
    BY <2>3 DEF PullArrive, serverVars, pushVars, TypeOK
  <2>4. CASE PullQuery(e)
    BY <2>4 DEF PullQuery, serverVars, pushVars, TypeOK
  <2>5. CASE PullRespond(e)
    BY <2>5 DEF PullRespond, PullEnds, serverVars, pushVars, TypeOK
  <2>6. CASE PullFail(e)
    BY <2>6 DEF PullFail, PullEnds, serverVars, pushVars, TypeOK
  <2> QED
    BY <1>1, <2>1, <2>2, <2>3, <2>4, <2>5, <2>6 DEF Pull
<1>2. CASE Tick
  BY <1>2 DEF Tick, pushVars
<1>3. CASE UNCHANGED vars
  BY <1>3 DEF vars, serverVars, pushVars
<1> QED
  BY <1>1, <1>2, <1>3

LEMMA SeqOrderPushAlloc ==
    ASSUME TypeOK, SeqOrder, NEW d \in Device, PushAlloc(d)
    PROVE  SeqOrder'
<1>1. PICK rows \in [Keys -> Row] :
          /\ cur' \in Nat /\ cur < cur'
          /\ token' = [token EXCEPT ![d] = cur']
          /\ writes' = [writes EXCEPT ![d] = rows]
          /\ \A k \in Keys : Present(rows[k]) =>
                /\ cur < rows[k].seq
                /\ nowMs[d] <= rows[k].seq
                /\ rows[k].seq <= cur'
                /\ Present(entries[k]) => entries[k].at < rows[k].at
          /\ \A j, k \in Keys :
                j # k /\ Present(rows[j]) => rows[j].seq # rows[k].seq
  BY AllocatedRows
<1>2. /\ pushMu = NoDevice /\ pushMu' = d
      /\ pc' = [pc EXCEPT ![d] = "pushTx"]
      /\ UNCHANGED <<domTok, entries, nowMs>>
  BY DEF PushAlloc
<1>3. \A e \in Device : e # NoDevice /\ pc[e] # "pushTx"
  BY <1>2, SyncAssumption DEF SeqOrder, MutexOwned
<1>4. MutexOwned'
  BY <1>2, <1>3 DEF MutexOwned, TypeOK
<1>5. CommittedOrder'
  BY <1>1, <1>2 DEF SeqOrder, CommittedOrder, TypeOK, Row
<1>6. ASSUME NEW e \in Device, pc'[e] = "pushTx"
      PROVE  e = d
  BY <1>2, <1>3, <1>6 DEF TypeOK
<1>7. token'[d] = cur' /\ writes'[d] = rows
  BY <1>1 DEF TypeOK
<1>8. \A k \in Keys : rows[k].seq \in Nat
  BY DEF Row
<1>9. domTok <= cur /\ domTok \in Nat /\ cur \in Nat
  BY DEF SeqOrder, CommittedOrder, TypeOK
<1>10. OpenPushOrder'
  BY <1>1, <1>2, <1>6, <1>7, <1>8, <1>9 DEF OpenPushOrder
<1> QED
  BY <1>4, <1>5, <1>10 DEF SeqOrder

\* What the commit of an open push does to the rows.
LEMMA CommittedRows ==
    ASSUME TypeOK, SeqOrder, NEW d \in Device, PushCommit(d), NEW k \in Keys
    PROVE  \/ entries'[k] = entries[k]
           \/ /\ entries'[k] = writes[d][k]
              /\ Present(writes[d][k])
              /\ Present(entries[k]) => entries[k].at < writes[d][k].at
           \/ /\ entries'[k] = NoRow
              /\ Present(entries[k])
              /\ entries[k].deleted
<1>1. entries'[k] = AfterPush(d)[k] /\ pc[d] = "pushTx"
  BY DEF PushCommit
<1>2. Present(writes[d][k]) =>
          /\ nowMs[d] <= writes[d][k].seq
          /\ Present(entries[k]) => entries[k].at < writes[d][k].at
  BY <1>1 DEF SeqOrder, OpenPushOrder
<1>3. nowMs[d] \in Nat /\ writes[d][k].seq \in Nat /\ Retention \in Nat
  BY SyncAssumption DEF TypeOK, Row
<1>4. Present(writes[d][k]) => ~Expired(writes[d][k], nowMs[d])
  BY <1>2, <1>3 DEF Expired
<1> QED
  BY <1>1, <1>2, <1>4 DEF AfterPush, Expired

\* The committed rows after a push are still numbered apart, up to its token.
LEMMA CommitKeepsOrder ==
    ASSUME TypeOK, SeqOrder, NEW d \in Device, PushCommit(d)
    PROVE  CommittedOrder'
<1>1. /\ pc[d] = "pushTx" /\ domTok' = token[d] /\ cur' = cur
      /\ domTok \in Nat /\ token[d] \in Nat
  BY DEF PushCommit, TypeOK
<1>2. /\ domTok < token[d]
      /\ token[d] <= cur
      /\ \A k \in Keys : Present(writes[d][k]) =>
            domTok < writes[d][k].seq /\ writes[d][k].seq <= token[d]
      /\ \A j, k \in Keys :
            j # k /\ Present(writes[d][j]) => writes[d][j].seq # writes[d][k].seq
  BY <1>1 DEF SeqOrder, OpenPushOrder
<1>3. \A k \in Keys :
          \/ entries'[k] = entries[k]
          \/ entries'[k] = writes[d][k] /\ Present(writes[d][k])
          \/ entries'[k] = NoRow
  BY CommittedRows
<1>4. /\ \A k \in Keys : entries[k].seq \in Nat /\ writes[d][k].seq \in Nat
      /\ NoRow.seq = 0
  BY DEF TypeOK, Row, NoRow
<1>5. /\ \A k \in Keys : entries[k].seq <= domTok
      /\ \A j, k \in Keys :
            j # k /\ Present(entries[j]) => entries[j].seq # entries[k].seq
  BY DEF SeqOrder, CommittedOrder
<1>6. \A k \in Keys : entries'[k].seq <= domTok'
  BY <1>1, <1>2, <1>3, <1>4, <1>5
<1>7. ASSUME NEW j \in Keys, NEW k \in Keys, j # k, Present(entries'[j])
      PROVE  entries'[j].seq # entries'[k].seq
  <2>1. entries'[j].seq > 0
    BY <1>7 DEF Present
  <2>2. CASE entries'[j] = entries[j]
    BY <1>2, <1>3, <1>4, <1>5, <1>7, <2>1, <2>2, <1>1 DEF Present
  <2>3. CASE entries'[j] = writes[d][j] /\ Present(writes[d][j])
    BY <1>2, <1>3, <1>4, <1>5, <1>7, <2>1, <2>3, <1>1 DEF Present
  <2> QED
    BY <1>3, <1>4, <2>1, <2>2, <2>3
<1> QED
  BY <1>1, <1>2, <1>6, <1>7 DEF CommittedOrder

LEMMA SeqOrderPushCommit ==
    ASSUME TypeOK, SeqOrder, NEW d \in Device, PushCommit(d)
    PROVE  SeqOrder'
<1>1. /\ pc[d] = "pushTx" /\ pushMu' = NoDevice
      /\ pc' = [pc EXCEPT ![d] = "idle"]
  BY DEF PushCommit, PushEnds
<1>2. \A e \in Device : pc'[e] # "pushTx" /\ e # NoDevice
  BY <1>1, SyncAssumption DEF SeqOrder, MutexOwned, TypeOK
<1>3. MutexOwned' /\ OpenPushOrder'
  BY <1>1, <1>2 DEF MutexOwned, OpenPushOrder
<1> QED
  BY <1>3, CommitKeepsOrder DEF SeqOrder

LEMMA SeqOrderPushFail ==
    ASSUME TypeOK, SeqOrder, NEW d \in Device, PushFail(d)
    PROVE  SeqOrder'
<1>1. /\ pushMu' = IF pc[d] = "pushTx" THEN NoDevice ELSE pushMu
      /\ pc' = [pc EXCEPT ![d] = "idle"]
      /\ nowMs' = [nowMs EXCEPT ![d] = 0]
      /\ token' = [token EXCEPT ![d] = 0]
      /\ writes' = [writes EXCEPT ![d] = NoRows]
      /\ UNCHANGED <<cur, domTok, entries>>
  BY DEF PushFail, PushEnds
<1>2. CommittedOrder'
  BY <1>1 DEF SeqOrder, CommittedOrder
<1>3. MutexOwned'
  BY <1>1, SyncAssumption DEF SeqOrder, MutexOwned, TypeOK
<1>4. \A e \in Device : pc'[e] = "pushTx" =>
          /\ pc[e] = "pushTx"
          /\ token'[e] = token[e] /\ writes'[e] = writes[e] /\ nowMs'[e] = nowMs[e]
  BY <1>1 DEF TypeOK
<1>5. OpenPushOrder'
  BY <1>1, <1>4 DEF SeqOrder, OpenPushOrder
<1> QED
  BY <1>2, <1>3, <1>5 DEF SeqOrder

LEMMA SeqOrderRestart ==
    ASSUME TypeOK, SeqOrder, Restart
    PROVE  SeqOrder'
<1>1. /\ cur' = domTok /\ domTok' = domTok /\ entries' = entries
      /\ pushMu' = NoDevice
      /\ \A e \in Device : pc'[e] # "pushTx" /\ e # NoDevice
  BY SyncAssumption DEF Restart
<1>2. CommittedOrder'
  BY <1>1 DEF SeqOrder, CommittedOrder, TypeOK
<1> QED
  BY <1>1, <1>2 DEF SeqOrder, MutexOwned, OpenPushOrder

LEMMA SeqOrderStep == TypeOK /\ SeqOrder /\ [Next]_vars => SeqOrder'
<1> SUFFICES ASSUME TypeOK, SeqOrder, [Next]_vars
             PROVE  SeqOrder'
  OBVIOUS
<1>1. ASSUME NEW d \in Device, PushAlloc(d) \/ PushCommit(d) \/ PushFail(d)
      PROVE  SeqOrder'
  BY <1>1, SeqOrderPushAlloc, SeqOrderPushCommit, SeqOrderPushFail
<1>2. CASE Restart
  BY <1>2, SeqOrderRestart
<1>3. CASE \/ \E d \in Device : \/ PushArrive(d) \/ PushReject(d) \/ Pull(d)
           \/ Tick \/ UNCHANGED vars
  BY <1>3, BystanderSteps, SeqOrderBystander
<1> QED
  BY <1>1, <1>2, <1>3 DEF Next, Push

LEMMA SeqOrderInit == Init => SeqOrder
BY SyncAssumption DEF Init, SeqOrder, MutexOwned, CommittedOrder, OpenPushOrder,
                      NoRows, NoRow, Present

\* Rows are numbered in commit order without repetition, whatever pushes
\* overlap, fail or are cut off by a restart.
THEOREM NumbersFollowCommits == Spec => []SeqOrder
<1>1. TypeOK /\ SeqOrder /\ [Next]_vars => SeqOrder'
  BY SeqOrderStep
<1> QED
  BY <1>1, SeqOrderInit, TypeCorrect, PTL DEF Spec

-----------------------------------------------------------------------------
(* Last writer wins, and the refinement of SyncLog.                        *)

LEMMA OnlyCommitsWrite ==
    ASSUME [Next]_vars, ~\E d \in Device : PushCommit(d)
    PROVE  UNCHANGED <<domTok, entries>>
BY DEF Next, Push, Pull, PushArrive, PushReject, PushAlloc, PushFail, PullArrive,
       PullReject, PullQuery, PullRespond, PullFail, Tick, Restart, vars, serverVars

\* A key's row is only replaced by one with a larger updatedAt, except that
\* an expired deletion mark disappears.
THEOREM LastWriterAlwaysWins == Spec => LastWriterWins
<1> DEFINE Step == \A k \in Keys :
              entries'[k] # entries[k] /\ Present(entries[k]) =>
                 \/ entries[k].at < entries'[k].at
                 \/ entries[k].deleted /\ entries'[k] = NoRow
<1>1. TypeOK /\ SeqOrder /\ [Next]_vars => [Step]_vars
  <2> SUFFICES ASSUME TypeOK, SeqOrder, [Next]_vars
               PROVE  Step
    OBVIOUS
  <2>1. CASE \E d \in Device : PushCommit(d)
    BY <2>1, CommittedRows
  <2>2. CASE ~\E d \in Device : PushCommit(d)
    BY <2>2, OnlyCommitsWrite
  <2> QED
    BY <2>1, <2>2
<1> QED
  BY <1>1, TypeCorrect, NumbersFollowCommits, PTL DEF Spec, LastWriterWins

LEMMA SameRows == Log!Row = Row /\ Log!NoRow = NoRow /\ \A r : Log!Present(r) <=> Present(r)
BY DEF Log!Row, Row, Log!NoRow, NoRow, Log!Present, Present

LEMMA CommitMerges ==
    ASSUME TypeOK, TypeOK', SeqOrder, NEW d \in Device, PushCommit(d)
    PROVE  Log!Merge
<1>1. /\ pc[d] = "pushTx" /\ domTok' = token[d]
  BY DEF PushCommit
<1>2. /\ domTok < token[d]
      /\ \A k \in Keys : Present(writes[d][k]) =>
            /\ domTok < writes[d][k].seq /\ writes[d][k].seq <= token[d]
            /\ Present(entries[k]) => entries[k].at < writes[d][k].at
  BY <1>1 DEF SeqOrder, OpenPushOrder
<1>3. domTok' > domTok
  BY <1>1, <1>2 DEF TypeOK
<1>4. Log!LogTypeOK'
  BY SameRows DEF TypeOK, Log!LogTypeOK
<1>5. ASSUME NEW k \in Keys
      PROVE  \/ entries'[k] = entries[k]
             \/ Log!Written(entries[k], entries'[k])
             \/ Log!Pruned(entries[k], entries'[k])
  <2>1. CASE entries'[k] = writes[d][k] /\ Present(writes[d][k])
    BY <1>1, <1>2, <2>1, SameRows DEF Log!Written
  <2>2. CASE entries'[k] = NoRow /\ entries[k].deleted /\ Present(entries[k])
    BY <2>2, SameRows DEF Log!Pruned
  <2> QED
    BY <2>1, <2>2, CommittedRows
<1>6. \A j, k \in Keys :
          j # k /\ Log!Present(entries'[j]) => entries'[j].seq # entries'[k].seq
  BY CommitKeepsOrder, SameRows DEF CommittedOrder
<1> QED
  BY <1>3, <1>4, <1>5, <1>6 DEF Log!Merge

\* The handlers, the token store and the tables implement the log of merges.
THEOREM ServiceImplementsLog == Spec => ImplementsLog
<1>1. Init => Log!LogInit
  BY SameRows DEF Init, Log!LogInit, NoRows
<1>2. TypeOK /\ TypeOK' /\ SeqOrder /\ [Next]_vars => [Log!LogNext]_(Log!logVars)
  <2> SUFFICES ASSUME TypeOK, TypeOK', SeqOrder, [Next]_vars
               PROVE  [Log!LogNext]_(Log!logVars)
    OBVIOUS
  <2>1. CASE \E d \in Device : PushCommit(d)
    BY <2>1, CommitMerges DEF Log!LogNext
  <2>2. CASE ~\E d \in Device : PushCommit(d)
    BY <2>2, OnlyCommitsWrite DEF Log!logVars
  <2> QED
    BY <2>1, <2>2
<1> QED
  BY <1>1, <1>2, TypeCorrect, NumbersFollowCommits, PTL
     DEF Spec, ImplementsLog, Log!LogSpec

-----------------------------------------------------------------------------
(* Pulls: a device that was not overtaken misses nothing.                  *)

PullInv == UnracedDeviceComplete /\ OpenPullOrder

\* The steps that touch neither the committed rows nor what devices hold.
LEMMA PullBystander ==
    ASSUME PullInv,
           UNCHANGED <<domTok, entries, deviceVars>>,
           \A d \in Device : pc'[d] = "pullToken" =>
              /\ pc[d] = "pullToken"
              /\ page'[d] = page[d] /\ pageEnd'[d] = pageEnd[d] /\ seenTok'[d] = seenTok[d]
    PROVE  PullInv'
<1>1. UnracedDeviceComplete'
  BY DEF PullInv, UnracedDeviceComplete, deviceVars
<1>2. \A d \in Device : pc'[d] = "pullToken" => PageLimitTok(d)' = PageLimitTok(d)
  BY DEF PageLimitTok
<1>3. OpenPullOrder'
  BY <1>2 DEF PullInv, OpenPullOrder, deviceVars
<1> QED
  BY <1>1, <1>3 DEF PullInv

LEMMA PullBystanderSteps ==
    ASSUME TypeOK,
           \/ \E d \in Device : \/ PushArrive(d) \/ PushAlloc(d) \/ PushFail(d)
                                \/ PullArrive(d) \/ PullFail(d)
           \/ Tick \/ Restart \/ UNCHANGED vars
    PROVE  /\ UNCHANGED <<domTok, entries, deviceVars>>
           /\ \A d \in Device : pc'[d] = "pullToken" =>
                 /\ pc[d] = "pullToken"
                 /\ page'[d] = page[d] /\ pageEnd'[d] = pageEnd[d]
                 /\ seenTok'[d] = seenTok[d]
<1> DEFINE Goal == /\ UNCHANGED <<domTok, entries, deviceVars>>
                   /\ \A d \in Device : pc'[d] = "pullToken" =>
                         /\ pc[d] = "pullToken"
                         /\ page'[d] = page[d] /\ pageEnd'[d] = pageEnd[d]
                         /\ seenTok'[d] = seenTok[d]
<1>1. ASSUME NEW e \in Device, PushArrive(e)
      PROVE  Goal
  BY <1>1 DEF PushArrive, serverVars, pullVars, TypeOK
<1>2. ASSUME NEW e \in Device, PushAlloc(e)
      PROVE  Goal
  BY <1>2 DEF PushAlloc, pullVars, TypeOK
<1>3. ASSUME NEW e \in Device, PushFail(e)
      PROVE  Goal
  BY <1>3 DEF PushFail, PushEnds, pullVars, TypeOK
<1>4. ASSUME NEW e \in Device, PullArrive(e)
      PROVE  Goal
  BY <1>4 DEF PullArrive, serverVars, pullVars, TypeOK
<1>5. ASSUME NEW e \in Device, PullFail(e)
      PROVE  Goal
  BY <1>5 DEF PullFail, PullEnds, serverVars, TypeOK
<1>6. CASE Tick
  BY <1>6 DEF Tick, pullVars
<1>7. CASE Restart
  BY <1>7 DEF Restart
<1>8. CASE UNCHANGED vars
  BY <1>8 DEF vars, serverVars, pullVars
<1> QED
  BY <1>1, <1>2, <1>3, <1>4, <1>5, <1>6, <1>7, <1>8

LEMMA PullInvReject ==
    ASSUME TypeOK, PullInv, NEW d \in Device, PushReject(d) \/ PullReject(d)
    PROVE  PullInv'
<1>1. /\ pc[d] = "idle" /\ pc' = pc
      /\ UNCHANGED <<domTok, entries, page, pageEnd, seenTok>>
      /\ cursor' = [cursor EXCEPT ![d] = 0]
      /\ replica' = [replica EXCEPT ![d] = NoRows]
      /\ raced' = [raced EXCEPT ![d] = FALSE]
  BY DEF PushReject, PullReject, DeviceStartsOver, serverVars, pullVars
<1>2. /\ cursor'[d] = 0
      /\ \A e \in Device \ {d} : /\ cursor'[e] = cursor[e] /\ replica'[e] = replica[e]
                                 /\ raced'[e] = raced[e]
  BY <1>1 DEF TypeOK
<1>3. \A k \in Keys : entries[k].seq \in Nat /\ (Present(entries[k]) <=> entries[k].seq > 0)
  BY DEF TypeOK, Row, Present
<1>4. UnracedDeviceComplete'
  BY <1>1, <1>2, <1>3 DEF PullInv, UnracedDeviceComplete
<1>5. \A e \in Device : PageLimitTok(e)' = PageLimitTok(e)
  BY <1>1 DEF PageLimitTok
<1>6. \A e \in Device : pc'[e] = "pullToken" => e # d
  BY <1>1
<1>7. domTok \in Nat
  BY DEF TypeOK
<1>8. OpenPullOrder'
  BY <1>1, <1>2, <1>5, <1>6, <1>7 DEF PullInv, OpenPullOrder
<1> QED
  BY <1>4, <1>8 DEF PullInv

LEMMA PullInvCommit ==
    ASSUME TypeOK, SeqOrder, PullInv, NEW d \in Device, PushCommit(d)
    PROVE  PullInv'
<1>1. /\ pc[d] = "pushTx" /\ pc' = [pc EXCEPT ![d] = "idle"]
      /\ domTok' = token[d]
      /\ UNCHANGED <<page, pageEnd, seenTok, cursor, replica, raced>>
  BY DEF PushCommit, PushEnds, pullVars, deviceVars
<1>2. /\ domTok < token[d]
      /\ \A k \in Keys : Present(writes[d][k]) => domTok < writes[d][k].seq
  BY <1>1 DEF SeqOrder, OpenPushOrder
<1>3. \A k \in Keys : entries[k].seq \in Nat /\ writes[d][k].seq \in Nat
  BY DEF TypeOK, Row
<1>4. domTok \in Nat /\ token[d] \in Nat /\ \A e \in Device : cursor[e] \in Nat
  BY DEF TypeOK
<1>5. \A k \in Keys : Present(entries'[k]) =>
          \/ entries'[k] = entries[k]
          \/ entries'[k].seq \in Nat /\ domTok < entries'[k].seq
  BY <1>2, <1>3, CommittedRows, NoRowIsRow
<1>6. \A e \in Device : ~raced[e] => cursor[e] <= domTok
  BY DEF PullInv, OpenPullOrder
<1>7. UnracedDeviceComplete'
  BY <1>1, <1>4, <1>5, <1>6 DEF PullInv, UnracedDeviceComplete
<1>8. \A e \in Device : PageLimitTok(e)' = PageLimitTok(e) /\ PageLimitTok(e) \in Nat
  BY <1>1 DEF PageLimitTok, TypeOK
<1>9. ASSUME NEW e \in Device, pc'[e] = "pullToken", ~raced[e]
      PROVE  /\ PageLimitTok(e) <= domTok'
             /\ \A k \in Keys :
                   /\ Present(entries'[k]) /\ cursor[e] < entries'[k].seq
                         /\ entries'[k].seq <= PageLimitTok(e)
                      => page[e][k] = entries'[k]
                   /\ Present(page[e][k]) /\ Present(entries'[k])
                      => cursor[e] < entries'[k].seq
  <2>1. pc[e] = "pullToken"
    BY <1>1, <1>9 DEF TypeOK
  <2>2. /\ PageLimitTok(e) <= domTok
        /\ \A k \in Keys :
              /\ Present(entries[k]) /\ cursor[e] < entries[k].seq
                    /\ entries[k].seq <= PageLimitTok(e)
                 => page[e][k] = entries[k]
              /\ Present(page[e][k]) /\ Present(entries[k])
                 => cursor[e] < entries[k].seq
    BY <2>1, <1>9 DEF PullInv, OpenPullOrder
  <2> QED
    BY <1>1, <1>2, <1>4, <1>5, <1>6, <1>8, <1>9, <2>2
<1>10. OpenPullOrder'
  BY <1>1, <1>2, <1>4, <1>6, <1>8, <1>9 DEF OpenPullOrder
<1> QED
  BY <1>7, <1>10 DEF PullInv

LEMMA PullInvQuery ==
    ASSUME TypeOK, SeqOrder, PullInv, NEW d \in Device, PullQuery(d)
    PROVE  PullInv'
<1>1. PICK ks \in SUBSET Fresh(d), seq \in {entries[k].seq : k \in Fresh(d)} \cup {0} :
          /\ IsPage(d, ks)
          /\ page' = [page EXCEPT ![d] = [k \in Keys |->
                                            IF k \in ks THEN entries[k] ELSE NoRow]]
          /\ IsPageEnd(d, ks, seq)
          /\ pageEnd' = [pageEnd EXCEPT ![d] = seq]
  BY DEF PullQuery
<1>2. /\ seenTok' = [seenTok EXCEPT ![d] = domTok]
      /\ pc' = [pc EXCEPT ![d] = "pullToken"]
      /\ \A e \in Device : ~raced'[e] => ~raced[e]
      /\ UNCHANGED <<domTok, entries, cursor, replica>>
  BY DEF PullQuery, serverVars, TypeOK
<1>3. /\ \A k \in Keys : entries[k].seq \in Nat /\ entries[k].seq <= domTok
      /\ domTok \in Nat /\ cursor[d] \in Nat
      /\ \A k \in Keys : k \in Fresh(d) <=> entries[k].seq > cursor[d]
  BY DEF TypeOK, Row, SeqOrder, CommittedOrder, Fresh
<1>4. UnracedDeviceComplete'
  BY <1>2 DEF PullInv, UnracedDeviceComplete
<1>5. /\ \A e \in Device \ {d} : PageLimitTok(e)' = PageLimitTok(e)
      /\ PageLimitTok(d)' = IF seq # 0 THEN seq ELSE domTok
  BY <1>1, <1>2 DEF PageLimitTok, TypeOK
<1>6. /\ \A k \in Fresh(d) : /\ entries[k].seq \in Nat /\ entries[k].seq > cursor[d]
                             /\ 0 < entries[k].seq /\ entries[k].seq <= domTok
      /\ seq # 0 => seq <= domTok
  <2>1. \A k \in Fresh(d) : k \in Keys
    BY DEF Fresh
  <2>2. \A k \in Fresh(d) : /\ entries[k].seq \in Nat /\ entries[k].seq > cursor[d]
                            /\ entries[k].seq <= domTok
    BY <2>1, <1>3
  <2>3. \A k \in Fresh(d) : 0 < entries[k].seq
    BY <2>2, <1>3
  <2>4. seq = 0 \/ \E k \in Fresh(d) : seq = entries[k].seq
    OBVIOUS
  <2> QED
    BY <2>2, <2>3, <2>4
<1>7. PageLimitTok(d)' <= domTok
  BY <1>3, <1>5, <1>6
<1>8. ASSUME NEW k \in Keys, cursor[d] < entries[k].seq,
             entries[k].seq <= PageLimitTok(d)'
      PROVE  k \in ks
  <2>1. k \in Fresh(d)
    BY <1>3, <1>8
  <2>2. CASE ks = Fresh(d)
    BY <2>1, <2>2
  <2>3. CASE ks # Fresh(d)
    <3>1. PICK l \in ks : seq = entries[l].seq
      BY <1>1, <2>3 DEF IsPageEnd
    <3>2. seq # 0 /\ seq \in Nat /\ entries[k].seq \in Nat
      BY <2>1, <3>1, <1>6
    <3>3. k \notin ks => entries[l].seq < entries[k].seq
      BY <1>1, <2>1, <3>1 DEF IsPage
    <3> QED
      BY <1>5, <1>8, <3>1, <3>2, <3>3
  <2> QED
    BY <2>2, <2>3
<1>9. page'[d] = [k \in Keys |-> IF k \in ks THEN entries[k] ELSE NoRow]
  BY <1>1 DEF TypeOK
<1>10. \A k \in Keys : Present(page'[d][k]) => cursor[d] < entries[k].seq
  BY <1>1, <1>3, <1>9, NoRowIsRow
<1>11. \A e \in Device \ {d} : pc'[e] = pc[e] /\ page'[e] = page[e]
  BY <1>1, <1>2 DEF TypeOK
<1>12. OpenPullOrder'
  <2>1. \A e \in Device : ~raced'[e] => cursor'[e] <= domTok'
    BY <1>2 DEF PullInv, OpenPullOrder
  <2>2. ASSUME NEW e \in Device, pc'[e] = "pullToken", ~raced'[e]
        PROVE  /\ PageLimitTok(e)' <= domTok'
               /\ \A k \in Keys :
                     /\ Present(entries'[k]) /\ cursor'[e] < entries'[k].seq
                           /\ entries'[k].seq <= PageLimitTok(e)'
                        => page'[e][k] = entries'[k]
                     /\ Present(page'[e][k]) /\ Present(entries'[k])
                        => cursor'[e] < entries'[k].seq
    <3>1. CASE e = d
      BY <3>1, <1>2, <1>7, <1>8, <1>9, <1>10
    <3>2. CASE e # d
      BY <2>2, <3>2, <1>2, <1>5, <1>11 DEF PullInv, OpenPullOrder
    <3> QED
      BY <3>1, <3>2
  <2> QED
    BY <2>1, <2>2 DEF OpenPullOrder
<1> QED
  BY <1>4, <1>12 DEF PullInv

LEMMA PullInvRespond ==
    ASSUME TypeOK, SeqOrder, PullInv, NEW d \in Device, PullRespond(d)
    PROVE  PullInv'
<1> DEFINE c == IF pageEnd[d] # 0 THEN pageEnd[d] ELSE cur
           held == [k \in Keys |-> IF Present(page[d][k]) THEN page[d][k] ELSE replica[d][k]]
<1>1. /\ pc[d] = "pullToken" /\ pc' = [pc EXCEPT ![d] = "idle"]
      /\ cursor' = [cursor EXCEPT ![d] = c]
      /\ replica' = [replica EXCEPT ![d] = held]
      /\ raced' = [raced EXCEPT ![d] = @ \/ (pageEnd[d] = 0 /\ cur # seenTok[d])]
      /\ page' = [page EXCEPT ![d] = NoRows]
      /\ pageEnd' = [pageEnd EXCEPT ![d] = 0]
      /\ seenTok' = [seenTok EXCEPT ![d] = 0]
      /\ UNCHANGED <<domTok, entries>>
  BY DEF PullRespond, PullEnds, serverVars
<1>2. \A e \in Device \ {d} :
          /\ pc'[e] = pc[e] /\ cursor'[e] = cursor[e] /\ replica'[e] = replica[e]
          /\ raced'[e] = raced[e] /\ page'[e] = page[e]
          /\ pageEnd'[e] = pageEnd[e] /\ seenTok'[e] = seenTok[e]
  BY <1>1 DEF TypeOK
<1>3. cursor'[d] = c /\ replica'[d] = held /\ pc'[d] = "idle"
  BY <1>1 DEF TypeOK
<1>4. ~raced'[d] => ~raced[d] /\ c = PageLimitTok(d)
  BY <1>1 DEF TypeOK, PageLimitTok
<1>5. ~raced'[d] => c <= domTok
  BY <1>1, <1>4 DEF PullInv, OpenPullOrder
<1>6. ASSUME ~raced'[d], NEW k \in Keys, Present(entries[k]), entries[k].seq <= c
      PROVE  held[k] = entries[k]
  <2>1. /\ cursor[d] < entries[k].seq => page[d][k] = entries[k]
        /\ Present(page[d][k]) => cursor[d] < entries[k].seq
    BY <1>1, <1>4, <1>6 DEF PullInv, OpenPullOrder
  <2>2. CASE cursor[d] < entries[k].seq
    BY <2>1, <2>2, <1>6
  <2>3. CASE ~(cursor[d] < entries[k].seq)
    <3>1. entries[k].seq \in Nat /\ cursor[d] \in Nat
      BY DEF TypeOK, Row
    <3>2. replica[d][k] = entries[k]
      BY <2>3, <3>1, <1>4, <1>6 DEF PullInv, UnracedDeviceComplete
    <3> QED
      BY <2>1, <2>3, <3>2
  <2> QED
    BY <2>2, <2>3
<1> HIDE DEF c, held
<1>7. UnracedDeviceComplete'
  BY <1>1, <1>2, <1>3, <1>6 DEF PullInv, UnracedDeviceComplete
<1>8. \A e \in Device : pc'[e] = "pullToken" =>
          e # d /\ PageLimitTok(e)' = PageLimitTok(e)
  BY <1>2, <1>3 DEF PageLimitTok
<1>9. OpenPullOrder'
  BY <1>1, <1>2, <1>3, <1>5, <1>8 DEF PullInv, OpenPullOrder
<1> QED
  BY <1>7, <1>9 DEF PullInv

LEMMA PullInvStep == TypeOK /\ SeqOrder /\ PullInv /\ [Next]_vars => PullInv'
<1> SUFFICES ASSUME TypeOK, SeqOrder, PullInv, [Next]_vars
             PROVE  PullInv'
  OBVIOUS
<1>1. ASSUME NEW d \in Device,
             \/ PushReject(d) \/ PullReject(d) \/ PushCommit(d)
             \/ PullQuery(d) \/ PullRespond(d)
      PROVE  PullInv'
  BY <1>1, PullInvReject, PullInvCommit, PullInvQuery, PullInvRespond
<1>2. CASE \/ \E d \in Device : \/ PushArrive(d) \/ PushAlloc(d) \/ PushFail(d)
                                \/ PullArrive(d) \/ PullFail(d)
           \/ Tick \/ Restart \/ UNCHANGED vars
  BY <1>2, PullBystanderSteps, PullBystander
<1> QED
  BY <1>1, <1>2 DEF Next, Push, Pull

LEMMA PullInvInit == Init => PullInv
BY DEF Init, PullInv, UnracedDeviceComplete, OpenPullOrder, NoRows, NoRow, Present

\* A device that no push overtook has every row at or below its cursor: the
\* pages of a pull lose nothing, across pushes, failures and restarts.
THEOREM UnracedDevicesMissNothing == Spec => []UnracedDeviceComplete
<1>1. TypeOK /\ SeqOrder /\ PullInv /\ [Next]_vars => PullInv'
  BY PullInvStep
<1>2. PullInv => UnracedDeviceComplete
  BY DEF PullInv
<1> QED
  BY <1>1, <1>2, PullInvInit, TypeCorrect, NumbersFollowCommits, PTL DEF Spec

-----------------------------------------------------------------------------
(* Deletion marks: whoever still shows an entry whose mark was dropped is  *)
(* so far behind that it has to start over.                                *)

\* The token lies beyond the window, and is not the current one.
Behind(t) == t < domTok /\ Stale(t)

\* What the device holds if it gets the page that was read for it.
Merged(d) == [k \in Keys |-> IF Present(page[d][k]) THEN page[d][k] ELSE replica[d][k]]

Shown(rows, k) == Present(rows[k]) /\ ~rows[k].deleted /\ ~Present(entries[k])

ClockRead == \A d \in Device : nowMs[d] <= now

PagesCommitted == \A d \in Device, k \in Keys : Present(page[d][k]) => page[d][k].seq <= domTok

HoldersHaveCursor == \A d \in Device, k \in Keys : ~raced[d] /\ Present(replica[d][k]) => cursor[d] > 0

GhostsBehind == \A d \in Device, k \in Keys : ~raced[d] /\ Shown(replica[d], k) => Behind(cursor[d])

\* The same of a pull under way, for the cursor it will bring.
PulledGhostsBehind ==
    \A d \in Device, k \in Keys :
       ~raced[d] /\ pc[d] = "pullToken" /\ Shown(Merged(d), k) => Behind(PageLimitTok(d))

GhostInv == ClockRead /\ PagesCommitted /\ HoldersHaveCursor /\ GhostsBehind /\ PulledGhostsBehind

LEMMA PageLimitType == TypeOK => \A d \in Device : PageLimitTok(d) \in Nat
BY DEF TypeOK, PageLimitTok

\* The steps that touch neither the committed rows nor what devices hold.
LEMMA GhostBystander ==
    ASSUME TypeOK, TypeOK', GhostInv,
           UNCHANGED <<domTok, entries, deviceVars>>, now <= now',
           \A d \in Device : /\ nowMs'[d] <= now'
                             /\ page'[d] = page[d] \/ page'[d] = NoRows
                             /\ pc'[d] = "pullToken" =>
                                   /\ pc[d] = "pullToken" /\ page'[d] = page[d]
                                   /\ pageEnd'[d] = pageEnd[d] /\ seenTok'[d] = seenTok[d]
    PROVE  GhostInv'
<1>1. UNCHANGED <<domTok, entries, cursor, replica, raced>> /\ domTok <= domTok'
  BY DEF deviceVars, TypeOK
<1>2. ClockRead' /\ PagesCommitted'
  BY <1>1, NoRowIsRow DEF GhostInv, ClockRead, PagesCommitted, NoRows
<1>3. HoldersHaveCursor'
  BY <1>1 DEF GhostInv, HoldersHaveCursor
<1>4. GhostsBehind'
  <2> SUFFICES ASSUME NEW d \in Device, NEW k \in Keys, ~raced'[d], Shown(replica[d], k)'
               PROVE  Behind(cursor[d])'
    BY DEF GhostsBehind
  <2>1. Shown(replica[d], k) /\ cursor[d] \in Nat
    BY <1>1 DEF Shown, TypeOK
  <2>2. Behind(cursor[d])
    BY <2>1, <1>1 DEF GhostInv, GhostsBehind
  <2>3. now \in Nat /\ now' \in Nat /\ Retention \in Nat
    BY SyncAssumption DEF TypeOK
  <2> QED
    BY <2>1, <2>2, <2>3, <1>1 DEF Behind, Stale
<1>5. PulledGhostsBehind'
  <2> SUFFICES ASSUME NEW d \in Device, NEW k \in Keys, ~raced'[d], pc'[d] = "pullToken",
                      Shown(Merged(d), k)'
               PROVE  Behind(PageLimitTok(d))'
    BY DEF PulledGhostsBehind
  <2>1. pc[d] = "pullToken" /\ Shown(Merged(d), k)
    BY <1>1 DEF Shown, Merged
  <2>2. Behind(PageLimitTok(d)) /\ PageLimitTok(d) \in Nat
    BY <2>1, <1>1, PageLimitType DEF GhostInv, PulledGhostsBehind
  <2>3. PageLimitTok(d)' = PageLimitTok(d)
    BY DEF PageLimitTok
  <2>4. now \in Nat /\ now' \in Nat /\ Retention \in Nat
    BY SyncAssumption DEF TypeOK
  <2> QED
    BY <2>2, <2>3, <2>4, <1>1 DEF Behind, Stale
<1> QED
  BY <1>2, <1>3, <1>4, <1>5 DEF GhostInv

LEMMA GhostBystanderSteps ==
    ASSUME TypeOK, GhostInv,
           \/ \E d \in Device : \/ PushArrive(d) \/ PushAlloc(d) \/ PushFail(d)
                                \/ PullArrive(d) \/ PullFail(d)
           \/ Tick \/ Restart \/ UNCHANGED vars
    PROVE  /\ now <= now'
           /\ \A d \in Device : /\ nowMs'[d] <= now'
                                /\ page'[d] = page[d] \/ page'[d] = NoRows
<1> DEFINE Goal == /\ now <= now'
                   /\ \A d \in Device : /\ nowMs'[d] <= now'
                                        /\ page'[d] = page[d] \/ page'[d] = NoRows
<1>0. now \in Nat /\ \A d \in Device : nowMs[d] \in Nat /\ nowMs[d] <= now
  BY DEF TypeOK, GhostInv, ClockRead
<1>1. ASSUME NEW e \in Device, PushArrive(e)
      PROVE  Goal
  BY <1>0, <1>1 DEF PushArrive, serverVars, pullVars, TypeOK
<1>2. ASSUME NEW e \in Device, PushAlloc(e)
      PROVE  Goal
  BY <1>0, <1>2 DEF PushAlloc, pullVars
<1>3. ASSUME NEW e \in Device, PushFail(e)
      PROVE  Goal
  BY <1>0, <1>3 DEF PushFail, PushEnds, pullVars, TypeOK
<1>4. ASSUME NEW e \in Device, PullArrive(e) \/ PullFail(e)
      PROVE  Goal
  BY <1>0, <1>4 DEF PullArrive, PullFail, PullEnds, serverVars, pushVars, pullVars, TypeOK
<1>5. CASE Tick
  <2>1. now <= now' /\ now' \in Nat
    BY <1>0, <1>5, SyncAssumption DEF Tick
  <2> QED
    BY <1>0, <1>5, <2>1 DEF Tick, pushVars, pullVars
<1>6. CASE Restart
  <2>1. now' = now /\ nowMs' = [d \in Device |-> 0] /\ page' = [d \in Device |-> NoRows]
    BY <1>6 DEF Restart
  <2> QED
    BY <1>0, <2>1
<1>7. CASE UNCHANGED vars
  BY <1>0, <1>7 DEF vars, serverVars, pushVars, pullVars
<1> QED
  BY <1>1, <1>2, <1>3, <1>4, <1>5, <1>6, <1>7

LEMMA GhostReject ==
    ASSUME TypeOK, GhostInv, NEW d \in Device, PushReject(d) \/ PullReject(d)
    PROVE  GhostInv'
<1>1. /\ pc[d] = "idle"
      /\ UNCHANGED <<now, domTok, entries, pc, nowMs, page, pageEnd, seenTok>>
      /\ replica' = [replica EXCEPT ![d] = NoRows]
      /\ cursor' = [cursor EXCEPT ![d] = 0]
      /\ raced' = [raced EXCEPT ![d] = FALSE]
  BY DEF PushReject, PullReject, DeviceStartsOver, serverVars, pushVars, pullVars
<1>2. /\ \A k \in Keys : ~Present(replica'[d][k])
      /\ \A e \in Device \ {d} : /\ cursor'[e] = cursor[e] /\ replica'[e] = replica[e]
                                 /\ raced'[e] = raced[e]
  BY <1>1, NoRowIsRow DEF TypeOK, NoRows
<1>3. ClockRead' /\ PagesCommitted' /\ HoldersHaveCursor'
  BY <1>1, <1>2 DEF GhostInv, ClockRead, PagesCommitted, HoldersHaveCursor
<1>4. GhostsBehind'
  BY <1>1, <1>2 DEF GhostInv, GhostsBehind, Shown, Behind, Stale
<1>5. PulledGhostsBehind'
  <2> SUFFICES ASSUME NEW e \in Device, NEW k \in Keys, ~raced'[e], pc'[e] = "pullToken",
                      Shown(Merged(e), k)'
               PROVE  Behind(PageLimitTok(e))'
    BY DEF PulledGhostsBehind
  <2>1. e # d /\ pc[e] = "pullToken" /\ ~raced[e] /\ Shown(Merged(e), k)
    BY <1>1, <1>2 DEF Shown, Merged
  <2> QED
    BY <1>1, <2>1 DEF GhostInv, PulledGhostsBehind, PageLimitTok, Behind, Stale
<1> QED
  BY <1>3, <1>4, <1>5 DEF GhostInv

\* A mark that a commit drops is known to the devices whose cursor has reached
\* it, and its number is beyond the window for the others.
LEMMA DroppedMarks ==
    ASSUME TypeOK, SeqOrder, GhostInv, NEW e \in Device, PushCommit(e), NEW k \in Keys,
           Present(entries[k]), ~Present(entries'[k])
    PROVE  /\ entries[k].deleted
           /\ entries[k].seq <= domTok
           /\ \A t \in Nat : t < entries[k].seq => t < domTok' /\ now' - t > Retention
<1>1. /\ pc[e] = "pushTx" /\ entries'[k] = AfterPush(e)[k]
      /\ domTok' = token[e] /\ now' = now
  BY DEF PushCommit
<1>2. domTok < token[e] /\ nowMs[e] <= now /\ entries[k].seq <= domTok
  BY <1>1 DEF SeqOrder, OpenPushOrder, CommittedOrder, GhostInv, ClockRead
<1>3. /\ now \in Nat /\ nowMs[e] \in Nat /\ domTok \in Nat /\ token[e] \in Nat
      /\ entries[k].seq \in Nat /\ Retention \in Nat
  BY SyncAssumption DEF TypeOK, Row
<1>4. ~Present(writes[e][k]) \/ Expired(writes[e][k], nowMs[e])
  BY <1>1 DEF AfterPush
<1>5. ~Present(writes[e][k])
  <2>1. Present(writes[e][k]) => nowMs[e] <= writes[e][k].seq
    BY <1>1 DEF SeqOrder, OpenPushOrder
  <2>2. writes[e][k].seq \in Nat
    BY DEF TypeOK, Row
  <2> QED
    BY <1>3, <1>4, <2>1, <2>2 DEF Expired
<1>6. Expired(entries[k], nowMs[e])
  BY <1>1, <1>5 DEF AfterPush
<1>7. entries[k].deleted /\ entries[k].seq < nowMs[e] - Retention
  BY <1>6 DEF Expired
<1>8. ASSUME NEW t \in Nat, t < entries[k].seq
      PROVE  t < domTok' /\ now' - t > Retention
  BY <1>1, <1>2, <1>3, <1>7, <1>8
<1> QED
  BY <1>2, <1>7, <1>8

LEMMA GhostCommit ==
    ASSUME TypeOK, TypeOK', SeqOrder, PullInv, GhostInv, NEW e \in Device, PushCommit(e)
    PROVE  GhostInv'
<1>1. /\ pc[e] = "pushTx" /\ domTok' = token[e] /\ now' = now
      /\ pc' = [pc EXCEPT ![e] = "idle"]
      /\ nowMs' = [nowMs EXCEPT ![e] = 0]
      /\ UNCHANGED <<page, pageEnd, seenTok, cursor, replica, raced>>
  BY DEF PushCommit, PushEnds, pullVars, deviceVars
<1>2. domTok < token[e] /\ domTok \in Nat /\ token[e] \in Nat /\ now \in Nat
  BY <1>1 DEF SeqOrder, OpenPushOrder, TypeOK
<1>3. domTok <= domTok' /\ now <= now'
  BY <1>1, <1>2
<1>4. ClockRead'
  BY <1>1, <1>2 DEF GhostInv, ClockRead, TypeOK
<1>5. PagesCommitted'
  <2>1. \A d \in Device, k \in Keys : page[d][k].seq \in Nat
    BY DEF TypeOK, Row
  <2> QED
    BY <1>1, <1>2, <2>1 DEF GhostInv, PagesCommitted
<1>6. HoldersHaveCursor'
  BY <1>1 DEF GhostInv, HoldersHaveCursor
<1>7. GhostsBehind'
  <2> SUFFICES ASSUME NEW d \in Device, NEW k \in Keys, ~raced'[d], Shown(replica[d], k)'
               PROVE  Behind(cursor[d])'
    BY DEF GhostsBehind
  <2>1. /\ ~raced[d] /\ cursor'[d] = cursor[d] /\ cursor[d] \in Nat
        /\ Present(replica[d][k]) /\ ~replica[d][k].deleted /\ ~Present(entries'[k])
    BY <1>1 DEF Shown, TypeOK
  <2>2. CASE Present(entries[k])
    <3>1. /\ entries[k].deleted
          /\ \A t \in Nat : t < entries[k].seq => t < domTok' /\ now' - t > Retention
      BY <2>1, <2>2, DroppedMarks
    <3>2. entries[k].seq \in Nat /\ ~(entries[k].seq <= cursor[d])
      BY <2>1, <2>2, <3>1 DEF PullInv, UnracedDeviceComplete, TypeOK, Row
    <3>3. cursor[d] < entries[k].seq
      BY <2>1, <3>2
    <3> QED
      BY <2>1, <3>1, <3>3 DEF Behind, Stale
  <2>3. CASE ~Present(entries[k])
    <3>1. Behind(cursor[d])
      BY <2>1, <2>3 DEF GhostInv, GhostsBehind, Shown
    <3> QED
      BY <1>1, <1>2, <2>1, <3>1 DEF Behind, Stale
  <2> QED
    BY <2>2, <2>3
<1>8. PulledGhostsBehind'
  <2> SUFFICES ASSUME NEW d \in Device, NEW k \in Keys, ~raced'[d], pc'[d] = "pullToken",
                      Shown(Merged(d), k)'
               PROVE  Behind(PageLimitTok(d))'
    BY DEF PulledGhostsBehind
  <2>1. /\ ~raced[d] /\ pc[d] = "pullToken"
        /\ Present(Merged(d)[k]) /\ ~Merged(d)[k].deleted /\ ~Present(entries'[k])
    BY <1>1 DEF Shown, Merged, TypeOK
  <2>2. PageLimitTok(d)' = PageLimitTok(d) /\ PageLimitTok(d) \in Nat
    BY <1>1, PageLimitType DEF PageLimitTok
  <2>3. CASE Present(entries[k])
    <3>1. /\ entries[k].deleted
          /\ \A t \in Nat : t < entries[k].seq => t < domTok' /\ now' - t > Retention
      BY <2>1, <2>3, DroppedMarks
    <3>2. entries[k].seq \in Nat /\ cursor[d] \in Nat
      BY DEF TypeOK, Row
    <3>3. /\ cursor[d] < entries[k].seq /\ entries[k].seq <= PageLimitTok(d) => page[d][k] = entries[k]
          /\ Present(page[d][k]) => cursor[d] < entries[k].seq
          /\ entries[k].seq <= cursor[d] => replica[d][k] = entries[k]
      BY <2>1, <2>3 DEF PullInv, OpenPullOrder, UnracedDeviceComplete
    <3>4. Merged(d)[k] = IF Present(page[d][k]) THEN page[d][k] ELSE replica[d][k]
      BY DEF Merged
    <3>5. ~(entries[k].seq <= PageLimitTok(d)) \/ ~(cursor[d] < entries[k].seq)
      BY <2>1, <2>3, <3>1, <3>3, <3>4
    <3>6. cursor[d] < entries[k].seq
      BY <2>1, <3>1, <3>2, <3>3, <3>4
    <3>7. PageLimitTok(d) < entries[k].seq
      BY <2>2, <3>2, <3>5, <3>6
    <3> QED
      BY <2>2, <3>1, <3>7 DEF Behind, Stale
  <2>4. CASE ~Present(entries[k])
    <3>1. Behind(PageLimitTok(d))
      BY <2>1, <2>4 DEF GhostInv, PulledGhostsBehind, Shown
    <3> QED
      BY <1>1, <1>2, <2>2, <3>1 DEF Behind, Stale
  <2> QED
    BY <2>3, <2>4
<1> QED
  BY <1>4, <1>5, <1>6, <1>7, <1>8 DEF GhostInv

\* A pull that reads past a dropped mark the device still shows is overtaken:
\* its cursor has left the window, so the query marks it as raced.
LEMMA GhostQuery ==
    ASSUME TypeOK, SeqOrder, GhostInv, NEW d \in Device, PullQuery(d)
    PROVE  GhostInv'
<1>1. PICK ks \in SUBSET Fresh(d), seq \in {entries[k].seq : k \in Fresh(d)} \cup {0} :
          /\ page' = [page EXCEPT ![d] = [k \in Keys |->
                                            IF k \in ks THEN entries[k] ELSE NoRow]]
          /\ pageEnd' = [pageEnd EXCEPT ![d] = seq]
  BY DEF PullQuery
<1>2. /\ seenTok' = [seenTok EXCEPT ![d] = domTok]
      /\ pc' = [pc EXCEPT ![d] = "pullToken"]
      /\ raced' = [raced EXCEPT ![d] = @ \/ (cursor[d] # 0 /\ Stale(cursor[d]))]
      /\ UNCHANGED <<now, nowMs, domTok, entries, cursor, replica>>
  BY DEF PullQuery, serverVars, pushVars
<1>3. \A e \in Device : ~raced'[e] => ~raced[e]
  BY <1>2 DEF TypeOK
<1>4. ~raced'[d] => ~(cursor[d] # 0 /\ Stale(cursor[d]))
  BY <1>2 DEF TypeOK
<1>5. \A e \in Device \ {d} : /\ pc'[e] = pc[e] /\ page'[e] = page[e]
                              /\ pageEnd'[e] = pageEnd[e] /\ seenTok'[e] = seenTok[e]
  BY <1>1, <1>2 DEF TypeOK
<1>6. page'[d] = [k \in Keys |-> IF k \in ks THEN entries[k] ELSE NoRow]
  BY <1>1 DEF TypeOK
<1>7. \A k \in Keys : Present(page'[d][k]) => page'[d][k] = entries[k]
  BY <1>6, NoRowIsRow
<1>8. ClockRead' /\ HoldersHaveCursor'
  BY <1>2, <1>3 DEF GhostInv, ClockRead, HoldersHaveCursor
<1>9. PagesCommitted'
  BY <1>2, <1>5, <1>7 DEF GhostInv, PagesCommitted, SeqOrder, CommittedOrder
<1>10. GhostsBehind'
  BY <1>2, <1>3 DEF GhostInv, GhostsBehind, Shown, Behind, Stale
<1>11. PulledGhostsBehind'
  <2> SUFFICES ASSUME NEW e \in Device, NEW k \in Keys, ~raced'[e], pc'[e] = "pullToken",
                      Shown(Merged(e), k)'
               PROVE  Behind(PageLimitTok(e))'
    BY DEF PulledGhostsBehind
  <2>1. CASE e = d
    <3>1. /\ ~Present(entries[k])
          /\ Shown(replica[d], k)
      BY <1>2, <1>7, <2>1 DEF Shown, Merged
    <3>2. Behind(cursor[d]) /\ cursor[d] > 0
      BY <1>3, <2>1, <3>1 DEF GhostInv, GhostsBehind, HoldersHaveCursor, Shown
    <3> QED
      BY <1>4, <2>1, <3>2 DEF Behind, TypeOK
  <2>2. CASE e # d
    <3>1. pc[e] = "pullToken" /\ ~raced[e] /\ Shown(Merged(e), k)
      BY <1>2, <1>3, <1>5, <2>2 DEF Shown, Merged
    <3>2. Behind(PageLimitTok(e)) /\ PageLimitTok(e)' = PageLimitTok(e)
      BY <1>5, <2>2, <3>1 DEF GhostInv, PulledGhostsBehind, PageLimitTok
    <3> QED
      BY <1>2, <3>2 DEF Behind, Stale
  <2> QED
    BY <2>1, <2>2
<1> QED
  BY <1>8, <1>9, <1>10, <1>11 DEF GhostInv

LEMMA GhostRespond ==
    ASSUME TypeOK, SeqOrder, PullInv, GhostInv, NEW d \in Device, PullRespond(d)
    PROVE  GhostInv'
<1> DEFINE c == IF pageEnd[d] # 0 THEN pageEnd[d] ELSE cur
<1>1. /\ pc[d] = "pullToken" /\ pc' = [pc EXCEPT ![d] = "idle"]
      /\ cursor' = [cursor EXCEPT ![d] = c]
      /\ replica' = [replica EXCEPT ![d] = Merged(d)]
      /\ raced' = [raced EXCEPT ![d] = @ \/ (pageEnd[d] = 0 /\ cur # seenTok[d])]
      /\ page' = [page EXCEPT ![d] = NoRows]
      /\ pageEnd' = [pageEnd EXCEPT ![d] = 0]
      /\ seenTok' = [seenTok EXCEPT ![d] = 0]
      /\ UNCHANGED <<now, nowMs, domTok, entries>>
  BY DEF PullRespond, PullEnds, serverVars, pushVars, Merged
<1>2. \A e \in Device \ {d} :
          /\ pc'[e] = pc[e] /\ cursor'[e] = cursor[e] /\ replica'[e] = replica[e]
          /\ raced'[e] = raced[e] /\ page'[e] = page[e]
          /\ pageEnd'[e] = pageEnd[e] /\ seenTok'[e] = seenTok[e]
  BY <1>1 DEF TypeOK
<1>3. /\ cursor'[d] = c /\ replica'[d] = Merged(d) /\ page'[d] = NoRows
      /\ pc'[d] = "idle"
  BY <1>1 DEF TypeOK
<1>4. ~raced'[d] => ~raced[d] /\ c = PageLimitTok(d)
  BY <1>1 DEF TypeOK, PageLimitTok
<1>5. ClockRead' /\ PagesCommitted'
  BY <1>1, <1>2, <1>3, NoRowIsRow DEF GhostInv, ClockRead, PagesCommitted, NoRows
<1>6. ASSUME NEW k \in Keys, ~raced'[d], Present(Merged(d)[k])
      PROVE  c > 0
  <2>1. /\ cur \in Nat /\ domTok \in Nat /\ domTok <= cur /\ pageEnd[d] \in Nat
        /\ cursor[d] \in Nat /\ page[d][k].seq \in Nat
    BY DEF TypeOK, Row, SeqOrder, CommittedOrder
  <2>2. CASE Present(page[d][k])
    <3>1. 0 < page[d][k].seq /\ page[d][k].seq <= domTok
      BY <2>1, <2>2 DEF Present, GhostInv, PagesCommitted
    <3> QED
      BY <2>1, <3>1
  <2>3. CASE ~Present(page[d][k])
    <3>1. Present(replica[d][k])
      BY <1>6, <2>3 DEF Merged
    <3>2. cursor[d] > 0 /\ cursor[d] <= domTok
      BY <1>4, <1>6, <3>1 DEF GhostInv, HoldersHaveCursor, PullInv, OpenPullOrder
    <3> QED
      BY <2>1, <3>2
  <2> QED
    BY <2>2, <2>3
<1>7. HoldersHaveCursor'
  BY <1>2, <1>3, <1>6 DEF GhostInv, HoldersHaveCursor
<1>8. GhostsBehind'
  <2> SUFFICES ASSUME NEW e \in Device, NEW k \in Keys, ~raced'[e], Shown(replica[e], k)'
               PROVE  Behind(cursor[e])'
    BY DEF GhostsBehind
  <2>1. CASE e = d
    <3>1. ~raced[d] /\ Shown(Merged(d), k) /\ cursor'[d] = PageLimitTok(d)
      BY <1>1, <1>3, <1>4, <2>1 DEF Shown
    <3>2. Behind(PageLimitTok(d))
      BY <1>1, <3>1 DEF GhostInv, PulledGhostsBehind
    <3> QED
      BY <1>1, <2>1, <3>1, <3>2 DEF Behind, Stale
  <2>2. CASE e # d
    <3>1. ~raced[e] /\ Shown(replica[e], k) /\ cursor'[e] = cursor[e]
      BY <1>1, <1>2, <2>2 DEF Shown
    <3> QED
      BY <1>1, <3>1 DEF GhostInv, GhostsBehind, Behind, Stale
  <2> QED
    BY <2>1, <2>2
<1>9. PulledGhostsBehind'
  <2> SUFFICES ASSUME NEW e \in Device, NEW k \in Keys, ~raced'[e], pc'[e] = "pullToken",
                      Shown(Merged(e), k)'
               PROVE  Behind(PageLimitTok(e))'
    BY DEF PulledGhostsBehind
  <2>1. e # d
    BY <1>3
  <2>2. pc[e] = "pullToken" /\ ~raced[e] /\ Shown(Merged(e), k)
    BY <1>1, <1>2, <2>1 DEF Shown, Merged
  <2>3. Behind(PageLimitTok(e)) /\ PageLimitTok(e)' = PageLimitTok(e)
    BY <1>2, <2>1, <2>2 DEF GhostInv, PulledGhostsBehind, PageLimitTok
  <2> QED
    BY <1>1, <2>3 DEF Behind, Stale
<1> QED
  BY <1>5, <1>7, <1>8, <1>9 DEF GhostInv

LEMMA GhostStep ==
    TypeOK /\ TypeOK' /\ SeqOrder /\ PullInv /\ GhostInv /\ [Next]_vars => GhostInv'
<1> SUFFICES ASSUME TypeOK, TypeOK', SeqOrder, PullInv, GhostInv, [Next]_vars
             PROVE  GhostInv'
  OBVIOUS
<1>1. ASSUME NEW d \in Device, PushReject(d) \/ PullReject(d)
      PROVE  GhostInv'
  BY <1>1, GhostReject
<1>2. ASSUME NEW d \in Device, PushCommit(d)
      PROVE  GhostInv'
  BY <1>2, GhostCommit
<1>3. ASSUME NEW d \in Device, PullQuery(d)
      PROVE  GhostInv'
  BY <1>3, GhostQuery
<1>4. ASSUME NEW d \in Device, PullRespond(d)
      PROVE  GhostInv'
  BY <1>4, GhostRespond
<1>5. CASE \/ \E d \in Device : \/ PushArrive(d) \/ PushAlloc(d) \/ PushFail(d)
                                \/ PullArrive(d) \/ PullFail(d)
           \/ Tick \/ Restart \/ UNCHANGED vars
  BY <1>5, PullBystanderSteps, GhostBystanderSteps, GhostBystander
<1> QED
  BY <1>1, <1>2, <1>3, <1>4, <1>5 DEF Next, Push, Pull

LEMMA GhostInit == Init => GhostInv
BY NoRowIsRow DEF Init, GhostInv, ClockRead, PagesCommitted, HoldersHaveCursor,
                  GhostsBehind, PulledGhostsBehind, Shown, NoRows

\* A deletion mark is dropped only once every device that still shows the
\* entry is so far behind that its next pull and its next push answer 409.
THEOREM DroppedMarksForceResync == Spec => []DroppedDeletionsForceResync
<1>1. TypeOK /\ SeqOrder /\ GhostInv => DroppedDeletionsForceResync
  <2> SUFFICES ASSUME TypeOK, SeqOrder, GhostInv,
                      NEW d \in Device, NEW k \in Keys, ~raced[d], Ghost(d, k)
               PROVE  /\ cursor[d] # 0 /\ Stale(cursor[d])
                      /\ ~BaseAccepted(cursor[d])
    BY DEF DroppedDeletionsForceResync
  <2>1. Behind(cursor[d]) /\ cursor[d] > 0
    BY DEF GhostInv, GhostsBehind, HoldersHaveCursor, Ghost, Shown
  <2>2. cursor[d] < domTok /\ domTok <= cur
    BY <2>1 DEF Behind, SeqOrder, CommittedOrder
  <2>3. cursor[d] \in Nat /\ domTok \in Nat /\ cur \in Nat
    BY DEF TypeOK
  <2>4. cursor[d] # 0 /\ cursor[d] # cur
    BY <2>1, <2>2, <2>3
  <2> QED
    BY <2>1, <2>4 DEF Behind, BaseAccepted
<1>2. TypeOK /\ SeqOrder /\ PullInv /\ [Next]_vars => PullInv'
  BY PullInvStep
<1>3. TypeOK /\ TypeOK' /\ SeqOrder /\ PullInv /\ GhostInv /\ [Next]_vars => GhostInv'
  BY GhostStep
<1> QED
  BY <1>1, <1>2, <1>3, PullInvInit, GhostInit, TypeCorrect, NumbersFollowCommits, PTL DEF Spec
=============================================================================
