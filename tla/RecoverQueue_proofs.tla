------------------------ MODULE RecoverQueue_proofs ------------------------
(***************************************************************************)
(* Theorems about RecoverQueue.                                            *)
(***************************************************************************)
EXTENDS RecoverQueue, FiniteSetTheorems, TLAPS

\* TypeOK but for the range of sem, which follows from SlotsMatchJobs.
Typed ==
    /\ holder \in [Account -> Nat]
    /\ row \in [Account -> [status : {"none", "fetching"} \cup Results,
                            live : BOOLEAN, holder : Nat]]
    /\ registered \subseteq Account /\ inflight \subseteq Account
    /\ left \subseteq Account /\ raced \subseteq Account
    /\ pc \in [Client -> {"idle", "lookup", "enqueue", "mark"}]
    /\ user \in [Client -> Account] /\ userHolder \in [Client -> Nat]
    /\ jpc \in [Job -> {"off"} \cup Using]
    /\ owner \in [Job -> Account] /\ ownerHolder \in [Job -> Nat]
    /\ found \in [Job -> Results]

LEMMA OneIsAccount == 1 \in Account
  BY RecoverAssumption DEF Account, RecoverAssumption

LEMMA StepTyped == Typed /\ [Next]_vars => Typed'
  <1> SUFFICES ASSUME Typed, [Next]_vars PROVE Typed'
    OBVIOUS
  <1> USE OneIsAccount DEF Typed, Using, Results, NotFound, NoRow, accounts, clients, jobs,
           Respond, StartJob, JobGoto
  <1>1. ASSUME NEW c \in Client, Query(c) PROVE Typed'
    <2>1. CASE Authenticate(c)
      BY <2>1 DEF Authenticate
    <2>2. CASE LookupAnswers(c)
      BY <2>2 DEF LookupAnswers
    <2>3. CASE LookupMisses(c)
      BY <2>3 DEF LookupMisses
    <2>4. CASE EnqueueKnown(c)
      BY <2>4 DEF EnqueueKnown
    <2>5. CASE EnqueueNew(c)
      BY <2>5 DEF EnqueueNew
    <2>6. CASE Mark(c)
      BY <2>6 DEF Mark
    <2>7. CASE MarkFails(c)
      BY <2>7 DEF MarkFails
    <2> QED
      BY <1>1, <2>1, <2>2, <2>3, <2>4, <2>5, <2>6, <2>7 DEF Query
  <1>2. ASSUME NEW j \in Job, Work(j) PROVE Typed'
    <2>1. CASE JobStart(j)
      BY <2>1 DEF JobStart
    <2>2. CASE JobResult(j)
      BY <2>2 DEF JobResult
    <2>3. CASE JobWrite(j)
      BY <2>3 DEF JobWrite
    <2>4. CASE JobWriteFails(j)
      BY <2>4 DEF JobWriteFails
    <2>5. CASE JobRelease(j)
      BY <2>5 DEF JobRelease
    <2>6. CASE JobForget(j)
      BY <2>6 DEF JobForget
    <2> QED
      BY <1>2, <2>1, <2>2, <2>3, <2>4, <2>5, <2>6 DEF Work
  <1>3. ASSUME NEW a \in Account, Expire(a) \/ DeleteAccount(a) \/ Register(a)
        PROVE Typed'
    <2>1. CASE Expire(a)
      BY <2>1 DEF Expire
    <2>2. CASE DeleteAccount(a)
      BY <2>2 DEF DeleteAccount
    <2>3. CASE Register(a)
      BY <2>3 DEF Register
    <2> QED
      BY <1>3, <2>1, <2>2, <2>3
  <1>4. CASE Restart
    BY <1>4 DEF Restart
  <1>5. CASE UNCHANGED vars
    BY <1>5 DEF vars, accounts, clients, jobs
  <1> QED
    BY <1>1, <1>2, <1>3, <1>4, <1>5 DEF Next

LEMMA StepOneJob == Typed /\ OneJobPerPid /\ [Next]_vars => OneJobPerPid'
  <1> SUFFICES ASSUME Typed, OneJobPerPid, [Next]_vars PROVE OneJobPerPid'
    OBVIOUS
  <1> USE DEF Typed, OneJobPerPid, Marking, Working, Using, accounts, clients, jobs,
           Respond, JobGoto
  <1>1. ASSUME NEW c \in Client, Query(c) PROVE OneJobPerPid'
    <2>1. CASE Authenticate(c)
      BY <2>1 DEF Authenticate
    <2>2. CASE LookupAnswers(c)
      BY <2>2 DEF LookupAnswers
    <2>3. CASE LookupMisses(c)
      BY <2>3 DEF LookupMisses
    <2>4. CASE EnqueueKnown(c)
      BY <2>4 DEF EnqueueKnown
    <2>5. CASE EnqueueNew(c)
      BY <2>5 DEF EnqueueNew
    <2>6. CASE Mark(c)
      \* the client hands its account over to the job it starts
      <3>1. PICK j \in Job :
               /\ jpc[j] = "off" /\ jpc' = [jpc EXCEPT ![j] = "queued"]
               /\ owner' = [owner EXCEPT ![j] = user[c]]
        BY <2>6 DEF Mark, StartJob
      <3>2. /\ pc[c] = "mark" /\ pc' = [pc EXCEPT ![c] = "idle"]
            /\ user' = [user EXCEPT ![c] = 1] /\ inflight' = inflight
        BY <2>6 DEF Mark
      <3>3. \A i \in Job : jpc'[i] # "off" <=> jpc[i] # "off" \/ i = j
        BY <3>1
      <3>4. \A i \in Job : owner'[i] = IF i = j THEN user[c] ELSE owner[i]
        BY <3>1
      <3>5. \A d \in Client : pc'[d] = "mark" <=> pc[d] = "mark" /\ d # c
        BY <3>2
      <3>6. \A d \in Client : d # c => user'[d] = user[d]
        BY <3>2
      <3> QED
        BY <3>1, <3>2, <3>3, <3>4, <3>5, <3>6
    <2>7. CASE MarkFails(c)
      \* the client hands its account over to the job it starts
      <3>1. PICK j \in Job :
               /\ jpc[j] = "off" /\ jpc' = [jpc EXCEPT ![j] = "queued"]
               /\ owner' = [owner EXCEPT ![j] = user[c]]
        BY <2>7 DEF MarkFails, StartJob
      <3>2. /\ pc[c] = "mark" /\ pc' = [pc EXCEPT ![c] = "idle"]
            /\ user' = [user EXCEPT ![c] = 1] /\ inflight' = inflight
        BY <2>7 DEF MarkFails
      <3>3. \A i \in Job : jpc'[i] # "off" <=> jpc[i] # "off" \/ i = j
        BY <3>1
      <3>4. \A i \in Job : owner'[i] = IF i = j THEN user[c] ELSE owner[i]
        BY <3>1
      <3>5. \A d \in Client : pc'[d] = "mark" <=> pc[d] = "mark" /\ d # c
        BY <3>2
      <3>6. \A d \in Client : d # c => user'[d] = user[d]
        BY <3>2
      <3> QED
        BY <3>1, <3>2, <3>3, <3>4, <3>5, <3>6
    <2> QED
      BY <1>1, <2>1, <2>2, <2>3, <2>4, <2>5, <2>6, <2>7 DEF Query
  <1>2. ASSUME NEW j \in Job, Work(j) PROVE OneJobPerPid'
    <2>1. CASE JobStart(j)
      BY <2>1 DEF JobStart
    <2>2. CASE JobResult(j)
      BY <2>2 DEF JobResult
    <2>3. CASE JobWrite(j)
      BY <2>3 DEF JobWrite
    <2>4. CASE JobWriteFails(j)
      BY <2>4 DEF JobWriteFails
    <2>5. CASE JobRelease(j)
      BY <2>5 DEF JobRelease
    <2>6. CASE JobForget(j)
      BY <2>6 DEF JobForget
    <2> QED
      BY <1>2, <2>1, <2>2, <2>3, <2>4, <2>5, <2>6 DEF Work
  <1>3. ASSUME NEW a \in Account, Expire(a) \/ DeleteAccount(a) \/ Register(a)
        PROVE OneJobPerPid'
    <2>1. CASE Expire(a)
      BY <2>1 DEF Expire
    <2>2. CASE DeleteAccount(a)
      BY <2>2 DEF DeleteAccount
    <2>3. CASE Register(a)
      BY <2>3 DEF Register
    <2> QED
      BY <1>3, <2>1, <2>2, <2>3
  <1>4. CASE Restart
    BY <1>4 DEF Restart
  <1>5. CASE UNCHANGED vars
    BY <1>5 DEF vars, accounts, clients, jobs
  <1> QED
    BY <1>1, <1>2, <1>3, <1>4, <1>5 DEF Next

\* A job that is past its write has left no placeholder of its own.
JobsWrite ==
    \A j \in Job : jpc[j] \in {"release", "forget"} =>
        row[owner[j]].status # "fetching" \/ owner[j] \in left

Placeholders == FetchingHasJob /\ JobsWrite

LEMMA StepFetching ==
    Typed /\ OneJobPerPid /\ Placeholders /\ [Next]_vars => Placeholders'
  <1> SUFFICES ASSUME Typed, OneJobPerPid, Placeholders, [Next]_vars PROVE Placeholders'
    OBVIOUS
  <1> USE DEF Typed, Placeholders, FetchingHasJob, JobsWrite, Results, NotFound, accounts, clients, jobs, Respond, JobGoto
  <1>1. ASSUME NEW c \in Client, Query(c) PROVE Placeholders'
    <2>1. CASE Authenticate(c)
      BY <2>1 DEF Authenticate
    <2>2. CASE LookupAnswers(c)
      BY <2>2 DEF LookupAnswers
    <2>3. CASE LookupMisses(c)
      BY <2>3 DEF LookupMisses
    <2>4. CASE EnqueueKnown(c)
      BY <2>4 DEF EnqueueKnown
    <2>5. CASE EnqueueNew(c)
      BY <2>5 DEF EnqueueNew
    <2>6. CASE Mark(c)
      <3>1. user[c] \in inflight /\ \A j \in Job : jpc[j] # "off" => owner[j] # user[c]
        BY <2>6 DEF Mark, OneJobPerPid, Marking, Working
      <3> QED
        BY <2>6, <3>1 DEF Mark, StartJob
    <2>7. CASE MarkFails(c)
      BY <2>7 DEF MarkFails, StartJob
    <2> QED
      BY <1>1, <2>1, <2>2, <2>3, <2>4, <2>5, <2>6, <2>7 DEF Query
  <1>2. ASSUME NEW j \in Job, Work(j) PROVE Placeholders'
    <2>1. CASE JobStart(j)
      BY <2>1 DEF JobStart
    <2>2. CASE JobResult(j)
      BY <2>2 DEF JobResult
    <2>3. CASE JobWrite(j)
      BY <2>3 DEF JobWrite
    <2>4. CASE JobWriteFails(j)
      BY <2>4 DEF JobWriteFails
    <2>5. CASE JobRelease(j)
      BY <2>5 DEF JobRelease
    <2>6. CASE JobForget(j)
      BY <2>6 DEF JobForget
    <2> QED
      BY <1>2, <2>1, <2>2, <2>3, <2>4, <2>5, <2>6 DEF Work
  <1>3. ASSUME NEW a \in Account, Expire(a) \/ DeleteAccount(a) \/ Register(a)
        PROVE Placeholders'
    <2>1. CASE Expire(a)
      <3>1. \A b \in Account : row'[b].status = row[b].status
        BY <2>1 DEF Expire
      <3> QED
        BY <2>1, <3>1 DEF Expire
    <2>2. CASE DeleteAccount(a)
      BY <2>2 DEF DeleteAccount, NoRow
    <2>3. CASE Register(a)
      BY <2>3 DEF Register
    <2> QED
      BY <1>3, <2>1, <2>2, <2>3
  <1>4. CASE Restart
    BY <1>4 DEF Restart
  <1>5. CASE UNCHANGED vars
    BY <1>5 DEF vars, accounts, clients, jobs
  <1> QED
    BY <1>1, <1>2, <1>3, <1>4, <1>5 DEF Next

\* Requests and jobs of an account name the account that has the id.
UsersHold ==
    /\ \A c \in Client : pc[c] # "idle" /\ user[c] \notin raced =>
          user[c] \in registered /\ userHolder[c] = holder[user[c]]
    /\ \A j \in Job : jpc[j] # "off" /\ owner[j] \notin raced =>
          owner[j] \in registered /\ ownerHolder[j] = holder[owner[j]]

Owned == RowsHaveOwner /\ UsersHold

LEMMA StepOwned == Typed /\ Owned /\ [Next]_vars => Owned'
  <1> SUFFICES ASSUME Typed, Owned, [Next]_vars PROVE Owned'
    OBVIOUS
  <1> USE DEF Typed, Owned, RowsHaveOwner, UsersHold, accounts, clients, jobs, Respond, JobGoto
  <1>1. ASSUME NEW c \in Client, Query(c) PROVE Owned'
    <2>1. CASE Authenticate(c)
      BY <2>1 DEF Authenticate
    <2>2. CASE LookupAnswers(c)
      BY <2>2 DEF LookupAnswers
    <2>3. CASE LookupMisses(c)
      BY <2>3 DEF LookupMisses
    <2>4. CASE EnqueueKnown(c)
      BY <2>4 DEF EnqueueKnown
    <2>5. CASE EnqueueNew(c)
      BY <2>5 DEF EnqueueNew
    <2>6. CASE Mark(c)
      BY <2>6 DEF Mark, StartJob
    <2>7. CASE MarkFails(c)
      BY <2>7 DEF MarkFails, StartJob
    <2> QED
      BY <1>1, <2>1, <2>2, <2>3, <2>4, <2>5, <2>6, <2>7 DEF Query
  <1>2. ASSUME NEW j \in Job, Work(j) PROVE Owned'
    <2>1. CASE JobStart(j)
      BY <2>1 DEF JobStart
    <2>2. CASE JobResult(j)
      BY <2>2 DEF JobResult
    <2>3. CASE JobWrite(j)
      BY <2>3 DEF JobWrite
    <2>4. CASE JobWriteFails(j)
      BY <2>4 DEF JobWriteFails
    <2>5. CASE JobRelease(j)
      BY <2>5 DEF JobRelease
    <2>6. CASE JobForget(j)
      BY <2>6 DEF JobForget
    <2> QED
      BY <1>2, <2>1, <2>2, <2>3, <2>4, <2>5, <2>6 DEF Work
  <1>3. ASSUME NEW a \in Account, Expire(a) PROVE Owned'
    <2>1. \A b \in Account : row'[b].status = row[b].status /\ row'[b].holder = row[b].holder
      BY <1>3 DEF Expire
    <2> QED
      BY <1>3, <2>1 DEF Expire
  <1>4. ASSUME NEW a \in Account, DeleteAccount(a) PROVE Owned'
    <2>1. \A b \in Account \ raced' : b \in Account \ raced
      BY <1>4 DEF DeleteAccount
    <2>2. RowsHaveOwner'
      BY <1>4, <2>1 DEF DeleteAccount, NoRow
    <2>3. /\ \A c \in Client : pc[c] # "idle" => user[c] \in InUse
          /\ \A j \in Job : jpc[j] # "off" => owner[j] \in InUse
      BY DEF InUse
    <2>4. UsersHold'
      \* an account in use is among the raced once it is deleted
      BY <1>4, <2>1, <2>3 DEF DeleteAccount
    <2> QED
      BY <2>2, <2>4
  <1>5. ASSUME NEW a \in Account, Register(a) PROVE Owned'
    \* the id that is given out is used by nobody
    <2>1. a \notin registered
      BY <1>5 DEF Register, Account
    <2>2. \A b \in Account : b # a => holder'[b] = holder[b]
      BY <1>5 DEF Register
    <2> QED
      BY <1>5, <2>1, <2>2 DEF Register
  <1>6. CASE Restart
    BY <1>6 DEF Restart
  <1>7. CASE UNCHANGED vars
    BY <1>7 DEF vars
  <1> QED
    BY <1>1, <1>2, <1>3, <1>4, <1>5, <1>6, <1>7 DEF Next

\* The range of sem that TypeOK adds.
Slotted == sem \in 0 .. Slots /\ SlotsMatchJobs

LEMMA HoldingFinite == IsFiniteSet(Holding)
  BY FS_Subset, RecoverAssumption DEF Holding, RecoverAssumption

LEMMA InitSlotted == Init => Slotted
  <1> SUFFICES ASSUME Init PROVE Slotted
    OBVIOUS
  <1>1. Holding = {}
    BY DEF Init, Holding, Taking
  <1>2. 0 \in 0 .. Slots
    BY RecoverAssumption DEF RecoverAssumption
  <1> QED
    BY <1>1, <1>2, FS_EmptySet DEF Slotted, SlotsMatchJobs, Init

LEMMA StepSlotted == Typed /\ Slotted /\ [Next]_vars => Slotted'
  <1> SUFFICES ASSUME Typed, Slotted, [Next]_vars PROVE Slotted'
    OBVIOUS
  <1>0. Slots \in Nat \ {0}
    BY RecoverAssumption DEF RecoverAssumption
  <1>1. ASSUME UNCHANGED sem, Holding' = Holding PROVE Slotted'
    BY <1>1 DEF Slotted, SlotsMatchJobs
  <1>2. ASSUME NEW c \in Client, Query(c) PROVE Slotted'
    <2>1. CASE Mark(c) \/ MarkFails(c)
      <3>1. PICK j \in Job : jpc[j] = "off" /\ jpc' = [jpc EXCEPT ![j] = "queued"]
        BY <2>1 DEF Mark, MarkFails, StartJob
      <3>2. Holding' = Holding
        BY <3>1 DEF Holding, Taking, Typed
      <3> QED
        BY <2>1, <3>2, <1>1 DEF Mark, MarkFails
    <2>2. CASE UNCHANGED <<sem, jpc>>
      BY <2>2, <1>1 DEF Holding
    <2> QED
      BY <1>2, <2>1, <2>2 DEF Query, Authenticate, LookupAnswers, LookupMisses,
         EnqueueKnown, EnqueueNew, jobs
  <1>3. ASSUME NEW j \in Job, Work(j) PROVE Slotted'
    <2>1. CASE JobStart(j)
      <3>1. j \notin Holding /\ Holding' = Holding \cup {j}
        BY <2>1 DEF JobStart, JobGoto, Holding, Taking, Typed
      <3>2. Cardinality(Holding') = Cardinality(Holding) + 1
        BY <3>1, FS_AddElement, HoldingFinite
      <3> QED
        BY <2>1, <3>2, <1>0 DEF JobStart, Slotted, SlotsMatchJobs
    <2>2. CASE JobRelease(j)
      <3>1. j \in Holding /\ Holding' = Holding \ {j}
        BY <2>2 DEF JobRelease, JobGoto, Holding, Taking, Typed
      <3>2. Cardinality(Holding') = Cardinality(Holding) - 1
        BY <3>1, FS_RemoveElement, HoldingFinite
      <3>3. Cardinality(Holding') \in Nat
        BY <3>1, FS_RemoveElement, FS_CardinalityType, HoldingFinite
      <3> QED
        BY <2>2, <3>2, <3>3, <1>0 DEF JobRelease, Slotted, SlotsMatchJobs
    <2>3. CASE JobResult(j) \/ JobWrite(j) \/ JobWriteFails(j) \/ JobForget(j)
      <3>1. UNCHANGED sem /\ Holding' = Holding
        BY <2>3 DEF JobResult, JobWrite, JobWriteFails, JobForget, JobGoto,
           Holding, Taking, Typed
      <3> QED
        BY <3>1, <1>1
    <2> QED
      BY <1>3, <2>1, <2>2, <2>3 DEF Work
  <1>4. ASSUME NEW a \in Account, Expire(a) \/ DeleteAccount(a) \/ Register(a)
        PROVE Slotted'
    BY <1>4, <1>1 DEF Expire, DeleteAccount, Register, jobs, Holding
  <1>5. CASE Restart
    <2>1. Holding' = {}
      BY <1>5 DEF Restart, Holding, Taking
    <2> QED
      BY <1>5, <2>1, <1>0, FS_EmptySet DEF Restart, Slotted, SlotsMatchJobs
  <1>6. CASE UNCHANGED vars
    BY <1>6, <1>1 DEF vars, jobs, Holding
  <1> QED
    BY <1>2, <1>3, <1>4, <1>5, <1>6 DEF Next

-----------------------------------------------------------------------------

\* The inductive invariant: each part is preserved given those before it.
IInv == Typed /\ Slotted /\ OneJobPerPid /\ Placeholders /\ Owned

LEMMA InitIInv == Init => IInv
  <1> SUFFICES ASSUME Init PROVE IInv
    OBVIOUS
  <1>1. Typed
    BY OneIsAccount DEF Init, Typed, NoRow, Results, NotFound, Using
  <1>2. OneJobPerPid
    BY DEF Init, OneJobPerPid, Marking, Working
  <1>3. Placeholders
    BY DEF Init, Placeholders, FetchingHasJob, JobsWrite, NoRow
  <1>4. Owned
    BY DEF Init, Owned, RowsHaveOwner, UsersHold, NoRow
  <1> QED
    BY <1>1, <1>2, <1>3, <1>4, InitSlotted DEF IInv

\* The five parts together are preserved by every step of RecoverQueue.
THEOREM Inductive == Spec => []IInv
  <1>1. IInv /\ [Next]_vars => IInv'
    BY StepTyped, StepSlotted, StepOneJob, StepFetching, StepOwned DEF IInv
  <1> QED
    BY InitIInv, <1>1, PTL DEF Spec

\* Every variable keeps its type, so no more than Slots slots are ever taken.
THEOREM RecoverTypeCorrect == Spec => []TypeOK
  <1>1. IInv => TypeOK
    BY DEF IInv, Typed, Slotted, TypeOK
  <1> QED
    BY <1>1, Inductive, PTL

\* However many requests, jobs and accounts there are, at most one job per
\* account and pid is under way, and inflight names exactly those.
THEOREM AtMostOneJob == Spec => []OneJobPerPid
  <1>1. IInv => OneJobPerPid
    BY DEF IInv
  <1> QED
    BY <1>1, Inductive, PTL

\* A placeholder row has a job that will replace it, or a crash or a failed
\* statement left it behind.
THEOREM PlaceholdersHaveJobs == Spec => []FetchingHasJob
  <1>1. IInv => FetchingHasJob
    BY DEF IInv, Placeholders
  <1> QED
    BY <1>1, Inductive, PTL

\* The semaphore counts the jobs that hold a slot.
THEOREM SlotsAreCounted == Spec => []SlotsMatchJobs
  <1>1. IInv => SlotsMatchJobs
    BY DEF IInv, Slotted
  <1> QED
    BY <1>1, Inductive, PTL

\* Rows of recover_cache, requests and jobs belong to the account that has the id
\* now, also when the id was given out again.  The exception is an id that was
\* deleted while a request or a job used it: nothing tells those
\* (admin/service.go:229, queue.go:117).
THEOREM RowsKeepOwner == Spec => [](RowsHaveOwner /\ UsersHold)
  <1>1. IInv => RowsHaveOwner /\ UsersHold
    BY DEF IInv, Owned
  <1> QED
    BY <1>1, Inductive, PTL
=============================================================================
