--------------------------- MODULE Accounts_proofs ---------------------------
(***************************************************************************)
(* Theorems about Accounts.  Those about tokens and devices rest on one    *)
(* argument: what a transaction has read still holds while its snapshot is *)
(* not outdated, because every commit outdates the snapshots of the others.*)
(* The one about data names the requests that have no such snapshot.       *)
(***************************************************************************)
EXTENDS Accounts, TLAPS

LEMMA IdsAreNumbers ==
    Id \subseteq Nat /\ 0 \notin Id /\ 1 \in Id /\ MaxIssued \in Nat
  BY AccountsAssumption DEF Id, AccountsAssumption

\* What a transaction that rotates a pair has read still holds.
Refreshing ==
    \A c \in Client : pc[c] = "refresh" /\ c \notin stale =>
        dev[c] \in Devices /\ device[dev[c]].token = old[c]

\* What a transaction that joins an account has read still holds.
Joining ==
    \A c \in Client : pc[c] = "join" /\ c \notin stale =>
        acct[c] \in Accounts /\ account[acct[c]] = who[c]

\* The pairs of devices are different, were given out, and not yet exchanged.
PairsUnused ==
    /\ \A d \in Devices : device[d].token <= issued /\ rotations[device[d].token] = 0
    /\ \A d, e \in Devices : device[d].token = device[e].token => d = e
    /\ \A t \in Tokens : t > issued => rotations[t] = 0

LEMMA StepTyped == TypeOK /\ Refreshing /\ [Next]_vars => TypeOK'
  <1> SUFFICES ASSUME TypeOK, Refreshing, [Next]_vars PROVE TypeOK'
    OBVIOUS
  <1> USE IdsAreNumbers DEF TypeOK, requests, tables, auxes
  <1>0. ASSUME NEW d \in Id, NEW r \in Device \cup {NoDevice},
               device' = [device EXCEPT ![d] = r]
        PROVE device' \in [Id -> Device \cup {NoDevice}]
    BY <1>0
  <1>t. issued < MaxIssued => issued + 1 \in Tokens
    BY IdsAreNumbers DEF Tokens
  <1>1. CASE RegisterNew
    <2>1. PICK a, d \in Id :
             /\ account' = [account EXCEPT ![a] = issued + 1]
             /\ IssueDevice(d, a, issued + 1)
      BY <1>1 DEF RegisterNew
    <2>2. device' \in [Id -> Device \cup {NoDevice}] /\ issued' \in Nat
      BY <1>0, <1>t, <2>1 DEF IssueDevice, Device
    <2>3. account' \in [Id -> Nat]
      BY <2>1
    <2> QED
      BY <1>1, <2>2, <2>3 DEF RegisterNew, Committed
  <1>2. ASSUME NEW c \in Client, Request(c) PROVE TypeOK'
    <2>1. CASE JoinLookup(c)
      BY <2>1 DEF JoinLookup, Accounts
    <2>2. CASE JoinCommit(c)
      <3>1. PICK d \in Id : IssueDevice(d, acct[c], who[c])
        BY <2>2 DEF JoinCommit
      <3>2. acct[c] \in Id
        BY <2>2 DEF JoinCommit, Accounts
      <3>3. device' \in [Id -> Device \cup {NoDevice}] /\ issued' \in Nat
        BY <1>0, <1>t, <3>1, <3>2 DEF IssueDevice, Device
      <3> QED
        BY <2>2, <3>3 DEF JoinCommit, Return, Committed
    <2>3. CASE RefreshLookup(c)
      <3>1. \A d \in Devices : d \in Id /\ device[d].token \in Tokens
        BY DEF Devices, Device
      <3> QED
        BY <2>3, <3>1 DEF RefreshLookup
    <2>4. CASE RefreshCommit(c)
      <3>1. dev[c] \in Devices /\ device[dev[c]].token = old[c]
        BY <2>4 DEF RefreshCommit, Refreshing
      <3>2. dev[c] \in Id /\ device[dev[c]] \in Device /\ old[c] \in Tokens
        BY <3>1 DEF Devices, Device
      <3> DEFINE r == [device[dev[c]] EXCEPT !.token = issued + 1, !.access = TRUE, !.refresh = TRUE]
      <3>3. r \in Device
        BY <2>4, <1>t, <3>2 DEF RefreshCommit, Rotate, Device
      <3>4. device' = [device EXCEPT ![dev[c]] = r]
        BY <2>4, <3>2 DEF RefreshCommit, Rotate
      <3>5. device' \in [Id -> Device \cup {NoDevice}]
        BY <1>0, <3>2, <3>3, <3>4
      <3> QED
        BY <2>4, <3>2, <3>5 DEF RefreshCommit, Rotate, Return, Committed
    <2>5. CASE Rollback(c)
      BY <2>5 DEF Rollback, Return
    <2>6. CASE Authenticate(c)
      <3>1. PICK d \in Devices :
               /\ acct' = [acct EXCEPT ![c] = device[d].account]
               /\ who' = [who EXCEPT ![c] = device[d].owner]
        BY <2>6 DEF Authenticate
      <3>2. device[d].account \in Id /\ device[d].owner \in Nat
        BY DEF Devices, Device
      <3>3. acct' \in [Client -> Id \cup {0}] /\ who' \in [Client -> Nat]
        BY <3>1, <3>2
      <3> QED
        BY <2>6, <3>3 DEF Authenticate
    <2>7. CASE AuthenticateStatic(c)
      BY <2>7 DEF AuthenticateStatic, StaticOwner
    <2>8. CASE Use(c)
      <3>1. acct[c] \in Id /\ who[c] \in Nat
        BY <2>8 DEF Use, Accounts
      <3>2. data[acct[c]] \cup {who[c]} \in SUBSET Nat
        BY <3>1
      <3>3. data' \in [Id -> SUBSET Nat]
        BY <2>8, <3>2 DEF Use
      <3> QED
        BY <2>8, <3>3 DEF Use, Return, Committed
    <2>9. CASE UseNothing(c)
      BY <2>9 DEF UseNothing, Return
    <2> QED
      BY <1>2, <2>1, <2>2, <2>3, <2>4, <2>5, <2>6, <2>7, <2>8, <2>9 DEF Request
  <1>3. ASSUME NEW i \in Id,
               DeleteDevice(i) \/ DeleteAccount(i) \/ ExpireAccess(i) \/ ExpireRefresh(i)
        PROVE TypeOK'
    <2>1. CASE DeleteDevice(i)
      BY <2>1 DEF DeleteDevice, Committed
    <2>2. CASE DeleteAccount(i)
      BY <2>2 DEF DeleteAccount, DevicesWithout, Committed
    <2>3. CASE ExpireAccess(i)
      <3>1. device[i] \in Device
        BY <2>3 DEF ExpireAccess, NoDevice
      <3>2. [device[i] EXCEPT !.access = FALSE] \in Device
        BY <3>1 DEF Device
      <3>3. device' = [device EXCEPT ![i] = [device[i] EXCEPT !.access = FALSE]]
        BY <2>3 DEF ExpireAccess
      <3> QED
        BY <2>3, <1>0, <3>2, <3>3 DEF ExpireAccess
    <2>4. CASE ExpireRefresh(i)
      <3>1. device[i] \in Device
        BY <2>4 DEF ExpireRefresh, NoDevice
      <3>2. [device[i] EXCEPT !.refresh = FALSE] \in Device
        BY <3>1 DEF Device
      <3>3. device' = [device EXCEPT ![i] = [device[i] EXCEPT !.refresh = FALSE]]
        BY <2>4 DEF ExpireRefresh
      <3> QED
        BY <2>4, <1>0, <3>2, <3>3 DEF ExpireRefresh
    <2> QED
      BY <1>3, <2>1, <2>2, <2>3, <2>4
  <1>4. CASE Restart
    BY <1>4 DEF Restart, StaticOwner
  <1>5. CASE UNCHANGED vars
    BY <1>5 DEF vars
  <1> QED
    BY <1>1, <1>2, <1>3, <1>4, <1>5 DEF Next

-----------------------------------------------------------------------------
(* Token pairs *)

LEMMA StepPair ==
    ASSUME TypeOK, TypeOK', Refreshing, PairsUnused, RefreshOnce, [Next]_vars
    PROVE  Refreshing' /\ PairsUnused' /\ RefreshOnce'
  <1> USE IdsAreNumbers DEF requests, tables, auxes
  <1>a. ASSUME \A d \in Devices' : d \in Devices /\ device'[d].token = device[d].token,
               issued' = issued, rotations' = rotations
        PROVE PairsUnused' /\ RefreshOnce'
    BY <1>a DEF PairsUnused, RefreshOnce
  <1>b. ASSUME Committed PROVE Refreshing'
    BY <1>b DEF Committed, Refreshing
  <1>c. ASSUME NEW d \in Id, issued < MaxIssued, issued' = issued + 1,
               \A e \in Id : e # d => device'[e] = device[e],
               device'[d].token = issued + 1,
               \A t \in Tokens : \/ rotations'[t] = rotations[t]
                                 \/ d \in Devices /\ t = device[d].token
        PROVE PairsUnused'
    <2>1. issued \in Nat /\ issued + 1 \in Tokens
      BY <1>c DEF TypeOK, Tokens
    <2>2. ASSUME NEW e \in Devices', e # d
          PROVE /\ e \in Devices /\ device'[e].token = device[e].token
                /\ device[e].token \in Tokens /\ device[e].token <= issued
                /\ rotations'[device[e].token] = 0
      <3>1. e \in Devices /\ device'[e].token = device[e].token
        BY <1>c, <2>2 DEF Devices
      <3>2. device[e].token \in Tokens
        BY <3>1 DEF Devices, Device, TypeOK
      <3>3. d \in Devices => device[d].token # device[e].token
        BY <2>2, <3>1 DEF PairsUnused
      <3> QED
        BY <1>c, <3>1, <3>2, <3>3 DEF PairsUnused
    <2>3. \A t \in Tokens : t > issued + 1 => rotations'[t] = 0
      <3>1. d \in Devices => device[d].token <= issued /\ device[d].token \in Tokens
        BY DEF PairsUnused, Devices, Device, TypeOK
      <3> QED
        BY <1>c, <2>1, <3>1 DEF PairsUnused, Tokens
    <2>4. rotations'[issued + 1] = 0
      <3>1. d \in Devices => device[d].token <= issued /\ device[d].token \in Tokens
        BY DEF PairsUnused, Devices, Device, TypeOK
      <3>2. rotations[issued + 1] = 0
        BY <2>1 DEF PairsUnused
      <3> QED
        BY <1>c, <2>1, <3>1, <3>2 DEF Tokens
    <2>5. \A e \in Devices' : device'[e].token <= issued' /\ rotations'[device'[e].token] = 0
      BY <1>c, <2>1, <2>2, <2>4 DEF Tokens
    <2>6. \A e, f \in Devices' : device'[e].token = device'[f].token => e = f
      <3>1. ASSUME NEW e \in Devices', NEW f \in Devices',
                   device'[e].token = device'[f].token, e # d, f # d
            PROVE e = f
        BY <2>2, <3>1 DEF PairsUnused
      <3>2. ASSUME NEW e \in Devices', e # d PROVE device'[e].token # device'[d].token
        BY <1>c, <2>1, <2>2, <3>2 DEF Tokens
      <3> QED
        BY <3>1, <3>2
    <2> QED
      BY <1>c, <2>3, <2>5, <2>6 DEF PairsUnused
  <1>1. CASE RegisterNew
    <2>1. PICK a, d \in Id : IssueDevice(d, a, issued + 1)
      BY <1>1 DEF RegisterNew
    <2>2. PairsUnused'
      BY <1>1, <1>c, <2>1 DEF RegisterNew, IssueDevice, TypeOK
    <2> QED
      BY <1>1, <1>b, <2>2 DEF RegisterNew, RefreshOnce
  <1>2. ASSUME NEW c \in Client, Request(c)
        PROVE Refreshing' /\ PairsUnused' /\ RefreshOnce'
    <2>0. ASSUME device' = device, issued' = issued, rotations' = rotations
          PROVE PairsUnused' /\ RefreshOnce'
      BY <1>a, <2>0 DEF Devices
    <2>1. CASE JoinLookup(c)
      <3>1. Refreshing'
        BY <2>1 DEF JoinLookup, Refreshing, Devices, TypeOK
      <3> QED
        BY <2>0, <2>1, <3>1 DEF JoinLookup
    <2>2. CASE JoinCommit(c)
      <3>1. PICK d \in Id : IssueDevice(d, acct[c], who[c])
        BY <2>2 DEF JoinCommit
      <3>2. PairsUnused'
        BY <2>2, <1>c, <3>1 DEF JoinCommit, IssueDevice, TypeOK
      <3> QED
        BY <2>2, <1>b, <3>2 DEF JoinCommit, RefreshOnce
    <2>3. CASE RefreshLookup(c)
      <3>1. Refreshing'
        BY <2>3 DEF RefreshLookup, Refreshing, Devices, TypeOK
      <3> QED
        BY <2>0, <2>3, <3>1 DEF RefreshLookup
    <2>4. CASE RefreshCommit(c)
      <3>1. dev[c] \in Devices /\ dev[c] \in Id /\ device[dev[c]].token = old[c]
        BY <2>4 DEF RefreshCommit, Refreshing, Devices
      <3>2. device[dev[c]] \in Device /\ old[c] \in Tokens
        BY <3>1 DEF Devices, Device, TypeOK
      <3>3. rotations' = [rotations EXCEPT ![old[c]] = @ + 1]
        BY <2>4 DEF RefreshCommit, Rotate
      <3>4. \A t \in Tokens : rotations'[t] = rotations[t] \/ t = device[dev[c]].token
        BY <3>1, <3>3 DEF TypeOK
      <3>5. \A e \in Id : e # dev[c] => device'[e] = device[e]
        BY <2>4 DEF RefreshCommit, Rotate, TypeOK
      <3>6. device'[dev[c]].token = issued + 1
        BY <2>4, <3>1, <3>2 DEF RefreshCommit, Rotate, TypeOK, Device
      <3>7. PairsUnused'
        BY <2>4, <1>c, <3>1, <3>4, <3>5, <3>6 DEF RefreshCommit, Rotate
      <3>8. rotations[old[c]] = 0
        BY <3>1 DEF PairsUnused
      <3>9. RefreshOnce'
        BY <3>2, <3>3, <3>8 DEF RefreshOnce, TypeOK
      <3> QED
        BY <2>4, <1>b, <3>7, <3>9 DEF RefreshCommit
    <2>5. CASE Rollback(c)
      <3>1. Refreshing'
        BY <2>5 DEF Rollback, Return, Refreshing, Devices, TypeOK
      <3> QED
        BY <2>0, <2>5, <3>1 DEF Rollback
    <2>6. CASE Authenticate(c)
      <3>1. Refreshing'
        BY <2>6 DEF Authenticate, Refreshing, Devices, TypeOK
      <3> QED
        BY <2>0, <2>6, <3>1 DEF Authenticate
    <2>7. CASE AuthenticateStatic(c)
      <3>1. Refreshing'
        BY <2>7 DEF AuthenticateStatic, Refreshing, Devices, TypeOK
      <3> QED
        BY <2>0, <2>7, <3>1 DEF AuthenticateStatic
    <2>8. CASE Use(c)
      BY <1>b, <2>0, <2>8 DEF Use
    <2>9. CASE UseNothing(c)
      <3>1. Refreshing'
        BY <2>9 DEF UseNothing, Return, Refreshing, Devices, TypeOK
      <3> QED
        BY <2>0, <2>9, <3>1 DEF UseNothing
    <2> QED
      BY <1>2, <2>1, <2>2, <2>3, <2>4, <2>5, <2>6, <2>7, <2>8, <2>9 DEF Request
  <1>3. ASSUME NEW i \in Id,
               DeleteDevice(i) \/ DeleteAccount(i) \/ ExpireAccess(i) \/ ExpireRefresh(i)
        PROVE Refreshing' /\ PairsUnused' /\ RefreshOnce'
    <2>1. CASE DeleteDevice(i)
      <3>1. \A d \in Devices' : d \in Devices /\ device'[d].token = device[d].token
        BY <2>1 DEF DeleteDevice, Devices, TypeOK
      <3> QED
        BY <1>a, <1>b, <2>1, <3>1 DEF DeleteDevice
    <2>2. CASE DeleteAccount(i)
      <3>1. \A d \in Devices' : d \in Devices /\ device'[d].token = device[d].token
        BY <2>2 DEF DeleteAccount, DevicesWithout, Devices, TypeOK
      <3> QED
        BY <1>a, <1>b, <2>2, <3>1 DEF DeleteAccount
    <2>3. CASE ExpireAccess(i)
      <3>1. device[i] \in Device /\ i \in Devices
        BY <2>3 DEF ExpireAccess, NoDevice, Devices, TypeOK
      <3>2. \A d \in Id : device'[d].token = device[d].token /\ (d # i => device'[d] = device[d])
        <4>1. device' = [device EXCEPT ![i] = [device[i] EXCEPT !.access = FALSE]]
          BY <2>3 DEF ExpireAccess
        <4>2. [device[i] EXCEPT !.access = FALSE].token = device[i].token
          BY <3>1 DEF Device
        <4>3. device'[i] = [device[i] EXCEPT !.access = FALSE]
          BY <4>1, <3>1 DEF TypeOK, Devices
        <4>4. \A d \in Id : d # i => device'[d] = device[d]
          BY <4>1 DEF TypeOK
        <4> QED
          BY <4>2, <4>3, <4>4
      <3>3. device'[i] # NoDevice
        <4>1. device[i].token # 0 /\ NoDevice.token = 0
          BY <3>1 DEF Device, NoDevice, Tokens
        <4> QED
          BY <3>2, <4>1
      <3>4. Devices' = Devices
        BY <3>1, <3>2, <3>3 DEF Devices
      <3>5. Refreshing'
        BY <2>3, <3>2, <3>4 DEF ExpireAccess, Refreshing, Devices
      <3> QED
        BY <1>a, <2>3, <3>2, <3>4, <3>5 DEF ExpireAccess, Devices
    <2>4. CASE ExpireRefresh(i)
      <3>1. device[i] \in Device /\ i \in Devices
        BY <2>4 DEF ExpireRefresh, NoDevice, Devices, TypeOK
      <3>2. \A d \in Id : device'[d].token = device[d].token /\ (d # i => device'[d] = device[d])
        <4>1. device' = [device EXCEPT ![i] = [device[i] EXCEPT !.refresh = FALSE]]
          BY <2>4 DEF ExpireRefresh
        <4>2. [device[i] EXCEPT !.refresh = FALSE].token = device[i].token
          BY <3>1 DEF Device
        <4>3. device'[i] = [device[i] EXCEPT !.refresh = FALSE]
          BY <4>1, <3>1 DEF TypeOK, Devices
        <4>4. \A d \in Id : d # i => device'[d] = device[d]
          BY <4>1 DEF TypeOK
        <4> QED
          BY <4>2, <4>3, <4>4
      <3>3. device'[i] # NoDevice
        <4>1. device[i].token # 0 /\ NoDevice.token = 0
          BY <3>1 DEF Device, NoDevice, Tokens
        <4> QED
          BY <3>2, <4>1
      <3>4. Devices' = Devices
        BY <3>1, <3>2, <3>3 DEF Devices
      <3>5. Refreshing'
        BY <2>4, <3>2, <3>4 DEF ExpireRefresh, Refreshing, Devices
      <3> QED
        BY <1>a, <2>4, <3>2, <3>4, <3>5 DEF ExpireRefresh, Devices
    <2> QED
      BY <1>3, <2>1, <2>2, <2>3, <2>4
  <1>4. CASE Restart
    <2>1. Refreshing'
      BY <1>4 DEF Restart, Refreshing
    <2> QED
      BY <1>a, <1>4, <2>1 DEF Restart, Devices
  <1>5. CASE UNCHANGED vars
    <2>1. Refreshing'
      BY <1>5 DEF vars, Refreshing, Devices
    <2> QED
      BY <1>a, <1>5, <2>1 DEF vars, Devices
  <1> QED
    BY <1>1, <1>2, <1>3, <1>4, <1>5 DEF Next

-----------------------------------------------------------------------------
(* Owners *)

LEMMA StepOwner ==
    ASSUME TypeOK, TypeOK', Refreshing, Joining, DevicesOfOwner, [Next]_vars
    PROVE  Joining' /\ DevicesOfOwner'
  <1> USE IdsAreNumbers DEF requests, tables, auxes
  <1>a. ASSUME \A d \in Devices' : /\ d \in Devices
                                   /\ device'[d].account = device[d].account
                                   /\ device'[d].owner = device[d].owner
                                   /\ account'[device[d].account] = account[device[d].account]
        PROVE DevicesOfOwner'
    BY <1>a DEF DevicesOfOwner, Accounts
  <1>b. ASSUME Committed PROVE Joining'
    BY <1>b DEF Committed, Joining
  <1>c. ASSUME NEW a \in Id, IsNextId(a, Accounts),
               \A b \in Id : b # a => account'[b] = account[b]
        PROVE \A d \in Devices : account'[device[d].account] = account[device[d].account]
    <2>1. a \notin Accounts
      BY <1>c DEF IsNextId
    <2> QED
      BY <1>c, <2>1 DEF DevicesOfOwner, Accounts
  <1>d. ASSUME NEW d \in Id, NEW a \in Id, NEW o, IssueDevice(d, a, o),
               account'[a] = o, o # 0,
               \A e \in Devices : account'[device[e].account] = account[device[e].account]
        PROVE DevicesOfOwner'
    <2>1. device'[d].account = a /\ device'[d].owner = o
      BY <1>d DEF IssueDevice, TypeOK
    <2>2. \A e \in Devices' : e # d => e \in Devices /\ device'[e] = device[e]
      BY <1>d DEF IssueDevice, TypeOK, Devices
    <2>3. \A e \in Devices : /\ device[e].account \in Accounts
                             /\ account[device[e].account] = device[e].owner
      BY DEF DevicesOfOwner
    <2>4. ASSUME NEW e \in Devices'
          PROVE device'[e].account \in Accounts' /\ account'[device'[e].account] = device'[e].owner
      <3>1. CASE e = d
        BY <1>d, <2>1, <3>1 DEF Accounts
      <3>2. CASE e # d
        BY <1>d, <2>2, <2>3, <3>2 DEF Accounts
      <3> QED
        BY <3>1, <3>2
    <2> QED
      BY <2>4 DEF DevicesOfOwner
  <1>1. CASE RegisterNew
    <2>1. PICK a, d \in Id :
             /\ IsNextId(a, Accounts)
             /\ account' = [account EXCEPT ![a] = issued + 1]
             /\ IssueDevice(d, a, issued + 1)
      BY <1>1 DEF RegisterNew
    <2>2. account'[a] = issued + 1 /\ issued + 1 # 0
      BY <2>1 DEF TypeOK
    <2>3. \A b \in Id : b # a => account'[b] = account[b]
      BY <2>1 DEF TypeOK
    <2>4. DevicesOfOwner'
      BY <1>c, <1>d, <2>1, <2>2, <2>3
    <2> QED
      BY <1>1, <1>b, <2>4 DEF RegisterNew
  <1>2. ASSUME NEW c \in Client, Request(c) PROVE Joining' /\ DevicesOfOwner'
    <2>0. ASSUME device' = device, account' = account PROVE DevicesOfOwner'
      BY <1>a, <2>0 DEF Devices
    <2>1. CASE JoinLookup(c)
      <3>1. Joining'
        BY <2>1 DEF JoinLookup, Joining, Accounts, TypeOK
      <3> QED
        BY <2>0, <2>1, <3>1 DEF JoinLookup
    <2>2. CASE JoinCommit(c)
      <3>1. PICK d \in Id : IssueDevice(d, acct[c], who[c])
        BY <2>2 DEF JoinCommit
      <3>2. acct[c] \in Id /\ account[acct[c]] = who[c] /\ who[c] # 0
        BY <2>2 DEF JoinCommit, Joining, Accounts
      <3>3. DevicesOfOwner'
        BY <1>d, <2>2, <3>1, <3>2 DEF JoinCommit
      <3> QED
        BY <1>b, <2>2, <3>3 DEF JoinCommit
    <2>3. CASE RefreshLookup(c)
      <3>1. Joining'
        BY <2>3 DEF RefreshLookup, Joining, Accounts, TypeOK
      <3> QED
        BY <2>0, <2>3, <3>1 DEF RefreshLookup
    <2>4. CASE RefreshCommit(c)
      <3>1. dev[c] \in Devices /\ dev[c] \in Id
        BY <2>4 DEF RefreshCommit, Refreshing, Devices
      <3>2. device[dev[c]] \in Device
        BY <3>1 DEF Devices, TypeOK
      <3>3. \A e \in Id : e # dev[c] => device'[e] = device[e]
        BY <2>4 DEF RefreshCommit, Rotate, TypeOK
      <3>4. /\ device'[dev[c]].account = device[dev[c]].account
            /\ device'[dev[c]].owner = device[dev[c]].owner
        BY <2>4, <3>1, <3>2 DEF RefreshCommit, Rotate, TypeOK, Device
      <3>5. DevicesOfOwner'
        BY <1>a, <2>4, <3>1, <3>3, <3>4 DEF RefreshCommit, Devices
      <3> QED
        BY <2>4, <1>b, <3>5 DEF RefreshCommit
    <2>5. CASE Rollback(c)
      <3>1. Joining'
        BY <2>5 DEF Rollback, Return, Joining, Accounts, TypeOK
      <3> QED
        BY <2>0, <2>5, <3>1 DEF Rollback
    <2>6. CASE Authenticate(c)
      <3>1. Joining'
        BY <2>6 DEF Authenticate, Joining, Accounts, TypeOK
      <3> QED
        BY <2>0, <2>6, <3>1 DEF Authenticate
    <2>7. CASE AuthenticateStatic(c)
      <3>1. Joining'
        BY <2>7 DEF AuthenticateStatic, Joining, Accounts, TypeOK
      <3> QED
        BY <2>0, <2>7, <3>1 DEF AuthenticateStatic
    <2>8. CASE Use(c)
      BY <1>b, <2>0, <2>8 DEF Use
    <2>9. CASE UseNothing(c)
      <3>1. Joining'
        BY <2>9 DEF UseNothing, Return, Joining, Accounts, TypeOK
      <3> QED
        BY <2>0, <2>9, <3>1 DEF UseNothing
    <2> QED
      BY <1>2, <2>1, <2>2, <2>3, <2>4, <2>5, <2>6, <2>7, <2>8, <2>9 DEF Request
  <1>3. ASSUME NEW i \in Id,
               DeleteDevice(i) \/ DeleteAccount(i) \/ ExpireAccess(i) \/ ExpireRefresh(i)
        PROVE Joining' /\ DevicesOfOwner'
    <2>1. CASE DeleteDevice(i)
      <3>1. \A d \in Devices' : d \in Devices /\ device'[d] = device[d]
        BY <2>1 DEF DeleteDevice, Devices, TypeOK
      <3> QED
        BY <1>a, <1>b, <2>1, <3>1 DEF DeleteDevice
    <2>2. CASE DeleteAccount(i)
      <3>1. \A d \in Devices' : /\ d \in Devices /\ device'[d] = device[d]
                                /\ device[d].account # i
        BY <2>2 DEF DeleteAccount, DevicesWithout, Devices, TypeOK
      <3>2. \A a \in Id : a # i => account'[a] = account[a]
        BY <2>2 DEF DeleteAccount, TypeOK
      <3>3. \A d \in Devices : device[d].account \in Id
        BY DEF DevicesOfOwner, Accounts
      <3>4. DevicesOfOwner'
        BY <1>a, <3>1, <3>2, <3>3
      <3> QED
        BY <1>b, <2>2, <3>4 DEF DeleteAccount
    <2>3. CASE ExpireAccess(i)
      <3>1. device[i] \in Device /\ i \in Devices
        BY <2>3 DEF ExpireAccess, NoDevice, Devices, TypeOK
      <3>2. \A d \in Id : d # i => device'[d] = device[d]
        BY <2>3 DEF ExpireAccess, TypeOK
      <3>3. device'[i] = [device[i] EXCEPT !.access = FALSE]
        BY <2>3 DEF ExpireAccess, TypeOK
      <3>4. device'[i].account = device[i].account /\ device'[i].owner = device[i].owner
        BY <3>1, <3>3 DEF Device
      <3>5. DevicesOfOwner'
        BY <1>a, <2>3, <3>1, <3>2, <3>4 DEF ExpireAccess, Devices
      <3>6. Joining'
        BY <2>3 DEF ExpireAccess, Joining, Accounts
      <3> QED
        BY <3>5, <3>6
    <2>4. CASE ExpireRefresh(i)
      <3>1. device[i] \in Device /\ i \in Devices
        BY <2>4 DEF ExpireRefresh, NoDevice, Devices, TypeOK
      <3>2. \A d \in Id : d # i => device'[d] = device[d]
        BY <2>4 DEF ExpireRefresh, TypeOK
      <3>3. device'[i] = [device[i] EXCEPT !.refresh = FALSE]
        BY <2>4 DEF ExpireRefresh, TypeOK
      <3>4. device'[i].account = device[i].account /\ device'[i].owner = device[i].owner
        BY <3>1, <3>3 DEF Device
      <3>5. DevicesOfOwner'
        BY <1>a, <2>4, <3>1, <3>2, <3>4 DEF ExpireRefresh, Devices
      <3>6. Joining'
        BY <2>4 DEF ExpireRefresh, Joining, Accounts
      <3> QED
        BY <3>5, <3>6
    <2> QED
      BY <1>3, <2>1, <2>2, <2>3, <2>4
  <1>4. CASE Restart
    <2>1. Joining'
      BY <1>4 DEF Restart, Joining
    <2>2. \A d \in Devices : account'[device[d].account] = account[device[d].account]
      <3>1. CASE account' = account
        BY <3>1
      <3>2. CASE \E a \in Id : /\ IsNextId(a, Accounts)
                               /\ account' = [account EXCEPT ![a] = StaticOwner]
        <4>1. PICK a \in Id : /\ IsNextId(a, Accounts)
                              /\ account' = [account EXCEPT ![a] = StaticOwner]
          BY <3>2
        <4>2. \A b \in Id : b # a => account'[b] = account[b]
          BY <4>1 DEF TypeOK
        <4> QED
          BY <1>c, <4>1, <4>2
      <3> QED
        BY <1>4, <3>1, <3>2 DEF Restart
    <2> QED
      BY <1>a, <1>4, <2>1, <2>2 DEF Restart, Devices
  <1>5. CASE UNCHANGED vars
    <2>1. Joining'
      BY <1>5 DEF vars, Joining, Accounts
    <2> QED
      BY <1>a, <1>5, <2>1 DEF vars, Devices
  <1> QED
    BY <1>1, <1>2, <1>3, <1>4, <1>5 DEF Next

-----------------------------------------------------------------------------
(* Data *)

\* The data under an id is that of the owner of its account, if any.
DataKept ==
    \A a \in Id \ raced : data[a] = {} \/ (a \in Accounts /\ data[a] = {account[a]})

\* The shared account is where the static tokens were told it is.
StaticKept == staticId # 0 /\ staticId \notin raced => account[staticId] = StaticOwner

\* A request acts for the owner of the account it was authenticated for.
Acting ==
    \A c \in Client : pc[c] = "use" /\ acct[c] \notin raced =>
        acct[c] \in Accounts /\ account[acct[c]] = who[c]

Kept == DataKept /\ StaticKept /\ Acting

LEMMA StepKept ==
    ASSUME TypeOK, DevicesOfOwner, Kept, [Next]_vars
    PROVE  Kept'
  <1> USE IdsAreNumbers DEF Kept, requests, tables, auxes, StaticOwner
  \* an account is created with an id that nothing refers to
  <1>a. ASSUME NEW a \in Id, NEW o \in Nat \ {0}, IsNextId(a, Accounts),
               account' = [account EXCEPT ![a] = o],
               UNCHANGED <<data, raced>>
        PROVE /\ DataKept' /\ a \notin Accounts
              /\ \A b \in Accounts : b \in Accounts' /\ account'[b] = account[b]
    <2>1. a \notin Accounts
      BY <1>a DEF IsNextId, Id, Accounts
    <2>2. \A b \in Id : b # a => account'[b] = account[b]
      BY <1>a DEF TypeOK
    <2>3. \A b \in Accounts : b \in Accounts' /\ account'[b] = account[b]
      BY <2>1, <2>2 DEF Accounts
    <2>4. DataKept'
      BY <1>a, <2>1, <2>3 DEF DataKept
    <2> QED
      BY <2>1, <2>3, <2>4
  <1>b. ASSUME UNCHANGED <<account, data, staticId, raced>> PROVE DataKept' /\ StaticKept'
    BY <1>b DEF DataKept, StaticKept, Accounts
  <1>1. CASE RegisterNew
    <2>1. PICK a, d \in Id :
             /\ IsNextId(a, Accounts)
             /\ account' = [account EXCEPT ![a] = issued + 1]
      BY <1>1 DEF RegisterNew
    <2>2. issued + 1 \in Nat \ {0}
      BY DEF TypeOK
    <2>3. /\ DataKept' /\ a \notin Accounts
          /\ \A b \in Accounts : b \in Accounts' /\ account'[b] = account[b]
      BY <1>1, <1>a, <2>1, <2>2 DEF RegisterNew
    <2>4. staticId # 0 /\ staticId \notin raced => staticId \in Accounts
      BY DEF StaticKept, Accounts, TypeOK
    <2>5. StaticKept' /\ Acting'
      BY <1>1, <2>3, <2>4 DEF RegisterNew, StaticKept, Acting
    <2> QED
      BY <2>3, <2>5
  <1>2. ASSUME NEW c \in Client, Request(c) PROVE Kept'
    <2>1. CASE JoinLookup(c)
      <3>1. Acting'
        BY <2>1 DEF JoinLookup, Acting, Accounts, TypeOK
      <3> QED
        BY <1>b, <2>1, <3>1 DEF JoinLookup
    <2>2. CASE JoinCommit(c)
      <3>1. Acting'
        BY <2>2 DEF JoinCommit, Return, Acting, Accounts, TypeOK
      <3> QED
        BY <1>b, <2>2, <3>1 DEF JoinCommit
    <2>3. CASE RefreshLookup(c)
      <3>1. Acting'
        BY <2>3 DEF RefreshLookup, Acting, Accounts, TypeOK
      <3> QED
        BY <1>b, <2>3, <3>1 DEF RefreshLookup
    <2>4. CASE RefreshCommit(c)
      <3>1. Acting'
        BY <2>4 DEF RefreshCommit, Return, Acting, Accounts, TypeOK
      <3> QED
        BY <1>b, <2>4, <3>1 DEF RefreshCommit
    <2>5. CASE Rollback(c)
      <3>1. Acting'
        BY <2>5 DEF Rollback, Return, Acting, Accounts, TypeOK
      <3> QED
        BY <1>b, <2>5, <3>1 DEF Rollback
    <2>6. CASE Authenticate(c)
      <3>1. PICK d \in Devices :
               /\ acct' = [acct EXCEPT ![c] = device[d].account]
               /\ who' = [who EXCEPT ![c] = device[d].owner]
        BY <2>6 DEF Authenticate
      <3>2. device[d].account \in Accounts /\ account[device[d].account] = device[d].owner
        BY DEF DevicesOfOwner
      <3>3. Acting'
        BY <2>6, <3>1, <3>2 DEF Authenticate, Acting, Accounts, TypeOK
      <3> QED
        BY <1>b, <2>6, <3>3 DEF Authenticate
    <2>7. CASE AuthenticateStatic(c)
      <3>1. Acting'
        BY <2>7 DEF AuthenticateStatic, Acting, StaticKept, Accounts, TypeOK
      <3> QED
        BY <1>b, <2>7, <3>1 DEF AuthenticateStatic
    <2>8. CASE Use(c)
      <3>1. acct[c] \in Accounts /\ acct[c] \in Id
        BY <2>8 DEF Use, Accounts
      <3>2. data' = [data EXCEPT ![acct[c]] = @ \cup {who[c]}]
        BY <2>8 DEF Use
      <3>3. acct[c] \notin raced => account[acct[c]] = who[c]
        BY <2>8 DEF Use, Acting
      <3>4. acct[c] \notin raced => data'[acct[c]] = {account[acct[c]]}
        BY <3>1, <3>2, <3>3 DEF DataKept, TypeOK
      <3>5. \A a \in Id : a # acct[c] => data'[a] = data[a]
        BY <3>2 DEF TypeOK
      <3>6. DataKept'
        BY <2>8, <3>1, <3>4, <3>5 DEF Use, DataKept, Accounts
      <3>7. StaticKept' /\ Acting'
        BY <2>8 DEF Use, Return, StaticKept, Acting, Accounts, TypeOK
      <3> QED
        BY <3>6, <3>7
    <2>9. CASE UseNothing(c)
      <3>1. Acting'
        BY <2>9 DEF UseNothing, Return, Acting, Accounts, TypeOK
      <3> QED
        BY <1>b, <2>9, <3>1 DEF UseNothing
    <2> QED
      BY <1>2, <2>1, <2>2, <2>3, <2>4, <2>5, <2>6, <2>7, <2>8, <2>9 DEF Request
  <1>3. ASSUME NEW i \in Id, DeleteDevice(i) \/ ExpireAccess(i) \/ ExpireRefresh(i)
        PROVE Kept'
    <2>1. Acting'
      BY <1>3 DEF DeleteDevice, ExpireAccess, ExpireRefresh, Acting, Accounts
    <2> QED
      BY <1>3, <1>b, <2>1 DEF DeleteDevice, ExpireAccess, ExpireRefresh
  <1>4. ASSUME NEW i \in Id, DeleteAccount(i) PROVE Kept'
    <2>1. raced \subseteq raced' /\ (i \notin raced' => ~Holds(i) /\ i # staticId)
      BY <1>4 DEF DeleteAccount
    <2>2. \A a \in Id : a # i => account'[a] = account[a] /\ data'[a] = data[a]
      BY <1>4 DEF DeleteAccount, TypeOK
    <2>3. data'[i] = {}
      BY <1>4 DEF DeleteAccount, TypeOK
    <2>4. DataKept'
      BY <2>1, <2>2, <2>3 DEF DataKept, Accounts
    <2>5. StaticKept'
      BY <1>4, <2>1, <2>2 DEF DeleteAccount, StaticKept, TypeOK
    <2>6. \A c \in Client : pc[c] = "use" /\ acct[c] \notin raced' => acct[c] # i
      BY <2>1 DEF Holds
    <2>7. Acting'
      BY <1>4, <2>1, <2>2, <2>6 DEF DeleteAccount, Acting, Accounts
    <2> QED
      BY <2>4, <2>5, <2>7
  <1>5. CASE Restart
    <2>1. Acting'
      BY <1>5 DEF Restart, Acting
    <2>2. CASE UNCHANGED <<account, staticId>>
      BY <1>5, <1>b, <2>1, <2>2 DEF Restart
    <2>3. CASE StaticTokens
      <3>1. PICK a \in Id :
               /\ staticId' = a
               /\ \/ account[a] = StaticOwner /\ UNCHANGED account
                  \/ /\ IsNextId(a, Accounts)
                     /\ account' = [account EXCEPT ![a] = StaticOwner]
        BY <1>5, <2>3 DEF Restart
      <3>2. StaticKept'
        BY <3>1 DEF StaticKept, TypeOK
      <3>3. CASE UNCHANGED account
        BY <1>5, <2>1, <3>2, <3>3 DEF Restart, DataKept, Accounts
      <3>4. CASE /\ IsNextId(a, Accounts)
                 /\ account' = [account EXCEPT ![a] = StaticOwner]
        <4>1. DataKept'
          BY <1>5, <1>a, <3>4 DEF Restart
        <4> QED
          BY <2>1, <3>2, <4>1
      <3> QED
        BY <3>1, <3>3, <3>4
    <2> QED
      BY <1>5, <2>2, <2>3 DEF Restart
  <1>6. CASE UNCHANGED vars
    <2>1. Acting'
      BY <1>6 DEF vars, Acting, Accounts
    <2> QED
      BY <1>b, <1>6, <2>1 DEF vars
  <1> QED
    BY <1>1, <1>2, <1>3, <1>4, <1>5, <1>6 DEF Next

-----------------------------------------------------------------------------

IInv == TypeOK /\ Refreshing /\ PairsUnused /\ RefreshOnce /\ Joining /\ DevicesOfOwner /\ Kept

\* The invariant is inductive: no transaction commits on what another changed.
THEOREM AccountsInductive == Spec => []IInv
  <1>1. Init => IInv
    <2> SUFFICES ASSUME Init PROVE IInv
      OBVIOUS
    <2> USE IdsAreNumbers DEF Init
    <2>1. TypeOK
      BY DEF TypeOK, StaticOwner
    <2>2. Devices = {}
      BY DEF Devices
    <2>3. Kept
      BY DEF Kept, DataKept, StaticKept, Acting, StaticOwner
    <2> QED
      BY <2>1, <2>2, <2>3 DEF IInv, Refreshing, PairsUnused, RefreshOnce, Joining, DevicesOfOwner
  <1>2. IInv /\ [Next]_vars => IInv'
    BY StepTyped, StepPair, StepOwner, StepKept DEF IInv
  <1> QED
    BY <1>1, <1>2, PTL DEF Spec

\* Every variable keeps its type, whatever requests, deletions and restarts do
\* to the rows a transaction has read (auth/service.go:110).
THEOREM AccountsTypeCorrect == Spec => []TypeOK
  BY AccountsInductive, PTL DEF IInv

\* A refresh token is exchanged at most once (auth/service.go:108).
THEOREM RefreshedOnce == Spec => []RefreshOnce
  BY AccountsInductive, PTL DEF IInv

\* No device survives its account into the next one that gets the id
\* (auth/service.go:70, admin/service.go:238).
THEOREM DevicesKeepOwner == Spec => []DevicesOfOwner
  BY AccountsInductive, PTL DEF IInv

\* Data stored under an id is that of the account which has the id now, also
\* when the id was given out again, unless the account was deleted under an
\* authenticated request, or was the shared one (admin/service.go:232).
THEOREM DataKeepsOwner == Spec => []DataOfOwnerUnraced
  <1>1. IInv => DataOfOwnerUnraced
    BY DEF IInv, Kept, DataKept, DataOfOwnerUnraced
  <1> QED
    BY <1>1, AccountsInductive, PTL
=============================================================================
