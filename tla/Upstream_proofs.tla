-------------------------- MODULE Upstream_proofs --------------------------
(***************************************************************************)
(* Theorems about the two services that fetch from an upstream while the   *)
(* client waits.                                                           *)
(*                                                                         *)
(* ImgFlight.  The conjuncts of FlightInv say that the map inflight names  *)
(* exactly the requests that lead; since a key has one entry in the map,   *)
(* it has one leader, and since an entry is removed only together with its *)
(* followers' waiting, a follower always has one.                          *)
(*                                                                         *)
(* Relay.  Whole says that an answer of 200 is all of an upstream's body   *)
(* that fits the limit.  It is inductive because a reader that ends before *)
(* the upstream does has read the one byte more.                           *)
(***************************************************************************)
EXTENDS ImgFlight, Relay, TLAPS

-----------------------------------------------------------------------------
(* ImgFlight *)

LEMMA InitTyped == Init => TypeOK
  BY FlightAssumption DEF Init, TypeOK, Steps

LEMMA StepTyped == TypeOK /\ [Next]_vars => TypeOK'
  <1> SUFFICES ASSUME TypeOK, [Next]_vars PROVE TypeOK'
    OBVIOUS
  <1> USE DEF TypeOK, Steps, Leading, Images, Goto
  <1>1. ASSUME NEW r \in Request, Arrive(r) PROVE TypeOK'
    BY <1>1 DEF Arrive
  <1>2. ASSUME NEW r \in Request, Step(r) PROVE TypeOK'
    <2>1. CASE LookupHit(r)
      BY <2>1 DEF LookupHit
    <2>2. CASE LookupMiss(r)
      BY <2>2 DEF LookupMiss
    <2>3. CASE LookupDegraded(r)
      BY <2>3 DEF LookupDegraded
    <2>4. CASE EnterLead(r)
      BY <2>4 DEF EnterLead
    <2>5. CASE EnterFollow(r)
      BY <2>5 DEF EnterFollow
    <2>6. CASE UpstreamUncached(r)
      BY <2>6 DEF UpstreamUncached
    <2>7. CASE UpstreamBody(r)
      BY <2>7 DEF UpstreamBody
    <2>8. CASE CommitDone(r)
      BY <2>8 DEF CommitDone
    <2>9. CASE CommitDegraded(r)
      BY <2>9 DEF CommitDegraded
    <2>10. CASE Leave(r)
      BY <2>10 DEF Leave
    <2> QED
      BY <1>2, <2>1, <2>2, <2>3, <2>4, <2>5, <2>6, <2>7, <2>8, <2>9, <2>10 DEF Step
  <1>3. ASSUME NEW k \in Keys, Evict(k) PROVE TypeOK'
    BY <1>3 DEF Evict
  <1>4. CASE UNCHANGED vars
    BY <1>4 DEF vars
  <1> QED
    BY <1>1, <1>2, <1>3, <1>4 DEF Next

\* Every variable of ImgFlight keeps its type.
THEOREM FlightTypeCorrect == Spec => []TypeOK
  BY InitTyped, StepTyped, PTL DEF Spec

LEMMA InitFlight == Init => FlightInv
  BY FlightAssumption DEF Init, FlightInv, Leads, Leading

LEMMA StepFlight == TypeOK /\ FlightInv /\ [Next]_vars => FlightInv'
  <1> SUFFICES ASSUME TypeOK, FlightInv, [Next]_vars PROVE FlightInv'
    OBVIOUS
  <1> USE FlightAssumption DEF TypeOK, FlightInv, Steps, Leads, Leading, Goto
  <1>1. ASSUME NEW r \in Request, Arrive(r) PROVE FlightInv'
    BY <1>1 DEF Arrive
  <1>2. ASSUME NEW r \in Request, Step(r) PROVE FlightInv'
    <2>1. CASE LookupHit(r)
      BY <2>1 DEF LookupHit
    <2>2. CASE LookupMiss(r)
      BY <2>2 DEF LookupMiss
    <2>3. CASE LookupDegraded(r)
      BY <2>3 DEF LookupDegraded
    <2>4. CASE EnterLead(r)
      BY <2>4 DEF EnterLead
    <2>5. CASE EnterFollow(r)
      BY <2>5 DEF EnterFollow
    <2>6. CASE UpstreamUncached(r)
      BY <2>6 DEF UpstreamUncached
    <2>7. CASE UpstreamBody(r)
      BY <2>7 DEF UpstreamBody
    <2>8. CASE CommitDone(r)
      BY <2>8 DEF CommitDone
    <2>9. CASE CommitDegraded(r)
      BY <2>9 DEF CommitDegraded
    <2>10. CASE Leave(r)
      \* the leader is the only one with this key, so no other entry is lost
      <3>1. inflight[want[r]] = r
        BY <2>10 DEF Leave
      <3>2. \A s \in Request : Leads(s) /\ want[s] = want[r] => s = r
        BY <3>1
      <3> QED
        BY <2>10, <3>1, <3>2 DEF Leave
    <2> QED
      BY <1>2, <2>1, <2>2, <2>3, <2>4, <2>5, <2>6, <2>7, <2>8, <2>9, <2>10 DEF Step
  <1>3. ASSUME NEW k \in Keys, Evict(k) PROVE FlightInv'
    BY <1>3 DEF Evict
  <1>4. CASE UNCHANGED vars
    BY <1>4 DEF vars
  <1> QED
    BY <1>1, <1>2, <1>3, <1>4 DEF Next

\* The map of flights names exactly the requests that lead one.
THEOREM FlightsAgree == Spec => []FlightInv
  <1>1. TypeOK /\ FlightInv /\ [Next]_vars => TypeOK' /\ FlightInv'
    BY StepTyped, StepFlight
  <1> QED
    BY InitTyped, InitFlight, <1>1, PTL DEF Spec

\* At most one request for a key is at the upstream at a time, however many
\* requests for however many keys there are.
THEOREM OneFlightPerKey == Spec => []OneFlight
  <1>1. FlightInv => OneFlight
    BY DEF FlightInv, OneFlight
  <1> QED
    BY <1>1, FlightsAgree, PTL

\* A follower always waits for a request that leads the flight of its key and
\* has yet to leave it, so the wakeup is never lost.
THEOREM FollowersAreWoken == Spec => []FollowersHaveLeader
  <1>1. TypeOK /\ FlightInv => FollowersHaveLeader
    BY DEF TypeOK, FlightInv, FollowersHaveLeader
  <1> QED
    BY <1>1, FlightsAgree, FlightTypeCorrect, PTL
-----------------------------------------------------------------------------
(* Relay *)

LEMMA RelayConstants ==
  /\ MaxBody \in Nat /\ MaxTimeout \in Nat
  /\ DefaultTimeout \in Nat /\ 1 <= DefaultTimeout /\ DefaultTimeout <= MaxTimeout
  BY RelayAssumption

\* What a request asks for is brought into the range of the deadlines, a
\* negative number too.
LEMMA ClampBounds == ASSUME NEW t \in Int PROVE Clamp(t) \in 1..MaxTimeout
  BY RelayConstants DEF Clamp

LEMMA RefusalCodes == ASSUME NEW r PROVE Refusal(r) \in {0, 400, 403}
  BY DEF Refusal

\* In whatever order the headers are set, what is sent is the client's or the default.
LEMMA AgentsGiven == ASSUME NEW r \in RelayRequest PROVE Agents(r) \subseteq Value \cup {DefaultUA}
  <1>1. \A s \in Spelling : r.headers[s] \in Value \cup {Absent}
    BY DEF RelayRequest
  <1>2. Given(r) \subseteq Value
    BY <1>1 DEF Given
  <1> QED
    BY <1>2 DEF Agents

LEMMA RelayInitTyped == RelayInit => RelayTypeOK
  BY RelayConstants DEF RelayInit, RelayTypeOK

LEMMA RelayStepTyped == RelayTypeOK /\ [RelayNext]_relayVars => RelayTypeOK'
  <1> SUFFICES ASSUME RelayTypeOK, [RelayNext]_relayVars PROVE RelayTypeOK'
    OBVIOUS
  <1> USE RelayConstants DEF RelayTypeOK
  <1>1. CASE Receive
    <2>1. req.timeout \in Int
      BY RelayAssumption DEF RelayRequest
    <2>2. Clamp(req.timeout) \in 0..MaxTimeout
      BY <2>1, ClampBounds
    <2>3. status' \in {0, 400, 403}
      BY <1>1, RefusalCodes DEF Receive
    <2>4. left' \in 0..MaxTimeout
      BY <1>1, <2>2 DEF Receive
    <2>5. agent' \in Value \cup {DefaultUA}
      BY <1>1, AgentsGiven DEF Receive
    <2>6. stage' \in {"sent", "answered"}
      BY <1>1 DEF Receive
    <2>7. UNCHANGED <<req, total, got>>
      BY <1>1 DEF Receive
    <2> QED
      BY <2>3, <2>4, <2>5, <2>6, <2>7
  <1>2. ASSUME NEW n \in 0..MaxBody + 2, Responds(n) PROVE RelayTypeOK'
    BY <1>2 DEF Responds
  <1>3. CASE Read
    BY <1>3 DEF Read, ReadLimit
  <1>4. CASE Finish
    BY <1>4 DEF Finish, Answer
  <1>5. CASE Fails
    BY <1>5 DEF Fails, Answer
  <1>6. CASE Tick
    BY <1>6 DEF Tick
  <1>7. CASE Expires
    BY <1>7 DEF Expires, Answer
  <1>8. CASE UNCHANGED relayVars
    BY <1>8 DEF relayVars
  <1> QED
    BY <1>1, <1>2, <1>3, <1>4, <1>5, <1>6, <1>7, <1>8 DEF RelayNext

\* Every variable of Relay keeps its type: the deadline is one of those allowed,
\* at most one unit over the limit is read, and the client gets one of four codes.
THEOREM RelayTypeCorrect == RelaySpec => []RelayTypeOK
  BY RelayInitTyped, RelayStepTyped, PTL DEF RelaySpec

\* What was read is a beginning of the upstream's answer; a request that is
\* refused has read nothing; and success means all of an answer within the limit.
Whole ==
    /\ got <= total
    /\ stage \in {"new", "sent"} \/ status \in {400, 403} => total = 0
    /\ stage # "answered" => status = 0
    /\ stage = "answered" /\ status = 200 => got = total /\ got <= MaxBody

LEMMA InitWhole == RelayInit => Whole
  BY DEF RelayInit, Whole

LEMMA StepWhole == RelayTypeOK /\ Whole /\ [RelayNext]_relayVars => Whole'
  <1> SUFFICES ASSUME RelayTypeOK, Whole, [RelayNext]_relayVars PROVE Whole'
    OBVIOUS
  <1> USE RelayConstants DEF RelayTypeOK, Whole
  <1>1. CASE Receive
    <2>1. Refusal(req) \in {0, 400, 403}
      BY RefusalCodes
    <2> QED
      BY <1>1, <2>1 DEF Receive
  <1>2. ASSUME NEW n \in 0..MaxBody + 2, Responds(n) PROVE Whole'
    BY <1>2 DEF Responds
  <1>3. CASE Read
    BY <1>3 DEF Read
  <1>4. CASE Finish
    \* it ended before the upstream only if it read more than the limit
    <2>1. got = total \/ got > MaxBody
      BY <1>4 DEF Finish, ReadLimit
    <2>2. status' = IF got > MaxBody THEN 502 ELSE 200
      BY <1>4 DEF Finish, Answer
    <2>3. stage' = "answered" /\ UNCHANGED <<got, total>>
      BY <1>4 DEF Finish, Answer
    <2> QED
      BY <2>1, <2>2, <2>3
  <1>5. CASE Fails
    BY <1>5 DEF Fails, Answer
  <1>6. CASE Tick
    BY <1>6 DEF Tick
  <1>7. CASE Expires
    BY <1>7 DEF Expires, Answer
  <1>8. CASE UNCHANGED relayVars
    BY <1>8 DEF relayVars
  <1> QED
    BY <1>1, <1>2, <1>3, <1>4, <1>5, <1>6, <1>7, <1>8 DEF RelayNext

\* A client that gets the upstream's answer gets all of it, whatever the limit
\* and wherever the upstream, the client or the deadline cuts it off.
THEOREM AnswersAreWhole == RelaySpec => []WholeOrNothing
  <1>1. RelayTypeOK /\ Whole /\ [RelayNext]_relayVars => RelayTypeOK' /\ Whole'
    BY RelayStepTyped, StepWhole
  <1>2. Whole => WholeOrNothing
    BY DEF Whole, WholeOrNothing
  <1> QED
    BY RelayInitTyped, InitWhole, <1>1, <1>2, PTL DEF RelaySpec
=============================================================================
