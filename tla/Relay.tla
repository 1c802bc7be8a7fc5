--------------------------------- MODULE Relay ---------------------------------
(***************************************************************************)
(* One request through internal/relay: the checks, the clamped deadline,   *)
(* the headers taken from a map in any order, and an answer that is read   *)
(* up to one byte more than the limit.  Relays share nothing but the       *)
(* limiter in front of them (RateLimiter).  net/http and the upstream are  *)
(* seen from outside: they answer, break off, or stay silent.              *)
(***************************************************************************)
EXTENDS Integers

CONSTANTS
    MaxBody,                    \* the limit of both bodies and of the JSON, in units
    Frame,                      \* units of the JSON around bodyBase64
    Spelling,                   \* ways to write the header User-Agent
    Value, Empty, DefaultUA,    \* its values; Empty is in Value
    Absent,                     \* the header is not there
    Asked, DefaultTimeout, MaxTimeout   \* timeoutMs of requests; ticks

ASSUME RelayAssumption ==
    /\ MaxBody \in Nat /\ Frame \in Nat
    /\ Empty \in Value /\ DefaultUA # Empty /\ Absent \notin Value
    /\ Asked \subseteq Int
    /\ MaxTimeout \in Nat /\ DefaultTimeout \in 1..MaxTimeout

RelayRequest == [faults : SUBSET {"form", "host", "base64"}, size : 0..MaxBody + 1,
                 headers : [Spelling -> Value \cup {Absent}], timeout : Asked]

VARIABLES
    req,    \* the request
    stage,  \* where it is
    left,   \* ticks to the deadline
    agent,  \* User-Agent of the upstream request
    total,  \* size of the upstream's answer
    got,    \* what was read of it
    status  \* of the answer to the client

relayVars == <<req, stage, left, agent, total, got, status>>

RelayTypeOK ==
    /\ req \in RelayRequest /\ stage \in {"new", "sent", "reading", "answered"}
    /\ left \in 0..MaxTimeout
    /\ agent \in Value \cup {DefaultUA}
    /\ total \in 0..MaxBody + 2 /\ got \in 0..MaxBody + 1
    /\ status \in {0, 200, 400, 403, 502}

RelayInit ==
    /\ req \in RelayRequest /\ stage = "new"
    /\ left = 0 /\ agent = DefaultUA /\ total = 0 /\ got = 0 /\ status = 0

-----------------------------------------------------------------------------

\* Base64 makes four of three, and the JSON that carries it has the limit too.
JsonSize(r) == Frame + 4 * ((r.size + 2) \div 3)

BadForm(r) == JsonSize(r) > MaxBody \/ "form" \in r.faults

\* The checks in their order: method, url and scheme, host, body.
Refusal(r) ==
    IF BadForm(r) THEN 400
    ELSE IF "host" \in r.faults THEN 403
    ELSE IF "base64" \in r.faults \/ r.size > MaxBody THEN 400
    ELSE 0

\* Mutant: what is asked for is granted.
ClampDefault(t) == IF t <= 0 THEN DefaultTimeout ELSE t

Clamp(t) == LET asked == IF t <= 0 THEN DefaultTimeout ELSE t
            IN  IF asked > MaxTimeout THEN MaxTimeout ELSE asked

Given(r) == {r.headers[s] : s \in Spelling} \ {Absent}

\* The range over the map sets them in any order, and the last one stays.
Agents(r) == IF Given(r) \subseteq {Empty} THEN {DefaultUA} ELSE Given(r)

Receive ==
    /\ stage = "new" /\ status' = Refusal(req)
    /\ IF Refusal(req) # 0
       THEN stage' = "answered" /\ UNCHANGED <<left, agent>>
       ELSE stage' = "sent" /\ left' = Clamp(req.timeout) /\ agent' \in Agents(req)
    /\ UNCHANGED <<req, total, got>>

\* The headers of the upstream's answer are there.
Responds(n) ==
    /\ stage = "sent" /\ stage' = "reading" /\ total' = n
    /\ UNCHANGED <<req, left, agent, got, status>>

\* Mutant: the reader stops at the limit.
ReadLimitShort == MaxBody

ReadLimit == MaxBody + 1

Read ==
    /\ stage = "reading" /\ got < total /\ got < ReadLimit
    /\ got' = got + 1
    /\ UNCHANGED <<req, stage, left, agent, total, status>>

Answer(code) == stage' = "answered" /\ status' = code /\ UNCHANGED <<req, left, agent, total, got>>

\* ReadAll is at an end: the upstream's, or the limit's.
Finish ==
    /\ stage = "reading" /\ (got = total \/ got >= ReadLimit)
    /\ Answer(IF got > MaxBody THEN 502 ELSE 200)

\* The connection fails, the body breaks off, or the client goes away.
Fails == stage \in {"sent", "reading"} /\ Answer(502)

Tick ==
    /\ stage \in {"sent", "reading"} /\ left > 0 /\ left' = left - 1
    /\ UNCHANGED <<req, stage, agent, total, got, status>>

\* Mutant: the deadline is for the headers.
ExpiresBeforeBody == stage = "sent" /\ left = 0 /\ Answer(502)

\* The deadline of the context, in Do or while the body is read.
Expires == stage \in {"sent", "reading"} /\ left = 0 /\ Answer(502)

RelayNext ==
    \/ Receive
    \/ \E n \in 0..MaxBody + 2 : Responds(n)
    \/ Read \/ Finish \/ Fails \/ Tick \/ Expires

RelaySpec == RelayInit /\ [][RelayNext]_relayVars

\* Time goes on, and the context's timer fires; nothing else is certain.
FairRelaySpec == RelaySpec /\ WF_relayVars(Tick) /\ WF_relayVars(Expires)

-----------------------------------------------------------------------------
(* Properties *)

\* An answer is never the beginning of a longer one (relay/service.go:188).
WholeOrNothing == stage = "answered" /\ status = 200 => got = total

\* However the upstream stalls, the client is answered (relay/service.go:157).
AnsweredAtLast == stage \in {"sent", "reading"} ~> stage = "answered"

-----------------------------------------------------------------------------
(* Statements of the documents and comments that the code does not keep *)

\* relay/service.go:24: Pixiv wants a User-Agent, so one is put in if the client
\* has none.  Written twice, an empty one may be set last.
AlwaysAgent == stage \in {"sent", "reading"} => agent # Empty

\* docs/api.md:84: the body may have 1 MB once it is decoded.
BodyUpToLimit == req.faults = {} /\ req.size <= MaxBody => status # 400
=============================================================================
