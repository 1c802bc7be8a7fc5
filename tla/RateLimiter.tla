----------------------------- MODULE RateLimiter -----------------------------
(***************************************************************************)
(* The limits on requests of internal/common: a map of token buckets, one  *)
(* per address or account, that are filled when they are looked at,        *)
(* changed when the administration sets another rate, and forgotten when   *)
(* there are many and nobody has asked for a while.  allow and SetRate     *)
(* hold the mutex from end to end, so each is one step.                    *)
(* Fractions of tokens are units: a token is Cost units, and a tick brings *)
(* rate units.  Every caller of SetRate keeps the burst of NewLimiter.     *)
(***************************************************************************)
EXTENDS Integers, FiniteSets

CONSTANTS
    Key,            \* addresses or account ids
    Rates,          \* units per tick that may be set
    Burst, Cost,    \* units of a full bucket, units of a token
    Ttl,            \* ticks after which a bucket may be forgotten
    Short,          \* units a bucket may lack when it is forgotten
    MaxBuckets,     \* buckets above which allow sweeps
    MaxNow,         \* bound of the clock
    Never           \* no promise to a client

ASSUME LimiterAssumption ==
    /\ Rates \subseteq Nat \ {0}
    /\ Cost \in Nat \ {0} /\ Burst \in Nat /\ Burst >= Cost
    /\ Ttl \in Nat \ {0} /\ MaxBuckets \in Nat /\ MaxNow \in Nat
    /\ Never \notin Nat
    \* Nothing is asked of the rates: Burst is always enough, and 0 if all of
    \* them fill a bucket within Ttl.
    /\ Short \in 0..Burst /\ \A r \in Rates : r * Ttl + Short >= Burst

VARIABLES
    now, rate,
    held,       \* the keys in the map
    tokens,     \* units in the bucket of a key when it was last changed
    at,         \* when that was
    last,       \* when allow was last called for the key
    verdict,    \* the last answer to a key
    promise,    \* auxiliary: the earliest moment Retry-After has named since the last token
    granted,    \* auxiliary: tokens the key got
    supplied    \* auxiliary: units that the rates so far have brought

bucket == <<held, tokens, at, last>>
vars   == <<now, rate, bucket, verdict, promise, granted, supplied>>

TypeOK ==
    /\ now \in 0..MaxNow /\ rate \in Rates
    /\ held \subseteq Key
    /\ tokens \in [Key -> 0..Burst]
    /\ at \in [Key -> 0..now] /\ last \in [Key -> 0..now]
    /\ verdict \in [Key -> {"none", "granted", "denied"}]
    /\ promise \in [Key -> Nat \cup {Never}]
    /\ granted \in [Key -> Nat] /\ supplied \in Nat

Init ==
    /\ now = 0 /\ rate \in Rates /\ held = {}
    /\ tokens = [k \in Key |-> Burst]
    /\ at = [k \in Key |-> 0] /\ last = [k \in Key |-> 0]
    /\ verdict = [k \in Key |-> "none"]
    /\ promise = [k \in Key |-> Never]
    /\ granted = [k \in Key |-> 0] /\ supplied = 0

-----------------------------------------------------------------------------

Capped(n) == IF n < Burst THEN n ELSE Burst

\* What a bucket holds now.
Advanced(k) == Capped(tokens[k] + (now - at[k]) * rate)

\* A key without a bucket gets a full one.
Level(k) == IF k \in held THEN Advanced(k) ELSE Burst

\* Mutant: the test of the age is gone.
KeptNone == IF Cardinality(held) > MaxBuckets THEN {} ELSE held

Kept == IF Cardinality(held) > MaxBuckets THEN {k \in held : last[k] >= now - Ttl} ELSE held

\* Mutant: rounded down.
IsRetryAfterFloor(n) == (n = 1 \/ n * rate <= Cost) /\ (n + 1) * rate > Cost

\* The seconds in which a token comes in, rounded up.
IsRetryAfter(n) == n * rate >= Cost /\ (n - 1) * rate < Cost

Allow(k) ==
    LET level == IF k \in Kept THEN Level(k) ELSE Burst
    IN  /\ held' = Kept \cup {k}
        /\ last' = [last EXCEPT ![k] = now]
        /\ \/ /\ level >= Cost
              /\ tokens' = [tokens EXCEPT ![k] = level - Cost]
              /\ at' = [at EXCEPT ![k] = now]
              /\ verdict' = [verdict EXCEPT ![k] = "granted"]
              /\ granted' = [granted EXCEPT ![k] = @ + 1]
              /\ promise' = [promise EXCEPT ![k] = Never]
           \/ /\ level < Cost
              /\ verdict' = [verdict EXCEPT ![k] = "denied"]
              /\ \E n \in 1..Cost :
                    /\ IsRetryAfter(n)
                    /\ promise' = [promise EXCEPT ![k] = IF @ = Never THEN now + n ELSE @]
              /\ UNCHANGED <<tokens, at, granted>>
        /\ UNCHANGED <<now, rate, supplied>>

\* Mutant: the buckets are made anew.
SetRateAnew(r) ==
    /\ rate' = r
    /\ tokens' = [k \in Key |-> Burst]
    /\ at' = [k \in Key |-> now]
    /\ promise' = [k \in Key |-> Never]
    /\ UNCHANGED <<now, held, last, verdict, granted, supplied>>

\* Buckets are filled at the old rate up to now, and at the new one from here.
SetRate(r) ==
    /\ rate' = r
    /\ tokens' = [k \in Key |-> Level(k)]
    /\ at' = [k \in Key |-> now]
    /\ promise' = [k \in Key |-> Never]
    /\ UNCHANGED <<now, held, last, verdict, granted, supplied>>

Tick ==
    /\ now < MaxNow /\ now' = now + 1
    /\ supplied' = supplied + rate
    /\ UNCHANGED <<rate, bucket, verdict, promise, granted>>

Next == (\E k \in Key : Allow(k)) \/ (\E r \in Rates : SetRate(r)) \/ Tick

Spec == Init /\ [][Next]_vars

-----------------------------------------------------------------------------
(* Properties *)

Promised == INSTANCE Quota WITH level <- [k \in Key |-> Level(k)],
                                idle  <- [k \in Key |-> now - last[k]]

\* The lazy buckets, the sweep and the changes of the rate grant and deny as the
\* quota does that is raised at every moment (common/ratelimit.go:41).
ImplementsQuota == Promised!Spec

\* What a key has had or may have at once beyond a burst and what the rates brought.
Excess(k) == granted[k] * Cost + Level(k) - Burst - supplied

\* However buckets come and go, are forgotten before they are full and get other
\* rates, a key gains no more than Short in Ttl ticks (common/ratelimit.go:66, :78).
QuotaKept == \A k \in Key : Excess(k) * Ttl <= Short * now

\* Who waits as long as Retry-After says, and shares the key with nobody, is
\* granted a token (common/ratelimit.go:57).
RetryAfterEnough == \A k \in Key : promise[k] # Never /\ now >= promise[k] => Level(k) >= Cost

-----------------------------------------------------------------------------
(* A statement of the comments that the code does not keep *)

\* ratelimit.go:16: a bucket is forgotten once it is idle for ttl.  A slow one
\* has not filled up by then, and the key comes to a fresh burst.
NothingGained == \A k \in Key : Excess(k) <= 0
=============================================================================
