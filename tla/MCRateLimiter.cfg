SPECIFICATION Spec
\* Bursts of two tokens.  The faster rate fills a bucket within Ttl, the slower
\* one two thirds of it.
CONSTANTS
    Key = {k1, k2}
    Rates = {2, 3}
    Burst = 6
    Cost = 3
    Ttl = 2
    Short = 2
    MaxBuckets = 1
    MaxNow = 6
    Never = Never
INVARIANTS
    
    RetryAfterEnough
PROPERTY ImplementsQuota
CHECK_DEADLOCK FALSE
