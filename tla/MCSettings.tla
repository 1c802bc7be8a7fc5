---------------------------- MODULE MCSettings ----------------------------
(* Instances of Settings for TLC: two keys that go to one hook (the limits *)
(* of the cache), and two that go to others (the rate of writes, codes).   *)
EXTENDS Settings, TLC

CONSTANTS r1, r2, maxBytes, watermark, writeRate, inviteCodes, a, b, c, none, unset, junk

Env == INSTANCE Environment WITH Unset <- unset, Junk <- junk

Number(n) == [tenths |-> n]

Kind == maxBytes :> "count" @@ watermark :> "watermark" @@ writeRate :> "rate" @@ inviteCodes :> "codes"

Default == maxBytes :> Number(200) @@ watermark :> Number(9) @@ writeRate :> Number(600)
              @@ inviteCodes :> [codes |-> {}]

\* CACHE_MAX_BYTES unset, CACHE_HIGH_WATERMARK=1, RATE_WRITE_PER_MIN=120.5,
\* INVITE_CODES="a b,c"
Text == maxBytes :> unset @@ watermark :> [tenths |-> 10, whole |-> TRUE]
           @@ writeRate :> [tenths |-> 1205, whole |-> FALSE] @@ inviteCodes :> {<<a, b>>, <<c>>}

TwoRequests == {r1, r2}
OneRequest  == {r1}
KeysDef     == {maxBytes, watermark, writeRate}
LoadedDef   == [k \in Keys |-> Env!Load(Kind[k], Text[k], Default[k])]
BaseDef     == [k \in Keys |-> Env!Snapshot(Kind[k], Text[k], Default[k])]
HooksDef    == <<{maxBytes, watermark}, {writeRate}>>

\* With the codes, that have a hook of their own.
AllKeys  == KeysDef \cup {inviteCodes}
AllHooks == Append(HooksDef, {inviteCodes})

\* Two bodies that disagree on a key, and one for the other hook.
PatchesDef ==
    { (maxBytes :> Number(1) @@ watermark :> Number(1)),
      (maxBytes :> Number(2)),
      (writeRate :> Number(1)) }

ValuesDef ==
    UNION {{Default[k], LoadedDef[k], BaseDef[k]} : k \in Keys}
       \cup UNION {{p[k] : k \in DOMAIN p} : p \in PatchesDef}
=============================================================================
