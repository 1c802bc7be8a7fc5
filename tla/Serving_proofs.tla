---------------------------- MODULE Serving_proofs ----------------------------
(***************************************************************************)
(* Theorems about what every request passes before it reaches a handler:   *)
(* the server process, for any processes and any number of migrations, and *)
(* the rate limiter, for any keys, rates, bursts and bounds, those with    *)
(* which a bucket is forgotten before it has filled up among them.         *)
(***************************************************************************)
EXTENDS RateLimiter, Server, TLAPS

-----------------------------------------------------------------------------
(* RateLimiter: arithmetic *)

LEMMA OneMore == ASSUME NEW m \in Int, NEW r \in Int PROVE (m + 1) * r = m * r + r
  OBVIOUS

LEMMA ProductIsNat == ASSUME NEW m \in Nat, NEW r \in Nat PROVE m * r \in Nat
  OBVIOUS

LEMMA CappedRange == ASSUME NEW n \in Nat PROVE Capped(n) \in 0..Burst /\ Capped(n) <= n
  BY LimiterAssumption DEF Capped

\* A bucket that is advanced in two steps holds what it holds in one.
LEMMA AdvanceByOne ==
  ASSUME NEW t \in Nat, NEW p \in Nat, NEW r \in Nat
  PROVE  Capped(t + (p + r)) = Capped(Capped(t + p) + r)
  BY LimiterAssumption DEF Capped

-----------------------------------------------------------------------------
(* RateLimiter: types *)

LEMMA RateIsNat == ASSUME TypeOK PROVE rate \in Nat \ {0}
  BY LimiterAssumption DEF TypeOK

LEMMA LevelRange == ASSUME TypeOK, NEW k \in Key PROVE Level(k) \in 0..Burst
<1>1. tokens[k] \in Nat /\ now - at[k] \in Nat /\ rate \in Nat
  BY RateIsNat, LimiterAssumption DEF TypeOK
<1>2. (now - at[k]) * rate \in Nat
  BY <1>1, ProductIsNat
<1>3. tokens[k] + (now - at[k]) * rate \in Nat
  BY <1>1, <1>2
<1> QED
  BY <1>3, CappedRange, LimiterAssumption DEF Level, Advanced

LEMMA KeptHeld == Kept \subseteq held
  BY DEF Kept

LEMMA TypeInit == Init => TypeOK
  BY LimiterAssumption DEF Init, TypeOK

LEMMA TypeNext == TypeOK /\ [Next]_vars => TypeOK'
<1> SUFFICES ASSUME TypeOK, [Next]_vars PROVE TypeOK'
  OBVIOUS
<1>0. rate \in Nat \ {0} /\ now \in Nat /\ \A k \in Key : Level(k) \in 0..Burst
  BY RateIsNat, LevelRange, LimiterAssumption DEF TypeOK
<1>1. ASSUME NEW k \in Key, Allow(k) PROVE TypeOK'
  <2> DEFINE level == IF k \in Kept THEN Level(k) ELSE Burst
  <2>1. level \in 0..Burst
    BY <1>0, LimiterAssumption
  <2>2. held' \subseteq Key /\ last' \in [Key -> 0..now'] /\ now' \in 0..MaxNow /\ rate' \in Rates
    BY <1>1, <1>0, KeptHeld DEF Allow, TypeOK
  <2>3. CASE level >= Cost
    <3>1. level - Cost \in 0..Burst
      BY <2>1, <2>3, LimiterAssumption
    <3>2. /\ tokens' = [tokens EXCEPT ![k] = level - Cost] /\ at' = [at EXCEPT ![k] = now]
          /\ verdict' = [verdict EXCEPT ![k] = "granted"]
          /\ granted' = [granted EXCEPT ![k] = @ + 1]
          /\ promise' = [promise EXCEPT ![k] = Never]
          /\ UNCHANGED <<now, supplied>>
      BY <1>1, <2>1, <2>3, LimiterAssumption DEF Allow
    <3> QED
      BY <2>2, <3>1, <3>2, <1>0 DEF TypeOK
  <2>4. CASE level < Cost
    <3>1. /\ verdict' = [verdict EXCEPT ![k] = "denied"]
          /\ UNCHANGED <<tokens, at, granted, now, supplied>>
      BY <1>1, <2>1, <2>4, LimiterAssumption DEF Allow
    <3>2. PICK n \in 1..Cost : promise' = [promise EXCEPT ![k] = IF @ = Never THEN now + n ELSE @]
      BY <1>1, <2>1, <2>4, LimiterAssumption DEF Allow
    <3>3. now + n \in Nat
      BY <1>0, LimiterAssumption
    <3> QED
      BY <2>2, <3>1, <3>2, <3>3 DEF TypeOK
  <2> QED
    BY <2>1, <2>3, <2>4, LimiterAssumption
<1>2. ASSUME NEW r \in Rates, SetRate(r) PROVE TypeOK'
  BY <1>0, <1>2 DEF SetRate, TypeOK
<1>3. CASE Tick
  BY <1>0, <1>3, LimiterAssumption DEF Tick, TypeOK, bucket
<1>4. CASE UNCHANGED vars
  BY <1>4 DEF vars, bucket, TypeOK
<1> QED
  BY <1>1, <1>2, <1>3, <1>4 DEF Next

\* Every variable of RateLimiter keeps its type; no bucket is above the burst or
\* below nothing (common/ratelimit.go:41).
THEOREM LimiterTypeCorrect == Spec => []TypeOK
  BY TypeInit, TypeNext, PTL DEF Spec

-----------------------------------------------------------------------------
(* RateLimiter: levels *)

\* What Allow drops was asked for last more than Ttl ticks ago.
LEMMA SweptIsOld ==
  ASSUME TypeOK, NEW b \in held, b \notin Kept
  PROVE  b \in Key /\ now - last[b] > Ttl /\ now - last[b] \in Nat
  BY LimiterAssumption DEF Kept, TypeOK

\* What a key has once the sweep is done: who was dropped starts anew.
Forgiven(b) == IF b \in held \ Kept THEN Burst ELSE Level(b)

\* What one step does to the levels.
Spends(k) ==
    /\ Forgiven(k) >= Cost
    /\ \A b \in Key : Level(b)' = IF b = k THEN Forgiven(b) - Cost ELSE Forgiven(b)

Sweeps == \A b \in Key : Level(b)' = Forgiven(b)

LevelsStay == \A b \in Key : Level(b)' = Level(b)

LEMMA ForgivenRange == ASSUME TypeOK, NEW b \in Key PROVE Forgiven(b) \in 0..Burst /\ Forgiven(b) >= Level(b)
  BY LevelRange, LimiterAssumption DEF Forgiven

LEMMA AllowLevels ==
  ASSUME TypeOK, NEW k \in Key, Allow(k)
  PROVE  \/ Spends(k) /\ verdict' = [verdict EXCEPT ![k] = "granted"]
            /\ granted' = [granted EXCEPT ![k] = @ + 1]
            /\ promise' = [promise EXCEPT ![k] = Never]
         \/ Sweeps /\ Forgiven(k) < Cost /\ verdict' = [verdict EXCEPT ![k] = "denied"]
            /\ granted' = granted
            /\ \E n \in 1..Cost :
                  IsRetryAfter(n) /\ promise' = [promise EXCEPT ![k] = IF @ = Never THEN now + n ELSE @]
<1> DEFINE level == IF k \in Kept THEN Level(k) ELSE Burst
<1>1. level = Forgiven(k)
  BY KeptHeld DEF Level, Forgiven
<1>2. now' = now /\ rate' = rate /\ held' = Kept \cup {k}
  BY DEF Allow
<1>3. ASSUME NEW b \in Key, b # k, tokens'[b] = tokens[b], at'[b] = at[b] PROVE Level(b)' = Forgiven(b)
  <2>1. Advanced(b)' = Advanced(b)
    BY <1>2, <1>3 DEF Advanced, Capped
  <2>2. b \in held' <=> b \in Kept
    BY <1>2, <1>3
  <2> QED
    BY <2>1, <2>2, KeptHeld DEF Level, Forgiven
<1>4. Forgiven(k) \in 0..Burst /\ rate \in Nat /\ now \in Nat
  BY ForgivenRange, RateIsNat DEF TypeOK
<1>5. CASE level >= Cost
  <2>1. /\ tokens' = [tokens EXCEPT ![k] = level - Cost] /\ at' = [at EXCEPT ![k] = now]
        /\ verdict' = [verdict EXCEPT ![k] = "granted"]
        /\ granted' = [granted EXCEPT ![k] = @ + 1]
        /\ promise' = [promise EXCEPT ![k] = Never]
    BY <1>1, <1>4, <1>5, LimiterAssumption DEF Allow
  <2>2. k \in held' /\ tokens'[k] = Forgiven(k) - Cost /\ at'[k] = now
    BY <2>1, <1>1, <1>2 DEF TypeOK
  <2>3. Level(k)' = Forgiven(k) - Cost
    <3>1. (now' - at'[k]) * rate' = 0
      BY <1>2, <1>4, <2>2
    <3>2. Forgiven(k) - Cost + 0 < Burst
      BY <1>4, LimiterAssumption
    <3> QED
      BY <2>2, <3>1, <3>2, <1>4, LimiterAssumption DEF Level, Advanced, Capped
  <2>4. \A b \in Key \ {k} : Level(b)' = Forgiven(b)
    BY <1>3, <2>1 DEF TypeOK
  <2> QED
    BY <1>1, <1>5, <2>1, <2>3, <2>4 DEF Spends
<1>6. CASE level < Cost
  <2>1. /\ verdict' = [verdict EXCEPT ![k] = "denied"]
        /\ UNCHANGED <<tokens, at, granted>>
        /\ \E n \in 1..Cost :
              IsRetryAfter(n) /\ promise' = [promise EXCEPT ![k] = IF @ = Never THEN now + n ELSE @]
    BY <1>1, <1>4, <1>6, LimiterAssumption DEF Allow
  <2>2. k \in Kept
    BY <1>6, LimiterAssumption
  <2>3. Level(k)' = Forgiven(k)
    BY <2>1, <2>2, <1>2, KeptHeld DEF Level, Advanced, Capped, Forgiven
  <2> QED
    BY <1>1, <1>3, <1>6, <2>1, <2>3 DEF Sweeps
<1> QED
  BY <1>1, <1>4, <1>5, <1>6, LimiterAssumption

LEMMA SetRateLevels ==
  ASSUME TypeOK, NEW r \in Rates, SetRate(r)
  PROVE  LevelsStay
<1> SUFFICES ASSUME NEW b \in Key PROVE Level(b)' = Level(b)
  BY DEF LevelsStay
<1>1. Level(b) \in 0..Burst /\ r \in Nat /\ now \in Nat
  BY LevelRange, LimiterAssumption DEF TypeOK
<1>2. tokens'[b] = Level(b) /\ at'[b] = now /\ now' = now /\ rate' = r /\ held' = held
  BY DEF SetRate
<1>3. (now' - at'[b]) * rate' = 0
  BY <1>1, <1>2
<1>4. Advanced(b)' = Level(b)
  BY <1>1, <1>2, <1>3, LimiterAssumption DEF Advanced, Capped
<1> QED
  BY <1>2, <1>4 DEF Level

LEMMA TickLevels ==
  ASSUME TypeOK, Tick
  PROVE  \A b \in Key : Level(b)' = Capped(Level(b) + rate)
<1> SUFFICES ASSUME NEW b \in Key PROVE Level(b)' = Capped(Level(b) + rate)
  OBVIOUS
<1>1. tokens[b] \in Nat /\ now - at[b] \in Nat /\ rate \in Nat /\ now \in Nat /\ at[b] \in Nat
  BY RateIsNat, LimiterAssumption DEF TypeOK
<1>2. now' = now + 1 /\ UNCHANGED <<rate, held, tokens, at>>
  BY DEF Tick, bucket
<1>3. (now' - at'[b]) * rate' = (now - at[b]) * rate + rate
  <2>1. now' - at'[b] = (now - at[b]) + 1
    BY <1>1, <1>2
  <2> QED
    BY <2>1, <1>1, <1>2, OneMore
<1>4. (now - at[b]) * rate \in Nat
  BY <1>1, ProductIsNat
<1>5. Advanced(b)' = Capped(tokens[b] + ((now - at[b]) * rate + rate))
  BY <1>2, <1>3 DEF Advanced, Capped
<1>6. Advanced(b)' = Capped(Advanced(b) + rate)
  BY <1>1, <1>4, <1>5, AdvanceByOne DEF Advanced
<1>7. Burst = Capped(Burst + rate)
  BY <1>1, LimiterAssumption DEF Capped
<1> QED
  BY <1>2, <1>6, <1>7 DEF Level

LEMMA StutterLevels == ASSUME UNCHANGED vars PROVE LevelsStay
  BY DEF vars, bucket, LevelsStay, Level, Advanced, Capped

-----------------------------------------------------------------------------
(* RateLimiter: what is forgotten *)

\* Ttl ticks without a call bring all of the burst but Short, and fewer ticks
\* their share of it.
Fed == \A k \in held : Level(k) = Burst \/ Level(k) * Ttl >= (now - last[k]) * (Burst - Short)

\* A key that is dropped gains no more than Short by it.
LEMMA SweptLacksShort ==
  ASSUME TypeOK, Fed, NEW b \in held, b \notin Kept
  PROVE  Burst - Level(b) <= Short
<1>1. Level(b) \in 0..Burst
  BY SweptIsOld, LevelRange
<1> SUFFICES ASSUME Level(b) # Burst PROVE Burst - Level(b) <= Short
  BY <1>1, LimiterAssumption
<1>2. Level(b) * Ttl >= (now - last[b]) * (Burst - Short)
  BY DEF Fed
<1> DEFINE e == now - last[b]  v == Level(b)  w == Burst - Short
<1>3. e \in Nat /\ v \in Nat /\ w \in Nat /\ Ttl \in Nat \ {0} /\ e >= Ttl /\ v * Ttl >= e * w
  BY <1>1, <1>2, SweptIsOld, LimiterAssumption
<1> HIDE DEF e, v, w
<1>4. e * w >= Ttl * w
  BY <1>3
<1>5. v * Ttl >= w * Ttl
  BY <1>3, <1>4
<1>6. v >= w
  <2> SUFFICES ASSUME v < w PROVE FALSE
    BY <1>3
  <2>1. v * Ttl < w * Ttl
    BY <1>3
  <2> QED
    BY <2>1, <1>3, <1>5
<1> QED
  BY <1>1, <1>6, LimiterAssumption DEF v, w

LEMMA FedInit == Init => Fed
  BY DEF Init, Fed

LEMMA FedNext == TypeOK /\ Fed /\ [Next]_vars => Fed'
<1> SUFFICES ASSUME TypeOK, Fed, [Next]_vars PROVE Fed'
  OBVIOUS
<1> DEFINE share == Burst - Short
<1>0. /\ rate \in Nat \ {0} /\ now \in Nat /\ Ttl \in Nat /\ Burst \in Nat /\ share \in Nat
      /\ \A k \in Key : Level(k) \in 0..Burst /\ last[k] \in Nat
  BY RateIsNat, LevelRange, LimiterAssumption DEF TypeOK
<1>1. ASSUME NEW k \in Key, Allow(k) PROVE Fed'
  <2>1. held' = Kept \cup {k} /\ now' = now /\ last' = [last EXCEPT ![k] = now]
    BY <1>1 DEF Allow
  <2>2. \A b \in Key \ {k} : Level(b)' = Forgiven(b)
    BY <1>1, AllowLevels DEF Spends, Sweeps
  <2>3. ASSUME NEW b \in held', b # k PROVE (Level(b) = Burst \/ Level(b) * Ttl >= (now - last[b]) * share)'
    <3>1. b \in Kept /\ b \in held /\ b \in Key
      BY <2>1, <2>3, KeptHeld DEF TypeOK
    <3>2. Level(b)' = Level(b) /\ last'[b] = last[b]
      BY <2>1, <2>2, <2>3, <3>1 DEF Forgiven, TypeOK
    <3> QED
      BY <2>1, <3>1, <3>2 DEF Fed
  <2>4. (Level(k) * Ttl >= (now - last[k]) * share)'
    <3>1. Level(k)' \in Nat
      BY <1>1, AllowLevels, ForgivenRange, LimiterAssumption DEF Spends, Sweeps
    <3>2. (now' - last'[k]) * share = 0
      BY <2>1, <1>0 DEF TypeOK
    <3>3. Level(k)' * Ttl \in Nat
      BY <3>1, <1>0, ProductIsNat
    <3> QED
      BY <3>2, <3>3
  <2> QED
    BY <2>3, <2>4 DEF Fed
<1>2. ASSUME NEW r \in Rates, SetRate(r) PROVE Fed'
  BY <1>2, SetRateLevels DEF Fed, LevelsStay, SetRate, TypeOK
<1>3. CASE Tick
  <2>1. held' = held /\ last' = last /\ now' = now + 1
    BY <1>3 DEF Tick, bucket
  <2> SUFFICES ASSUME NEW k \in held, Level(k)' # Burst
               PROVE  Level(k)' * Ttl >= (now' - last'[k]) * share
    BY <2>1 DEF Fed
  <2>2. k \in Key /\ Level(k)' = Capped(Level(k) + rate)
    BY <1>3, TickLevels DEF TypeOK
  <2>3. Level(k)' = Level(k) + rate /\ Level(k) # Burst
    BY <2>2, <1>0 DEF Capped
  <2>4. Level(k) * Ttl >= (now - last[k]) * share
    BY <2>3 DEF Fed
  <2>5. rate * Ttl >= share
    <3>1. rate * Ttl + Short >= Burst /\ rate * Ttl \in Nat /\ Short \in Nat
      BY <1>0, ProductIsNat, LimiterAssumption DEF TypeOK
    <3> QED
      BY <3>1, <1>0
  <2>6. (now' - last'[k]) * share = (now - last[k]) * share + share
    <3>1. now' - last'[k] = (now - last[k]) + 1
      BY <2>1, <2>2, <1>0
    <3>2. now - last[k] \in Int /\ share \in Int
      BY <2>2, <1>0
    <3> HIDE DEF share
    <3> QED
      BY <3>1, <3>2, OneMore
  <2>7. Level(k)' * Ttl = Level(k) * Ttl + rate * Ttl
    BY <2>2, <2>3, <1>0
  <2> DEFINE a == Level(k) * Ttl  b == rate * Ttl  c == (now - last[k]) * share
  <2>8. a \in Int /\ b \in Int /\ c \in Int
    BY <2>2, <1>0
  <2> HIDE DEF share
  <2> QED
    BY <2>4, <2>5, <2>6, <2>7, <2>8, <1>0
<1>4. CASE UNCHANGED vars
  <2>1. \A b \in Key : Level(b)' = Level(b)
    BY <1>4, StutterLevels DEF LevelsStay
  <2> QED
    BY <1>4, <2>1 DEF vars, bucket, Fed, TypeOK
<1> QED
  BY <1>1, <1>2, <1>3, <1>4 DEF Next

-----------------------------------------------------------------------------
(* RateLimiter: the theorems *)

\* The moment up to which a key can have gained: a bucket that is held is
\* dropped more than Ttl ticks after its last call.
Since(k) == IF k \in held THEN last[k] ELSE now

Banked == \A k \in Key : Excess(k) * Ttl <= Short * Since(k)

IInv == TypeOK /\ Fed /\ Banked

LEMMA ExcessIsInt ==
  ASSUME TypeOK, NEW b \in Key
  PROVE  Excess(b) \in Int /\ granted[b] \in Nat /\ granted[b] * Cost \in Nat /\ supplied \in Nat
<1>1. granted[b] \in Nat /\ Cost \in Nat /\ supplied \in Nat
  BY LimiterAssumption DEF TypeOK
<1>2. granted[b] * Cost \in Nat
  BY <1>1, ProductIsNat
<1> QED
  BY <1>1, <1>2, LevelRange, LimiterAssumption DEF Excess

\* A call takes what it grants: only the sweep adds to what a key has.
LEMMA AllowExcess ==
  ASSUME TypeOK, NEW k \in Key, Allow(k), NEW b \in Key
  PROVE  Excess(b)' = Excess(b) + (Forgiven(b) - Level(b))
<1>0. /\ Level(b) \in Nat /\ Forgiven(b) \in Nat /\ granted[b] \in Nat /\ granted[b] * Cost \in Nat
      /\ supplied \in Nat /\ Burst \in Nat /\ Cost \in Nat
  BY LevelRange, ForgivenRange, ExcessIsInt, LimiterAssumption
<1>1. supplied' = supplied
  BY DEF Allow
<1>2. CASE Spends(k) /\ granted' = [granted EXCEPT ![k] = @ + 1]
  <2>1. CASE b = k
    <3>1. granted'[b] * Cost = granted[b] * Cost + Cost
      BY <1>2, <2>1, <1>0, OneMore DEF TypeOK
    <3>2. Level(b)' = Forgiven(b) - Cost
      BY <1>2, <2>1 DEF Spends
    <3> QED
      BY <3>1, <3>2, <1>0, <1>1 DEF Excess
  <2>2. CASE b # k
    <3>1. granted'[b] = granted[b] /\ Level(b)' = Forgiven(b)
      BY <1>2, <2>2 DEF Spends, TypeOK
    <3> QED
      BY <3>1, <1>0, <1>1 DEF Excess
  <2> QED
    BY <2>1, <2>2
<1>3. CASE Sweeps /\ granted' = granted
  <2>1. Level(b)' = Forgiven(b)
    BY <1>3 DEF Sweeps
  <2> QED
    BY <2>1, <1>3, <1>0, <1>1 DEF Excess
<1> QED
  BY <1>2, <1>3, AllowLevels

LEMMA BankedInit == Init => Banked
<1> SUFFICES ASSUME Init, NEW k \in Key PROVE Excess(k) * Ttl <= Short * Since(k)
  BY DEF Banked
<1>1. Excess(k) = 0 /\ Since(k) = 0
  BY LimiterAssumption DEF Init, Excess, Level, Since
<1> QED
  BY <1>1, LimiterAssumption

LEMMA BankedNext == IInv /\ [Next]_vars => Banked'
<1> SUFFICES ASSUME IInv, [Next]_vars, NEW b \in Key PROVE (Excess(b) * Ttl <= Short * Since(b))'
  BY DEF Banked
<1>0. /\ TypeOK /\ rate \in Nat /\ now \in Nat /\ last[b] \in 0..now /\ Excess(b) \in Int
      /\ Level(b) \in 0..Burst /\ Burst \in Nat /\ Ttl \in Nat \ {0} /\ Short \in Nat
      /\ Since(b) \in 0..now /\ Excess(b) * Ttl <= Short * Since(b)
  BY RateIsNat, LevelRange, ExcessIsInt, LimiterAssumption DEF IInv, TypeOK, Banked, Since
\* More moments allow for more.
<1>1. ASSUME NEW x \in Int, x <= Excess(b), NEW t \in Nat, t >= Since(b) PROVE x * Ttl <= Short * t
  <2>1. x * Ttl <= Excess(b) * Ttl
    BY <1>0, <1>1
  <2>2. Short * Since(b) <= Short * t
    BY <1>0, <1>1
  <2>3. x * Ttl \in Int /\ Excess(b) * Ttl \in Int /\ Short * Since(b) \in Int /\ Short * t \in Int
    BY <1>0, <1>1
  <2> QED
    BY <1>0, <2>1, <2>2, <2>3
<1>2. ASSUME NEW k \in Key, Allow(k) PROVE (Excess(b) * Ttl <= Short * Since(b))'
  <2>1. Since(b)' = IF b \in Kept /\ b # k THEN last[b] ELSE now
    BY <1>2, <1>0 DEF Allow, Since, TypeOK
  <2>2. Excess(b)' = Excess(b) + (Forgiven(b) - Level(b))
    BY <1>2, <1>0, AllowExcess
  <2>3. CASE b \in held /\ b \notin Kept
    <3>1. Forgiven(b) - Level(b) \in 0..Short
      BY <1>0, <2>3, SweptLacksShort DEF IInv, Forgiven
    <3>2. Since(b)' = now /\ Since(b) = last[b] /\ last[b] + Ttl <= now
      BY <2>1, <2>3, <1>0, SweptIsOld DEF Since
    <3> DEFINE d == Forgiven(b) - Level(b)  x == Excess(b)  t == last[b]
    <3>3. d \in Nat /\ d <= Short /\ x \in Int /\ t \in Nat /\ t + Ttl <= now /\ x * Ttl <= Short * t
      BY <3>1, <3>2, <1>0
    <3>4. Excess(b)' = x + d
      BY <2>2
    <3> HIDE DEF d, x, t
    <3>5. (x + d) * Ttl = x * Ttl + d * Ttl /\ Short * (t + Ttl) = Short * t + Short * Ttl
      BY <3>3, <1>0
    <3>6. d * Ttl <= Short * Ttl /\ Short * (t + Ttl) <= Short * now
      BY <3>3, <1>0
    <3>7. /\ x * Ttl \in Int /\ d * Ttl \in Int /\ Short * t \in Int /\ Short * Ttl \in Int
          /\ Short * now \in Int
      BY <3>3, <1>0
    <3>8. (x + d) * Ttl <= Short * now
      BY <3>3, <3>5, <3>6, <3>7
    <3> QED
      BY <3>2, <3>4, <3>8
  <2>4. CASE ~(b \in held /\ b \notin Kept)
    <3>1. Excess(b)' = Excess(b)
      BY <2>2, <2>4, <1>0 DEF Forgiven
    <3>2. Since(b)' \in Nat /\ Since(b)' >= Since(b)
      BY <2>1, <2>4, <1>0, KeptHeld DEF Since
    <3> QED
      BY <3>1, <3>2, <1>0, <1>1
  <2> QED
    BY <2>3, <2>4
<1>3. ASSUME NEW r \in Rates, SetRate(r) PROVE (Excess(b) * Ttl <= Short * Since(b))'
  <2>1. Level(b)' = Level(b)
    BY <1>0, <1>3, SetRateLevels DEF LevelsStay
  <2> QED
    BY <1>0, <1>3, <2>1 DEF SetRate, Excess, Since
<1>4. CASE Tick
  <2>1. Level(b)' = Capped(Level(b) + rate) /\ granted' = granted /\ supplied' = supplied + rate
    BY <1>0, <1>4, TickLevels DEF Tick
  <2>2. Level(b)' <= Level(b) + rate /\ Level(b)' \in Nat
    BY <2>1, <1>0, CappedRange
  <2>3. Excess(b)' \in Int /\ Excess(b)' <= Excess(b)
    BY <2>1, <2>2, <1>0, ExcessIsInt DEF Excess
  <2>4. Since(b)' \in Nat /\ Since(b)' >= Since(b)
    BY <1>0, <1>4 DEF Tick, bucket, Since
  <2> QED
    BY <2>3, <2>4, <1>0, <1>1
<1>5. CASE UNCHANGED vars
  <2>1. Level(b)' = Level(b)
    BY <1>5, StutterLevels DEF LevelsStay
  <2> QED
    BY <1>0, <1>5, <2>1 DEF vars, bucket, Excess, Since
<1> QED
  BY <1>2, <1>3, <1>4, <1>5 DEF Next

LEMMA Invariant == Spec => []IInv
<1>1. Init => IInv
  BY TypeInit, FedInit, BankedInit DEF IInv
<1>2. IInv /\ [Next]_vars => IInv'
  BY TypeNext, FedNext, BankedNext DEF IInv
<1> QED
  BY <1>1, <1>2, PTL DEF Spec

\* Whatever the rates and however the map is swept, beyond one burst and what the
\* rates have brought a key gains no more than Short in Ttl ticks, nothing where
\* buckets fill up before they are forgotten (common/ratelimit.go:66, :78).
THEOREM QuotaIsKept == Spec => []QuotaKept
<1>1. IInv => QuotaKept
  <2> SUFFICES ASSUME IInv, NEW b \in Key PROVE Excess(b) * Ttl <= Short * now
    BY DEF QuotaKept
  <2>1. /\ Short \in Nat /\ Since(b) \in 0..now /\ now \in Nat /\ Excess(b) \in Int
        /\ Ttl \in Nat /\ Excess(b) * Ttl <= Short * Since(b)
    BY ExcessIsInt, LimiterAssumption DEF IInv, TypeOK, Banked, Since
  <2>2. Short * Since(b) <= Short * now /\ Short * Since(b) \in Int /\ Short * now \in Int
    BY <2>1
  <2>3. Excess(b) * Ttl \in Int
    BY <2>1
  <2> QED
    BY <2>1, <2>2, <2>3
<1> QED
  BY <1>1, Invariant, PTL

\* Waiting brings a token: what is missing comes in until the moment promised.
PromiseHolds ==
  \A k \in Key : promise[k] # Never =>
     \/ Level(k) >= Cost
     \/ promise[k] > now /\ Level(k) + (promise[k] - now) * rate >= Cost

LEMMA PromiseNext == TypeOK /\ PromiseHolds /\ [Next]_vars => PromiseHolds'
<1> DEFINE Holds(b) == \/ Level(b) >= Cost
                       \/ promise[b] > now /\ Level(b) + (promise[b] - now) * rate >= Cost
<1> SUFFICES ASSUME TypeOK, PromiseHolds, [Next]_vars, NEW b \in Key, promise'[b] # Never
             PROVE  Holds(b)'
  BY DEF PromiseHolds
<1>0. /\ rate \in Nat /\ now \in Nat /\ Level(b) \in 0..Burst /\ Burst \in Nat /\ Cost \in Nat
      /\ Burst >= Cost /\ promise[b] \in Nat \cup {Never} /\ (promise[b] # Never => Holds(b))
  BY RateIsNat, LevelRange, LimiterAssumption DEF TypeOK, PromiseHolds
<1>1. ASSUME NEW k \in Key, Allow(k) PROVE Holds(b)'
  <2>1. now' = now /\ rate' = rate
    BY <1>1 DEF Allow
  <2>2. CASE Spends(k) /\ promise' = [promise EXCEPT ![k] = Never]
    <3>1. b # k /\ promise'[b] = promise[b]
      BY <2>2 DEF TypeOK
    <3>2. Level(b)' \in Nat /\ Level(b)' >= Level(b)
      BY <2>2, <3>1, ForgivenRange, <1>0 DEF Spends
    <3> QED
      BY <2>1, <3>1, <3>2, <1>0
  <2>3. ASSUME Sweeps, Forgiven(k) < Cost, NEW n \in 1..Cost, IsRetryAfter(n),
               promise' = [promise EXCEPT ![k] = IF @ = Never THEN now + n ELSE @]
        PROVE  Holds(b)'
    <3>1. Level(b)' \in Nat /\ Level(b)' >= Level(b)
      BY <2>3, <1>0, ForgivenRange DEF Sweeps
    <3>2. CASE b = k /\ promise[b] = Never
      <4>1. promise'[b] = now + n /\ n \in Nat \ {0} /\ n * rate >= Cost /\ n * rate \in Nat
        BY <2>3, <3>2, <1>0, ProductIsNat DEF TypeOK, IsRetryAfter
      <4>2. promise'[b] - now' = n /\ promise'[b] > now'
        BY <4>1, <2>1, <1>0
      <4>3. Level(b)' + (promise'[b] - now') * rate' >= Cost
        BY <4>1, <4>2, <3>1, <2>1, <1>0
      <4> QED
        BY <4>2, <4>3
    <3>3. CASE ~(b = k /\ promise[b] = Never)
      <4>1. promise'[b] = promise[b]
        BY <2>3, <3>3 DEF TypeOK
      <4> QED
        BY <4>1, <3>1, <2>1, <1>0
    <3> QED
      BY <3>2, <3>3
  <2> QED
    BY <1>1, <2>2, <2>3, AllowLevels
<1>2. ASSUME NEW r \in Rates, SetRate(r) PROVE Holds(b)'
  BY <1>2 DEF SetRate
<1>3. CASE Tick
  <2>1. /\ Level(b)' = Capped(Level(b) + rate)
        /\ promise' = promise /\ now' = now + 1 /\ rate' = rate
    BY <1>3, TickLevels DEF Tick
  <2>2. CASE Level(b) + rate >= Burst \/ Level(b) >= Cost
    BY <2>1, <2>2, <1>0 DEF Capped
  <2>3. CASE ~(Level(b) + rate >= Burst \/ Level(b) >= Cost)
    <3>1. promise[b] \in Nat /\ promise[b] > now /\ Level(b) + (promise[b] - now) * rate >= Cost
      BY <2>1, <2>3, <1>0
    <3>2. Level(b)' = Level(b) + rate
      BY <2>1, <2>3, <1>0 DEF Capped
    <3> DEFINE m == promise[b] - (now + 1)
    <3>3. m \in Nat /\ promise[b] - now = m + 1
      BY <3>1, <1>0
    <3> HIDE DEF m
    <3>4. (promise[b] - now) * rate = m * rate + rate /\ m * rate \in Nat
      <4>1. (m + 1) * rate = m * rate + rate /\ rate \in Nat
        BY <3>3, <1>0, OneMore
      <4> QED
        BY <3>3, <4>1, ProductIsNat
    <3>5. Level(b)' + m * rate >= Cost
      BY <3>1, <3>2, <3>4, <1>0
    <3>6. CASE m = 0
      BY <3>5, <3>6, <3>2, <1>0
    <3>7. CASE m > 0
      <4>1. promise'[b] > now' /\ promise'[b] - now' = m
        BY <2>1, <3>1, <3>7, <1>0 DEF m
      <4> QED
        BY <4>1, <3>5, <2>1
    <3> QED
      BY <3>3, <3>6, <3>7
  <2> QED
    BY <2>2, <2>3
<1>4. CASE UNCHANGED vars
  BY <1>0, <1>4, StutterLevels DEF vars, LevelsStay
<1> QED
  BY <1>1, <1>2, <1>3, <1>4 DEF Next

\* A client that waits as long as Retry-After says is granted a token, if nobody
\* used the key or changed the rate meanwhile (common/ratelimit.go:57).
THEOREM RetryAfterIsEnough == Spec => []RetryAfterEnough
<1>1. TypeOK /\ PromiseHolds /\ [Next]_vars => PromiseHolds'
  BY PromiseNext
<1>2. Init => PromiseHolds
  BY DEF Init, PromiseHolds
<1>3. TypeOK /\ PromiseHolds => RetryAfterEnough
  <2> SUFFICES ASSUME TypeOK, PromiseHolds, NEW k \in Key, promise[k] # Never, now >= promise[k]
               PROVE  Level(k) >= Cost
    BY DEF RetryAfterEnough
  <2>1. promise[k] \in Nat /\ now \in Nat
    BY LimiterAssumption DEF TypeOK
  <2> QED
    BY <2>1 DEF PromiseHolds
<1> QED
  BY <1>1, <1>2, <1>3, LimiterTypeCorrect, PTL DEF Spec

\* Lazy buckets, the sweep and changes of the rate implement the quota: a request
\* is granted exactly when the level of its key has a token, and only a key that
\* nobody has asked for in Ttl ticks starts anew (common/ratelimit.go:41).
THEOREM LimiterImplementsQuota == Spec => ImplementsQuota
<1>1. Init => Promised!Init
  BY DEF Init, Promised!Init, Level
<1>2. TypeOK /\ [Next]_vars => [Promised!Next]_(Promised!vars)
  <2> SUFFICES ASSUME TypeOK, [Next]_vars PROVE [Promised!Next]_(Promised!vars)
    OBVIOUS
  <2>1. ASSUME NEW k \in Key, Allow(k) PROVE Promised!Ask(k)
    <3> DEFINE F == held \ Kept  idle == [b \in Key |-> now - last[b]]
    <3>1. F \in SUBSET {b \in Key : idle[b] > Ttl}
      BY SweptIsOld
    <3>2. \A b \in Key : Promised!Without(F)[b] = Forgiven(b)
      BY DEF Promised!Without, Forgiven
    <3>3. rate' = rate /\ idle' = [idle EXCEPT ![k] = 0]
      <4>1. now' = now /\ last' = [last EXCEPT ![k] = now] /\ now - now = 0
        BY <2>1, LimiterAssumption DEF Allow, TypeOK
      <4> QED
        BY <2>1, <4>1 DEF Allow, TypeOK
    <3>4. CASE Spends(k) /\ verdict' = [verdict EXCEPT ![k] = "granted"]
      <4>1. Promised!Grant(k, F)
        BY <3>2, <3>4 DEF Spends, Promised!Grant, Promised!Without
      <4> QED
        BY <3>1, <3>3, <4>1 DEF Promised!Ask
    <3>5. CASE Sweeps /\ Forgiven(k) < Cost /\ verdict' = [verdict EXCEPT ![k] = "denied"]
      <4>1. Promised!Deny(k, F)
        BY <3>2, <3>5 DEF Sweeps, Promised!Deny, Promised!Without
      <4> QED
        BY <3>1, <3>3, <4>1 DEF Promised!Ask
    <3> QED
      BY <2>1, <3>4, <3>5, AllowLevels
  <2>2. ASSUME NEW r \in Rates, SetRate(r) PROVE Promised!Change
    BY <2>2, SetRateLevels DEF LevelsStay, SetRate, Promised!Change
  <2>3. ASSUME Tick PROVE Promised!Pass
    <3>1. \A k \in Key : Level(k)' = Promised!Capped(Level(k) + rate)
      BY <2>3, TickLevels DEF Promised!Capped, Capped
    <3>2. \A k \in Key : now' - last'[k] = (now - last[k]) + 1
      BY <2>3, LimiterAssumption DEF Tick, bucket, TypeOK
    <3> QED
      BY <2>3, <3>1, <3>2 DEF Tick, Promised!Pass
  <2>4. CASE UNCHANGED vars
    BY <2>4, StutterLevels DEF LevelsStay, vars, bucket, Promised!vars
  <2> QED
    BY <2>1, <2>2, <2>3, <2>4 DEF Next, Promised!Next
<1> QED
  BY <1>1, <1>2, LimiterTypeCorrect, PTL DEF Spec, ImplementsQuota, Promised!Spec

-----------------------------------------------------------------------------
(* Server *)

\* A migration is under way in the one transaction that writes.
WriterCommits == \A p \in Process : pc[p] = "commit" <=> writer = p

\* What is in the database has come in by the order of the names.
InOrder == schema = recorded /\ \A m \in recorded : 1..m \subseteq recorded

\* A process has seen, or has committed, all that precedes the migration it is at.
SeenBefore ==
    \A p \in Process :
       /\ pc[p] = "down" => next[p] = 1
       /\ pc[p] \in {"check", "apply", "commit"} => 1..next[p] - 1 \subseteq recorded
       /\ pc[p] \in {"apply", "commit"} => next[p] \in Migrations

ReadyIsMigrated ==
    \A p \in Process :
       /\ pc[p] \in {"build", "launch", "wait"} \cup Stopping => Migrations \subseteq recorded
       /\ server[p] # "none" \/ active[p] > 0 \/ port = p => pc[p] \in {"launch", "wait"} \cup Stopping

\* A listener is closed before its process waits for requests, and comes up no more.
StoppingIsDeaf ==
    \A p \in Process :
       /\ pc[p] \in Stopping => server[p] # "listening"
       /\ pc[p] = "exit" => active[p] = 0

ServerInv == ServerTypeOK /\ WriterCommits /\ InOrder /\ SeenBefore /\ ReadyIsMigrated /\ StoppingIsDeaf

LEMMA ServerInitInvariant == ServerInit => ServerInv
  BY ServerAssumption
  DEF ServerInit, ServerInv, ServerTypeOK, WriterCommits, InOrder, SeenBefore, ReadyIsMigrated,
      StoppingIsDeaf, Migrations, Running, Stopping, Starting

LEMMA EndInvariant == ASSUME ServerInv, NEW p \in Process, NEW how \in {"success", "failure", "killed"}, End(p, how)
                      PROVE  ServerInv'
<1>1. ServerTypeOK'
  BY ServerAssumption DEF End, ServerInv, ServerTypeOK, Running, Stopping, Starting
<1>2. WriterCommits'
  BY ServerAssumption DEF End, ServerInv, ServerTypeOK, WriterCommits
<1>3. InOrder' /\ SeenBefore'
  BY DEF End, ServerInv, ServerTypeOK, InOrder, SeenBefore
<1>4. ReadyIsMigrated' /\ StoppingIsDeaf'
  BY ServerAssumption DEF End, ServerInv, ServerTypeOK, ReadyIsMigrated, StoppingIsDeaf, Stopping
<1> QED
  BY <1>1, <1>2, <1>3, <1>4 DEF ServerInv

LEMMA CommitInvariant == ASSUME ServerInv, NEW p \in Process, Commit(p) PROVE ServerInv'
<1>0. next[p] \in Migrations /\ next[p] \in Nat /\ Last \in Nat /\ 1..next[p] - 1 \subseteq recorded
  BY ServerAssumption DEF Commit, ServerInv, SeenBefore, ServerTypeOK, Migrations
<1>1. ServerTypeOK'
  <2>1. next' \in [Process -> 1..Last + 1]
    <3>1. next[p] + 1 \in 1..Last + 1
      BY <1>0 DEF Migrations
    <3> QED
      BY <3>1 DEF Commit, ServerInv, ServerTypeOK
  <2>2. schema' \subseteq Migrations /\ recorded' \subseteq Migrations
    BY <1>0 DEF Commit, ServerInv, ServerTypeOK
  <2>3. pc' \in [Process -> Running \cup {"down"}]
    BY DEF Commit, Goto, ServerInv, ServerTypeOK, Running, Stopping, Starting
  <2> QED
    BY <2>1, <2>2, <2>3 DEF Commit, ending, ServerInv, ServerTypeOK, Migrations
<1>2. WriterCommits'
  BY ServerAssumption DEF Commit, Goto, ServerInv, ServerTypeOK, WriterCommits
<1>3. InOrder'
  <2>1. 1..next[p] \subseteq recorded'
    BY <1>0 DEF Commit
  <2> QED
    BY <2>1 DEF Commit, ServerInv, InOrder
<1>4. SeenBefore'
  <2>1. 1..next'[p] - 1 \subseteq recorded'
    BY <1>0 DEF Commit, ServerInv, ServerTypeOK
  <2> QED
    BY <2>1 DEF Commit, Goto, ServerInv, ServerTypeOK, SeenBefore
<1>5. ReadyIsMigrated' /\ StoppingIsDeaf'
  BY DEF Commit, Goto, ending, ServerInv, ServerTypeOK, ReadyIsMigrated, StoppingIsDeaf, Stopping
<1> QED
  BY <1>1, <1>2, <1>3, <1>4, <1>5 DEF ServerInv

LEMMA CheckInvariant == ASSUME ServerInv, NEW p \in Process, Check(p) PROVE ServerInv'
<1>0. next[p] \in 1..Last + 1 /\ Last \in Nat /\ 1..next[p] - 1 \subseteq recorded
  BY ServerAssumption DEF Check, ServerInv, SeenBefore, ServerTypeOK
<1>1. ServerTypeOK'
  BY <1>0 DEF Check, AllSeen, Goto, ending, database, ServerInv, ServerTypeOK, Running, Stopping, Starting, Migrations
<1>2. WriterCommits' /\ InOrder'
  BY DEF Check, Goto, database, ServerInv, ServerTypeOK, WriterCommits, InOrder
<1>3. CASE AllSeen(p)
  <2>1. Migrations \subseteq recorded
    BY <1>0, <1>3 DEF AllSeen, Migrations
  <2> QED
    BY <1>1, <1>2, <1>3, <2>1 DEF Check, Goto, ending, database, ServerInv, ServerTypeOK, SeenBefore, ReadyIsMigrated, StoppingIsDeaf, Stopping
<1>4. CASE ~AllSeen(p)
  <2>1. next[p] \in Migrations
    BY <1>0, <1>4 DEF AllSeen, Migrations
  <2>2. next[p] \in recorded => 1..next[p] \subseteq recorded
    BY DEF ServerInv, InOrder
  <2>3. SeenBefore'
    BY <1>0, <1>4, <2>1, <2>2 DEF Check, Goto, database, ServerInv, ServerTypeOK, SeenBefore
  <2>4. ReadyIsMigrated' /\ StoppingIsDeaf'
    BY <1>4 DEF Check, Goto, ending, database, ServerInv, ServerTypeOK, ReadyIsMigrated, StoppingIsDeaf, Stopping
  <2> QED
    BY <1>1, <1>2, <2>3, <2>4 DEF ServerInv
<1> QED
  BY <1>3, <1>4

LEMMA ServerNextInvariant == ServerInv /\ [ServerNext]_serverVars => ServerInv'
<1> SUFFICES ASSUME ServerInv, [ServerNext]_serverVars PROVE ServerInv'
  OBVIOUS
<1> USE DEF ServerInv, ServerTypeOK, WriterCommits, InOrder, SeenBefore, ReadyIsMigrated, StoppingIsDeaf, Stopping
<1>1. ASSUME NEW p \in Process, Start(p) PROVE ServerInv'
  <2>1. ServerTypeOK' /\ WriterCommits' /\ InOrder'
    BY <1>1 DEF Start, Goto, database, ending, Running, Stopping, Starting, Migrations
  <2>2. SeenBefore'
    BY <1>1 DEF Start, Goto, database
  <2>3. ReadyIsMigrated' /\ StoppingIsDeaf'
    BY <1>1 DEF Start, Goto, database, ending
  <2> QED
    BY <2>1, <2>2, <2>3
<1>2. ASSUME NEW p \in Process, Apply(p) PROVE ServerInv'
  BY <1>2, ServerAssumption DEF Apply, Goto, ending, Running, Stopping, Starting, Migrations
<1>3. ASSUME NEW p \in Process, Build(p) PROVE ServerInv'
  BY <1>3 DEF Build, Goto, database, ending, Running, Stopping, Starting
<1>4. ASSUME NEW p \in Process, Notify(p) PROVE ServerInv'
  BY <1>4 DEF Notify, Goto, database, ending, Running, Stopping, Starting
<1>5. ASSUME NEW p \in Process, Listen(p) PROVE ServerInv'
  <2>1. CASE End(p, "failure")
    BY <2>1, EndInvariant
  <2>2. CASE ~End(p, "failure")
    BY <1>5, <2>2, ServerAssumption DEF Listen, database, ending, Running, Stopping, Starting
  <2> QED
    BY <2>1, <2>2
<1>6. ASSUME NEW p \in Process, Request(p) \/ Answer(p) PROVE ServerInv'
  BY <1>6, ServerAssumption DEF Request, Answer, database, ending, Running, Stopping, Starting
<1>7. ASSUME NEW p \in Process, Stop(p) PROVE ServerInv'
  BY <1>7, ServerAssumption DEF Stop, Goto, database, ending, Running, Stopping, Starting
<1>8. ASSUME NEW p \in Process, StartFails(p) \/ DrainTimeout(p) \/ Exit(p) \/ Kill(p) PROVE ServerInv'
  BY <1>8, EndInvariant DEF StartFails, DrainTimeout, Exit, Kill
<1>10. ASSUME NEW p \in Process, Drained(p) PROVE ServerInv'
  BY <1>10, ServerAssumption DEF Drained, Goto, database, ending, Running, Starting
<1>9. CASE UNCHANGED serverVars
  BY <1>9 DEF serverVars, database, ending
<1> QED
  BY <1>1, <1>2, <1>3, <1>4, <1>5, <1>6, <1>7, <1>8, <1>9, <1>10, CommitInvariant, CheckInvariant DEF ServerNext, Main

LEMMA ServerInvariant == ServerSpec => []ServerInv
  BY ServerInitInvariant, ServerNextInvariant, PTL DEF ServerSpec

\* Every variable of Server keeps its type (cmd/server/main.go:18).
THEOREM ServerTypeCorrect == ServerSpec => []ServerTypeOK
<1>1. ServerInv => ServerTypeOK
  BY DEF ServerInv
<1> QED
  BY <1>1, ServerInvariant, PTL

\* For any number of processes that start, fail and crash in any order, the
\* schema is what schema_migrations says, in the order of the names
\* (db/migrate.go:40, :51).
THEOREM SchemaIsAsRecorded == ServerSpec => []SchemaAsRecorded
<1>1. ServerInv => SchemaAsRecorded
  BY DEF ServerInv, InOrder, SchemaAsRecorded
<1> QED
  BY <1>1, ServerInvariant, PTL

\* A process that listens or has requests has found or made every migration
\* (cmd/server/main.go:33).
THEOREM RequestsMeetWholeSchema == ServerSpec => []ServesWholeSchema
<1>1. ServerInv => ServesWholeSchema
  BY DEF ServerInv, ServerTypeOK, InOrder, ReadyIsMigrated, ServesWholeSchema, Migrations
<1> QED
  BY <1>1, ServerInvariant, PTL

\* A process that reports success leaves no request without its answer
\* (cmd/server/main.go:59).
THEOREM SuccessIsGraceful == ServerSpec => []SuccessCutsNothing
<1>1. ServerInit => SuccessCutsNothing
  BY DEF ServerInit, SuccessCutsNothing
<1>2. ServerInv /\ SuccessCutsNothing /\ [ServerNext]_serverVars => SuccessCutsNothing'
  <2> SUFFICES ASSUME ServerInv, SuccessCutsNothing, [ServerNext]_serverVars PROVE SuccessCutsNothing'
    OBVIOUS
  <2>1. ASSUME NEW p \in Process, NEW how, End(p, how), how = "success" => active[p] = 0
        PROVE  SuccessCutsNothing'
    BY <2>1 DEF End, ServerInv, ServerTypeOK, SuccessCutsNothing
  <2>2. CASE UNCHANGED ending
    BY <2>2 DEF ending, SuccessCutsNothing
  <2>3. ASSUME NEW p \in Process, Exit(p) PROVE SuccessCutsNothing'
    BY <2>1, <2>3 DEF Exit, ServerInv, StoppingIsDeaf
  <2>4. ASSUME NEW p \in Process, End(p, "failure") \/ End(p, "killed") PROVE SuccessCutsNothing'
    BY <2>1, <2>4
  <2> QED
    BY <2>2, <2>3, <2>4 DEF ServerNext, Main, serverVars, Start, Check, Apply, Commit, Build, StartFails, Notify,
          Drained, DrainTimeout, Listen, Request, Answer, Stop, Kill
<1> QED
  BY <1>1, <1>2, ServerInvariant, PTL DEF ServerSpec
=============================================================================
