------------------------- MODULE RequestPathProofs -------------------------
(***************************************************************************)
(* Proofs about the three small objects without a lock that a request      *)
(* passes: the token bucket that lets it out, the circuit breaker of its   *)
(* target and the future of its answer.  They share no state and no name,  *)
(* and each theorem is about one of the three specifications, for any      *)
(* values of its constants.                                                *)
(***************************************************************************)
EXTENDS TokenBucket, CircuitBreaker, Future, FiniteSetTheorems, TLAPS

(* The token bucket *)

\* Tokens whose ticks have been credited and that are not in the bucket yet.
Credits ==
    {c \in Users \X Nat : step[c[1]] \in {"cur", "add"} /\ c[2] \in 1 .. add[c[1]]}

\* What the locals of a call in progress say.
LocalInv ==
    \A x \in Users : step[x] = "a_cas" => old[x] >= Need

\* A refill in progress does not fill the bucket, and adds no more than some
\* rate earns in the interval it will claim.
RefillSound(x) ==
    /\ step[x] \notin {"off_last", "off_full", "s_full"}
    /\ step[x] = "last" => add[x] \in Rates
    /\ step[x] = "cas" =>
         /\ old[x] < at[x]
         /\ \E q \in Rates : add[x] <= ((at[x] - old[x]) * q) \div Second

\* So it is while limiting has not been switched off.
RateInv == NeverOff => rate \in Rates /\ \A x \in Users : RefillSound(x)

\* No tick is credited twice.
CreditInv ==
    /\ IsFiniteSet(Credits)
    /\ NeverOff => \A r \in Int : Tops(r) =>
         granted + tokens + Cardinality(Credits)
           <= Burst + (lastNS * r) \div Second

-----------------------------------------------------------------------------
LEMMA DivBounds ==
    ASSUME NEW a \in Int, NEW s \in Nat \ {0}
    PROVE  /\ a \div s \in Int
           /\ s * (a \div s) <= a /\ a < s * (a \div s) + s
  OBVIOUS

LEMMA DivMonotone ==
    ASSUME NEW a \in Int, NEW b \in Int, NEW s \in Nat \ {0}, a <= b
    PROVE  a \div s <= b \div s
  OBVIOUS

LEMMA DivSum ==
    ASSUME NEW a \in Int, NEW b \in Int, NEW s \in Nat \ {0}
    PROVE  a \div s + b \div s <= (a + b) \div s
  OBVIOUS

LEMMA TimesMonotone ==
    ASSUME NEW d \in Nat, NEW q \in Int, NEW r \in Int, q <= r
    PROVE  d * q \in Int /\ d * r \in Int /\ d * q <= d * r
  OBVIOUS

LEMMA WrapBound ==
    ASSUME NEW n \in Nat
    PROVE  Wrap(n) \in Int /\ Wrap(n) <= n
  BY BucketAssumption DEF Wrap

LEMMA MinTwo ==
    ASSUME NEW a \in Int, NEW b \in Int
    PROVE  Min({a, b}) = IF a <= b THEN a ELSE b
  BY DEF Min

LEMMA EarnedBound ==
    ASSUME NEW d \in Nat, NEW q \in Nat
    PROVE  /\ Earned(d, q) \in Int
           /\ Earned(d, q) <= (d * q) \div Second
  <1>1. d * q \in Nat
    OBVIOUS
  <1>2. Wrap(d * q) \in Int /\ Wrap(d * q) <= d * q
    BY <1>1, WrapBound
  <1> QED BY <1>1, <1>2, DivMonotone, DivBounds, BucketAssumption DEF Earned

LEMMA ProcsFacts ==
    /\ Callers \subseteq Users /\ Setters \subseteq Users
    /\ \A x \in Callers, s \in Setters : x # s
  BY BucketAssumption DEF Users

-----------------------------------------------------------------------------
(* Type correctness *)

LEMMA BucketTypeStep ==
    BucketTypeOK /\ LocalInv /\ [BucketNext]_bucketVars
      => BucketTypeOK' /\ LocalInv'
  <1> SUFFICES ASSUME BucketTypeOK, LocalInv, [BucketNext]_bucketVars
               PROVE  BucketTypeOK' /\ LocalInv'
    OBVIOUS
  <1>0. /\ rate \in Int /\ tokens \in 0 .. Burst /\ now \in Nat
        /\ lastNS \in 0 .. now /\ step \in [Users -> Labels]
        /\ at \in [Users -> 0 .. now] /\ old \in [Users -> Nat]
        /\ add \in [Users -> Nat] /\ qps \in [Setters -> Int] /\ granted \in Nat
        /\ Burst \in Nat /\ Need \in Nat \ {0} /\ NewRates \subseteq Int
    BY BucketAssumption DEF BucketTypeOK
  <1> USE ProcsFacts DEF BucketGoto, AfterRefill
  <1>1. CASE Tick
    <2>1. /\ now' \in Nat /\ lastNS' \in 0 .. now'
          /\ at' \in [Users -> 0 .. now']
      BY <1>0, <1>1 DEF Tick
    <2> QED BY <1>0, <1>1, <2>1 DEF Tick, BucketTypeOK, LocalInv
  \* A step that moves x to l and stores only in tokens, lastNS and rate.
  <1>2. ASSUME NEW x \in Users, NEW l \in Labels, BucketGoto(x, l), l # "a_cas",
               tokens' \in 0 .. Burst, lastNS' \in 0 .. now, rate' \in Int,
               granted' \in Nat, UNCHANGED <<now, at, old, add, qps>>
        PROVE  BucketTypeOK' /\ LocalInv'
    <2>1. step' \in [Users -> Labels]
      BY <1>0, <1>2
    <2>2. LocalInv'
      BY <1>0, <1>2 DEF LocalInv
    <2> QED BY <1>0, <1>2, <2>1, <2>2 DEF BucketTypeOK
  <1>3. ASSUME NEW x \in Users, RefillLoadRate(x)
        PROVE  BucketTypeOK' /\ LocalInv'
    <2>1. step' \in [Users -> Labels] /\ add' \in [Users -> Nat]
      BY <1>0, <1>3 DEF RefillLoadRate, Labels
    <2>2. LocalInv'
      BY <1>0, <1>3 DEF RefillLoadRate, LocalInv
    <2> QED BY <1>0, <1>3, <2>1, <2>2 DEF RefillLoadRate, BucketTypeOK
  <1>4. ASSUME NEW x \in Users, RefillOffLast(x) \/ RefillOffFull(x)
        PROVE  BucketTypeOK' /\ LocalInv'
    BY <1>0, <1>2, <1>4 DEF RefillOffLast, RefillOffFull, Labels
  <1>5. ASSUME NEW x \in Users, RefillLoadLast(x)
        PROVE  BucketTypeOK' /\ LocalInv'
    <2> DEFINE e == Earned(at[x] - lastNS, add[x])
    <2>1. CASE at[x] > lastNS /\ e > 0 /\ step' = [step EXCEPT ![x] = "cas"]
               /\ old' = [old EXCEPT ![x] = lastNS] /\ add' = [add EXCEPT ![x] = e]
      <3>1. e \in Int
        BY <1>0, <2>1, EarnedBound
      <3> HIDE DEF e
      <3>2. /\ step' \in [Users -> Labels] /\ old' \in [Users -> Nat]
            /\ add' \in [Users -> Nat]
        BY <1>0, <2>1, <3>1 DEF Labels
      <3>3. LocalInv'
        BY <1>0, <2>1 DEF LocalInv
      <3> QED BY <1>0, <1>5, <3>2, <3>3 DEF RefillLoadLast, BucketTypeOK
    <2>2. CASE AfterRefill(x) /\ UNCHANGED <<old, add>>
      BY <1>0, <1>2, <1>5, <2>2 DEF RefillLoadLast, Labels
    <2> QED BY <1>5, <2>1, <2>2 DEF RefillLoadLast
  <1>6. ASSUME NEW x \in Users, RefillCAS(x) PROVE BucketTypeOK' /\ LocalInv'
    BY <1>0, <1>2, <1>6 DEF RefillCAS, Labels
  <1>7. ASSUME NEW x \in Users, RefillLoadTokens(x)
        PROVE  BucketTypeOK' /\ LocalInv'
    <2>1. step' \in [Users -> Labels] /\ old' \in [Users -> Nat]
      BY <1>0, <1>7 DEF RefillLoadTokens, Labels
    <2>2. LocalInv'
      BY <1>0, <1>7 DEF RefillLoadTokens, LocalInv
    <2> QED BY <1>0, <1>7, <2>1, <2>2 DEF RefillLoadTokens, BucketTypeOK
  <1>8. ASSUME NEW x \in Users, RefillAdd(x) PROVE BucketTypeOK' /\ LocalInv'
    <2>1. Min({old[x] + add[x], Burst}) \in 0 .. Burst
      BY <1>0, MinTwo
    <2>2. tokens' \in 0 .. Burst
      BY <1>0, <1>8, <2>1 DEF RefillAdd, AddTo
    <2> QED BY <1>0, <1>2, <1>8, <2>2 DEF RefillAdd, AddTo, Labels
  <1>9. ASSUME NEW x \in Callers, AllowCall(x) PROVE BucketTypeOK' /\ LocalInv'
    <2>1. step' \in [Users -> Labels] /\ at' \in [Users -> 0 .. now]
      BY <1>0, <1>9 DEF AllowCall, Labels
    <2>2. LocalInv'
      BY <1>0, <1>9 DEF AllowCall, LocalInv
    <2> QED BY <1>0, <1>9, <2>1, <2>2 DEF AllowCall, BucketTypeOK
  <1>10. ASSUME NEW x \in Callers, AllowLoad(x) PROVE BucketTypeOK' /\ LocalInv'
    <2>1. step' \in [Users -> Labels] /\ old' \in [Users -> Nat]
      BY <1>0, <1>10 DEF AllowLoad, Labels
    <2>2. LocalInv'
      BY <1>0, <1>10 DEF AllowLoad, LocalInv
    <2> QED BY <1>0, <1>10, <2>1, <2>2 DEF AllowLoad, BucketTypeOK
  <1>11. ASSUME NEW x \in Callers, AllowCAS(x) PROVE BucketTypeOK' /\ LocalInv'
    <2>1. tokens' \in 0 .. Burst /\ granted' \in Nat
      BY <1>0, <1>11 DEF AllowCAS, LocalInv
    <2> QED BY <1>0, <1>2, <1>11, <2>1 DEF AllowCAS, Labels
  <1>12. ASSUME NEW s \in Setters, NEW q \in NewRates, SetQPSCall(s, q)
         PROVE  BucketTypeOK' /\ LocalInv'
    <2>1. /\ step' \in [Users -> Labels] /\ at' \in [Users -> 0 .. now]
          /\ qps' \in [Setters -> Int]
      BY <1>0, <1>12 DEF SetQPSCall, Labels
    <2>2. LocalInv'
      BY <1>0, <1>12 DEF SetQPSCall, LocalInv
    <2> QED BY <1>0, <1>12, <2>1, <2>2 DEF SetQPSCall, BucketTypeOK
  <1>13. ASSUME NEW s \in Setters, SetQPSRate(s) \/ SetQPSFull(s)
         PROVE  BucketTypeOK' /\ LocalInv'
    BY <1>0, <1>2, <1>13 DEF SetQPSRate, SetQPSFull, Labels
  <1>14. CASE UNCHANGED bucketVars
    BY <1>14 DEF bucketVars, BucketTypeOK, LocalInv
  <1> QED
    BY <1>1, <1>3, <1>4, <1>5, <1>6, <1>7, <1>8, <1>9, <1>10, <1>11, <1>12,
       <1>13, <1>14
    DEF BucketNext, Refill

-----------------------------------------------------------------------------
(* The rates *)

\* A step is of one goroutine; the locals of the others stay as they are.
OnlyMoves(x) ==
    \A y \in Users \ {x} : /\ step'[y] = step[y] /\ at'[y] = at[y]
                          /\ old'[y] = old[y] /\ add'[y] = add[y]

LEMMA Moves ==
    ASSUME BucketTypeOK, NEW x \in Users,
           \/ Refill(x)
           \/ AllowCall(x) \/ AllowLoad(x) \/ AllowCAS(x)
           \/ \E q \in NewRates : SetQPSCall(x, q)
           \/ SetQPSRate(x) \/ SetQPSFull(x)
    PROVE  OnlyMoves(x)
  <1> USE DEF BucketTypeOK, OnlyMoves, BucketGoto, AfterRefill
  <1>1. ASSUME Refill(x) PROVE OnlyMoves(x)
    <2>1. ASSUME RefillLoadRate(x) \/ RefillOffLast(x) \/ RefillOffFull(x)
                 \/ RefillLoadTokens(x)
          PROVE  OnlyMoves(x)
      BY <2>1 DEF RefillLoadRate, RefillOffLast, RefillOffFull, RefillLoadTokens
    <2>2. ASSUME RefillLoadLast(x) PROVE OnlyMoves(x)
      BY <2>2 DEF RefillLoadLast
    <2>3. ASSUME RefillCAS(x) \/ RefillAdd(x) PROVE OnlyMoves(x)
      BY <2>3 DEF RefillCAS, RefillAdd, AddTo
    <2> QED BY <1>1, <2>1, <2>2, <2>3 DEF Refill
  <1>2. ASSUME AllowCall(x) \/ AllowLoad(x) \/ AllowCAS(x) PROVE OnlyMoves(x)
    BY <1>2 DEF AllowCall, AllowLoad, AllowCAS
  <1>3. ASSUME \/ \E q \in NewRates : SetQPSCall(x, q)
               \/ SetQPSRate(x) \/ SetQPSFull(x)
        PROVE  OnlyMoves(x)
    BY <1>3 DEF SetQPSCall, SetQPSRate, SetQPSFull
  <1> QED BY <1>1, <1>2, <1>3

\* A rate once set stays in Rates.
LEMMA RatesGrow ==
    BucketTypeOK /\ [BucketNext]_bucketVars => Rates \subseteq Rates'
  <1> SUFFICES ASSUME BucketTypeOK, [BucketNext]_bucketVars
               PROVE  Rates \subseteq Rates'
    OBVIOUS
  <1> DEFINE Kept(s) == step[s] # "idle" => step'[s] # "idle" /\ qps'[s] = qps[s]
  <1>1. ASSUME \A s \in Setters : Kept(s) PROVE Rates \subseteq Rates'
    <2>1. ASSUME NEW r \in Rates, r # Rate PROVE r \in Rates'
      <3>1. PICK s \in Setters : step[s] # "idle" /\ r = qps[s]
        BY <2>1 DEF Rates
      <3>2. step'[s] # "idle" /\ r = qps'[s]
        BY <1>1, <3>1
      <3> QED BY <3>2 DEF Rates
    <2>2. Rate \in Rates'
      BY DEF Rates
    <2> QED BY <2>1, <2>2
  <1>0. step \in [Users -> Labels] /\ qps \in [Setters -> Int]
    BY DEF BucketTypeOK
  <1> USE ProcsFacts DEF BucketGoto, AfterRefill
  <1>2. ASSUME NEW x \in Users, Refill(x) PROVE \A s \in Setters : Kept(s)
    <2>1. qps' = qps /\ \E l \in Labels \ {"idle"} : step' = [step EXCEPT ![x] = l]
      BY <1>2 DEF Refill, RefillLoadRate, RefillOffLast, RefillOffFull,
                  RefillLoadLast, RefillCAS, RefillLoadTokens, RefillAdd, AddTo,
                  Labels
    <2> QED BY <1>0, <2>1
  <1>3. ASSUME NEW x \in Callers, AllowCall(x) \/ AllowLoad(x) \/ AllowCAS(x)
        PROVE  \A s \in Setters : Kept(s)
    BY <1>0, <1>3 DEF AllowCall, AllowLoad, AllowCAS
  <1>4. ASSUME NEW s \in Setters,
               \/ \E q \in NewRates : SetQPSCall(s, q)
               \/ SetQPSRate(s) \/ SetQPSFull(s)
        PROVE  \A u \in Setters : Kept(u)
    BY <1>0, <1>4 DEF SetQPSCall, SetQPSRate, SetQPSFull
  <1>5. ASSUME Tick \/ UNCHANGED bucketVars PROVE \A s \in Setters : Kept(s)
    BY <1>5 DEF Tick, bucketVars
  <1> HIDE DEF Kept
  <1> QED BY <1>1, <1>2, <1>3, <1>4, <1>5 DEF BucketNext

LEMMA RatesFacts ==
    ASSUME BucketTypeOK
    PROVE  Rates \subseteq Int
  BY BucketAssumption DEF BucketTypeOK, Rates

-----------------------------------------------------------------------------
LEMMA RateStep == BucketTypeOK /\ RateInv /\ [BucketNext]_bucketVars => RateInv'
  <1> SUFFICES ASSUME BucketTypeOK, RateInv, [BucketNext]_bucketVars, NeverOff'
               PROVE  rate' \in Rates' /\ \A x \in Users : RefillSound(x)'
    BY DEF RateInv
  <1>0. /\ step \in [Users -> Labels] /\ at \in [Users -> 0 .. now]
        /\ old \in [Users -> Nat] /\ add \in [Users -> Nat]
        /\ qps \in [Setters -> Int] /\ now \in Nat /\ lastNS \in 0 .. now
    BY DEF BucketTypeOK
  <1>1. Rates \subseteq Rates'
    BY RatesGrow
  <1>2. /\ \A r \in Rates' : r > 0
        /\ \A r \in Rates : r > 0
    BY <1>1 DEF NeverOff
  <1>3. rate \in Rates /\ \A x \in Users : RefillSound(x)
    BY <1>2 DEF NeverOff, RateInv
  <1>4. ASSUME NEW y \in Users, UNCHANGED <<step[y], at[y], old[y], add[y]>>
        PROVE  RefillSound(y)'
    BY <1>1, <1>3, <1>4 DEF RefillSound
  <1>5. ASSUME NEW x \in Users, OnlyMoves(x), RefillSound(x)', rate' \in Rates'
        PROVE  rate' \in Rates' /\ \A y \in Users : RefillSound(y)'
    BY <1>4, <1>5 DEF OnlyMoves
  <1> USE ProcsFacts DEF BucketGoto, AfterRefill
  <1>6. ASSUME NEW x \in Users, NEW l \in {"cur", "add", "a_load", "a_cas",
                 "s_rate", "idle", "rate", "done"}, step' = [step EXCEPT ![x] = l]
        PROVE  RefillSound(x)'
    BY <1>0, <1>6 DEF RefillSound
  <1>7. ASSUME NEW x \in Users, RefillLoadRate(x) PROVE RefillSound(x)'
    <2>1. rate > 0
      BY <1>2, <1>3
    <2>2. rate \in Rates' /\ rate \in Int
      BY <1>1, <1>3 DEF BucketTypeOK
    <2>3. step'[x] = "last" /\ add'[x] = rate
      BY <1>0, <1>7, <2>1, <2>2 DEF RefillLoadRate
    <2> QED BY <2>2, <2>3 DEF RefillSound
  <1>8. ASSUME NEW x \in Users, RefillLoadLast(x) PROVE RefillSound(x)'
    <2> DEFINE e == Earned(at[x] - lastNS, add[x])
    <2>1. CASE at[x] > lastNS /\ e > 0 /\ step' = [step EXCEPT ![x] = "cas"]
               /\ old' = [old EXCEPT ![x] = lastNS] /\ add' = [add EXCEPT ![x] = e]
      <3>1. add[x] \in Rates
        BY <1>3, <1>8 DEF RefillSound, RefillLoadLast
      <3>2. e <= ((at[x] - lastNS) * add[x]) \div Second
        BY <1>0, <2>1, EarnedBound
      <3> HIDE DEF e
      <3>3. /\ step'[x] = "cas" /\ old'[x] = lastNS /\ add'[x] = e
            /\ at'[x] = at[x]
        BY <1>0, <1>8, <2>1 DEF RefillLoadLast
      <3>4. lastNS < at[x]
        BY <1>0, <2>1
      <3> QED BY <1>1, <3>1, <3>2, <3>3, <3>4 DEF RefillSound
    <2>2. CASE AfterRefill(x)
      BY <1>6, <2>2
    <2> QED BY <1>8, <2>1, <2>2 DEF RefillLoadLast
  <1>9. ASSUME NEW x \in Users, Refill(x)
        PROVE  rate' \in Rates' /\ \A y \in Users : RefillSound(y)'
    <2>1. rate' = rate
      BY <1>9 DEF Refill, RefillLoadRate, RefillOffLast, RefillOffFull,
                  RefillLoadLast, RefillCAS, RefillLoadTokens, RefillAdd, AddTo
    <2>2. ~RefillOffLast(x) /\ ~RefillOffFull(x)
      BY <1>3 DEF RefillSound, RefillOffLast, RefillOffFull
    <2>3. ASSUME RefillCAS(x) \/ RefillLoadTokens(x) \/ RefillAdd(x)
          PROVE  RefillSound(x)'
      BY <1>6, <2>3 DEF RefillCAS, RefillLoadTokens, RefillAdd, AddTo
    <2>4. RefillSound(x)'
      BY <1>7, <1>8, <1>9, <2>2, <2>3 DEF Refill
    <2>5. OnlyMoves(x)
      BY <1>9, Moves
    <2> QED BY <1>1, <1>3, <1>5, <2>1, <2>4, <2>5
  <1>10. ASSUME NEW x \in Callers, AllowCall(x) \/ AllowLoad(x) \/ AllowCAS(x)
         PROVE  rate' \in Rates' /\ \A y \in Users : RefillSound(y)'
    <2>1. rate' = rate
      BY <1>10 DEF AllowCall, AllowLoad, AllowCAS
    <2>2. RefillSound(x)'
      BY <1>6, <1>10 DEF AllowCall, AllowLoad, AllowCAS
    <2>3. OnlyMoves(x)
      BY <1>10, Moves
    <2> QED BY <1>1, <1>3, <1>5, <2>1, <2>2, <2>3
  <1>11. ASSUME NEW s \in Setters, NEW q \in NewRates, SetQPSCall(s, q)
         PROVE  rate' \in Rates' /\ \A y \in Users : RefillSound(y)'
    <2>1. rate' = rate /\ RefillSound(s)'
      BY <1>6, <1>11 DEF SetQPSCall
    <2>2. OnlyMoves(s)
      BY <1>11, Moves
    <2> QED BY <1>1, <1>3, <1>5, <2>1, <2>2
  <1>12. ASSUME NEW s \in Setters, SetQPSRate(s)
         PROVE  rate' \in Rates' /\ \A y \in Users : RefillSound(y)'
    <2>1. qps[s] \in Rates
      BY <1>12 DEF SetQPSRate, Rates
    <2>2. step' = [step EXCEPT ![s] = "done"] /\ rate' = qps[s]
      <3>1. qps[s] \in Int /\ qps[s] > 0
        BY <1>0, <1>2, <2>1
      <3>2. ~(qps[s] <= 0)
        BY <3>1
      <3> QED BY <1>12, <3>2 DEF SetQPSRate
    <2>3. RefillSound(s)'
      BY <1>6, <2>2
    <2>4. OnlyMoves(s)
      BY <1>12, Moves
    <2> QED BY <1>1, <1>5, <2>1, <2>2, <2>3, <2>4
  <1>13. ASSUME NEW s \in Setters PROVE ~SetQPSFull(s)
    BY <1>3 DEF RefillSound, SetQPSFull
  <1>14. CASE Tick \/ UNCHANGED bucketVars
    BY <1>1, <1>3, <1>4, <1>14 DEF Tick, bucketVars
  <1> QED BY <1>9, <1>10, <1>11, <1>12, <1>13, <1>14 DEF BucketNext

-----------------------------------------------------------------------------
(* The credits *)

Credit(x, n) == {x} \X (1 .. n)

LEMMA CreditSize ==
    ASSUME NEW x, NEW n \in Nat
    PROVE  IsFiniteSet(Credit(x, n)) /\ Cardinality(Credit(x, n)) = n
  <1>1. IsFiniteSet({x}) /\ Cardinality({x}) = 1
    BY FS_Singleton
  <1>2. IsFiniteSet(1 .. n) /\ Cardinality(1 .. n) = n
    BY FS_Interval
  <1>3. /\ IsFiniteSet({x} \X (1 .. n))
        /\ Cardinality({x} \X (1 .. n)) = Cardinality({x}) * Cardinality(1 .. n)
    BY <1>1, <1>2, FS_Product
  <1> QED BY <1>1, <1>2, <1>3 DEF Credit

LEMMA DisjointSize ==
    ASSUME NEW S, NEW T, IsFiniteSet(S), IsFiniteSet(T), S \cap T = {}
    PROVE  /\ IsFiniteSet(S \cup T)
           /\ Cardinality(S) \in Nat /\ Cardinality(T) \in Nat
           /\ Cardinality(S \cup T) = Cardinality(S) + Cardinality(T)
  <1>1. /\ IsFiniteSet(S \cup T)
        /\ Cardinality(S \cup T) =
             Cardinality(S) + Cardinality(T) - Cardinality(S \cap T)
    BY FS_Union
  <1>2. Cardinality(S \cap T) = 0
    BY FS_EmptySet
  <1>3. Cardinality(S) \in Nat /\ Cardinality(T) \in Nat
    BY FS_CardinalityType
  <1> QED BY <1>1, <1>2, <1>3

Crediting(x) == step[x] \in {"cur", "add"}

\* The credits of the others do not change with a step of x.
LEMMA CreditsMove ==
    ASSUME BucketTypeOK, NEW x \in Users, OnlyMoves(x)
    PROVE  /\ Crediting(x)' /\ Crediting(x) /\ add'[x] = add[x] => Credits' = Credits
           /\ ~Crediting(x)' /\ ~Crediting(x) => Credits' = Credits
           /\ Crediting(x)' /\ ~Crediting(x) /\ add'[x] = add[x] =>
                /\ Credits' = Credits \cup Credit(x, add[x])
                /\ Credits \cap Credit(x, add[x]) = {}
           /\ ~Crediting(x)' /\ Crediting(x) =>
                /\ Credits = Credits' \cup Credit(x, add[x])
                /\ Credits' \cap Credit(x, add[x]) = {}
  <1> DEFINE In(c) == step[c[1]] \in {"cur", "add"} /\ c[2] \in 1 .. add[c[1]]
             In2(c) == step'[c[1]] \in {"cur", "add"} /\ c[2] \in 1 .. add'[c[1]]
  <1>0. add[x] \in Nat
    BY DEF BucketTypeOK
  <1>1. \A c \in Users \X Nat : c[1] # x => (In2(c) <=> In(c))
    BY DEF OnlyMoves
  <1>2. \A c \in Users \X Nat : c \in Credit(x, add[x]) <=> c[1] = x /\ c[2] \in 1 .. add[x]
    BY DEF Credit
  <1>3. Credit(x, add[x]) \subseteq Users \X Nat
    BY <1>0 DEF Credit
  <1>4. \A c : c \in Credits <=> c \in Users \X Nat /\ In(c)
    BY DEF Credits
  <1>5. \A c : c \in Credits' <=> c \in Users \X Nat /\ In2(c)
    BY DEF Credits
  <1>6. ASSUME Crediting(x)', Crediting(x), add'[x] = add[x]
        PROVE  Credits' = Credits
    BY <1>1, <1>4, <1>5, <1>6 DEF Crediting
  <1>7. ASSUME ~Crediting(x)', ~Crediting(x) PROVE Credits' = Credits
    BY <1>1, <1>4, <1>5, <1>7 DEF Crediting
  <1>8. ASSUME Crediting(x)', ~Crediting(x), add'[x] = add[x]
        PROVE  /\ Credits' = Credits \cup Credit(x, add[x])
               /\ Credits \cap Credit(x, add[x]) = {}
    BY <1>1, <1>2, <1>3, <1>4, <1>5, <1>8 DEF Crediting
  <1>9. ASSUME ~Crediting(x)', Crediting(x)
        PROVE  /\ Credits = Credits' \cup Credit(x, add[x])
               /\ Credits' \cap Credit(x, add[x]) = {}
    BY <1>1, <1>2, <1>3, <1>4, <1>5, <1>9 DEF Crediting
  <1> QED BY <1>6, <1>7, <1>8, <1>9

\* What an interval of d ticks after l earns at a rate q is earned at r.
LEMMA Interval ==
    ASSUME NEW l \in Nat, NEW d \in Nat, NEW q \in Int, NEW r \in Int, q <= r
    PROVE  /\ (l * r) \div Second \in Int /\ (d * q) \div Second \in Int
           /\ ((l + d) * r) \div Second \in Int
           /\ (l * r) \div Second + (d * q) \div Second <= ((l + d) * r) \div Second
  <1>0. Second \in Nat \ {0}
    BY BucketAssumption
  <1>1. d * q \in Int /\ d * r \in Int /\ d * q <= d * r /\ l * r \in Int
    BY TimesMonotone
  <1>2. (l + d) * r = l * r + d * r
    OBVIOUS
  <1> DEFINE a == l * r
             b == d * q
             c == d * r
  <1> HIDE DEF a, b, c
  <1>3. a \in Int /\ b \in Int /\ c \in Int /\ b <= c /\ (l + d) * r = a + c
    BY <1>1, <1>2 DEF a, b, c
  <1>4. /\ a \div Second \in Int /\ b \div Second \in Int /\ c \div Second \in Int
        /\ (a + c) \div Second \in Int
    BY <1>0, <1>3, DivBounds
  <1>5. b \div Second <= c \div Second
    BY <1>0, <1>3, DivMonotone
  <1>6. a \div Second + c \div Second <= (a + c) \div Second
    BY <1>0, <1>3, DivSum
  <1>7. a \div Second + b \div Second <= (a + c) \div Second
    BY <1>4, <1>5, <1>6
  <1> QED BY <1>3, <1>4, <1>7 DEF a, b

LEMMA CreditStep ==
    ASSUME BucketTypeOK, BucketTypeOK', LocalInv, RateInv, CreditInv, [BucketNext]_bucketVars
    PROVE  CreditInv'
  <1>0. /\ tokens \in Nat /\ tokens' \in Nat /\ granted \in Nat
        /\ granted' \in Nat /\ Burst \in Nat /\ now \in Nat
        /\ lastNS \in Nat /\ lastNS' \in Nat /\ Second \in Nat \ {0}
        /\ Need \in Nat /\ step \in [Users -> Labels]
        /\ old \in [Users -> Nat] /\ add \in [Users -> Nat]
        /\ at \in [Users -> 0 .. now] /\ add' \in [Users -> Nat]
        /\ step' \in [Users -> Labels]
    BY BucketAssumption DEF BucketTypeOK
  <1>1. Rates \subseteq Rates'
    BY RatesGrow
  <1>2. /\ NeverOff' => NeverOff
        /\ \A r \in Int : Tops(r)' => Tops(r)
    BY <1>1 DEF NeverOff, Tops
  <1>3. IsFiniteSet(Credits) /\ Cardinality(Credits) \in Nat
    BY FS_CardinalityType DEF CreditInv
  <1>4. ASSUME NeverOff', NEW r \in Int, Tops(r)'
        PROVE  /\ NeverOff /\ Tops(r)
               /\ granted + tokens + Cardinality(Credits)
                    <= Burst + (lastNS * r) \div Second
    BY <1>2, <1>4 DEF CreditInv
  \* A step that neither claims an interval nor pays its tokens in.
  <1>5. ASSUME Credits' = Credits,
               NeverOff' => /\ granted' + tokens' = granted + tokens
                            /\ lastNS' = lastNS
        PROVE  CreditInv'
    <2>1. ASSUME NeverOff', NEW r \in Int, Tops(r)'
          PROVE  granted' + tokens' + Cardinality(Credits')
                   <= Burst + (lastNS' * r) \div Second
      BY <1>4, <1>5, <2>1
    <2> QED BY <1>3, <1>5, <2>1 DEF CreditInv
  <1> USE ProcsFacts
  <1> USE DEF BucketGoto, AfterRefill
  <1>6. ASSUME NEW x \in Users, OnlyMoves(x), ~Crediting(x), ~Crediting(x)'
        PROVE  Credits' = Credits
    BY <1>6, CreditsMove
  <1>7. ASSUME NEW x \in Users, RefillLoadRate(x) \/ RefillLoadLast(x)
        PROVE  CreditInv'
    <2>1. ~Crediting(x) /\ ~Crediting(x)'
      BY <1>0, <1>7 DEF RefillLoadRate, RefillLoadLast, Crediting
    <2>2. OnlyMoves(x)
      BY <1>7, Moves DEF Refill
    <2> QED BY <1>5, <1>6, <1>7, <2>1, <2>2 DEF RefillLoadRate, RefillLoadLast
  <1>8. ASSUME NEW x \in Users, RefillOffLast(x) \/ RefillOffFull(x)
        PROVE  CreditInv'
    <2>1. ~Crediting(x) /\ ~Crediting(x)'
      BY <1>0, <1>8 DEF RefillOffLast, RefillOffFull, Crediting
    <2>2. OnlyMoves(x)
      BY <1>8, Moves DEF Refill
    <2>3. ~NeverOff
      BY <1>8 DEF RateInv, RefillSound, RefillOffLast, RefillOffFull
    <2> QED BY <1>2, <1>5, <1>6, <2>1, <2>2, <2>3
  <1>9. ASSUME NEW x \in Users, RefillCAS(x), lastNS # old[x] PROVE CreditInv'
    <2>1. ~Crediting(x) /\ ~Crediting(x)'
      BY <1>0, <1>9 DEF RefillCAS, Crediting
    <2>2. OnlyMoves(x)
      BY <1>9, Moves DEF Refill
    <2> QED BY <1>5, <1>6, <1>9, <2>1, <2>2 DEF RefillCAS
  <1>10. ASSUME NEW x \in Users, RefillCAS(x), lastNS = old[x] PROVE CreditInv'
    <2>0. /\ step[x] = "cas" /\ step'[x] = "cur" /\ add'[x] = add[x]
          /\ lastNS' = at[x] /\ granted' = granted /\ tokens' = tokens
      BY <1>0, <1>10 DEF RefillCAS
    <2>1. /\ Credits' = Credits \cup Credit(x, add[x])
          /\ Credits \cap Credit(x, add[x]) = {}
      <3>1. OnlyMoves(x)
        BY <1>10, Moves DEF Refill
      <3> QED BY <2>0, <3>1, CreditsMove DEF Crediting
    <2>2. /\ IsFiniteSet(Credits')
          /\ Cardinality(Credits') = Cardinality(Credits) + add[x]
      <3>1. /\ IsFiniteSet(Credit(x, add[x]))
            /\ Cardinality(Credit(x, add[x])) = add[x]
        BY <1>0, CreditSize
      <3> QED BY ONLY <1>3, <2>1, <3>1, DisjointSize
    <2>3. ASSUME NeverOff', NEW r \in Int, Tops(r)'
          PROVE  granted' + tokens' + Cardinality(Credits')
                   <= Burst + (lastNS' * r) \div Second
      <3>1. /\ NeverOff /\ Tops(r)
            /\ granted + tokens + Cardinality(Credits)
                 <= Burst + (lastNS * r) \div Second
        BY <1>4, <2>3
      <3>2. /\ lastNS < at[x]
            /\ \E q \in Rates : add[x] <= ((at[x] - lastNS) * q) \div Second
        BY <1>10, <2>0, <3>1 DEF RateInv, RefillSound
      <3>3. PICK q \in Rates : add[x] <= ((at[x] - lastNS) * q) \div Second
        BY <3>2
      <3>4. q \in Int /\ q <= r
        BY <3>1, RatesFacts DEF Tops
      <3> DEFINE d == at[x] - lastNS
      <3>5. d \in Nat /\ lastNS + d = lastNS'
        BY <1>0, <2>0, <3>2
      <3>6. add[x] <= (d * q) \div Second
        BY <3>3
      <3> HIDE DEF d
      <3>7. /\ (lastNS * r) \div Second \in Int /\ (d * q) \div Second \in Int
            /\ (lastNS' * r) \div Second \in Int
            /\ (lastNS * r) \div Second + (d * q) \div Second
                 <= (lastNS' * r) \div Second
        <4>1. /\ (lastNS * r) \div Second \in Int /\ (d * q) \div Second \in Int
              /\ ((lastNS + d) * r) \div Second \in Int
              /\ (lastNS * r) \div Second + (d * q) \div Second
                   <= ((lastNS + d) * r) \div Second
          BY <1>0, <3>4, <3>5, Interval
        <4> QED BY ONLY <3>5, <4>1
      <3> DEFINE a == (lastNS * r) \div Second
                 b == (d * q) \div Second
                 c == (lastNS' * r) \div Second
      <3>8. /\ a \in Int /\ b \in Int /\ c \in Int /\ a + b <= c /\ add[x] <= b
            /\ granted + tokens + Cardinality(Credits) <= Burst + a
            /\ add[x] \in Nat
        BY <1>0, <3>1, <3>6, <3>7
      <3> HIDE DEF a, b, c
      <3>9. granted + tokens + (Cardinality(Credits) + add[x]) <= Burst + c
        BY ONLY <1>0, <1>3, <3>8
      <3> QED BY <2>0, <2>2, <3>9 DEF c
    <2> QED BY <2>2, <2>3 DEF CreditInv
  <1>11. ASSUME NEW x \in Users,
                \/ RefillLoadTokens(x)
                \/ RefillAdd(x) /\ tokens # old[x]
         PROVE  CreditInv'
    <2>1. Crediting(x) /\ Crediting(x)' /\ add'[x] = add[x]
      BY <1>0, <1>11 DEF RefillLoadTokens, RefillAdd, AddTo, Crediting
    <2>2. OnlyMoves(x)
      BY <1>11, Moves DEF Refill
    <2>3. Credits' = Credits
      BY <2>1, <2>2, CreditsMove
    <2> QED BY <1>5, <1>11, <2>3 DEF RefillLoadTokens, RefillAdd, AddTo
  <1>12. ASSUME NEW x \in Users, RefillAdd(x), tokens = old[x] PROVE CreditInv'
    <2>0. /\ step[x] = "add" /\ step'[x] \in {"a_load", "s_rate"}
          /\ tokens' <= tokens + add[x]
          /\ lastNS' = lastNS /\ granted' = granted
      BY <1>0, <1>12, MinTwo DEF RefillAdd, AddTo
    <2>1. /\ Credits = Credits' \cup Credit(x, add[x])
          /\ Credits' \cap Credit(x, add[x]) = {}
      <3>1. OnlyMoves(x)
        BY <1>12, Moves DEF Refill
      <3> QED BY <2>0, <3>1, CreditsMove DEF Crediting
    <2>2. /\ IsFiniteSet(Credits') /\ Cardinality(Credits') \in Nat
          /\ Cardinality(Credits) = Cardinality(Credits') + add[x]
      <3>1. /\ IsFiniteSet(Credit(x, add[x]))
            /\ Cardinality(Credit(x, add[x])) = add[x]
        BY <1>0, CreditSize
      <3>2. Credits' \subseteq Credits
        BY <2>1
      <3>3. IsFiniteSet(Credits')
        BY ONLY <1>3, <3>2, FS_Subset
      <3> QED BY ONLY <2>1, <3>1, <3>3, DisjointSize
    <2>3. ASSUME NeverOff', NEW r \in Int, Tops(r)'
          PROVE  granted' + tokens' + Cardinality(Credits')
                   <= Burst + (lastNS' * r) \div Second
      <3>1. granted + tokens + Cardinality(Credits)
              <= Burst + (lastNS * r) \div Second
        BY <1>4, <2>3
      <3> DEFINE a == (lastNS * r) \div Second
      <3>2. a \in Int
        BY <1>0, DivBounds
      <3>3. granted + tokens + Cardinality(Credits) <= Burst + a
        BY <3>1
      <3> HIDE DEF a
      <3>4. granted' + tokens' + Cardinality(Credits') <= Burst + a
        <4>1. add[x] \in Nat
          BY <1>0
        <4> QED BY ONLY <1>0, <2>0, <2>2, <3>2, <3>3, <4>1
      <3> QED BY <2>0, <3>4 DEF a
    <2> QED BY <2>2, <2>3 DEF CreditInv
  <1>13. ASSUME NEW x \in Callers, AllowCall(x) \/ AllowLoad(x) \/ AllowCAS(x)
         PROVE  CreditInv'
    <2>1. ~Crediting(x) /\ ~Crediting(x)'
      BY <1>0, <1>13 DEF AllowCall, AllowLoad, AllowCAS, Crediting
    <2>2. OnlyMoves(x)
      BY <1>13, Moves
    <2>3. granted' + tokens' = granted + tokens /\ lastNS' = lastNS
      <3>1. /\ lastNS' = lastNS
            /\ \/ tokens' = tokens /\ granted' = granted
               \/ tokens' = tokens - Need /\ granted' = granted + Need
        BY <1>13 DEF AllowCall, AllowLoad, AllowCAS
      <3>2. tokens \in Nat /\ granted \in Nat /\ Need \in Nat
        BY <1>0
      <3> QED BY ONLY <3>1, <3>2
    <2> QED BY <1>5, <1>6, <2>1, <2>2, <2>3
  <1>14. ASSUME NEW s \in Setters,
                (\E q \in NewRates : SetQPSCall(s, q)) \/ SetQPSRate(s)
         PROVE  CreditInv'
    <2>1. ~Crediting(s) /\ ~Crediting(s)'
      BY <1>0, <1>14 DEF SetQPSCall, SetQPSRate, Crediting
    <2>2. OnlyMoves(s)
      BY <1>14, Moves
    <2> QED BY <1>5, <1>6, <1>14, <2>1, <2>2 DEF SetQPSCall, SetQPSRate
  <1>15. ASSUME NEW s \in Setters, SetQPSFull(s) PROVE CreditInv'
    <2>1. ~Crediting(s) /\ ~Crediting(s)'
      BY <1>0, <1>15 DEF SetQPSFull, Crediting
    <2>2. OnlyMoves(s)
      BY <1>15, Moves
    <2>3. ~NeverOff
      BY <1>15 DEF RateInv, RefillSound, SetQPSFull
    <2> QED BY <1>2, <1>5, <1>6, <2>1, <2>2, <2>3
  <1>16. CASE Tick \/ UNCHANGED bucketVars
    <2>1. Credits' = Credits
      BY <1>16 DEF Tick, bucketVars, Credits
    <2> QED BY <1>5, <1>16, <2>1 DEF Tick, bucketVars
  <1>17. ASSUME NEW x \in Users, Refill(x) PROVE CreditInv'
    BY <1>7, <1>8, <1>9, <1>10, <1>11, <1>12, <1>17 DEF Refill
  <1> QED BY <1>13, <1>14, <1>15, <1>16, <1>17 DEF BucketNext

LEMMA BucketInitInv ==
    BucketInit => BucketTypeOK /\ LocalInv /\ RateInv /\ CreditInv
  <1> SUFFICES ASSUME BucketInit
               PROVE  BucketTypeOK /\ LocalInv /\ RateInv /\ CreditInv
    OBVIOUS
  <1>1. BucketTypeOK
    BY BucketAssumption DEF BucketInit, BucketTypeOK, Labels
  <1>2. \A x \in Users : step[x] = "idle"
    BY DEF BucketInit
  <1>3. LocalInv /\ \A x \in Users : RefillSound(x)
    BY <1>2 DEF LocalInv, RefillSound
  <1>4. RateInv
    BY <1>3 DEF RateInv, Rates, BucketInit
  <1>5. Credits = {}
    BY <1>2 DEF Credits
  <1>6. \A r \in Int : 0 * r = 0 /\ 0 \div Second = 0
    BY BucketAssumption
  <1>7. CreditInv
    BY <1>5, <1>6, FS_EmptySet, BucketAssumption DEF CreditInv, BucketInit
  <1> QED BY <1>1, <1>3, <1>4, <1>7

LEMMA BucketInv ==
    BucketSpec => [](BucketTypeOK /\ LocalInv /\ RateInv /\ CreditInv)
  <1>1. BucketTypeOK /\ LocalInv /\ RateInv /\ CreditInv /\ [BucketNext]_bucketVars
          => (BucketTypeOK /\ LocalInv /\ RateInv /\ CreditInv)'
    <2> SUFFICES ASSUME BucketTypeOK, LocalInv, RateInv, CreditInv, [BucketNext]_bucketVars
                 PROVE  BucketTypeOK' /\ LocalInv' /\ RateInv' /\ CreditInv'
      OBVIOUS
    <2>1. BucketTypeOK' /\ LocalInv'
      BY BucketTypeStep
    <2>2. RateInv'
      BY RateStep
    <2>3. CreditInv'
      BY <2>1, CreditStep
    <2> QED BY <2>1, <2>2, <2>3
  <1> QED BY <1>1, BucketInitInv, PTL DEF BucketSpec

(***************************************************************************)
(* However Allow, refill and SetQPS interleave, the bucket is never        *)
(* overdrawn and never holds more than the burst, for any number of        *)
(* callers and setters and any width of the integers.                      *)
(***************************************************************************)
THEOREM BucketTypes == BucketSpec => []BucketTypeOK
  BY BucketInv, PTL

LEMMA EarnedByNow ==
    BucketTypeOK /\ LocalInv /\ RateInv /\ CreditInv => RateLimit
  <1> SUFFICES ASSUME BucketTypeOK, CreditInv, NeverOff, NEW r \in Rates, Tops(r)
               PROVE  granted <= Burst + (now * r) \div Second
    BY DEF RateLimit
  <1>0. /\ r \in Nat /\ now \in Nat /\ lastNS \in 0 .. now /\ granted \in Nat
        /\ tokens \in Nat /\ Burst \in Nat /\ Second \in Nat \ {0}
    BY RatesFacts, BucketAssumption DEF BucketTypeOK, NeverOff
  <1>1. granted + tokens + Cardinality(Credits) <= Burst + (lastNS * r) \div Second
    BY <1>0 DEF CreditInv
  <1>2. Cardinality(Credits) \in Nat
    BY FS_CardinalityType DEF CreditInv
  <1>3. lastNS * r \in Int /\ now * r \in Int /\ lastNS * r <= now * r
    BY <1>0, TimesMonotone
  <1>4. /\ (lastNS * r) \div Second <= (now * r) \div Second
        /\ (lastNS * r) \div Second \in Int /\ (now * r) \div Second \in Int
    BY <1>0, <1>3, DivMonotone, DivBounds
  <1> DEFINE a == (lastNS * r) \div Second
             b == (now * r) \div Second
  <1>5. /\ a <= b /\ a \in Int /\ b \in Int
        /\ granted + tokens + Cardinality(Credits) <= Burst + a
    BY <1>1, <1>4
  <1> HIDE DEF a, b
  <1>6. granted <= Burst + b
    BY ONLY <1>0, <1>2, <1>5
  <1> QED BY <1>6 DEF b

(***************************************************************************)
(* The rate limit: while limiting is on, no more tokens are handed out     *)
(* than the burst and what the highest rate set so far earns.  Overlapping *)
(* refills credit no tick twice: an interval is claimed by the one         *)
(* compare-and-swap on lastNS that moves it, and a wrapped product earns   *)
(* no more than the true one.                                              *)
(***************************************************************************)
THEOREM RateKept == BucketSpec => []RateLimit
  BY BucketInv, EarnedByNow, PTL

-----------------------------------------------------------------------------
(* The circuit breaker *)

LEMMA BreakerTypeStep ==
    BreakerTypeOK /\ [BreakerNext]_breakerVars => BreakerTypeOK'
  <1> SUFFICES ASSUME BreakerTypeOK, [BreakerNext]_breakerVars
               PROVE  BreakerTypeOK'
    OBVIOUS
  <1> USE BreakerAssumption DEF BreakerTypeOK, Stages, BreakerGoto, Admit, Reject, Done
  <1>1. ASSUME BreakerTick PROVE BreakerTypeOK'
    <2>1. /\ clock' = clock + 1
          /\ UNCHANGED <<state, failures, openedAt, probe, stage, t, probing,
                         abandoned>>
      BY <1>1 DEF BreakerTick
    <2>2. openedAt' \in 0 .. clock'
      BY <2>1
    <2>3. t' \in [Askers -> 0 .. clock']
      BY <2>1
    <2> QED BY <2>1, <2>2, <2>3
  <1>2. ASSUME NEW x \in Askers, AllowBegin(x) PROVE BreakerTypeOK'
    BY <1>2 DEF AllowBegin
  <1>3. ASSUME NEW x \in Askers, AllowLoadState(x) PROVE BreakerTypeOK'
    BY <1>3 DEF AllowLoadState
  <1>4. ASSUME NEW x \in Askers, AllowLoadOpened(x) PROVE BreakerTypeOK'
    BY <1>4 DEF AllowLoadOpened
  <1>5. ASSUME NEW x \in Askers, AllowHalfOpen(x) PROVE BreakerTypeOK'
    BY <1>5 DEF AllowHalfOpen
  <1>6. ASSUME NEW x \in Askers, AllowResetProbe(x) PROVE BreakerTypeOK'
    BY <1>6 DEF AllowResetProbe
  <1>7. ASSUME NEW x \in Askers, AllowProbe(x) PROVE BreakerTypeOK'
    BY <1>7 DEF AllowProbe
  <1>8. ASSUME NEW x \in Askers, AskDegrade(x) PROVE BreakerTypeOK'
    BY <1>8 DEF AskDegrade
  <1>9. ASSUME NEW x \in Askers, AskSucceeds(x) PROVE BreakerTypeOK'
    BY <1>9 DEF AskSucceeds
  <1>10. ASSUME NEW x \in Askers, AskFails(x) PROVE BreakerTypeOK'
    BY <1>10 DEF AskFails
  <1>11. ASSUME NEW x \in Askers, SuccessFailures(x) PROVE BreakerTypeOK'
    BY <1>11 DEF SuccessFailures
  <1>12. ASSUME NEW x \in Askers, SuccessState(x) PROVE BreakerTypeOK'
    BY <1>12 DEF SuccessState
  <1>13. ASSUME NEW x \in Askers, FailureLoadState(x) PROVE BreakerTypeOK'
    BY <1>13 DEF FailureLoadState
  <1>14. ASSUME NEW x \in Askers, FailureAdd(x) PROVE BreakerTypeOK'
    <2>1. failures' \in Nat /\ UNCHANGED <<state, openedAt, probe, clock, t,
                                           abandoned>>
      BY <1>14 DEF FailureAdd
    <2>2. stage' \in [Askers -> Stages] /\ probing' \in [Askers -> BOOLEAN]
      <3>1. CASE BreakerGoto(x, "o_at") /\ probing' = probing
        BY <3>1
      <3>2. CASE Done(x)
        BY <3>2
      <3> QED BY <1>14, <3>1, <3>2 DEF FailureAdd
    <2> QED BY <2>1, <2>2
  <1>15. ASSUME NEW x \in Askers, OpenAt(x) PROVE BreakerTypeOK'
    BY <1>15 DEF OpenAt
  <1>16. ASSUME NEW x \in Askers, OpenState(x) PROVE BreakerTypeOK'
    BY <1>16 DEF OpenState
  <1>17. ASSUME NEW x \in Askers, ClearProbe(x) PROVE BreakerTypeOK'
    BY <1>17 DEF ClearProbe
  <1>18. CASE UNCHANGED breakerVars
    BY <1>18 DEF breakerVars
  <1> QED
    BY <1>1, <1>2, <1>3, <1>4, <1>5, <1>6, <1>7, <1>8, <1>9, <1>10, <1>11,
       <1>12, <1>13, <1>14, <1>15, <1>16, <1>17, <1>18
    DEF BreakerNext, Step

\* x will clear the probe flag of a half-open breaker.
Owns(x) ==
    \/ stage[x] \in {"a_reset", "last", "s_failures", "s_state", "o_at", "o_state"}
    \/ probing[x] /\ stage[x] \in {"asking", "f_state"}

LEMMA OwnerDef ==
    ProbeHasOwner <=>
      (state = "half" /\ probe => abandoned \/ \E x \in Askers : Owns(x))
  BY DEF ProbeHasOwner, Owns

(***************************************************************************)
(* A step that does not set the flag, enter half-open or forget an         *)
(* abandoned probe, and leaves every owner an owner.                       *)
(***************************************************************************)
LEMMA OwnerKept ==
    ASSUME ProbeHasOwner,
           state' = "half" /\ probe' => state = "half" /\ probe,
           abandoned => abandoned',
           \A x \in Askers : Owns(x) => Owns(x)'
    PROVE  ProbeHasOwner'
  <1>1. state = "half" /\ probe => abandoned \/ \E x \in Askers : Owns(x)
    BY OwnerDef
  <1>2. state' = "half" /\ probe' => abandoned' \/ \E x \in Askers : Owns(x)'
    BY <1>1
  <1> QED BY <1>2 DEF ProbeHasOwner, Owns

LEMMA OwnerStep ==
    BreakerTypeOK /\ ProbeHasOwner /\ [BreakerNext]_breakerVars
      => ProbeHasOwner'
  <1> SUFFICES ASSUME BreakerTypeOK, ProbeHasOwner, [BreakerNext]_breakerVars
               PROVE  ProbeHasOwner'
    OBVIOUS
  <1>0. stage \in [Askers -> Stages] /\ probing \in [Askers -> BOOLEAN]
    BY DEF BreakerTypeOK
  <1> USE DEF BreakerGoto, Admit, Reject, Done
  <1>1. ASSUME NEW x \in Askers,
               \/ AllowBegin(x) \/ AllowLoadState(x) \/ AllowLoadOpened(x)
               \/ AskSucceeds(x) \/ AskFails(x) \/ SuccessFailures(x)
               \/ OpenAt(x)
        PROVE  ProbeHasOwner'
    <2>1. UNCHANGED <<state, probe, abandoned, probing>>
      BY <1>1 DEF AllowBegin, AllowLoadState, AllowLoadOpened, AskSucceeds,
                  AskFails, SuccessFailures, OpenAt
    <2>2. \A y \in Askers : Owns(y) => Owns(y)'
      BY <1>0, <1>1, <2>1
      DEF Owns, AllowBegin, AllowLoadState, AllowLoadOpened, AskSucceeds,
          AskFails, SuccessFailures, OpenAt
    <2> QED BY <2>1, <2>2, OwnerKept
  <1>2. ASSUME NEW x \in Askers, AllowHalfOpen(x) PROVE ProbeHasOwner'
    <2>1. CASE state = "open"
      <3>1. stage'[x] = "a_reset"
        BY <1>0, <1>2, <2>1 DEF AllowHalfOpen
      <3> QED BY <3>1 DEF ProbeHasOwner
    <2>2. CASE state # "open"
      <3>1. UNCHANGED <<state, probe, abandoned, probing>>
        BY <1>2, <2>2 DEF AllowHalfOpen
      <3>2. \A y \in Askers : Owns(y) => Owns(y)'
        BY <1>0, <1>2, <2>2, <3>1 DEF Owns, AllowHalfOpen
      <3> QED BY <3>1, <3>2, OwnerKept
    <2> QED BY <2>1, <2>2
  <1>3. ASSUME NEW x \in Askers, AllowResetProbe(x) \/ ClearProbe(x)
        PROVE  ProbeHasOwner'
    BY <1>3 DEF AllowResetProbe, ClearProbe, ProbeHasOwner
  <1>4. ASSUME NEW x \in Askers, AllowProbe(x) PROVE ProbeHasOwner'
    <2>1. CASE ~probe
      <3>1. stage'[x] = "asking" /\ probing'[x] = TRUE
        BY <1>0, <1>4, <2>1 DEF AllowProbe
      <3> QED BY <3>1 DEF ProbeHasOwner
    <2>2. CASE probe
      <3>1. UNCHANGED <<state, probe, abandoned, probing>>
        BY <1>4, <2>2 DEF AllowProbe
      <3>2. \A y \in Askers : Owns(y) => Owns(y)'
        BY <1>0, <1>4, <2>2, <3>1 DEF Owns, AllowProbe
      <3> QED BY <3>1, <3>2, OwnerKept
    <2> QED BY <2>1, <2>2
  <1>5. ASSUME NEW x \in Askers, AskDegrade(x) PROVE ProbeHasOwner'
    <2>1. CASE probing[x]
      BY <1>5, <2>1 DEF AskDegrade, ProbeHasOwner
    <2>2. CASE ~probing[x]
      <3>1. UNCHANGED <<state, probe>> /\ (abandoned => abandoned')
        BY <1>5, <2>2 DEF AskDegrade
      <3>2. \A y \in Askers : Owns(y) => Owns(y)'
        BY <1>0, <1>5, <2>2 DEF Owns, AskDegrade
      <3> QED BY <3>1, <3>2, OwnerKept
    <2> QED BY <2>1, <2>2
  <1>6. ASSUME NEW x \in Askers, SuccessState(x) \/ OpenState(x)
        PROVE  ProbeHasOwner'
    BY <1>6 DEF SuccessState, OpenState, ProbeHasOwner
  <1>7. ASSUME NEW x \in Askers, FailureLoadState(x) PROVE ProbeHasOwner'
    <2>1. CASE state = "half"
      <3>1. stage'[x] = "o_at"
        BY <1>0, <1>7, <2>1 DEF FailureLoadState
      <3> QED BY <3>1 DEF ProbeHasOwner
    <2>2. CASE state # "half"
      BY <1>7, <2>2 DEF FailureLoadState, ProbeHasOwner
    <2> QED BY <2>1, <2>2
  <1>8. ASSUME NEW x \in Askers, FailureAdd(x) PROVE ProbeHasOwner'
    <2>1. UNCHANGED <<state, probe, abandoned>> /\ stage[x] = "f_add"
      BY <1>8 DEF FailureAdd
    <2>2. \A y \in Askers : y # x => stage'[y] = stage[y] /\ probing'[y] = probing[y]
      BY <1>0, <1>8 DEF FailureAdd
    <2>3. \A y \in Askers : Owns(y) => Owns(y)'
      BY <2>1, <2>2 DEF Owns
    <2> QED BY <2>1, <2>3, OwnerKept
  <1>9. CASE BreakerTick \/ UNCHANGED breakerVars
    <2>1. UNCHANGED <<state, probe, abandoned, probing, stage>>
      BY <1>9 DEF BreakerTick, breakerVars
    <2> QED BY <2>1 DEF ProbeHasOwner
  <1> QED
    BY <1>1, <1>2, <1>3, <1>4, <1>5, <1>6, <1>7, <1>8, <1>9
    DEF BreakerNext, Step

(***************************************************************************)
(* The breaker is well typed, openedAt never lies in the future, and the   *)
(* probe flag of a half-open breaker always has a caller that will clear   *)
(* it, unless the probe was degraded without a report, however many calls  *)
(* of Allow, OnSuccess and OnFailure interleave (breaker.go:61-108).       *)
(***************************************************************************)
THEOREM ProbeOwned == BreakerSpec => []BreakerInv
  <1>1. BreakerInit => BreakerInv
    <2> SUFFICES ASSUME BreakerInit PROVE BreakerTypeOK /\ ProbeHasOwner
      BY DEF BreakerInv
    <2>1. openedAt \in 0 .. clock /\ t \in [Askers -> 0 .. clock]
      BY DEF BreakerInit
    <2>2. BreakerTypeOK
      BY <2>1 DEF BreakerInit, BreakerTypeOK, Stages
    <2> QED BY <2>2 DEF BreakerInit, ProbeHasOwner
  <1>2. BreakerInv /\ [BreakerNext]_breakerVars => BreakerInv'
    BY BreakerTypeStep, OwnerStep DEF BreakerInv
  <1> QED BY <1>1, <1>2, PTL DEF BreakerSpec

-----------------------------------------------------------------------------
(* The future *)

\* The inductive invariant.
FutureIInv == TypeOK /\ WinnerInv /\ CallbackInv

LEMMA Disjoint ==
    /\ \A x \in Completers : x # None /\ x \notin Registrars /\ x \notin Waiters
    /\ \A r \in Registrars : r \notin Completers /\ r \notin Waiters
    /\ \A w \in Waiters : w \notin Completers /\ w \notin Registrars
    /\ Completers \subseteq Procs /\ Registrars \subseteq Procs
    /\ Waiters \subseteq Procs
  BY FutureAssumption DEF Waiters, Procs

LEMMA FutureTypeStep == TypeOK /\ [Next]_vars => TypeOK'
  <1> SUFFICES ASSUME TypeOK, [Next]_vars PROVE TypeOK'
    OBVIOUS
  <1> USE Disjoint DEF TypeOK, Goto, Run
  <1>1. ASSUME NEW x \in Completers, CompleteSwap(x) PROVE TypeOK'
    BY <1>1 DEF CompleteSwap
  <1>2. ASSUME NEW x \in Completers, CompleteStore(x) PROVE TypeOK'
    BY <1>2 DEF CompleteStore
  <1>3. ASSUME NEW x \in Completers, CompleteSend(x) PROVE TypeOK'
    BY <1>3 DEF CompleteSend
  <1>4. ASSUME NEW x \in Completers, CompleteClose(x) PROVE TypeOK'
    BY <1>4 DEF CompleteClose
  <1>5. ASSUME NEW x \in Completers, CompleteTake(x) PROVE TypeOK'
    BY <1>5 DEF CompleteTake
  <1>6. ASSUME NEW x \in Completers, CompleteRun(x) PROVE TypeOK'
    BY <1>6 DEF CompleteRun
  <1>7. ASSUME NEW r \in Registrars, OnCompleteLoadDone(r) PROVE TypeOK'
    BY <1>7 DEF OnCompleteLoadDone
  <1>8. ASSUME NEW r \in Registrars, OnCompleteLoadResult(r) PROVE TypeOK'
    BY <1>8 DEF OnCompleteLoadResult
  <1>9. ASSUME NEW r \in Registrars, OnCompleteAppend(r) PROVE TypeOK'
    BY <1>9 DEF OnCompleteAppend
  <1>10. ASSUME NEW w \in Waiters, AwaitLoadDone(w) PROVE TypeOK'
    BY <1>10 DEF AwaitLoadDone
  <1>11. ASSUME NEW w \in Waiters, AwaitLoadResult(w) PROVE TypeOK'
    BY <1>11 DEF AwaitLoadResult
  <1>12. ASSUME NEW w \in Waiters, AwaitReceive(w) PROVE TypeOK'
    BY <1>12 DEF AwaitReceive
  <1>13. ASSUME NEW w \in Waiters, AwaitTimeout(w) PROVE TypeOK'
    BY <1>13 DEF AwaitTimeout
  <1>14. CASE UNCHANGED vars
    BY <1>14 DEF vars
  <1> QED
    BY <1>1, <1>2, <1>3, <1>4, <1>5, <1>6, <1>7, <1>8, <1>9, <1>10, <1>11,
       <1>12, <1>13, <1>14
    DEF Next, CompleteStep, OnCompleteStep, AwaitStep

LEMMA WinnerStep == FutureIInv /\ [Next]_vars => WinnerInv'
  <1> SUFFICES ASSUME TypeOK, WinnerInv, CallbackInv, [Next]_vars
               PROVE  WinnerInv'
    BY DEF FutureIInv
  <1>0. /\ pc \in [Procs -> {"start", "store", "send", "close", "take", "run",
                             "result", "append", "receive", "end"}]
        /\ cbs \in [Completers -> SUBSET Registrars]
        /\ ret \in [Waiters -> Completers \cup {None}]
        /\ done \in BOOLEAN /\ chClosed \in BOOLEAN
    BY DEF TypeOK
  <1> USE Disjoint DEF WinnerInv, Active, Goto
  <1>1. ASSUME NEW x \in Completers, CompleteSwap(x) PROVE WinnerInv'
    BY <1>0, <1>1 DEF CompleteSwap
  <1>2. ASSUME NEW x \in Completers, CompleteStore(x) PROVE WinnerInv'
    BY <1>0, <1>2 DEF CompleteStore
  <1>3. ASSUME NEW x \in Completers, CompleteSend(x) PROVE WinnerInv'
    BY <1>0, <1>3 DEF CompleteSend
  <1>4. ASSUME NEW x \in Completers, CompleteClose(x) PROVE WinnerInv'
    BY <1>0, <1>4 DEF CompleteClose
  <1>5. ASSUME NEW x \in Completers, CompleteTake(x) PROVE WinnerInv'
    BY <1>0, <1>5 DEF CompleteTake
  <1>6. ASSUME NEW x \in Completers, CompleteRun(x) PROVE WinnerInv'
    BY <1>0, <1>6 DEF CompleteRun
  <1>7. ASSUME NEW r \in Registrars, OnCompleteStep(r) PROVE WinnerInv'
    <2>1. /\ \A x \in Completers : pc'[x] = pc[x]
          /\ UNCHANGED <<done, result, ch, chClosed, cbs, ret>>
      BY <1>0, <1>7 DEF OnCompleteStep, OnCompleteLoadDone,
                        OnCompleteLoadResult, OnCompleteAppend
    <2> QED BY <1>0, <2>1
  <1>8. ASSUME NEW w \in Waiters, AwaitStep(w) PROVE WinnerInv'
    <2>1. /\ \A x \in Completers : pc'[x] = pc[x]
          /\ UNCHANGED <<done, result, chClosed, cbs>>
          /\ ch' \in {None, ch}
          /\ \A y \in Waiters : ret'[y] \in {None, result, ch, ret[y]}
      BY <1>0, <1>8 DEF AwaitStep, AwaitLoadDone, AwaitLoadResult,
                        AwaitReceive, AwaitTimeout
    <2> QED BY <1>0, <2>1
  <1>9. CASE UNCHANGED vars
    BY <1>9 DEF vars
  <1> QED
    BY <1>1, <1>2, <1>3, <1>4, <1>5, <1>6, <1>7, <1>8, <1>9
    DEF Next, CompleteStep

LEMMA CallbackStep == FutureIInv /\ [Next]_vars => CallbackInv'
  <1> SUFFICES ASSUME TypeOK, WinnerInv, CallbackInv, [Next]_vars
               PROVE  CallbackInv'
    BY DEF FutureIInv
  <1>0. /\ pc \in [Procs -> {"start", "store", "send", "close", "take", "run",
                             "result", "append", "receive", "end"}]
        /\ cbs \in [Completers -> SUBSET Registrars]
        /\ ran \in [Registrars -> SUBSET Completers]
        /\ callbacks \subseteq Registrars
    BY DEF TypeOK
  <1> USE Disjoint DEF Goto
  \* A step that leaves the callbacks and the registrars alone.
  <1>1. ASSUME \A r \in Registrars : pc'[r] = pc[r],
               UNCHANGED <<result, callbacks, cbs, ran>>
        PROVE  CallbackInv'
    BY <1>1 DEF CallbackInv
  <1>2. ASSUME NEW x \in Completers, CompleteStore(x) PROVE CallbackInv'
    <2>1. /\ result = None /\ UNCHANGED <<callbacks, cbs, ran>>
          /\ \A r \in Registrars : pc'[r] = pc[r]
      BY <1>0, <1>2 DEF CompleteStore, WinnerInv
    <2>2. \A r \in Registrars : ran[r] = {}
      BY <1>0, <2>1 DEF CallbackInv
    <2> QED BY <2>1, <2>2 DEF CallbackInv
  <1>3. ASSUME NEW x \in Completers, CompleteTake(x) PROVE CallbackInv'
    <2>1. /\ UNCHANGED <<result, ran>> /\ callbacks' = {}
          /\ \A r \in Registrars : pc'[r] = pc[r]
          /\ cbs'[x] = callbacks
          /\ \A y \in Completers : y # x => cbs'[y] = cbs[y]
      BY <1>0, <1>3 DEF CompleteTake
    <2> QED BY <2>1 DEF CallbackInv
  <1>4. ASSUME NEW x \in Completers, CompleteRun(x) PROVE CallbackInv'
    <2>1. CASE cbs[x] = {}
      BY <1>0, <1>1, <1>4, <2>1 DEF CompleteRun
    <2>2. ASSUME NEW r \in cbs[x], Run(r, x),
                 cbs' = [cbs EXCEPT ![x] = @ \ {r}],
                 UNCHANGED <<pc, result, callbacks>>
          PROVE  CallbackInv'
      <3>1. r \in Registrars /\ result = x
        BY <1>0, <2>2 DEF WinnerInv
      <3>2. pc[r] = "end" /\ ran[r] = {} /\ r \notin callbacks
        BY <3>1 DEF CallbackInv
      <3>3. /\ ran'[r] = {x}
            /\ \A q \in Registrars : q # r => ran'[q] = ran[q]
            /\ cbs'[x] = cbs[x] \ {r}
            /\ \A y \in Completers : y # x => cbs'[y] = cbs[y]
        BY <1>0, <2>2, <3>1, <3>2 DEF Run
      <3>4. \A y \in Completers : r \notin cbs'[y]
        BY <3>1, <3>3 DEF WinnerInv
      <3> QED BY <2>2, <3>1, <3>2, <3>3, <3>4 DEF CallbackInv
    <2> QED BY <1>4, <2>1, <2>2 DEF CompleteRun
  <1>5. ASSUME NEW x \in Completers,
               CompleteSwap(x) \/ CompleteSend(x) \/ CompleteClose(x)
        PROVE  CallbackInv'
    BY <1>0, <1>1, <1>5 DEF CompleteSwap, CompleteSend, CompleteClose
  <1>6. ASSUME NEW r \in Registrars, OnCompleteStep(r) PROVE CallbackInv'
    <2>1. /\ UNCHANGED <<result, cbs>>
          /\ \A q \in Registrars : q # r =>
               /\ pc'[q] = pc[q] /\ ran'[q] = ran[q]
               /\ q \in callbacks' <=> q \in callbacks
          /\ pc[r] # "end"
          /\ \/ pc'[r] = "end" /\ ran'[r] \in {ran[r], ran[r] \cup {result}}
                              /\ callbacks' = callbacks
             \/ pc'[r] = "end" /\ ran'[r] = ran[r]
                              /\ callbacks' = callbacks \cup {r}
             \/ ran'[r] = ran[r] /\ callbacks' = callbacks
      BY <1>0, <1>6 DEF OnCompleteStep, OnCompleteLoadDone, Run,
                        OnCompleteLoadResult, OnCompleteAppend
    <2>2. ran[r] = {} /\ r \notin callbacks /\ \A x \in Completers : r \notin cbs[x]
      BY <2>1 DEF CallbackInv
    <2> QED BY <2>1, <2>2 DEF CallbackInv
  <1>7. ASSUME NEW w \in Waiters, AwaitStep(w) PROVE CallbackInv'
    BY <1>0, <1>1, <1>7 DEF AwaitStep, AwaitLoadDone, AwaitLoadResult,
                            AwaitReceive, AwaitTimeout
  <1>8. CASE UNCHANGED vars
    BY <1>1, <1>8 DEF vars
  <1> QED
    BY <1>2, <1>3, <1>4, <1>5, <1>6, <1>7, <1>8 DEF Next, CompleteStep

LEMMA AtMostOne ==
    ASSUME NEW S, NEW a, S \subseteq {a}
    PROVE  IsFiniteSet(S) /\ Cardinality(S) \in Nat /\ Cardinality(S) <= 1
  <1>1. IsFiniteSet({a}) /\ Cardinality({a}) = 1
    BY FS_Singleton
  <1>2. IsFiniteSet(S) /\ Cardinality(S) <= Cardinality({a})
    BY <1>1, FS_Subset
  <1> QED BY <1>1, <1>2, FS_CardinalityType

LEMMA OneValueHolds == FutureIInv => OneValue
  <1> SUFFICES ASSUME TypeOK, WinnerInv, CallbackInv PROVE OneValue
    BY DEF FutureIInv
  <1> DEFINE Seen == ({result, ch} \cup {ret[w] : w \in Waiters}
                        \cup UNION {ran[r] : r \in Registrars}) \ {None}
  <1>1. Seen \subseteq {result}
    BY DEF WinnerInv, CallbackInv
  <1>2. Cardinality(Seen) <= 1
    <2> HIDE DEF Seen
    <2> QED BY <1>1, AtMostOne
  <1> QED BY <1>2 DEF OneValue

LEMMA CallbackOnceHolds == FutureIInv => CallbackOnce
  <1> SUFFICES ASSUME TypeOK, WinnerInv, CallbackInv, NEW r \in Registrars
               PROVE  Cardinality({x \in Completers : r \in cbs[x]})
                        + (IF r \in callbacks THEN 1 ELSE 0)
                        + Cardinality(ran[r]) <= 1
    BY DEF FutureIInv, CallbackOnce
  <1> DEFINE Holders == {x \in Completers : r \in cbs[x]}
  <1>1. Holders \subseteq {result} /\ ran[r] \subseteq {result}
    BY DEF WinnerInv, CallbackInv
  <1>2. /\ Cardinality(Holders) \in Nat /\ Cardinality(Holders) <= 1
        /\ Cardinality(ran[r]) \in Nat /\ Cardinality(ran[r]) <= 1
    <2> HIDE DEF Holders
    <2> QED BY <1>1, AtMostOne
  <1>3. /\ Holders # {} => ran[r] = {} /\ r \notin callbacks
        /\ r \in callbacks => ran[r] = {} /\ Holders = {}
    BY DEF CallbackInv
  <1> HIDE DEF Holders
  <1>4. Cardinality({}) = 0
    BY FS_EmptySet
  <1>5. Cardinality(Holders) + (IF r \in callbacks THEN 1 ELSE 0)
          + Cardinality(ran[r]) <= 1
    <2>1. CASE r \in callbacks
      BY <1>3, <1>4, <2>1
    <2>2. CASE r \notin callbacks /\ Holders = {}
      BY <1>2, <1>4, <2>2
    <2>3. CASE r \notin callbacks /\ Holders # {}
      BY <1>2, <1>3, <1>4, <2>3
    <2> QED BY <2>1, <2>2, <2>3
  <1> QED BY <1>5 DEF Holders

(***************************************************************************)
(* A Future is completed once, however many complete, OnComplete and Await *)
(* calls race (future.go:38-93): complete never sends on a full or closed *)
(* channel, everybody who learns a value learns the same one, and no       *)
(* callback is called twice or left in two places.                         *)
(***************************************************************************)
THEOREM CompletedOnce == Spec => []FutureInv
  <1>1. Init => FutureIInv
    BY Disjoint DEF Init, FutureIInv, TypeOK, WinnerInv, CallbackInv, Active
  <1>2. FutureIInv /\ [Next]_vars => FutureIInv'
    BY FutureTypeStep, WinnerStep, CallbackStep DEF FutureIInv
  <1>3. FutureIInv => FutureInv
    <2>1. FutureIInv => SendIsSafe
      BY DEF FutureIInv, WinnerInv, SendIsSafe
    <2> QED BY <2>1, OneValueHolds, CallbackOnceHolds DEF FutureIInv, FutureInv
  <1> QED BY <1>1, <1>2, <1>3, PTL DEF Spec
=============================================================================
