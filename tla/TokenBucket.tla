---------------------------- MODULE TokenBucket ----------------------------
(***************************************************************************)
(* actor/ratelimit.go: the lock-free token bucket that System.Tell,        *)
(* sendRequest and sendResponse wait on (s.limiter.Wait(1)).               *)
(*                                                                         *)
(* Each atomic operation is one action.  time.Now() is read when a call    *)
(* starts and may be old when it is used.  Wait calls Allow until it       *)
(* returns true; here a caller calls Allow again and again.  The product   *)
(* elapsed * r is an int64 in the code: it wraps to -Half .. Half - 1.     *)
(***************************************************************************)
EXTENDS Integers, FiniteSetsExt

CONSTANTS
    Callers,    \* goroutines that call Allow
    Setters,    \* goroutines that call SetQPS, once each
    Rate,       \* the qps of NewTokenBucket
    NewRates,   \* the qps SetQPS may be given
    Burst,      \* tb.burst, after NewTokenBucket's defaults
    Need,       \* the argument n of Allow, positive
    Second,     \* int64(time.Second), in ticks
    Half,       \* 2^63 in the code
    MaxNow,     \* bound of the model: the clock stops there
    MaxGranted  \* bound of the model: no Allow starts at this many tokens

ASSUME BucketAssumption ==
    /\ Callers \cap Setters = {}
    /\ Rate \in Int /\ NewRates \subseteq Int
    /\ Burst \in Nat \ {0}
    /\ Need \in Nat \ {0}
    /\ Second \in Nat \ {0}
    /\ Half \in Nat \ {0}
    /\ MaxNow \in Nat
    /\ MaxGranted \in Nat

VARIABLES
    rate,      \* tb.rate
    tokens,    \* tb.tokens
    lastNS,    \* tb.lastNS
    now,       \* the clock
    step,        \* the next atomic operation of each goroutine
    at,        \* at[x]: its local now
    old,       \* old[x]: the last, then the cur, it has loaded
    add,       \* add[x]: the r its refill has loaded, then the tokens it adds
    qps,       \* qps[s]: SetQPS's argument
    granted    \* history: tokens handed out

bucketVars == <<rate, tokens, lastNS, now, step, at, old, add, qps, granted>>

Users == Callers \cup Setters

\* NewTokenBucket
BucketInit ==
    /\ rate = Rate
    /\ tokens = Burst
    /\ lastNS = 0
    /\ now = 0
    /\ step = [x \in Users |-> "idle"]
    /\ at = [x \in Users |-> 0]
    /\ old = [x \in Users |-> 0]
    /\ add = [x \in Users |-> 0]
    /\ qps = [s \in Setters |-> 0]
    /\ granted = 0

BucketGoto(x, l) == step' = [step EXCEPT ![x] = l]

\* Where a call goes on when refill has returned.
AfterRefill(x) == BucketGoto(x, IF x \in Callers THEN "a_load" ELSE "s_rate")

Tick ==
    /\ now < MaxNow
    /\ now' = now + 1
    /\ UNCHANGED <<rate, tokens, lastNS, step, at, old, add, qps, granted>>

-----------------------------------------------------------------------------
(* refill *)

RefillLoadRate(x) ==
    /\ step[x] = "rate"
    /\ \/ rate <= 0 /\ BucketGoto(x, "off_last") /\ add' = add
       \/ rate > 0 /\ BucketGoto(x, "last") /\ add' = [add EXCEPT ![x] = rate]
    /\ UNCHANGED <<rate, tokens, lastNS, now, at, old, qps, granted>>

\* Not limited: the bucket is full as of now, which may be an old now.
RefillOffLast(x) ==
    /\ step[x] = "off_last"
    /\ lastNS' = at[x]
    /\ BucketGoto(x, "off_full")
    /\ UNCHANGED <<rate, tokens, now, at, old, add, qps, granted>>

RefillOffFull(x) ==
    /\ step[x] = "off_full"
    /\ tokens' = Burst
    /\ AfterRefill(x)
    /\ UNCHANGED <<rate, lastNS, now, at, old, add, qps, granted>>

Wrap(n) == ((n + Half) % (2 * Half)) - Half

\* (elapsed * r) / int64(time.Second); a negative quotient is as good as 0.
Earned(elapsed, r) == Wrap(elapsed * r) \div Second

RefillLoadLast(x) ==
    /\ step[x] = "last"
    /\ LET e == Earned(at[x] - lastNS, add[x]) IN
       \/ /\ at[x] > lastNS /\ e > 0
          /\ old' = [old EXCEPT ![x] = lastNS]
          /\ add' = [add EXCEPT ![x] = e]
          /\ BucketGoto(x, "cas")
       \/ /\ at[x] <= lastNS \/ e <= 0
          /\ AfterRefill(x)
          /\ UNCHANGED <<old, add>>
    /\ UNCHANGED <<rate, tokens, lastNS, now, at, qps, granted>>

\* Variant of RefillCAS: a Store that does not look at the old value.
RefillCASBlindly(x) ==
    /\ step[x] = "cas"
    /\ lastNS' = at[x]
    /\ BucketGoto(x, "cur")
    /\ UNCHANGED <<rate, tokens, now, at, old, add, qps, granted>>

\* tb.lastNS.CompareAndSwap(last, nowNS): who wins adds the tokens.
RefillCAS(x) ==
    /\ step[x] = "cas"
    /\ \/ lastNS = old[x] /\ lastNS' = at[x] /\ BucketGoto(x, "cur")
       \/ lastNS # old[x] /\ lastNS' = lastNS /\ AfterRefill(x)
    /\ UNCHANGED <<rate, tokens, now, at, old, add, qps, granted>>

RefillLoadTokens(x) ==
    /\ step[x] = "cur"
    /\ old' = [old EXCEPT ![x] = tokens]
    /\ BucketGoto(x, "add")
    /\ UNCHANGED <<rate, tokens, lastNS, now, at, add, qps, granted>>

\* The compare-and-swap of refill's loop, storing n.
AddTo(x, n) ==
    /\ step[x] = "add"
    /\ \/ tokens = old[x] /\ tokens' = n /\ AfterRefill(x)
       \/ tokens # old[x] /\ tokens' = tokens /\ BucketGoto(x, "cur")
    /\ UNCHANGED <<rate, lastNS, now, at, old, add, qps, granted>>

\* Variant of RefillAdd without the clamp.
RefillAddUnclamped(x) == AddTo(x, old[x] + add[x])

RefillAdd(x) == AddTo(x, Min({old[x] + add[x], Burst}))

-----------------------------------------------------------------------------
(* Allow *)

AllowCall(x) ==
    /\ step[x] = "idle"
    /\ granted < MaxGranted
    /\ at' = [at EXCEPT ![x] = now]
    /\ BucketGoto(x, "rate")
    /\ UNCHANGED <<rate, tokens, lastNS, now, old, add, qps, granted>>

AllowLoad(x) ==
    /\ step[x] = "a_load"
    /\ \/ /\ tokens < Need
          /\ BucketGoto(x, "idle")
          /\ old' = old
       \/ /\ tokens >= Need
          /\ old' = [old EXCEPT ![x] = tokens]
          /\ BucketGoto(x, "a_cas")
    /\ UNCHANGED <<rate, tokens, lastNS, now, at, add, qps, granted>>

AllowCAS(x) ==
    /\ step[x] = "a_cas"
    /\ \/ /\ tokens = old[x]
          /\ tokens' = tokens - Need
          /\ granted' = granted + Need
          /\ BucketGoto(x, "idle")
       \/ /\ tokens # old[x]
          /\ BucketGoto(x, "a_load")
          /\ UNCHANGED <<tokens, granted>>
    /\ UNCHANGED <<rate, lastNS, now, at, old, add, qps>>

-----------------------------------------------------------------------------
(* SetQPS *)

SetQPSCall(s, q) ==
    /\ step[s] = "idle"
    /\ at' = [at EXCEPT ![s] = now]
    /\ qps' = [qps EXCEPT ![s] = q]
    /\ BucketGoto(s, "rate")
    /\ UNCHANGED <<rate, tokens, lastNS, now, old, add, granted>>

SetQPSRate(s) ==
    /\ step[s] = "s_rate"
    /\ rate' = qps[s]
    /\ BucketGoto(s, IF qps[s] <= 0 THEN "s_full" ELSE "done")
    /\ UNCHANGED <<tokens, lastNS, now, at, old, add, qps, granted>>

SetQPSFull(s) ==
    /\ step[s] = "s_full"
    /\ tokens' = Burst
    /\ BucketGoto(s, "done")
    /\ UNCHANGED <<rate, lastNS, now, at, old, add, qps, granted>>

-----------------------------------------------------------------------------
Refill(x) ==
    \/ RefillLoadRate(x) \/ RefillOffLast(x) \/ RefillOffFull(x)
    \/ RefillLoadLast(x) \/ RefillCAS(x)
    \/ RefillLoadTokens(x) \/ RefillAdd(x)

BucketNext ==
    \/ Tick
    \/ \E x \in Users : Refill(x)
    \/ \E x \in Callers : AllowCall(x) \/ AllowLoad(x) \/ AllowCAS(x)
    \/ \E s \in Setters :
         (\E q \in NewRates : SetQPSCall(s, q)) \/ SetQPSRate(s) \/ SetQPSFull(s)

BucketSpec == BucketInit /\ [][BucketNext]_bucketVars

-----------------------------------------------------------------------------
(* Correctness *)

Labels == {"idle", "rate", "off_last", "off_full", "last", "cas", "cur",
           "add", "a_load", "a_cas", "s_rate", "s_full", "done"}

(***************************************************************************)
(* Types; the bucket is never overdrawn and never holds more than the      *)
(* burst (ratelimit.go:14), whatever Allow, refill and SetQPS do at once.  *)
(***************************************************************************)
BucketTypeOK ==
    /\ rate \in Int
    /\ tokens \in 0 .. Burst
    /\ now \in Nat
    /\ lastNS \in 0 .. now
    /\ step \in [Users -> Labels]
    /\ at \in [Users -> 0 .. now]
    /\ old \in [Users -> Nat]
    /\ add \in [Users -> Nat]
    /\ qps \in [Setters -> Int]
    /\ granted \in Nat

\* The rates set so far; limiting has never been switched off.
Rates == {Rate} \cup {qps[s] : s \in {t \in Setters : step[t] # "idle"}}
NeverOff == \A r \in Rates : r > 0

\* No rate so far is higher than r.
Tops(r) == \A q \in Rates : q <= r

(***************************************************************************)
(* The rate limit: no more tokens are handed out than the burst and what   *)
(* the highest rate set so far earns, even when refills overlap with each  *)
(* other and with SetQPS: no tick is credited twice.                       *)
(***************************************************************************)
RateLimit ==
    NeverOff => \A r \in Rates :
                  Tops(r) => granted <= Burst + (now * r) \div Second

=============================================================================
