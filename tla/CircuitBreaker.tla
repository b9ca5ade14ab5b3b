--------------------------- MODULE CircuitBreaker ---------------------------
(***************************************************************************)
(* actor/breaker.go: the per-target circuit breaker, driven by concurrent  *)
(* calls of BaseActor.Ask (actor/ask.go): Allow, then the request, then    *)
(* OnSuccess or OnFailure.  Each atomic load, store, add and               *)
(* compare-and-swap is one action; time.Now() is evaluated when a method   *)
(* is called and may be old when it is used.                               *)
(***************************************************************************)
EXTENDS Integers, FiniteSets

CONSTANTS
    Askers,     \* goroutines in Ask for this target
    Threshold,   \* b.threshold
    OpenFor,     \* b.openFor, in ticks
    Degraders,   \* the callers that set AllowDegrade
    MaxClock,      \* bound of the model: the clock stops there
    MaxFailures  \* bound of the model: no call starts at this many failures

ASSUME BreakerAssumption ==
    /\ Threshold \in Nat \ {0}
    /\ OpenFor \in Nat \ {0}
    /\ Degraders \subseteq Askers
    /\ MaxClock \in Nat
    /\ MaxFailures \in Nat /\ MaxFailures > Threshold

VARIABLES
    state,      \* b.state
    failures,   \* b.failures (a uint64 in the code)
    openedAt,   \* b.openedAtUnix
    probe,      \* b.halfOpenProbe
    clock,        \* the clock
    stage,         \* the next atomic operation of each caller
    t,          \* t[x]: the argument now of its call
    probing,    \* history: x was admitted by the half-open compare-and-swap
    abandoned   \* history: a probe ended without a report, and the flag it
                \* set has not been cleared since

breakerVars == <<state, failures, openedAt, probe, clock, stage, t, probing,
                 abandoned>>

\* NewCircuitBreaker
BreakerInit ==
    /\ state = "closed"
    /\ failures = 0
    /\ openedAt = 0
    /\ probe = FALSE
    /\ clock = 0
    /\ stage = [x \in Askers |-> "idle"]
    /\ t = [x \in Askers |-> 0]
    /\ probing = [x \in Askers |-> FALSE]
    /\ abandoned = FALSE

BreakerGoto(x, l) == stage' = [stage EXCEPT ![x] = l]

\* return true, and return false
Admit(x) == BreakerGoto(x, "asking")
Reject(x) == BreakerGoto(x, "idle")

BreakerTick ==
    /\ clock < MaxClock
    /\ clock' = clock + 1
    /\ UNCHANGED <<state, failures, openedAt, probe, stage, t, probing,
                   abandoned>>

-----------------------------------------------------------------------------
(* Allow *)

AllowBegin(x) ==
    /\ stage[x] = "idle"
    /\ failures < MaxFailures
    /\ t' = [t EXCEPT ![x] = clock]
    /\ BreakerGoto(x, "a_state")
    /\ UNCHANGED <<state, failures, openedAt, probe, clock, probing, abandoned>>

AllowLoadState(x) ==
    /\ stage[x] = "a_state"
    /\ \/ state = "closed" /\ Admit(x)
       \/ state = "open" /\ BreakerGoto(x, "a_opened")
       \/ state = "half" /\ BreakerGoto(x, "a_probe")
    /\ UNCHANGED <<state, failures, openedAt, probe, clock, t, probing,
                   abandoned>>

AllowLoadOpened(x) ==
    /\ stage[x] = "a_opened"
    /\ \/ t[x] - openedAt >= OpenFor /\ BreakerGoto(x, "a_half")
       \/ t[x] - openedAt < OpenFor /\ Reject(x)
    /\ UNCHANGED <<state, failures, openedAt, probe, clock, t, probing,
                   abandoned>>

\* b.state.CompareAndSwap(open, halfOpen)
AllowHalfOpen(x) ==
    /\ stage[x] = "a_half"
    /\ \/ state = "open" /\ state' = "half" /\ BreakerGoto(x, "a_reset")
       \/ state # "open" /\ state' = state /\ BreakerGoto(x, "a_probe")
    /\ UNCHANGED <<failures, openedAt, probe, clock, t, probing, abandoned>>

AllowResetProbe(x) ==
    /\ stage[x] = "a_reset"
    /\ probe' = FALSE
    /\ abandoned' = FALSE
    /\ BreakerGoto(x, "a_probe")
    /\ UNCHANGED <<state, failures, openedAt, clock, t, probing>>

\* return b.halfOpenProbe.CompareAndSwap(false, true)
AllowProbe(x) ==
    /\ stage[x] = "a_probe"
    /\ \/ /\ ~probe
          /\ probe' = TRUE
          /\ probing' = [probing EXCEPT ![x] = TRUE]
          /\ Admit(x)
       \/ /\ probe
          /\ Reject(x)
          /\ UNCHANGED <<probe, probing>>
    /\ UNCHANGED <<state, failures, openedAt, clock, t, abandoned>>

-----------------------------------------------------------------------------
(* The request, and its report *)

Done(x) == BreakerGoto(x, "idle") /\ probing' = [probing EXCEPT ![x] = FALSE]

\* No wait token: Ask returns ErrDegradedToAsync without any report.
AskDegrade(x) ==
    /\ x \in Degraders
    /\ stage[x] = "asking"
    /\ Done(x)
    /\ abandoned' = (abandoned \/ probing[x])
    /\ UNCHANGED <<state, failures, openedAt, probe, clock, t>>

AskSucceeds(x) ==
    /\ stage[x] = "asking"
    /\ BreakerGoto(x, "s_failures")
    /\ UNCHANGED <<state, failures, openedAt, probe, clock, t, probing,
                   abandoned>>

\* A timeout or an error response.
AskFails(x) ==
    /\ stage[x] = "asking"
    /\ t' = [t EXCEPT ![x] = clock]
    /\ BreakerGoto(x, "f_state")
    /\ UNCHANGED <<state, failures, openedAt, probe, clock, probing, abandoned>>

SuccessFailures(x) ==
    /\ stage[x] = "s_failures"
    /\ failures' = 0
    /\ BreakerGoto(x, "s_state")
    /\ UNCHANGED <<state, openedAt, probe, clock, t, probing, abandoned>>

SuccessState(x) ==
    /\ stage[x] = "s_state"
    /\ state' = "closed"
    /\ BreakerGoto(x, "last")
    /\ UNCHANGED <<failures, openedAt, probe, clock, t, probing, abandoned>>

\* Variant of FailureLoadState that counts failures of closed breakers only.
FailureLoadStateClosedOnly(x) ==
    /\ stage[x] = "f_state"
    /\ \/ state = "closed" /\ BreakerGoto(x, "f_add") /\ probing' = probing
       \/ state # "closed" /\ Done(x)
    /\ UNCHANGED <<state, failures, openedAt, probe, clock, t, abandoned>>

FailureLoadState(x) ==
    /\ stage[x] = "f_state"
    /\ BreakerGoto(x, IF state = "half" THEN "o_at" ELSE "f_add")
    /\ UNCHANGED <<state, failures, openedAt, probe, clock, t, probing,
                   abandoned>>

FailureAdd(x) ==
    /\ stage[x] = "f_add"
    /\ failures' = failures + 1
    /\ \/ failures' >= Threshold /\ BreakerGoto(x, "o_at") /\ probing' = probing
       \/ failures' < Threshold /\ Done(x)
    /\ UNCHANGED <<state, openedAt, probe, clock, t, abandoned>>

OpenAt(x) ==
    /\ stage[x] = "o_at"
    /\ openedAt' = t[x]
    /\ BreakerGoto(x, "o_state")
    /\ UNCHANGED <<state, failures, probe, clock, t, probing, abandoned>>

OpenState(x) ==
    /\ stage[x] = "o_state"
    /\ state' = "open"
    /\ BreakerGoto(x, "last")
    /\ UNCHANGED <<failures, openedAt, probe, clock, t, probing, abandoned>>

\* b.halfOpenProbe.Store(false), the last step of OnSuccess and of open.
ClearProbe(x) ==
    /\ stage[x] = "last"
    /\ probe' = FALSE
    /\ abandoned' = FALSE
    /\ Done(x)
    /\ UNCHANGED <<state, failures, openedAt, clock, t>>

-----------------------------------------------------------------------------
Step(x) ==
    \/ AllowLoadState(x) \/ AllowLoadOpened(x) \/ AllowHalfOpen(x)
    \/ AllowResetProbe(x) \/ AllowProbe(x)
    \/ AskDegrade(x) \/ AskSucceeds(x) \/ AskFails(x)
    \/ SuccessFailures(x) \/ SuccessState(x)
    \/ FailureLoadState(x) \/ FailureAdd(x)
    \/ OpenAt(x) \/ OpenState(x) \/ ClearProbe(x)

BreakerNext == BreakerTick \/ \E x \in Askers : AllowBegin(x) \/ Step(x)

BreakerSpec == BreakerInit /\ [][BreakerNext]_breakerVars

(***************************************************************************)
(* An Ask in progress ends: its goroutine is scheduled, and Await has a    *)
(* timeout (ask.go:70-73).  New calls are the clients' choice.             *)
(***************************************************************************)
FairBreakerSpec == BreakerSpec /\ \A x \in Askers : WF_breakerVars(Step(x))

-----------------------------------------------------------------------------
(* Correctness *)

Stages == {"idle", "a_state", "a_opened", "a_half", "a_reset", "a_probe",
           "asking", "s_failures", "s_state", "f_state", "f_add", "o_at",
           "o_state", "last"}

\* Types; openedAt is never in the future.
BreakerTypeOK ==
    /\ state \in {"closed", "open", "half"}
    /\ failures \in Nat
    /\ clock \in Nat
    /\ openedAt \in 0 .. clock
    /\ probe \in BOOLEAN
    /\ stage \in [Askers -> Stages]
    /\ t \in [Askers -> 0 .. clock]
    /\ probing \in [Askers -> BOOLEAN]
    /\ abandoned \in BOOLEAN

(***************************************************************************)
(* The half-open state is not a trap: a probe that is out is resolved, so  *)
(* that the breaker either leaves half-open or admits another probe.  The  *)
(* one way around it is a probe that Ask degrades to asynchronous.         *)
(***************************************************************************)
ProbeResolved ==
    (state = "half" /\ probe) ~> (state # "half" \/ ~probe \/ abandoned)

(***************************************************************************)
(* The probe flag of a half-open breaker always has somebody who will      *)
(* clear it: the probe in flight or reporting, or a caller about to store  *)
(* false, unless the probe was abandoned.  This is why ProbeResolved       *)
(* holds.                                                                  *)
(***************************************************************************)
ProbeHasOwner ==
    state = "half" /\ probe =>
        \/ abandoned
        \/ \E x \in Askers :
            \/ stage[x] \in {"a_reset", "last", "s_failures", "s_state",
                          "o_at", "o_state"}
            \/ probing[x] /\ stage[x] \in {"asking", "f_state"}

(***************************************************************************)
(* The breaker is well typed, and a half-open breaker whose probe flag is  *)
(* set has an owner for the flag (breaker.go:61-82).                       *)
(***************************************************************************)
BreakerInv == BreakerTypeOK /\ ProbeHasOwner
=============================================================================
