-------------------------------- MODULE Ask --------------------------------
(***************************************************************************)
(* Request and response: BaseActor.Ask and SendAsync (actor/ask.go), the   *)
(* pending table and the wait tokens of System (actor/system.go), the      *)
(* handling of requests and responses in BaseActor.handle                  *)
(* (actor/base_actor.go) and Context.Respond (actor/context.go).           *)
(*                                                                         *)
(* A caller is a goroutine of the application or the loop of an actor      *)
(* whose handler asks.  The response to a request goes to the mailbox of   *)
(* the asking actor and completes the future when its loop gets to it, so  *)
(* a handler that waits in Ask holds up its own answer; two timers bound   *)
(* that wait, but none bounds a Push into a full mailbox that blocks,      *)
(* which a request and a response may run into before.                     *)
(*                                                                         *)
(* Future.complete is one step here (module Future has its atomic          *)
(* operations), the breaker and the rate limiter admit every call (modules *)
(* CircuitBreaker, which has the difference between a value and an error,  *)
(* and TokenBucket), and the lanes are bounded queues, into which Push     *)
(* goes in two steps, its test of closed and its enqueue (module Mailbox). *)
(***************************************************************************)
EXTENDS Integers, Sequences, FiniteSets

CONSTANTS
    Actors,       \* BaseActors
    Outside,      \* goroutines of the application that ask on behalf of Host
    Host,         \* the actor whose method the goroutines outside call
    Asked,        \* actors that are asked
    Nested,       \* actors whose handler asks, another or itself
    Modes,        \* Modes[x]: the calls of x, Ask without and with
                  \* AllowDegrade, SendAsync
    Timers,       \* Timers[x]: its timeouts, positive ("armed") or not ("never")
    WaitCap,      \* capacity of s.waitTokens
    Blocking,     \* actors whose mailbox has the policy BackpressureBlock
    Capacity,     \* envelopes a lane holds
    MaxCalls,     \* bound of the model: calls of a caller
    MaxResponds   \* bound of the model: calls of Respond for a request

ASSUME AskAssumption ==
    /\ Actors \cap Outside = {}
    /\ Host \in Actors
    /\ Asked \subseteq Actors /\ Nested \subseteq Actors
    /\ \A x \in Outside \cup Nested :
         /\ Modes[x] \subseteq {"sync", "degrade", "async"}
         /\ Timers[x] \subseteq {"armed", "never"}
    /\ WaitCap \in Nat \ {0}
    /\ Blocking \subseteq Actors
    /\ Capacity \in Nat \ {0}
    /\ MaxCalls \in Nat
    /\ MaxResponds \in Nat

Callers == Outside \cup Nested
Cids == Callers \X (1 .. MaxCalls)
NoCid == <<>>

Home(x) == IF x \in Actors THEN x ELSE Host

VARIABLES
    pending,     \* s.pending: the correlation IDs it maps to a future
    timer,       \* timer[c]: the AfterFunc of TrackPending; "never": none
    completed,   \* completed[c]: calls of complete on the future of c
    tokens,      \* tokens in s.waitTokens
    requests,    \* requests[a]: the normal lane of the mailbox of a
    responses,   \* responses[a]: its urgent lane
    closed,      \* actors whose mailbox is closed
    loop,        \* loop[a]: what the loop of a is doing
    pc,          \* the next step of each caller
    cid,         \* cid[x]: the call x is in
    target,      \* target[x]: the actor whose mailbox its request goes to
    mode,        \* mode[x]: "sync", "degrade" (AllowDegrade) or "async"
    calls,       \* calls[x]: calls made
    ret          \* ret[x]: what its Await returned

futures == <<pending, timer, completed>>
callers == <<pc, cid, target, mode, calls, ret>>
vars == <<futures, tokens, requests, responses, closed, loop, callers>>

LoopAt(l, c) == [at |-> l, cid |-> c, responds |-> 0]
Popping == LoopAt("pop", NoCid)
Done == LoopAt("done", NoCid)

Init ==
    /\ pending = {}
    /\ timer = [c \in Cids |-> "off"]
    /\ completed = [c \in Cids |-> 0]
    /\ tokens = 0
    /\ requests = [a \in Actors |-> <<>>]
    /\ responses = [a \in Actors |-> <<>>]
    /\ closed = {}
    /\ loop = [a \in Actors |-> Popping]
    /\ pc = [x \in Callers |-> "idle"]
    /\ cid = [x \in Callers |-> NoCid]
    /\ target = [x \in Callers |-> Home(x)]
    /\ mode = [x \in Callers |-> "sync"]
    /\ calls = [x \in Callers |-> 0]
    /\ ret = [x \in Callers |-> "none"]

Goto(x, l) == pc' = [pc EXCEPT ![x] = l]

\* Future.complete
Complete(c) == completed' = [completed EXCEPT ![c] = @ + 1]

-----------------------------------------------------------------------------
(* Ask and SendAsync *)

\* A handler asks while it handles a request; goroutines outside, any time.
MayCall(x) ==
    /\ pc[x] = "idle"
    /\ calls[x] < MaxCalls
    /\ x \in Actors => loop[x].at = "handle"

Call(x, m) ==
    /\ MayCall(x)
    /\ calls' = [calls EXCEPT ![x] = @ + 1]
    /\ cid' = [cid EXCEPT ![x] = <<x, calls[x] + 1>>]
    /\ mode' = [mode EXCEPT ![x] = m]
    /\ Goto(x, IF m = "async" THEN "track" ELSE "token")
    /\ UNCHANGED <<futures, tokens, requests, responses, closed, loop, target,
                   ret>>

\* acquireWaitToken blocks while the channel is full, tryAcquireWaitToken not.
TakeToken(x) ==
    /\ pc[x] = "token"
    /\ tokens < WaitCap
    /\ tokens' = tokens + 1
    /\ mode' = [mode EXCEPT ![x] = "sync"]
    /\ Goto(x, "track")
    /\ UNCHANGED <<futures, requests, responses, closed, loop, cid, target,
                   calls, ret>>

\* AllowDegrade and no token: the request goes out, Ask does not wait.
DegradeToAsync(x) ==
    /\ pc[x] = "token"
    /\ mode[x] = "degrade"
    /\ tokens = WaitCap
    /\ mode' = [mode EXCEPT ![x] = "async"]
    /\ Goto(x, "track")
    /\ UNCHANGED <<futures, tokens, requests, responses, closed, loop, cid,
                   target, calls, ret>>

\* The entry goes into the table, and a timer is started if timeout > 0.
TrackPending(x) ==
    /\ pc[x] = "track"
    /\ pending' = pending \cup {cid[x]}
    /\ \E t \in Timers[x] : timer' = [timer EXCEPT ![cid[x]] = t]
    /\ Goto(x, "send")
    /\ UNCHANGED <<completed, tokens, requests, responses, closed,
                   loop, cid, target, mode, calls, ret>>

\* SendAsync returns; Ask goes on to Await, unless it has degraded.
Sent(x) ==
    /\ Goto(x, IF mode[x] = "sync" THEN "await" ELSE "idle")
    /\ mode' = [mode EXCEPT ![x] = "sync"]

\* sendRequest, to the test of closed in Push.  SendAsync ignores its error
\* (closed, an actor that is not found, a peer out of reach): the request is
\* lost.
SendRequest(x, a) ==
    /\ pc[x] = "send"
    /\ \/ Sent(x) /\ target' = target
       \/ /\ a \notin closed
          /\ target' = [target EXCEPT ![x] = a]
          /\ Goto(x, "push")
          /\ mode' = mode
    /\ UNCHANGED <<futures, tokens, requests, responses, closed, loop, cid,
                   calls, ret>>

\* The enqueue of Push: a full lane of a blocks, or refuses the envelope.
PushEnds(q, a) == Len(q) < Capacity \/ a \notin Blocking \/ a \in closed
Enqueue(q, c) == IF Len(q) < Capacity THEN Append(q, c) ELSE q

\* SendAsync returns when Push does.
EnqueueRequest(x, ends) ==
    /\ pc[x] = "push"
    /\ ends
    /\ requests' = [requests EXCEPT ![target[x]] = Enqueue(@, cid[x])]
    /\ Sent(x)
    /\ UNCHANGED <<futures, tokens, responses, closed, loop, cid, target,
                   calls, ret>>

\* Variant of PushRequest that waits for room whatever happens.
PushRequestDeaf(x) ==
    EnqueueRequest(x, Len(requests[target[x]]) < Capacity)

PushRequest(x) == EnqueueRequest(x, PushEnds(requests[target[x]], target[x]))

\* f.Await(timeout): the value, or the timer of Await itself if there is one.
Await(x) ==
    /\ pc[x] = "await"
    /\ \/ /\ completed[cid[x]] > 0
          /\ ret' = [ret EXCEPT ![x] = "value"]
       \/ /\ timer[cid[x]] # "never"
          /\ ret' = [ret EXCEPT ![x] = "timeout"]
    /\ Goto(x, "release")
    /\ UNCHANGED <<futures, tokens, requests, responses, closed, loop, cid,
                   target, mode, calls>>

\* releaseWaitToken leaves n tokens.
Release(x, n) ==
    /\ pc[x] = "release"
    /\ tokens' = n
    /\ ret' = [ret EXCEPT ![x] = "none"]
    /\ Goto(x, "idle")
    /\ UNCHANGED <<futures, requests, responses, closed, loop, cid, target,
                   mode, calls>>

\* Variant of ReleaseWaitToken: a call that timed out keeps its token.
ReleaseWaitTokenUnlessTimeout(x) ==
    Release(x, IF ret[x] = "timeout" THEN tokens ELSE tokens - 1)

\* select { case <-s.waitTokens: default: }
ReleaseWaitToken(x) == Release(x, IF tokens > 0 THEN tokens - 1 ELSE tokens)

-----------------------------------------------------------------------------
(* The timer of TrackPending; nothing stops it *)

\* Under the mutex: the entry leaves the table, and l is what follows.
Fire(c, l) ==
    /\ timer[c] = "armed"
    /\ pending' = pending \ {c}
    /\ timer' = [timer EXCEPT ![c] = l]
    /\ UNCHANGED <<completed, tokens, requests, responses, closed, loop, callers>>

\* Variant of TimerFires that drops the entry and leaves it at that.
TimerFiresDrops(c) == Fire(c, "over")

TimerFires(c) == Fire(c, IF c \in pending THEN "took" ELSE "over")

TimerCompletes(c) ==
    /\ timer[c] = "took"
    /\ Complete(c)
    /\ timer' = [timer EXCEPT ![c] = "over"]
    /\ UNCHANGED <<pending, tokens, requests, responses, closed, loop, callers>>

-----------------------------------------------------------------------------
(* The loop of an actor: Pop takes the urgent lane first *)

LoopGoto(a, l) == loop' = [loop EXCEPT ![a] = l]

\* A response is popped; the table becomes left.
PopResponse(a, left) ==
    LET c == Head(responses[a]) IN
    /\ loop[a].at = "pop"
    /\ responses[a] # <<>>
    /\ pending' = left
    /\ \/ c \in pending /\ LoopGoto(a, LoopAt("complete", c))
       \/ c \notin pending /\ loop' = loop
    /\ responses' = [responses EXCEPT ![a] = Tail(@)]
    /\ UNCHANGED <<timer, completed, tokens, requests, closed, callers>>

\* Variant of HandleResponse that leaves the entry in the table.
HandleResponseKeeps(a) == PopResponse(a, pending)

\* completeFuture: the entry is taken out of the table under its mutex ...
HandleResponse(a) == PopResponse(a, pending \ {Head(responses[a])})

\* ... and completed after it is released.
CompleteFuture(a) ==
    /\ loop[a].at = "complete"
    /\ Complete(loop[a].cid)
    /\ LoopGoto(a, Popping)
    /\ UNCHANGED <<pending, timer, tokens, requests, responses, closed, callers>>

HandleRequest(a) ==
    /\ loop[a].at = "pop"
    /\ responses[a] = <<>>
    /\ requests[a] # <<>>
    /\ LoopGoto(a, LoopAt("handle", Head(requests[a])))
    /\ requests' = [requests EXCEPT ![a] = Tail(@)]
    /\ UNCHANGED <<futures, tokens, responses, closed, callers>>

HandlerRuns(a) ==
    /\ loop[a].at = "handle"
    /\ a \in Nested => pc[a] = "idle"

ReplyTo(a) == Home(loop[a].cid[1])

\* Context.Respond, to the test of closed in Push; the response may be lost
\* (an error of deliverToID).
Respond(a) ==
    /\ HandlerRuns(a)
    /\ loop[a].responds < MaxResponds
    /\ \E l \in {"handle", "push"} :
         /\ l = "push" => ReplyTo(a) \notin closed
         /\ LoopGoto(a, [loop[a] EXCEPT !.at = l, !.responds = @ + 1])
    /\ UNCHANGED <<futures, tokens, requests, responses, closed, callers>>

PushResponse(a) ==
    /\ loop[a].at = "push"
    /\ PushEnds(responses[ReplyTo(a)], ReplyTo(a))
    /\ responses' = [responses EXCEPT ![ReplyTo(a)] = Enqueue(@, loop[a].cid)]
    /\ LoopGoto(a, [loop[a] EXCEPT !.at = "handle"])
    /\ UNCHANGED <<futures, tokens, requests, closed, callers>>

HandlerReturns(a) ==
    /\ HandlerRuns(a)
    /\ LoopGoto(a, Popping)
    /\ UNCHANGED <<futures, tokens, requests, responses, closed, callers>>

\* Mailbox.Close, by Stop or after a panic.
Close(a) ==
    /\ a \notin closed
    /\ closed' = closed \cup {a}
    /\ UNCHANGED <<futures, tokens, requests, responses, loop, callers>>

\* Nothing to pop, and Wait sees closed.  An envelope that is enqueued in
\* between is not popped any more, like one that is enqueued after.
LoopEnds(a) ==
    /\ loop[a].at = "pop"
    /\ a \in closed
    /\ requests[a] = <<>> /\ responses[a] = <<>>
    /\ LoopGoto(a, Done)
    /\ UNCHANGED <<futures, tokens, requests, responses, closed, callers>>

-----------------------------------------------------------------------------
CallStep(x) ==
    \/ TakeToken(x) \/ DegradeToAsync(x) \/ TrackPending(x)
    \/ (\E a \in Asked : SendRequest(x, a)) \/ PushRequest(x)
    \/ Await(x) \/ ReleaseWaitToken(x)

TimerStep(c) == TimerFires(c) \/ TimerCompletes(c)

LoopStep(a) ==
    \/ HandleResponse(a) \/ CompleteFuture(a) \/ HandleRequest(a)
    \/ Respond(a) \/ PushResponse(a) \/ HandlerReturns(a) \/ LoopEnds(a)

Next ==
    \/ \E x \in Callers :
         (\E m \in Modes[x] : Call(x, m)) \/ CallStep(x)
    \/ \E c \in Cids : TimerStep(c)
    \/ \E a \in Actors : LoopStep(a) \/ Close(a)

Spec == Init /\ [][Next]_vars

(***************************************************************************)
(* Goroutines run on, timers fire and handlers return.  A goroutine        *)
(* blocked on the full channel of tokens is served in its turn (the        *)
(* channel queues its senders): strong fairness.  A Push that waits for    *)
(* room gets it only if there is room when it looks again.  Calls,         *)
(* responses and Close need not happen.                                    *)
(***************************************************************************)
Fairness ==
    /\ \A x \in Callers : WF_vars(CallStep(x)) /\ SF_vars(TakeToken(x))
    /\ \A c \in Cids : WF_vars(TimerStep(c))
    /\ \A a \in Actors : WF_vars(LoopStep(a))

FairSpec == Spec /\ Fairness

-----------------------------------------------------------------------------
(* Correctness *)

LoopStates ==
    [at : {"pop", "handle", "push", "complete", "done"}, cid : Cids \cup {NoCid},
     responds : 0 .. MaxResponds]

\* Types; the tokens fit the channel, and the envelopes their lane.
TypeOK ==
    /\ pending \subseteq Cids
    /\ timer \in [Cids -> {"off", "never", "armed", "took", "over"}]
    /\ completed \in [Cids -> Nat]
    /\ tokens \in 0 .. WaitCap
    /\ requests \in [Actors -> Seq(Cids)]
    /\ responses \in [Actors -> Seq(Cids)]
    /\ \A a \in Actors :
         Len(requests[a]) <= Capacity /\ Len(responses[a]) <= Capacity
    /\ closed \subseteq Actors
    /\ loop \in [Actors -> LoopStates]
    /\ pc \in [Callers -> {"idle", "token", "track", "send", "push", "await",
                           "release"}]
    /\ cid \in [Callers -> Cids \cup {NoCid}]
    /\ target \in [Callers -> Actors]
    /\ mode \in [Callers -> {"sync", "degrade", "async"}]
    /\ calls \in [Callers -> 0 .. MaxCalls]
    /\ ret \in [Callers -> {"none", "value", "timeout"}]

Tracked(c) == timer[c] # "off"

\* Who has the future of c, and how often it was completed.
Owners(c) ==
    (IF c \in pending THEN {<<"table", c>>} ELSE {})
      \cup (IF timer[c] = "took" THEN {<<"timer", c>>} ELSE {})
      \cup {<<"loop", a>> : a \in {b \in Actors : /\ loop[b].at = "complete"
                                                 /\ loop[b].cid = c}}
      \cup {<<"done", k>> : k \in 1 .. completed[c]}

(***************************************************************************)
(* No future is lost and none is completed twice, whatever the order of    *)
(* its response, a second response and the timer: one that was handed out  *)
(* is in the table, in the hands of the timer or of a loop, or completed,  *)
(* and exactly one of these, once.                                         *)
(***************************************************************************)
OneOwner ==
    \A c \in Cids : Cardinality(Owners(c)) = IF Tracked(c) THEN 1 ELSE 0

Waiting(x) == mode[x] = "sync" /\ pc[x] \in {"track", "send", "push", "await",
                                             "release"}

(***************************************************************************)
(* The tokens in the channel are those of the calls that wait, so the      *)
(* number of goroutines blocked in Ask is bounded (system.go:35-36) and no *)
(* token leaks, on whichever path Ask returns.                             *)
(***************************************************************************)
TokensExact == tokens = Cardinality({x \in Callers : Waiting(x)})

\* Why: a call in progress has the correlation ID of its own number, which
\* was not used before, and a caller that waits took a token.
CallInv ==
    /\ \A x \in Callers :
         /\ pc[x] # "idle" => cid[x] = <<x, calls[x]>> /\ calls[x] # 0
         /\ pc[x] \in {"await", "release"} => mode[x] = "sync"
    /\ \A x \in Callers, n \in 1 .. MaxCalls : Tracked(<<x, n>>) =>
         n <= calls[x] /\ (pc[x] \in {"token", "track"} => n # calls[x])
    /\ \A a \in Actors : loop[a].at \notin {"pop", "done"} => loop[a].cid \in Cids

Completes(a, c) == loop[a].at = "complete" /\ loop[a].cid = c

\* The four owners exclude each other, and while the entry is in the table
\* its timer is running.
OwnerInv ==
    \A c \in Cids :
        /\ Tracked(c) => \/ c \in pending \/ timer[c] = "took"
                        \/ completed[c] = 1
                        \/ \E a \in Actors : Completes(a, c)
        /\ c \in pending => timer[c] \in {"armed", "never"}
        /\ c \in pending \/ timer[c] \in {"off", "took"} => completed[c] = 0
        /\ completed[c] \in {0, 1}
        /\ \A a \in Actors : Completes(a, c) =>
             /\ c \notin pending /\ timer[c] \notin {"off", "took"}
             /\ completed[c] = 0
             /\ \A b \in Actors : Completes(b, c) => b = a

(***************************************************************************)
(* A future is completed when the response arrives or the time is over     *)
(* (ask.go:6), also when the request or the response was lost, and         *)
(* whoever is stuck.  A call with a negative timeout has no timer          *)
(* (system.go:267).                                                        *)
(***************************************************************************)
EveryFutureCompletes ==
    \A c \in Cids : c \in pending /\ timer[c] = "armed" ~> completed[c] > 0

Goroutines == Actors \cup Outside

\* Push waits for room in the lane q of a.
Blocked(q, a) == Len(q) >= Capacity /\ a \in Blocking \ closed

\* Those who could end the wait of g: the loop that would make room, the
\* callers that hold a token; without a timeout, nobody but g can be named.
Awaited(g) ==
    {a \in Actors :
       \/ g \in Callers /\ pc[g] = "push" /\ a = target[g] /\ Blocked(requests[a], a)
       \/ /\ g \in Actors /\ loop[g].at = "push"
          /\ a = ReplyTo(g) /\ Blocked(responses[a], a)}
      \cup {x \in Callers : /\ g \in Callers /\ pc[g] = "token"
                           /\ tokens = WaitCap /\ Waiting(x)}
      \cup {x \in {g} : g \in Callers /\ pc[g] = "await" /\ timer[cid[g]] = "never"}

\* g is in a set of goroutines that all wait, and only for each other.
Stuck(g) ==
    \E S \in SUBSET Goroutines :
        g \in S /\ \A h \in S : Awaited(h) # {} /\ Awaited(h) \subseteq S

(***************************************************************************)
(* Every call returns, also when all tokens are out, and when a handler    *)
(* asks and so holds up the loop that would process its answer, unless its *)
(* caller is stuck: goroutines wait in a circle for room in blocking       *)
(* mailboxes (mailbox.go:164-185) and for the tokens that those who wait   *)
(* for room hold, or for an answer without a timeout.  The timeout of Ask  *)
(* (ask.go:85) does not help, as it begins after the Push.  Close of the   *)
(* mailbox ends a circle.                                                  *)
(***************************************************************************)
EveryAskReturns ==
    \A x \in Callers : pc[x] # "idle" ~> (pc[x] = "idle" \/ Stuck(x))

(***************************************************************************)
(* The state is well typed, and every request that is out has one owner,   *)
(* which will complete its future (system.go:244-282).                     *)
(***************************************************************************)
AskInv == TypeOK /\ OneOwner
=============================================================================
