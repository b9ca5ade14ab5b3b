------------------------------ MODULE Mailbox ------------------------------
(***************************************************************************)
(* mailbox/mailbox.go: Push, Pop, Wait and Close, together with the one    *)
(* goroutine that pops, the loop of BaseActor.run (actor/base_actor.go).   *)
(*                                                                         *)
(* The two lanes are single-segment queues (Options.MaxSegments = 1), at   *)
(* the level of TicketQueue: Enqueue draws a ticket and publishes it in a  *)
(* later step.  There is one consumer, so nobody sees the moment between   *)
(* its taking a ticket and its releasing the slot: both are one step.      *)
(* The channels are notify (capacity 1) and closed.  Every operation on a  *)
(* lane, a channel, the size counter or the persist hook is one action.    *)
(***************************************************************************)
EXTENDS Integers, Sequences, FiniteSets

CONSTANTS
    Pushers,      \* goroutines that call Push
    Closers,      \* goroutines that call Close
    UsedPolicies, \* the policies the mailbox may be made with
    LaneSize,     \* slots of each lane; NewRing makes it at least 2
    UsedLanes,    \* the lanes the pushers' priorities select
    Durable,      \* the values Persist (with a hook and an encoding) may have
    MaxPushes     \* bound of the model: calls of Push per goroutine

Policies == {"expand", "block", "drop"}
Lanes == {"urgent", "normal"}

ASSUME MailboxAssumption ==
    /\ UsedPolicies \subseteq Policies
    /\ LaneSize \in Nat /\ LaneSize >= 2
    /\ UsedLanes \subseteq Lanes
    /\ Durable \subseteq BOOLEAN
    /\ MaxPushes \in Nat
    /\ Pushers \cap Closers = {}

VARIABLES
    lane,      \* lane[l]: the queue m.urgent or m.normal
    notify,    \* tokens in m.notify
    closed,    \* m.closed is closed
    size,      \* m.size
    logged,    \* envelopes the persist hook has written
    refused,   \* envelopes for which the hook returned an error
    pc,        \* the next step of each pusher and closer
    env,       \* env[p]: Push's argument, with its lane
    ticket,    \* ticket[p]: the ticket its Enqueue drew
    pushes,    \* calls of Push made
    ret,       \* the outcome of its last call
    cpc,       \* the next step of the consumer
    bypass,    \* history: normal envelopes popped past a ready urgent one
    panicked,  \* close of a closed channel
    policy     \* m.policy

vars == <<lane, notify, closed, size, logged, refused, pc, env, ticket,
          pushes, ret, cpc, bypass, panicked, policy>>

Envelopes == [from : Pushers, n : 1 .. MaxPushes, lane : Lanes,
              durable : BOOLEAN]
NoEnvelope == [from |-> "none"]

LaneStates == [items : Seq(Envelopes), published : SUBSET Nat, first : Nat]

NewLane == [items |-> <<>>, published |-> {}, first |-> 0]
HasRoom(q) == Len(q.items) - q.first < LaneSize
FrontReady(q) == q.first \in q.published

\* New
Init ==
    /\ lane = [l \in Lanes |-> NewLane]
    /\ notify = 0
    /\ closed = FALSE
    /\ size = 0
    /\ logged = {}
    /\ refused = {}
    /\ pc = [x \in Pushers \cup Closers |-> "idle"]
    /\ env = [p \in Pushers |-> NoEnvelope]
    /\ ticket = [p \in Pushers |-> 0]
    /\ pushes = [p \in Pushers |-> 0]
    /\ ret = [p \in Pushers |-> "none"]
    /\ cpc = "urgent"
    /\ bypass = 0
    /\ panicked = FALSE
    /\ policy \in UsedPolicies

Goto(x, l) == pc' = [pc EXCEPT ![x] = l]
Return(p, r) == Goto(p, "idle") /\ ret' = [ret EXCEPT ![p] = r]

-----------------------------------------------------------------------------
(* Push *)

PushCall(p, l, d) ==
    /\ pc[p] = "idle"
    /\ pushes[p] < MaxPushes
    /\ pushes' = [pushes EXCEPT ![p] = @ + 1]
    /\ env' = [env EXCEPT ![p] =
                 [from |-> p, n |-> pushes[p] + 1, lane |-> l, durable |-> d]]
    /\ Goto(p, "check")
    /\ UNCHANGED <<lane, notify, closed, size, logged, refused, ticket, ret,
                   cpc, bypass, panicked, policy>>

\* Variant of PushCheckClosed that forgets the persist hook.
PushCheckClosedNoPersist(p) ==
    /\ pc[p] = "check"
    /\ \/ closed /\ Return(p, "closed")
       \/ ~closed /\ Goto(p, "enqueue") /\ ret' = ret
    /\ UNCHANGED <<lane, notify, closed, size, logged, refused, env, ticket,
                   pushes, cpc, bypass, panicked, policy>>

PushCheckClosed(p) ==
    /\ pc[p] = "check"
    /\ \/ closed /\ Return(p, "closed")
       \/ /\ ~closed
          /\ Goto(p, IF env[p].durable THEN "persist" ELSE "enqueue")
          /\ ret' = ret
    /\ UNCHANGED <<lane, notify, closed, size, logged, refused, env, ticket,
                   pushes, cpc, bypass, panicked, policy>>

\* _ = m.persist(b): an error of the hook is ignored.
PushPersist(p) ==
    /\ pc[p] = "persist"
    /\ \/ logged' = logged \cup {env[p]} /\ refused' = refused
       \/ refused' = refused \cup {env[p]} /\ logged' = logged
    /\ Goto(p, "enqueue")
    /\ UNCHANGED <<lane, notify, closed, size, env, ticket, pushes, ret, cpc,
                   bypass, panicked, policy>>

\* q.Enqueue(&env): a ticket is drawn, or the policy decides.
PushEnqueue(p) ==
    LET l == env[p].lane IN
    /\ pc[p] = "enqueue"
    /\ \/ /\ HasRoom(lane[l])
          /\ lane' = [lane EXCEPT ![l].items = Append(@, env[p])]
          /\ ticket' = [ticket EXCEPT ![p] = Len(lane[l].items)]
          /\ Goto(p, "publish")
          /\ ret' = ret
       \/ /\ ~HasRoom(lane[l])
          /\ \/ policy = "expand" /\ Return(p, "full")
             \/ policy = "drop" /\ Return(p, "dropped")
             \/ policy = "block" /\ Goto(p, "blocked") /\ ret' = ret
          /\ UNCHANGED <<lane, ticket>>
    /\ UNCHANGED <<notify, closed, size, logged, refused, env, pushes, cpc,
                   bypass, panicked, policy>>

PushPublish(p) ==
    /\ pc[p] = "publish"
    /\ lane' = [lane EXCEPT ![env[p].lane].published = @ \cup {ticket[p]}]
    /\ Goto(p, "size")
    /\ UNCHANGED <<notify, closed, size, logged, refused, env, ticket, pushes,
                   ret, cpc, bypass, panicked, policy>>

PushSize(p) ==
    /\ pc[p] = "size"
    /\ size' = size + 1
    /\ Goto(p, "notify")
    /\ UNCHANGED <<lane, notify, closed, logged, refused, env, ticket, pushes,
                   ret, cpc, bypass, panicked, policy>>

\* Leaving Push with n tokens in the channel.
PushEnds(p, n) ==
    /\ pc[p] = "notify"
    /\ notify' = n
    /\ Return(p, "ok")
    /\ UNCHANGED <<lane, closed, size, logged, refused, env, ticket, pushes,
                   cpc, bypass, panicked, policy>>

\* Variants of PushNotify: every Push adds a token, or only the one that
\* finds the mailbox otherwise empty.
PushNotifyEach(p) == PushEnds(p, notify + 1)

PushNotifyFirst(p) == PushEnds(p, IF size = 1 THEN 1 ELSE notify)

\* select { case m.notify <- struct{}{}: default: }
PushNotify(p) == PushEnds(p, 1)

\* BackpressureBlock: give up when closed, else sleep and try again.
PushBlocked(p) ==
    /\ pc[p] = "blocked"
    /\ \/ closed /\ Return(p, "closed")
       \/ ~closed /\ Goto(p, "enqueue") /\ ret' = ret
    /\ UNCHANGED <<lane, notify, closed, size, logged, refused, env, ticket,
                   pushes, cpc, bypass, panicked, policy>>

-----------------------------------------------------------------------------
(* Close *)

CloseCall(x) ==
    /\ pc[x] = "idle"
    /\ Goto(x, "select")
    /\ UNCHANGED <<lane, notify, closed, size, logged, refused, env, ticket,
                   pushes, ret, cpc, bypass, panicked, policy>>

CloseSelect(x) ==
    /\ pc[x] = "select"
    /\ Goto(x, IF closed THEN "done" ELSE "close")
    /\ UNCHANGED <<lane, notify, closed, size, logged, refused, env, ticket,
                   pushes, ret, cpc, bypass, panicked, policy>>

\* close(m.closed) panics when the channel is closed already.
CloseChannel(x) ==
    /\ pc[x] = "close"
    /\ closed' = TRUE
    /\ panicked' = (panicked \/ closed)
    /\ Goto(x, "done")
    /\ UNCHANGED <<lane, notify, size, logged, refused, env, ticket, pushes,
                   ret, cpc, bypass, policy>>

-----------------------------------------------------------------------------
(* BaseActor.run: Pop until the lanes are empty, then Wait *)

TakeFront(l) == lane' = [lane EXCEPT ![l].first = @ + 1]

PopUrgent ==
    /\ cpc = "urgent"
    /\ \/ /\ FrontReady(lane["urgent"])
          /\ TakeFront("urgent")
          /\ bypass' = 0
          /\ cpc' = "popped"
       \/ /\ ~FrontReady(lane["urgent"])
          /\ cpc' = "normal"
          /\ UNCHANGED <<lane, bypass>>
    /\ UNCHANGED <<notify, closed, size, logged, refused, pc, env, ticket,
                   pushes, ret, panicked, policy>>

PopNormal ==
    /\ cpc = "normal"
    /\ \/ /\ FrontReady(lane["normal"])
          /\ TakeFront("normal")
          /\ bypass' = IF FrontReady(lane["urgent"]) THEN bypass + 1 ELSE 0
          /\ cpc' = "popped"
       \/ /\ ~FrontReady(lane["normal"])
          /\ cpc' = "wait"
          /\ UNCHANGED <<lane, bypass>>
    /\ UNCHANGED <<notify, closed, size, logged, refused, pc, env, ticket,
                   pushes, ret, panicked, policy>>

\* The size after a Pop, and where the loop goes on.
Popped(n, next) ==
    /\ cpc = "popped"
    /\ size' = n
    /\ cpc' = next
    /\ UNCHANGED <<lane, notify, closed, logged, refused, pc, env, ticket,
                   pushes, ret, bypass, panicked, policy>>

\* Variants of PopSize: the size is not decremented, or the next Pop starts
\* with the normal lane.
PopSizeForgotten == Popped(size, "urgent")

PopSizeNormalFirst == Popped(size - 1, "normal")

\* m.size.Add(-1); the handler then runs, and the loop pops again.
PopSize == Popped(size - 1, "urgent")

\* Wait: with both channels ready, select picks either.
WaitNotify ==
    /\ cpc = "wait"
    /\ notify = 1
    /\ notify' = 0
    /\ cpc' = "urgent"
    /\ UNCHANGED <<lane, closed, size, logged, refused, pc, env, ticket,
                   pushes, ret, bypass, panicked, policy>>

WaitClosed ==
    /\ cpc = "wait"
    /\ closed
    /\ cpc' = "done"
    /\ UNCHANGED <<lane, notify, closed, size, logged, refused, pc, env,
                   ticket, pushes, ret, bypass, panicked, policy>>

-----------------------------------------------------------------------------
PushStep(p) ==
    \/ PushCheckClosed(p) \/ PushPersist(p) \/ PushEnqueue(p)
    \/ PushPublish(p) \/ PushSize(p) \/ PushNotify(p) \/ PushBlocked(p)

CloseStep(x) == CloseSelect(x) \/ CloseChannel(x)

Consume == PopUrgent \/ PopNormal \/ PopSize \/ WaitNotify \/ WaitClosed

Next ==
    \/ \E p \in Pushers :
         \/ \E l \in UsedLanes, d \in Durable : PushCall(p, l, d)
         \/ PushStep(p)
    \/ \E x \in Closers : CloseCall(x) \/ CloseStep(x)
    \/ Consume

Spec == Init /\ [][Next]_vars

-----------------------------------------------------------------------------
(* Correctness *)

PushLabels == {"check", "persist", "enqueue", "publish", "size", "notify",
               "blocked"}

Steps == {"idle", "select", "close", "done"} \cup PushLabels

\* Types; a Push in progress has an envelope.
TypeOK ==
    /\ lane \in [Lanes -> LaneStates]
    /\ notify \in {0, 1}
    /\ closed \in BOOLEAN
    /\ size \in Int
    /\ logged \subseteq Envelopes /\ refused \subseteq Envelopes
    /\ pc \in [Pushers \cup Closers -> Steps]
    /\ env \in [Pushers -> Envelopes \cup {NoEnvelope}]
    /\ \A p \in Pushers : pc[p] # "idle" => env[p] \in Envelopes
    /\ ticket \in [Pushers -> Nat]
    /\ pushes \in [Pushers -> 0 .. MaxPushes]
    /\ ret \in [Pushers -> {"none", "ok", "full", "dropped", "closed"}]
    /\ cpc \in {"urgent", "normal", "popped", "wait", "done"}
    /\ bypass \in Nat
    /\ panicked \in BOOLEAN
    /\ policy \in Policies

(***************************************************************************)
(* No lost wakeup: the actor never sleeps in Wait on an envelope it could  *)
(* pop, unless the token that wakes it is in the channel or the Push that  *)
(* made the front of the lane ready is still to send one.                  *)
(***************************************************************************)
NoLostWakeup ==
    cpc = "wait" /\ (\E l \in Lanes : FrontReady(lane[l]))
      => notify = 1 \/ \E p \in Pushers : pc[p] \in {"size", "notify"}

(***************************************************************************)
(* Why no wakeup is lost: whenever the front of a lane is ready, a token   *)
(* is in the channel, or a Push is about to send one, or the actor has yet *)
(* to look at that lane before it waits (or its loop has ended).           *)
(***************************************************************************)
StillLooks(l) ==
    IF l = "urgent" THEN {"urgent", "popped", "done"}
                    ELSE {"urgent", "normal", "popped", "done"}

WakeupInv ==
    \A l \in Lanes : FrontReady(lane[l]) =>
        \/ notify = 1
        \/ \E p \in Pushers : pc[p] \in {"size", "notify"}
        \/ cpc \in StillLooks(l)

Queued(l) == Cardinality(lane[l].published \ (0 .. lane[l].first - 1))

(***************************************************************************)
(* Len is exact up to the calls in progress: a Push that has published and *)
(* not counted yet, and a Pop that has taken and not discounted yet.       *)
(***************************************************************************)
SizeAccounting ==
    size = Queued("urgent") + Queued("normal")
             - Cardinality({p \in Pushers : pc[p] = "size"})
             + (IF cpc = "popped" THEN 1 ELSE 0)

\* Why the count is exact: a drawn ticket that is not published is in front
\* of the consumer, is its pusher's alone, and is published once.
TicketInv ==
    /\ \A l \in Lanes :
         /\ lane[l].first <= Len(lane[l].items)
         /\ lane[l].published \subseteq 0 .. Len(lane[l].items) - 1
    /\ \A p \in Pushers : pc[p] = "publish" =>
         LET q == lane[env[p].lane] IN
         /\ q.first <= ticket[p] /\ ticket[p] < Len(q.items)
         /\ ticket[p] \notin q.published
    /\ \A p, r \in Pushers :
         /\ pc[p] = "publish" /\ pc[r] = "publish"
         /\ env[p].lane = env[r].lane /\ ticket[p] = ticket[r]
         => p = r

(***************************************************************************)
(* Pop serves the urgent lane first: an urgent envelope that is ready is   *)
(* passed over by at most one normal envelope (the one whose Pop had       *)
(* looked at the urgent lane before).                                      *)
(***************************************************************************)
UrgentFirst == bypass <= 1

\* A passed-over urgent envelope is still there, and is the next one popped.
UrgentInv ==
    /\ bypass \in {0, 1}
    /\ bypass = 1 => /\ FrontReady(lane["urgent"])
                     /\ cpc \in {"popped", "urgent"}

(***************************************************************************)
(* Write-ahead: an envelope marked for persistence is in the log before it *)
(* can be queued or handled, unless the hook failed (wal.go:16).           *)
(***************************************************************************)
WriteAhead ==
    \A l \in Lanes : \A i \in DOMAIN lane[l].items :
        lane[l].items[i].durable => lane[l].items[i] \in logged \cup refused

\* The same for a Push that is past the hook.
OfferedFirst ==
    \A p \in Pushers :
        pc[p] \in {"enqueue", "publish", "size", "notify", "blocked"}
          => (env[p].durable => env[p] \in logged \cup refused)
=============================================================================
