--------------------------- MODULE MailboxProofs ---------------------------
(***************************************************************************)
(* Proofs about Mailbox, for any number of pushers and closers, any lane   *)
(* size and every backpressure policy.                                     *)
(***************************************************************************)
EXTENDS Mailbox, FiniteSetTheorems, TLAPS

-----------------------------------------------------------------------------
(* What the updates of a lane do, field by field *)

LEMMA AppendType ==
    ASSUME NEW S, NEW s \in Seq(S), NEW e \in S
    PROVE  /\ Append(s, e) \in Seq(S)
           /\ Len(Append(s, e)) = Len(s) + 1
           /\ Append(s, e)[Len(s) + 1] = e
           /\ \A i \in 1 .. Len(s) : Append(s, e)[i] = s[i]
  OBVIOUS

LEMMA Below ==
    ASSUME NEW i \in Nat, NEW j \in Nat, NEW k \in Nat, i < j, k >= j
    PROVE  i < k
  OBVIOUS

LEMMA LaneFields ==
    ASSUME lane \in [Lanes -> LaneStates], NEW l \in Lanes
    PROVE  /\ lane[l].items \in Seq(Envelopes)
           /\ lane[l].published \in SUBSET Nat
           /\ lane[l].first \in Nat
           /\ Len(lane[l].items) \in Nat
  BY DEF LaneStates

LEMMA LaneDraw ==
    ASSUME lane \in [Lanes -> LaneStates],
           NEW l \in Lanes, NEW e \in Envelopes,
           lane' = [lane EXCEPT ![l].items = Append(@, e)]
    PROVE  /\ lane' \in [Lanes -> LaneStates]
           /\ \A k \in Lanes : /\ lane'[k].first = lane[k].first
                               /\ lane'[k].published = lane[k].published
                               /\ k # l => lane'[k].items = lane[k].items
           /\ lane'[l].items = Append(lane[l].items, e)
  <1>1. Append(lane[l].items, e) \in Seq(Envelopes)
    BY LaneFields, AppendType
  <1> QED BY <1>1 DEF LaneStates

LEMMA LanePublish ==
    ASSUME lane \in [Lanes -> LaneStates],
           NEW l \in Lanes, NEW u \in Nat,
           lane' = [lane EXCEPT ![l].published = @ \cup {u}]
    PROVE  /\ lane' \in [Lanes -> LaneStates]
           /\ \A k \in Lanes : /\ lane'[k].first = lane[k].first
                               /\ lane'[k].items = lane[k].items
                               /\ k # l => lane'[k].published = lane[k].published
           /\ lane'[l].published = lane[l].published \cup {u}
  BY DEF LaneStates

LEMMA LaneTake ==
    ASSUME lane \in [Lanes -> LaneStates],
           NEW l \in Lanes, TakeFront(l)
    PROVE  /\ lane' \in [Lanes -> LaneStates]
           /\ \A k \in Lanes : /\ lane'[k].items = lane[k].items
                               /\ lane'[k].published = lane[k].published
                               /\ k # l => lane'[k].first = lane[k].first
           /\ lane'[l].first = lane[l].first + 1
  <1>1. lane[l].first + 1 \in Nat
    BY LaneFields
  <1> QED BY <1>1 DEF LaneStates, TakeFront

\* The lane of an envelope in a Push is one of the two.
LEMMA EnvLane ==
    ASSUME NEW e \in Envelopes
    PROVE  e.lane \in Lanes
  BY DEF Envelopes

-----------------------------------------------------------------------------
(* Type correctness *)

(***************************************************************************)
(* The lanes, channels and locals keep their types through every step of   *)
(* Push, Pop, Wait and Close (mailbox.go:117-217).                         *)
(***************************************************************************)
THEOREM TypeCorrect == Spec => []TypeOK
  <1>1. Init => TypeOK
    <2> SUFFICES ASSUME Init PROVE TypeOK
      OBVIOUS
    <2>1. lane \in [Lanes -> LaneStates]
      BY DEF Init, NewLane, LaneStates
    <2>2. pushes \in [Pushers -> 0 .. MaxPushes]
      BY MailboxAssumption DEF Init
    <2>3. /\ notify \in {0, 1} /\ size \in Int /\ bypass \in Nat
          /\ ticket \in [Pushers -> Nat]
      BY DEF Init
    <2>4. /\ pc \in [Pushers \cup Closers -> Steps]
          /\ \A p \in Pushers : pc[p] = "idle"
      BY DEF Init, Steps
    <2>5. /\ closed \in BOOLEAN /\ panicked \in BOOLEAN
          /\ policy \in Policies
          /\ logged = {} /\ refused = {}
          /\ env \in [Pushers -> Envelopes \cup {NoEnvelope}]
      BY MailboxAssumption, Zenon DEF Init
    <2>6. /\ ret \in [Pushers -> {"none", "ok", "full", "dropped", "closed"}]
          /\ cpc \in {"urgent", "normal", "popped", "wait", "done"}
      BY DEF Init
    <2> QED BY <2>1, <2>2, <2>3, <2>4, <2>5, <2>6 DEF TypeOK
  <1>2. TypeOK /\ [Next]_vars => TypeOK'
    <2> SUFFICES ASSUME TypeOK, [Next]_vars PROVE TypeOK'
      OBVIOUS
    <2> USE DEF TypeOK, Steps, PushLabels, Goto, Return
    <2>1. ASSUME NEW p \in Pushers, NEW l \in UsedLanes, NEW d \in Durable,
                 PushCall(p, l, d)
          PROVE  TypeOK'
      <3>1. pushes[p] + 1 \in 1 .. MaxPushes
        BY <2>1, MailboxAssumption DEF PushCall
      <3>2. [from |-> p, n |-> pushes[p] + 1, lane |-> l, durable |-> d]
              \in Envelopes
        BY <3>1, MailboxAssumption DEF Envelopes
      <3>3. env' \in [Pushers -> Envelopes \cup {NoEnvelope}]
              /\ env'[p] \in Envelopes
        BY <2>1, <3>2 DEF PushCall
      <3>4. pushes' \in [Pushers -> 0 .. MaxPushes]
        BY <2>1, <3>1 DEF PushCall
      <3>5. pc' \in [Pushers \cup Closers -> Steps]
        BY <2>1 DEF PushCall
      <3>6. \A q \in Pushers : pc'[q] # "idle" => env'[q] \in Envelopes
        BY <2>1, <3>3 DEF PushCall
      <3> QED BY <2>1, <3>3, <3>4, <3>5, <3>6 DEF PushCall
    <2>2. ASSUME NEW p \in Pushers, PushCheckClosed(p) PROVE TypeOK'
      BY <2>2 DEF PushCheckClosed
    <2>3. ASSUME NEW p \in Pushers, PushPersist(p) PROVE TypeOK'
      BY <2>3 DEF PushPersist
    <2>4. ASSUME NEW p \in Pushers, PushEnqueue(p) PROVE TypeOK'
      <3>1. env[p] \in Envelopes /\ env[p].lane \in Lanes
        BY <2>4, EnvLane DEF PushEnqueue
      <3>2. lane' \in [Lanes -> LaneStates]
        BY <2>4, <3>1, LaneDraw DEF PushEnqueue
      <3>3. ticket' \in [Pushers -> Nat]
        <4>1. Len(lane[env[p].lane].items) \in Nat
          BY <3>1, LaneFields
        <4> QED BY <2>4, <4>1 DEF PushEnqueue
      <3> QED BY <2>4, <3>2, <3>3 DEF PushEnqueue
    <2>5. ASSUME NEW p \in Pushers, PushPublish(p) PROVE TypeOK'
      <3>1. env[p].lane \in Lanes
        BY <2>5, EnvLane DEF PushPublish
      <3>2. lane' \in [Lanes -> LaneStates]
        BY <2>5, <3>1, LanePublish DEF PushPublish
      <3> QED BY <2>5, <3>2 DEF PushPublish
    <2>6. ASSUME NEW p \in Pushers, PushSize(p) PROVE TypeOK'
      BY <2>6 DEF PushSize
    <2>7. ASSUME NEW p \in Pushers, PushNotify(p) PROVE TypeOK'
      BY <2>7 DEF PushNotify, PushEnds
    <2>8. ASSUME NEW p \in Pushers, PushBlocked(p) PROVE TypeOK'
      BY <2>8 DEF PushBlocked
    <2>9. ASSUME NEW x \in Closers, CloseCall(x) PROVE TypeOK'
      BY <2>9, MailboxAssumption DEF CloseCall
    <2>10. ASSUME NEW x \in Closers, CloseSelect(x) PROVE TypeOK'
      BY <2>10, MailboxAssumption DEF CloseSelect
    <2>11. ASSUME NEW x \in Closers, CloseChannel(x) PROVE TypeOK'
      BY <2>11, MailboxAssumption DEF CloseChannel
    <2>12. ASSUME PopUrgent PROVE TypeOK'
      <3>1. lane' \in [Lanes -> LaneStates]
        BY <2>12, LaneTake DEF PopUrgent, Lanes
      <3> QED BY <2>12, <3>1 DEF PopUrgent
    <2>13. ASSUME PopNormal PROVE TypeOK'
      <3>1. lane' \in [Lanes -> LaneStates]
        BY <2>13, LaneTake DEF PopNormal, Lanes
      <3> QED BY <2>13, <3>1 DEF PopNormal
    <2>14. ASSUME PopSize PROVE TypeOK'
      BY <2>14 DEF PopSize, Popped
    <2>15. ASSUME WaitNotify PROVE TypeOK'
      BY <2>15 DEF WaitNotify
    <2>16. ASSUME WaitClosed PROVE TypeOK'
      BY <2>16 DEF WaitClosed
    <2>17. CASE UNCHANGED vars
      BY <2>17 DEF vars
    <2> QED
      BY <2>1, <2>2, <2>3, <2>4, <2>5, <2>6, <2>7, <2>8, <2>9, <2>10,
         <2>11, <2>12, <2>13, <2>14, <2>15, <2>16, <2>17
      DEF Next, PushStep, CloseStep, Consume
  <1> QED BY <1>1, <1>2, PTL DEF Spec

-----------------------------------------------------------------------------
(* No lost wakeup *)

(***************************************************************************)
(* The actor never sleeps in Wait on a ready envelope without a token in   *)
(* m.notify or a Push that is about to send one, although the send is a    *)
(* non-blocking select that drops the token when one is there already      *)
(* (mailbox.go:145-172, 193-217, base_actor.go:173-185).                   *)
(***************************************************************************)
THEOREM WakeupNotLost == Spec => []NoLostWakeup
  <1>1. Init => WakeupInv
    BY DEF Init, WakeupInv, FrontReady, NewLane
  <1>2. TypeOK /\ WakeupInv /\ [Next]_vars => WakeupInv'
    <2> SUFFICES ASSUME TypeOK, WakeupInv, [Next]_vars PROVE WakeupInv'
      OBVIOUS
    <2>0. lane \in [Lanes -> LaneStates] /\ pc \in [Pushers \cup Closers -> Steps]
      BY DEF TypeOK
    <2> DEFINE Pending(p) == pc[p] \in {"size", "notify"}
    \* A step that leaves the fronts, the token and the consumer alone and
    \* ends no pending Push.
    <2>1. ASSUME \A l \in Lanes : FrontReady(lane'[l]) => FrontReady(lane[l]),
                 notify' = notify, cpc' = cpc,
                 \A p \in Pushers : Pending(p) => Pending(p)'
          PROVE  WakeupInv'
      BY <2>1 DEF WakeupInv, StillLooks
    <2>2. ASSUME NEW p \in Pushers, NEW l \in UsedLanes, NEW d \in Durable,
                 PushCall(p, l, d)
          PROVE  WakeupInv'
      BY <2>0, <2>1, <2>2 DEF PushCall, Goto, FrontReady
    <2>3. ASSUME NEW p \in Pushers, PushCheckClosed(p) PROVE WakeupInv'
      BY <2>0, <2>1, <2>3 DEF PushCheckClosed, Goto, Return, FrontReady
    <2>4. ASSUME NEW p \in Pushers, PushPersist(p) PROVE WakeupInv'
      BY <2>0, <2>1, <2>4 DEF PushPersist, Goto, FrontReady
    <2>5. ASSUME NEW p \in Pushers, PushEnqueue(p) PROVE WakeupInv'
      <3>1. env[p] \in Envelopes /\ env[p].lane \in Lanes
        BY <2>5, EnvLane DEF PushEnqueue, TypeOK
      <3>2. \A l \in Lanes : FrontReady(lane'[l]) => FrontReady(lane[l])
        BY <2>0, <2>5, <3>1, LaneDraw DEF PushEnqueue, FrontReady
      <3>3. \A q \in Pushers : Pending(q) => Pending(q)'
        BY <2>0, <2>5 DEF PushEnqueue, Goto, Return
      <3> QED BY <2>1, <2>5, <3>2, <3>3 DEF PushEnqueue
    <2>6. ASSUME NEW p \in Pushers, PushPublish(p) PROVE WakeupInv'
      <3>1. pc'[p] = "size"
        BY <2>0, <2>6 DEF PushPublish, Goto
      <3> QED BY <3>1 DEF WakeupInv
    <2>7. ASSUME NEW p \in Pushers, PushSize(p) PROVE WakeupInv'
      BY <2>0, <2>1, <2>7 DEF PushSize, Goto, FrontReady
    <2>8. ASSUME NEW p \in Pushers, PushNotify(p) PROVE WakeupInv'
      BY <2>8 DEF PushNotify, PushEnds, WakeupInv
    <2>9. ASSUME NEW p \in Pushers, PushBlocked(p) PROVE WakeupInv'
      BY <2>0, <2>1, <2>9 DEF PushBlocked, Goto, Return, FrontReady
    <2>10. ASSUME NEW x \in Closers, CloseCall(x) PROVE WakeupInv'
      BY <2>0, <2>1, <2>10, MailboxAssumption DEF CloseCall, Goto, FrontReady
    <2>11. ASSUME NEW x \in Closers, CloseSelect(x) PROVE WakeupInv'
      BY <2>0, <2>1, <2>11, MailboxAssumption DEF CloseSelect, Goto, FrontReady
    <2>12. ASSUME NEW x \in Closers, CloseChannel(x) PROVE WakeupInv'
      BY <2>0, <2>1, <2>12, MailboxAssumption DEF CloseChannel, Goto, FrontReady
    <2>13. ASSUME PopUrgent PROVE WakeupInv'
      BY <2>13 DEF PopUrgent, WakeupInv, StillLooks, Lanes
    <2>14. ASSUME PopNormal PROVE WakeupInv'
      BY <2>14 DEF PopNormal, WakeupInv, StillLooks, Lanes
    <2>15. ASSUME PopSize PROVE WakeupInv'
      BY <2>15 DEF PopSize, Popped, WakeupInv, StillLooks
    <2>16. ASSUME WaitNotify PROVE WakeupInv'
      BY <2>16 DEF WaitNotify, WakeupInv, StillLooks
    <2>17. ASSUME WaitClosed PROVE WakeupInv'
      BY <2>17 DEF WaitClosed, WakeupInv, StillLooks
    <2>18. CASE UNCHANGED vars
      BY <2>1, <2>18 DEF vars
    <2> QED
      BY <2>2, <2>3, <2>4, <2>5, <2>6, <2>7, <2>8, <2>9, <2>10, <2>11,
         <2>12, <2>13, <2>14, <2>15, <2>16, <2>17, <2>18
      DEF Next, PushStep, CloseStep, Consume
  <1>3. WakeupInv => NoLostWakeup
    BY DEF WakeupInv, NoLostWakeup, StillLooks
  <1> QED BY <1>1, <1>2, <1>3, TypeCorrect, PTL DEF Spec

-----------------------------------------------------------------------------
(* Urgent envelopes first *)

(***************************************************************************)
(* At most one normal envelope is popped while an urgent one is ready: the *)
(* Pop that takes it had looked at the urgent lane before the urgent       *)
(* envelope was published, and the next Pop sees it (mailbox.go:193-203).  *)
(***************************************************************************)
THEOREM UrgentNotStarved == Spec => []UrgentFirst
  <1>1. Init => UrgentInv
    BY DEF Init, UrgentInv
  <1>2. TypeOK /\ UrgentInv /\ [Next]_vars => UrgentInv'
    <2> SUFFICES ASSUME TypeOK, UrgentInv, [Next]_vars PROVE UrgentInv'
      OBVIOUS
    <2>0. lane \in [Lanes -> LaneStates] /\ "urgent" \in Lanes /\ "normal" \in Lanes
      BY DEF TypeOK, Lanes
    \* A step of a pusher or closer takes nothing from the urgent lane.
    <2>1. ASSUME FrontReady(lane["urgent"]) => FrontReady(lane'["urgent"]),
                 bypass' = bypass, cpc' = cpc
          PROVE  UrgentInv'
      BY <2>1 DEF UrgentInv
    <2>2. ASSUME NEW p \in Pushers, PushEnqueue(p) PROVE UrgentInv'
      <3>1. env[p] \in Envelopes /\ env[p].lane \in Lanes
        BY <2>2, EnvLane DEF PushEnqueue, TypeOK
      <3>2. FrontReady(lane["urgent"]) => FrontReady(lane'["urgent"])
        BY <2>0, <2>2, <3>1, LaneDraw, SMTT(40) DEF PushEnqueue, FrontReady
      <3> QED BY <2>1, <2>2, <3>2 DEF PushEnqueue
    <2>3. ASSUME NEW p \in Pushers, PushPublish(p) PROVE UrgentInv'
      <3>1. env[p].lane \in Lanes /\ ticket[p] \in Nat
        BY <2>3, EnvLane DEF PushPublish, TypeOK
      <3>2. lane' = [lane EXCEPT ![env[p].lane].published = @ \cup {ticket[p]}]
        BY <2>3 DEF PushPublish
      <3>3. FrontReady(lane["urgent"]) => FrontReady(lane'["urgent"])
        <4> DEFINE l == env[p].lane
        <4>1. /\ \A k \in Lanes : /\ lane'[k].first = lane[k].first
                                  /\ k # l => lane'[k].published = lane[k].published
              /\ lane'[l].published = lane[l].published \cup {ticket[p]}
          BY <2>0, <3>1, <3>2, LanePublish
        <4> HIDE DEF l
        <4> QED BY ONLY <2>0, <4>1, SMTT(40) DEF FrontReady
      <3> QED BY <2>1, <2>3, <3>3 DEF PushPublish
    <2>4. ASSUME NEW p \in Pushers,
                 \/ \E l \in UsedLanes, d \in Durable : PushCall(p, l, d)
                 \/ PushCheckClosed(p) \/ PushPersist(p) \/ PushSize(p)
                 \/ PushNotify(p) \/ PushBlocked(p)
          PROVE  UrgentInv'
      BY <2>1, <2>4 DEF PushCall, PushCheckClosed, PushPersist, PushSize,
                        PushNotify, PushEnds, PushBlocked
    <2>5. ASSUME NEW x \in Closers, CloseCall(x) \/ CloseStep(x)
          PROVE  UrgentInv'
      BY <2>1, <2>5 DEF CloseCall, CloseStep, CloseSelect, CloseChannel
    <2>6. ASSUME PopUrgent PROVE UrgentInv'
      BY <2>6 DEF PopUrgent, UrgentInv
    <2>7. ASSUME PopNormal PROVE UrgentInv'
      <3>1. bypass = 0
        BY <2>7 DEF PopNormal, UrgentInv
      <3>2. CASE FrontReady(lane["normal"])
        <4>1. FrontReady(lane'["urgent"]) <=> FrontReady(lane["urgent"])
          BY <2>0, <2>7, <3>2, LaneTake DEF PopNormal, FrontReady
        <4> QED BY <2>7, <3>1, <3>2, <4>1 DEF PopNormal, UrgentInv
      <3>3. CASE ~FrontReady(lane["normal"])
        BY <2>7, <3>1, <3>3 DEF PopNormal, UrgentInv
      <3> QED BY <3>2, <3>3
    <2>8. ASSUME PopSize \/ WaitNotify \/ WaitClosed PROVE UrgentInv'
      BY <2>8 DEF PopSize, Popped, WaitNotify, WaitClosed, UrgentInv
    <2>9. CASE UNCHANGED vars
      BY <2>1, <2>9 DEF vars
    <2> QED
      BY <2>2, <2>3, <2>4, <2>5, <2>6, <2>7, <2>8, <2>9
      DEF Next, PushStep, Consume
  <1>3. UrgentInv => UrgentFirst
    BY DEF UrgentInv, UrgentFirst
  <1> QED BY <1>1, <1>2, <1>3, TypeCorrect, PTL DEF Spec

-----------------------------------------------------------------------------
(* Write-ahead *)

(***************************************************************************)
(* An envelope marked for persistence has been offered to the persist hook *)
(* before it is in a lane, hence before it can be popped                   *)
(* (mailbox.go:134-138).                                                   *)
(***************************************************************************)
THEOREM LoggedBeforeQueued == Spec => []WriteAhead
  <1> DEFINE Inv == WriteAhead /\ OfferedFirst
  <1>1. Init => Inv
    BY DEF Init, WriteAhead, OfferedFirst, NewLane
  <1>2. TypeOK /\ Inv /\ [Next]_vars => Inv'
    <2> SUFFICES ASSUME TypeOK, WriteAhead, OfferedFirst, [Next]_vars
                 PROVE  WriteAhead' /\ OfferedFirst'
      OBVIOUS
    <2>0. /\ lane \in [Lanes -> LaneStates]
          /\ pc \in [Pushers \cup Closers -> Steps]
          /\ env \in [Pushers -> Envelopes \cup {NoEnvelope}]
          /\ "urgent" \in Lanes /\ "normal" \in Lanes
      BY DEF TypeOK, Lanes
    \* Nothing enters a lane and nothing leaves the log.
    <2>1. ASSUME \A l \in Lanes : lane'[l].items = lane[l].items,
                 logged \subseteq logged', refused \subseteq refused'
          PROVE  WriteAhead'
      BY <2>1 DEF WriteAhead
    \* No Push gets past the hook, and nothing leaves the log.
    <2>2. ASSUME logged \subseteq logged', refused \subseteq refused',
                 env' = env,
                 \A p \in Pushers :
                   pc'[p] \in {"enqueue", "publish", "size", "notify", "blocked"}
                   => pc[p] \in {"enqueue", "publish", "size", "notify", "blocked"}
          PROVE  OfferedFirst'
      BY <2>2 DEF OfferedFirst
    <2>3. ASSUME NEW p \in Pushers, NEW l \in UsedLanes, NEW d \in Durable,
                 PushCall(p, l, d)
          PROVE  WriteAhead' /\ OfferedFirst'
      <3>1. WriteAhead'
        BY <2>1, <2>3 DEF PushCall
      <3>2. OfferedFirst'
        BY <2>0, <2>3 DEF PushCall, Goto, OfferedFirst
      <3> QED BY <3>1, <3>2
    <2>4. ASSUME NEW p \in Pushers, PushCheckClosed(p)
          PROVE  WriteAhead' /\ OfferedFirst'
      <3>1. WriteAhead'
        BY <2>1, <2>4 DEF PushCheckClosed
      <3>2. pc'[p] = "enqueue" => ~env[p].durable
        BY <2>0, <2>4 DEF PushCheckClosed, Goto, Return
      <3>3. pc'[p] \in {"idle", "persist", "enqueue"}
        BY <2>0, <2>4 DEF PushCheckClosed, Goto, Return
      <3>4. \A q \in Pushers \ {p} : pc'[q] = pc[q]
        BY <2>0, <2>4 DEF PushCheckClosed, Goto, Return
      <3>5. OfferedFirst'
        BY <2>4, <3>2, <3>3, <3>4 DEF PushCheckClosed, OfferedFirst
      <3> QED BY <3>1, <3>5
    <2>5. ASSUME NEW p \in Pushers, PushPersist(p)
          PROVE  WriteAhead' /\ OfferedFirst'
      <3>1. WriteAhead'
        BY <2>1, <2>5 DEF PushPersist
      <3>2. env[p] \in logged' \cup refused'
        BY <2>5 DEF PushPersist
      <3>3. OfferedFirst'
        BY <2>0, <2>5, <3>2 DEF PushPersist, Goto, OfferedFirst
      <3> QED BY <3>1, <3>3
    <2>6. ASSUME NEW p \in Pushers, PushEnqueue(p)
          PROVE  WriteAhead' /\ OfferedFirst'
      <3>1. env[p] \in Envelopes /\ env[p].lane \in Lanes
        BY <2>6, EnvLane DEF PushEnqueue, TypeOK
      <3>2. OfferedFirst'
        BY <2>0, <2>2, <2>6 DEF PushEnqueue, Goto, Return
      <3>3. CASE HasRoom(lane[env[p].lane])
        <4>1. lane' = [lane EXCEPT ![env[p].lane].items = Append(@, env[p])]
          BY <2>6, <3>3, SMTT(40) DEF PushEnqueue
        <4>0. /\ \A k \in Lanes : k # env[p].lane => lane'[k].items = lane[k].items
              /\ lane'[env[p].lane].items = Append(lane[env[p].lane].items, env[p])
          <5> DEFINE k == env[p].lane
                     e == env[p]
          <5>1. /\ lane \in [Lanes -> LaneStates] /\ k \in Lanes /\ e \in Envelopes
                /\ lane' = [lane EXCEPT ![k].items = Append(@, e)]
            BY <2>0, <3>1, <4>1
          <5> HIDE DEF k, e
          <5>2. /\ \A l \in Lanes : l # k => lane'[l].items = lane[l].items
                /\ lane'[k].items = Append(lane[k].items, e)
            BY ONLY <5>1, LaneDraw
          <5> QED BY <5>2 DEF k, e
        <4>2. env[p].durable => env[p] \in logged \cup refused
          BY <2>6 DEF PushEnqueue, OfferedFirst
        <4> SUFFICES ASSUME NEW l \in Lanes, NEW i \in DOMAIN lane'[l].items
                     PROVE  lane'[l].items[i].durable
                              => lane'[l].items[i] \in logged \cup refused
          BY <2>6, <3>2 DEF PushEnqueue, WriteAhead
        <4>3. CASE l # env[p].lane
          <5>1. lane'[l].items = lane[l].items
            BY <4>0, <4>3
          <5> QED BY <5>1, SMTT(40) DEF WriteAhead
        <4>4. CASE l = env[p].lane
          <5>1. /\ lane[l].items \in Seq(Envelopes)
                /\ lane'[l].items = Append(lane[l].items, env[p])
            BY <2>0, <4>0, <4>4, LaneFields, Zenon
          <5>2. i = Len(lane[l].items) + 1 \/ i \in DOMAIN lane[l].items
            <6>1. i \in DOMAIN Append(lane[l].items, env[p])
              BY <5>1
            <6> QED BY ONLY <3>1, <5>1, <6>1
          <5>3. CASE i = Len(lane[l].items) + 1
            BY <3>1, <4>2, <5>1, <5>3, AppendType
          <5>4. CASE i \in DOMAIN lane[l].items
            <6>1. lane'[l].items[i] = lane[l].items[i]
              BY <3>1, <5>1, <5>4, AppendType
            <6> QED BY <5>4, <6>1 DEF WriteAhead
          <5> QED BY <5>2, <5>3, <5>4
        <4> QED BY <4>3, <4>4
      <3>4. CASE ~HasRoom(lane[env[p].lane])
        <4>1. WriteAhead'
          BY <2>1, <2>6, <3>4 DEF PushEnqueue
        <4> QED BY <3>2, <4>1
      <3> QED BY <3>3, <3>4
    <2>7. ASSUME NEW p \in Pushers, PushPublish(p)
          PROVE  WriteAhead' /\ OfferedFirst'
      <3>1. env[p].lane \in Lanes /\ ticket[p] \in Nat
        BY <2>7, EnvLane DEF PushPublish, TypeOK
      <3>2. \A l \in Lanes : lane'[l].items = lane[l].items
        BY <2>0, <2>7, <3>1, LanePublish DEF PushPublish
      <3>3. WriteAhead'
        BY <2>1, <2>7, <3>2 DEF PushPublish
      <3>4. OfferedFirst'
        BY <2>0, <2>2, <2>7 DEF PushPublish, Goto
      <3> QED BY <3>3, <3>4
    <2>8. ASSUME NEW p \in Pushers, PushSize(p) \/ PushNotify(p) \/ PushBlocked(p)
          PROVE  WriteAhead' /\ OfferedFirst'
      <3>1. WriteAhead'
        BY <2>1, <2>8 DEF PushSize, PushNotify, PushEnds, PushBlocked
      <3>2. OfferedFirst'
        BY <2>0, <2>2, <2>8 DEF PushSize, PushNotify, PushEnds, PushBlocked, Goto, Return
      <3> QED BY <3>1, <3>2
    <2>9. ASSUME NEW x \in Closers, CloseCall(x) \/ CloseStep(x)
          PROVE  WriteAhead' /\ OfferedFirst'
      <3>1. WriteAhead'
        BY <2>1, <2>9 DEF CloseCall, CloseStep, CloseSelect, CloseChannel
      <3>2. OfferedFirst'
        BY <2>0, <2>2, <2>9, MailboxAssumption
        DEF CloseCall, CloseStep, CloseSelect, CloseChannel, Goto
      <3> QED BY <3>1, <3>2
    <2>10. ASSUME PopUrgent \/ PopNormal PROVE WriteAhead' /\ OfferedFirst'
      <3>1. \A l \in Lanes : lane'[l].items = lane[l].items
        BY <2>0, <2>10, LaneTake DEF PopUrgent, PopNormal
      <3>2. WriteAhead'
        BY <2>1, <2>10, <3>1 DEF PopUrgent, PopNormal
      <3>3. OfferedFirst'
        BY <2>2, <2>10 DEF PopUrgent, PopNormal
      <3> QED BY <3>2, <3>3
    <2>11. ASSUME PopSize \/ WaitNotify \/ WaitClosed
           PROVE  WriteAhead' /\ OfferedFirst'
      <3>1. WriteAhead'
        BY <2>1, <2>11 DEF PopSize, Popped, WaitNotify, WaitClosed
      <3>2. OfferedFirst'
        BY <2>2, <2>11 DEF PopSize, Popped, WaitNotify, WaitClosed
      <3> QED BY <3>1, <3>2
    <2>12. CASE UNCHANGED vars
      <3>1. WriteAhead'
        BY <2>1, <2>12 DEF vars
      <3>2. OfferedFirst'
        BY <2>2, <2>12 DEF vars
      <3> QED BY <3>1, <3>2
    <2> QED
      BY <2>3, <2>4, <2>5, <2>6, <2>7, <2>8, <2>9, <2>10, <2>11, <2>12
      DEF Next, PushStep, Consume
  <1> QED BY <1>1, <1>2, TypeCorrect, PTL DEF Spec

-----------------------------------------------------------------------------
(* The size counter *)

\* A step that touches no lane and starts no publication.
LEMMA TicketQuiet ==
    ASSUME TypeOK, TicketInv, lane' = lane,
           \A p \in Pushers : pc'[p] = "publish" =>
             pc[p] = "publish" /\ env'[p] = env[p] /\ ticket'[p] = ticket[p]
    PROVE  TicketInv'
  BY DEF TicketInv

LEMMA TicketPop ==
    ASSUME TypeOK, TicketInv, NEW l \in Lanes,
           FrontReady(lane[l]), TakeFront(l), UNCHANGED <<pc, env, ticket>>
    PROVE  TicketInv'
  <1>1. /\ \A k \in Lanes : /\ lane'[k].items = lane[k].items
                            /\ lane'[k].published = lane[k].published
                            /\ k # l => lane'[k].first = lane[k].first
                            /\ lane[k].first \in Nat
        /\ lane'[l].first = lane[l].first + 1
    BY LaneTake, LaneFields DEF TypeOK
  <1>2. ASSUME NEW p \in Pushers, pc[p] = "publish"
        PROVE  env[p].lane \in Lanes /\ ticket[p] \in Nat
    BY <1>2, EnvLane DEF TypeOK
  <1>3. ASSUME NEW p \in Pushers, pc[p] = "publish"
        PROVE  lane'[env[p].lane].first <= ticket[p]
    <2>1. /\ lane[env[p].lane].first <= ticket[p]
          /\ ticket[p] \notin lane[env[p].lane].published
      BY <1>3 DEF TicketInv
    <2>2. CASE env[p].lane = l
      BY <1>1, <1>2, <1>3, <2>1, <2>2 DEF FrontReady
    <2>3. CASE env[p].lane # l
      BY <1>1, <1>2, <1>3, <2>1, <2>3
    <2> QED BY <2>2, <2>3
  <1>4. \A k \in Lanes : lane'[k].first <= Len(lane'[k].items)
    <2>1. lane[l].first \in 0 .. Len(lane[l].items) - 1
      BY DEF TicketInv, FrontReady
    <2>2. Len(lane[l].items) \in Nat
      BY LaneFields DEF TypeOK
    <2> QED BY <1>1, <2>1, <2>2, SMTT(40) DEF TicketInv
  <1> QED BY <1>1, <1>2, <1>3, <1>4 DEF TicketInv

LEMMA TicketDraw ==
    ASSUME TypeOK, TicketInv, NEW p \in Pushers, PushEnqueue(p)
    PROVE  TicketInv'
  <1> DEFINE l == env[p].lane
  <1>1. /\ env[p] \in Envelopes /\ l \in Lanes
        /\ pc[p] = "enqueue" /\ env' = env
    BY EnvLane DEF PushEnqueue, TypeOK
  <1>2. CASE ~HasRoom(lane[l])
    <2>1. lane' = lane /\ ticket' = ticket
      BY <1>2 DEF PushEnqueue
    <2>2. \A q \in Pushers : pc'[q] = "publish" => pc[q] = "publish"
      BY <1>2 DEF PushEnqueue, Goto, Return, TypeOK
    <2> QED BY <1>1, <2>1, <2>2, TicketQuiet
  <1>3. CASE HasRoom(lane[l])
    <2>1. lane' = [lane EXCEPT ![l].items = Append(@, env[p])]
      BY <1>3, SMTT(40) DEF PushEnqueue
    <2>2. /\ \A k \in Lanes : /\ lane'[k].first = lane[k].first
                              /\ lane'[k].published = lane[k].published
                              /\ k # l => lane'[k].items = lane[k].items
          /\ lane'[l].items = Append(lane[l].items, env[p])
      <3> DEFINE e == env[p]
      <3>1. /\ lane \in [Lanes -> LaneStates] /\ l \in Lanes /\ e \in Envelopes
            /\ lane' = [lane EXCEPT ![l].items = Append(@, e)]
        BY <1>1, <2>1 DEF TypeOK
      <3> HIDE DEF l, e
      <3>2. /\ \A k \in Lanes : /\ lane'[k].first = lane[k].first
                                /\ lane'[k].published = lane[k].published
                                /\ k # l => lane'[k].items = lane[k].items
            /\ lane'[l].items = Append(lane[l].items, e)
        BY ONLY <3>1, LaneDraw
      <3> QED BY <3>2 DEF e
    <2>3. \A k \in Lanes : /\ lane[k].items \in Seq(Envelopes)
                          /\ Len(lane[k].items) \in Nat
                          /\ lane[k].first \in Nat
      BY LaneFields DEF TypeOK
    <2>4. /\ Len(lane'[l].items) = Len(lane[l].items) + 1
          /\ \A k \in Lanes : /\ Len(lane'[k].items) \in Nat
                              /\ Len(lane'[k].items) >= Len(lane[k].items)
      <3>1. Len(Append(lane[l].items, env[p])) = Len(lane[l].items) + 1
        BY <1>1, <2>3, AppendType
      <3>2. Len(lane'[l].items) = Len(lane[l].items) + 1
        BY <2>2, <3>1
      <3>3. ASSUME NEW k \in Lanes
            PROVE  /\ Len(lane'[k].items) \in Nat
                   /\ Len(lane'[k].items) >= Len(lane[k].items)
        <4>0. Len(lane[k].items) \in Nat
          BY <2>3
        <4>1. CASE k = l
          <5>1. Len(lane'[k].items) = Len(lane[k].items) + 1
            BY <3>2, <4>1, Zenon
          <5> QED BY ONLY <4>0, <5>1
        <4>2. CASE k # l
          <5>1. lane'[k].items = lane[k].items
            BY <2>2, <4>2, Zenon
          <5> QED BY ONLY <4>0, <5>1
        <4> QED BY <4>1, <4>2
      <3> QED BY <3>2, <3>3
    <2>5. /\ ticket'[p] = Len(lane[l].items)
          /\ \A q \in Pushers : q # p =>
               ticket'[q] = ticket[q] /\ (pc'[q] = "publish" => pc[q] = "publish")
      BY <1>3 DEF PushEnqueue, Goto, TypeOK
    <2>6. \A k \in Lanes : lane'[k].published \subseteq 0 .. Len(lane'[k].items) - 1
      <3> SUFFICES ASSUME NEW k \in Lanes, NEW u \in lane[k].published
                   PROVE  u \in 0 .. Len(lane'[k].items) - 1
        BY <2>2
      <3>1. u \in 0 .. Len(lane[k].items) - 1
        BY DEF TicketInv
      <3>2. /\ Len(lane[k].items) \in Nat /\ Len(lane'[k].items) \in Nat
            /\ Len(lane'[k].items) >= Len(lane[k].items)
        BY <2>3, <2>4, Zenon
      <3> QED BY ONLY <3>1, <3>2, SMTT(40)
    <2>7. \A k \in Lanes : lane'[k].first <= Len(lane'[k].items)
      <3> SUFFICES ASSUME NEW k \in Lanes
                   PROVE  lane'[k].first <= Len(lane'[k].items)
        OBVIOUS
      <3>1. lane[k].first <= Len(lane[k].items)
        BY DEF TicketInv
      <3>2. /\ Len(lane[k].items) \in Nat /\ Len(lane'[k].items) \in Nat
            /\ Len(lane'[k].items) >= Len(lane[k].items)
            /\ lane[k].first \in Nat /\ lane'[k].first = lane[k].first
        BY <2>2, <2>3, <2>4, Zenon
      <3> QED BY ONLY <3>1, <3>2
    <2>8. ASSUME NEW q \in Pushers, pc'[q] = "publish", q # p
          PROVE  /\ pc[q] = "publish" /\ ticket'[q] = ticket[q]
                 /\ env[q].lane \in Lanes /\ ticket[q] \in Nat
                 /\ lane[env[q].lane].first <= ticket[q]
                 /\ ticket[q] < Len(lane[env[q].lane].items)
                 /\ ticket[q] \notin lane[env[q].lane].published
      <3>1. pc[q] = "publish" /\ ticket'[q] = ticket[q]
        BY <2>5, <2>8
      <3>2. env[q].lane \in Lanes /\ ticket[q] \in Nat
        BY <3>1, EnvLane DEF TypeOK
      <3> QED BY <3>1, <3>2 DEF TicketInv
    <2>9. \A q \in Pushers : pc'[q] = "publish" =>
             /\ lane'[env[q].lane].first <= ticket'[q]
             /\ ticket'[q] < Len(lane'[env[q].lane].items)
             /\ ticket'[q] \notin lane'[env[q].lane].published
      <3> SUFFICES ASSUME NEW q \in Pushers, pc'[q] = "publish"
                   PROVE  /\ lane'[env[q].lane].first <= ticket'[q]
                          /\ ticket'[q] < Len(lane'[env[q].lane].items)
                          /\ ticket'[q] \notin lane'[env[q].lane].published
        OBVIOUS
      <3>1. CASE q = p
        <4>1. /\ lane[l].first <= Len(lane[l].items)
              /\ lane[l].published \subseteq 0 .. Len(lane[l].items) - 1
          BY <1>1 DEF TicketInv
        <4>2. /\ lane'[l].first = lane[l].first
              /\ lane'[l].published = lane[l].published
              /\ Len(lane'[l].items) = Len(lane[l].items) + 1
              /\ Len(lane[l].items) \in Nat
              /\ env[q].lane = l /\ ticket'[q] = Len(lane[l].items)
          BY <1>1, <2>2, <2>3, <2>4, <2>5, <3>1, Zenon
        <4> QED BY ONLY <4>1, <4>2
      <3>2. CASE q # p
        <4>1. /\ ticket'[q] = ticket[q] /\ ticket[q] \in Nat
              /\ env[q].lane \in Lanes
              /\ lane[env[q].lane].first <= ticket[q]
              /\ ticket[q] < Len(lane[env[q].lane].items)
              /\ ticket[q] \notin lane[env[q].lane].published
          BY <2>8, <3>2
        <4>2. /\ Len(lane'[env[q].lane].items) >= Len(lane[env[q].lane].items)
              /\ Len(lane'[env[q].lane].items) \in Nat
              /\ Len(lane[env[q].lane].items) \in Nat
              /\ lane[env[q].lane].first \in Nat
              /\ lane'[env[q].lane].first = lane[env[q].lane].first
              /\ lane'[env[q].lane].published = lane[env[q].lane].published
          BY <2>2, <2>3, <2>4, <4>1, Zenon
        <4>3. ticket[q] < Len(lane'[env[q].lane].items)
          BY ONLY <4>1, <4>2, Below, Zenon
        <4> QED BY ONLY <4>1, <4>2, <4>3, Zenon
      <3> QED BY <3>1, <3>2
    <2>10. \A q, r \in Pushers :
             /\ pc'[q] = "publish" /\ pc'[r] = "publish"
             /\ env[q].lane = env[r].lane /\ ticket'[q] = ticket'[r]
             => q = r
      <3> SUFFICES ASSUME NEW q \in Pushers, NEW r \in Pushers, q # r,
                          pc'[q] = "publish", pc'[r] = "publish",
                          env[q].lane = env[r].lane, ticket'[q] = ticket'[r]
                   PROVE  FALSE
        OBVIOUS
      <3>1. CASE q # p /\ r # p
        BY <2>8, <3>1 DEF TicketInv
      <3>2. CASE q = p \/ r = p
        <4>1. PICK o \in {q, r} : o # p
          BY <3>2
        <4>2. ticket'[o] < Len(lane[l].items) /\ ticket'[o] \in Nat
          BY <2>8, <3>2, <4>1
        <4> QED BY <1>1, <2>3, <2>5, <3>2, <4>1, <4>2
      <3> QED BY <3>1, <3>2
    <2> QED BY <1>1, <2>6, <2>7, <2>9, <2>10 DEF TicketInv
  <1> QED BY <1>2, <1>3

LEMMA TicketPublish ==
    ASSUME TypeOK, TicketInv, NEW p \in Pushers, PushPublish(p)
    PROVE  TicketInv'
  <1> DEFINE l == env[p].lane
  <1>1. /\ l \in Lanes /\ ticket[p] \in Nat /\ pc[p] = "publish"
        /\ env' = env /\ ticket' = ticket
    BY EnvLane DEF PushPublish, TypeOK
  <1>2. lane' = [lane EXCEPT ![l].published = @ \cup {ticket[p]}]
    BY DEF PushPublish
  <1>3. /\ \A k \in Lanes : /\ lane'[k].first = lane[k].first
                            /\ lane'[k].items = lane[k].items
                            /\ k # l => lane'[k].published = lane[k].published
        /\ lane'[l].published = lane[l].published \cup {ticket[p]}
    BY <1>1, <1>2, LanePublish DEF TypeOK
  <1>4. \A q \in Pushers : pc'[q] = "publish" => q # p /\ pc[q] = "publish"
    BY DEF PushPublish, Goto, TypeOK
  <1>5. \A k \in Lanes : /\ lane'[k].first <= Len(lane'[k].items)
                        /\ lane'[k].published \subseteq 0 .. Len(lane'[k].items) - 1
    <2>1. ticket[p] < Len(lane[l].items) /\ Len(lane[l].items) \in Nat
      BY <1>1, LaneFields DEF TicketInv, TypeOK
    <2> QED BY <1>1, <1>3, <2>1, SMTT(40) DEF TicketInv
  <1>6. ASSUME NEW q \in Pushers, pc'[q] = "publish"
        PROVE  LET k == lane'[env[q].lane] IN
               /\ k.first <= ticket[q] /\ ticket[q] < Len(k.items)
               /\ ticket[q] \notin k.published
    <2>1. env[q].lane \in Lanes /\ q # p /\ pc[q] = "publish"
      BY <1>4, <1>6, EnvLane DEF TypeOK
    <2>2. /\ lane[env[q].lane].first <= ticket[q]
          /\ ticket[q] < Len(lane[env[q].lane].items)
          /\ ticket[q] \notin lane[env[q].lane].published
          /\ env[q].lane = l => ticket[q] # ticket[p]
      BY <1>1, <2>1 DEF TicketInv
    <2> QED BY <1>3, <2>1, <2>2
  <1>7. \A q, r \in Pushers :
             /\ pc'[q] = "publish" /\ pc'[r] = "publish"
             /\ env[q].lane = env[r].lane /\ ticket[q] = ticket[r]
             => q = r
    BY <1>4 DEF TicketInv
  <1> QED BY <1>1, <1>5, <1>6, <1>7 DEF TicketInv

\* The pushers that have published and not counted, the tickets queued.
Counting == {p \in Pushers : pc[p] = "size"}
Ahead(l) == lane[l].published \ (0 .. lane[l].first - 1)

SizeInv == TicketInv /\ IsFiniteSet(Counting) /\ SizeAccounting

\* Every published ticket is below the length of the lane.
LEMMA AheadFinite ==
    ASSUME TypeOK, TicketInv, NEW l \in Lanes
    PROVE  IsFiniteSet(Ahead(l)) /\ Queued(l) = Cardinality(Ahead(l))
           /\ Queued(l) \in Nat
  <1>1. Len(lane[l].items) \in Nat
    BY LaneFields DEF TypeOK
  <1>2. IsFiniteSet(0 .. Len(lane[l].items) - 1)
    BY <1>1, FS_Interval
  <1>3. Ahead(l) \in SUBSET (0 .. Len(lane[l].items) - 1)
    BY DEF Ahead, TicketInv
  <1>4. IsFiniteSet(Ahead(l))
    BY <1>2, <1>3, FS_Subset
  <1> QED BY <1>4, FS_CardinalityType DEF Ahead, Queued

\* A step of the counter's bookkeeping that changes none of its terms.
LEMMA SizeQuiet ==
    ASSUME TypeOK, SizeInv, TicketInv', size' = size,
           \A l \in Lanes : /\ lane'[l].published = lane[l].published
                           /\ lane'[l].first = lane[l].first,
           \A p \in Pushers : pc'[p] = "size" <=> pc[p] = "size",
           cpc' = "popped" <=> cpc = "popped"
    PROVE  SizeInv'
  <1>1. Counting' = Counting
    BY DEF Counting
  <1>2. Queued("urgent")' = Queued("urgent") /\ Queued("normal")' = Queued("normal")
    BY DEF Queued, Lanes
  <1>3. SizeAccounting'
    BY <1>1, <1>2 DEF SizeInv, SizeAccounting, Counting
  <1> QED BY <1>1, <1>3 DEF SizeInv

LEMMA SizePublish ==
    ASSUME TypeOK, SizeInv, NEW p \in Pushers, PushPublish(p)
    PROVE  SizeInv'
  <1>0. PICK l \in Lanes : l = env[p].lane
    BY EnvLane DEF PushPublish, TypeOK
  <1>1. /\ l \in Lanes /\ ticket[p] \in Nat /\ pc[p] = "publish"
        /\ size' = size /\ cpc' = cpc
    BY DEF PushPublish, TypeOK
  <1>2. lane' = [lane EXCEPT ![l].published = @ \cup {ticket[p]}]
    BY <1>0 DEF PushPublish
  <1>3. /\ \A k \in Lanes : /\ lane'[k].first = lane[k].first
                            /\ k # l => lane'[k].published = lane[k].published
        /\ lane'[l].published = lane[l].published \cup {ticket[p]}
        /\ lane[l].first \in Nat
    BY <1>1, <1>2, LanePublish, LaneFields DEF TypeOK
  <1>4. lane[l].first <= ticket[p] /\ ticket[p] \notin lane[l].published
    BY <1>0, <1>1 DEF SizeInv, TicketInv
  <1>5. Ahead(l)' = Ahead(l) \cup {ticket[p]} /\ ticket[p] \notin Ahead(l)
    <2>1. ticket[p] \notin 0 .. lane[l].first - 1
      BY <1>1, <1>3, <1>4
    <2>2. Ahead(l)' = (lane[l].published \cup {ticket[p]}) \ (0 .. lane[l].first - 1)
      BY <1>1, <1>3 DEF Ahead
    <2> QED BY <1>4, <2>1, <2>2 DEF Ahead
  <1>6. IsFiniteSet(Ahead(l)) /\ Queued(l) = Cardinality(Ahead(l)) /\ Queued(l) \in Nat
    BY <1>1, AheadFinite DEF SizeInv
  <1>7. Queued(l)' = Queued(l) + 1
    <2>1. Cardinality(Ahead(l) \cup {ticket[p]}) = Cardinality(Ahead(l)) + 1
      BY <1>5, <1>6, FS_AddElement
    <2>2. Queued(l)' = Cardinality(Ahead(l)')
      BY DEF Queued, Ahead
    <2> QED BY <1>5, <1>6, <2>1, <2>2
  <1>8. \A k \in Lanes : k # l => Queued(k)' = Queued(k) /\ Queued(k) \in Nat
    BY <1>3, AheadFinite DEF Queued, SizeInv
  <1>9. Counting' = Counting \cup {p} /\ p \notin Counting
    BY <1>1 DEF Counting, PushPublish, Goto, TypeOK
  <1>10. /\ IsFiniteSet(Counting') /\ Cardinality(Counting) \in Nat
         /\ Cardinality(Counting') = Cardinality(Counting) + 1
    BY <1>9, FS_AddElement, FS_CardinalityType DEF SizeInv
  <1>11. SizeAccounting'
    <2>1. /\ size = Queued("urgent") + Queued("normal") - Cardinality(Counting)
                      + (IF cpc = "popped" THEN 1 ELSE 0)
      BY DEF SizeInv, SizeAccounting, Counting
    <2>2. size' = Queued("urgent")' + Queued("normal")' - Cardinality(Counting')
                      + (IF cpc' = "popped" THEN 1 ELSE 0)
      <3>1. CASE l = "urgent"
        BY <1>1, <1>6, <1>7, <1>8, <1>10, <2>1, <3>1 DEF Lanes
      <3>2. CASE l = "normal"
        BY <1>1, <1>6, <1>7, <1>8, <1>10, <2>1, <3>2 DEF Lanes
      <3> QED BY <1>1, <3>1, <3>2 DEF Lanes
    <2> QED BY <2>2 DEF SizeAccounting, Counting
  <1> QED BY <1>10, <1>11, TicketPublish DEF SizeInv

LEMMA SizePush ==
    ASSUME TypeOK, SizeInv, NEW p \in Pushers, PushSize(p)
    PROVE  SizeInv'
  <1>1. /\ pc[p] = "size" /\ size' = size + 1
        /\ UNCHANGED <<lane, env, ticket, cpc>>
        /\ pc'[p] = "notify"
        /\ \A q \in Pushers : q # p => pc'[q] = pc[q]
    BY DEF PushSize, Goto, TypeOK
  <1>2. TicketInv'
    BY <1>1, TicketQuiet DEF SizeInv
  <1>3. Counting' = Counting \ {p} /\ p \in Counting
    BY <1>1 DEF Counting
  <1>4. /\ IsFiniteSet(Counting') /\ Cardinality(Counting) \in Nat
        /\ Cardinality(Counting') = Cardinality(Counting) - 1
    BY <1>3, FS_RemoveElement, FS_CardinalityType DEF SizeInv
  <1>5. /\ Queued("urgent")' = Queued("urgent") /\ Queued("urgent") \in Nat
        /\ Queued("normal")' = Queued("normal") /\ Queued("normal") \in Nat
    BY <1>1, AheadFinite DEF Queued, Lanes, SizeInv
  <1>6. size = Queued("urgent") + Queued("normal") - Cardinality(Counting)
                 + (IF cpc = "popped" THEN 1 ELSE 0)
    BY DEF SizeInv, SizeAccounting, Counting
  <1>7. size' = Queued("urgent")' + Queued("normal")' - Cardinality(Counting')
                  + (IF cpc' = "popped" THEN 1 ELSE 0)
    BY <1>1, <1>4, <1>5, <1>6
  <1>8. SizeAccounting'
    BY <1>7 DEF SizeAccounting, Counting
  <1> QED BY <1>2, <1>4, <1>8 DEF SizeInv

LEMMA SizeTake ==
    ASSUME TypeOK, SizeInv, NEW l \in Lanes,
           FrontReady(lane[l]), TakeFront(l),
           cpc # "popped", cpc' = "popped",
           UNCHANGED <<size, pc, env, ticket>>
    PROVE  SizeInv'
  <1>1. /\ \A k \in Lanes : /\ lane'[k].published = lane[k].published
                            /\ k # l => lane'[k].first = lane[k].first
        /\ lane'[l].first = lane[l].first + 1
        /\ lane[l].first \in Nat /\ lane[l].published \in SUBSET Nat
    BY LaneTake, LaneFields DEF TypeOK
  <1>2. Ahead(l)' = Ahead(l) \ {lane[l].first} /\ lane[l].first \in Ahead(l)
    <2>1. 0 .. lane[l].first = (0 .. lane[l].first - 1) \cup {lane[l].first}
      BY <1>1
    <2>2. Ahead(l)' = lane[l].published \ (0 .. lane[l].first)
      BY <1>1 DEF Ahead
    <2> QED BY <1>1, <2>1, <2>2 DEF Ahead, FrontReady
  <1>3. IsFiniteSet(Ahead(l)) /\ Queued(l) = Cardinality(Ahead(l)) /\ Queued(l) \in Nat
    BY AheadFinite DEF SizeInv
  <1>4. Queued(l)' = Queued(l) - 1
    <2>1. Cardinality(Ahead(l) \ {lane[l].first}) = Cardinality(Ahead(l)) - 1
      BY <1>2, <1>3, FS_RemoveElement
    <2>2. Queued(l)' = Cardinality(Ahead(l)')
      BY DEF Queued, Ahead
    <2> QED BY <1>2, <1>3, <2>1, <2>2
  <1>5. \A k \in Lanes : k # l => Queued(k)' = Queued(k) /\ Queued(k) \in Nat
    BY <1>1, AheadFinite DEF Queued, SizeInv
  <1>6. Counting' = Counting /\ Cardinality(Counting) \in Nat
    BY FS_CardinalityType DEF Counting, SizeInv
  <1>7. size = Queued("urgent") + Queued("normal") - Cardinality(Counting)
    <2>1. Queued("urgent") \in Nat /\ Queued("normal") \in Nat
      BY AheadFinite DEF SizeInv, Lanes
    <2> QED BY <1>6, <2>1 DEF SizeInv, SizeAccounting, Counting
  <1>8. size' = Queued("urgent")' + Queued("normal")' - Cardinality(Counting') + 1
    <2>1. CASE l = "urgent"
      BY <1>3, <1>4, <1>5, <1>6, <1>7, <2>1 DEF Lanes
    <2>2. CASE l = "normal"
      BY <1>3, <1>4, <1>5, <1>6, <1>7, <2>2 DEF Lanes
    <2> QED BY <2>1, <2>2 DEF Lanes
  <1>9. SizeAccounting'
    BY <1>8 DEF SizeAccounting, Counting
  <1> QED BY <1>6, <1>9, TicketPop DEF SizeInv

(***************************************************************************)
(* Mailbox.Len is exact up to the calls in progress, for any number of     *)
(* pushers: it counts the published envelopes not yet popped, less the     *)
(* Pushes that have published and not yet added one, plus the Pop that has *)
(* taken and not yet subtracted one (mailbox.go:139-167, 193-203).         *)
(***************************************************************************)
THEOREM SizeExact == Spec => []SizeAccounting
  <1>1. Init => SizeInv
    <2> SUFFICES ASSUME Init PROVE SizeInv
      OBVIOUS
    <2>1. \A l \in Lanes : lane[l] = NewLane
      BY DEF Init
    <2>2. TicketInv
      BY <2>1 DEF Init, TicketInv, NewLane
    <2>3. Counting = {}
      BY DEF Init, Counting
    <2>4. Queued("urgent") = 0 /\ Queued("normal") = 0
      <3>1. \A l \in Lanes : lane[l].published = {}
        BY <2>1 DEF NewLane
      <3>2. \A l \in Lanes : lane[l].published \ (0 .. lane[l].first - 1) = {}
        BY <3>1
      <3> QED BY <3>2, FS_EmptySet DEF Queued, Lanes
    <2>5. SizeAccounting
      BY <2>3, <2>4, FS_EmptySet DEF Init, SizeAccounting, Counting
    <2> QED BY <2>2, <2>3, <2>5, FS_EmptySet DEF SizeInv
  <1>2. TypeOK /\ SizeInv /\ [Next]_vars => SizeInv'
    <2> SUFFICES ASSUME TypeOK, SizeInv, [Next]_vars PROVE SizeInv'
      OBVIOUS
    <2>1. lane \in [Lanes -> LaneStates] /\ pc \in [Pushers \cup Closers -> Steps]
          /\ ticket \in [Pushers -> Nat] /\ TicketInv
      BY DEF TypeOK, SizeInv
    <2>2. ASSUME lane' = lane, size' = size,
                 cpc' = "popped" <=> cpc = "popped",
                 \A p \in Pushers :
                   /\ pc'[p] = "publish" =>
                        pc[p] = "publish" /\ env'[p] = env[p] /\ ticket'[p] = ticket[p]
                   /\ pc'[p] = "size" <=> pc[p] = "size"
          PROVE  SizeInv'
      BY <2>1, <2>2, TicketQuiet, SizeQuiet
    <2>3. ASSUME NEW p \in Pushers, NEW l \in UsedLanes, NEW d \in Durable,
                 PushCall(p, l, d)
          PROVE  SizeInv'
      <3>1. \A q \in Pushers : /\ pc'[q] = "publish" => /\ pc[q] = "publish"
                                                        /\ env'[q] = env[q]
                                                        /\ ticket'[q] = ticket[q]
                               /\ pc'[q] = "size" <=> pc[q] = "size"
        BY <2>1, <2>3 DEF PushCall, Goto, TypeOK
      <3> QED BY <2>2, <2>3, <3>1 DEF PushCall
    <2>4. ASSUME NEW p \in Pushers,
                 \/ PushCheckClosed(p) \/ PushPersist(p)
                 \/ PushNotify(p) \/ PushBlocked(p)
          PROVE  SizeInv'
      <3>1. UNCHANGED <<lane, size, cpc, env, ticket>>
        BY <2>4 DEF PushCheckClosed, PushPersist, PushNotify, PushEnds, PushBlocked
      <3>2. \A q \in Pushers : /\ pc'[q] = "publish" => pc[q] = "publish"
                               /\ pc'[q] = "size" <=> pc[q] = "size"
        BY <2>1, <2>4 DEF PushCheckClosed, PushPersist, PushNotify, PushEnds,
                          PushBlocked, Goto, Return
      <3> QED BY <2>2, <3>1, <3>2
    <2>5. ASSUME NEW p \in Pushers, PushEnqueue(p) PROVE SizeInv'
      <3>1. env[p] \in Envelopes /\ env[p].lane \in Lanes
        BY <2>5, EnvLane DEF PushEnqueue, TypeOK
      <3>2. \A l \in Lanes : /\ lane'[l].published = lane[l].published
                            /\ lane'[l].first = lane[l].first
        BY <2>1, <2>5, <3>1, LaneDraw DEF PushEnqueue
      <3>3. \A q \in Pushers : pc'[q] = "size" <=> pc[q] = "size"
        BY <2>1, <2>5 DEF PushEnqueue, Goto, Return
      <3>4. size' = size /\ cpc' = cpc
        BY <2>5 DEF PushEnqueue
      <3> QED BY <2>1, <2>5, <3>2, <3>3, <3>4, TicketDraw, SizeQuiet
    <2>6. ASSUME NEW x \in Closers, CloseCall(x) \/ CloseStep(x)
          PROVE  SizeInv'
      <3>1. UNCHANGED <<lane, size, cpc, env, ticket>>
        BY <2>6 DEF CloseCall, CloseStep, CloseSelect, CloseChannel
      <3>2. \A q \in Pushers : pc'[q] = pc[q]
        BY <2>1, <2>6, MailboxAssumption
        DEF CloseCall, CloseStep, CloseSelect, CloseChannel, Goto
      <3> QED BY <2>2, <3>1, <3>2
    <2>7. ASSUME PopUrgent PROVE SizeInv'
      <3>1. CASE FrontReady(lane["urgent"])
        BY <2>7, <3>1, SizeTake DEF PopUrgent, Lanes
      <3>2. CASE ~FrontReady(lane["urgent"])
        BY <2>2, <2>7, <3>2 DEF PopUrgent
      <3> QED BY <3>1, <3>2
    <2>8. ASSUME PopNormal PROVE SizeInv'
      <3>1. CASE FrontReady(lane["normal"])
        BY <2>8, <3>1, SizeTake DEF PopNormal, Lanes
      <3>2. CASE ~FrontReady(lane["normal"])
        BY <2>2, <2>8, <3>2 DEF PopNormal
      <3> QED BY <3>1, <3>2
    <2>9. ASSUME PopSize PROVE SizeInv'
      <3>1. /\ cpc = "popped" /\ cpc' = "urgent" /\ size' = size - 1
            /\ UNCHANGED <<lane, pc, env, ticket>>
        BY <2>9 DEF PopSize, Popped
      <3>2. TicketInv'
        BY <2>1, <3>1, TicketQuiet
      <3>3. /\ Queued("urgent")' = Queued("urgent") /\ Queued("urgent") \in Nat
            /\ Queued("normal")' = Queued("normal") /\ Queued("normal") \in Nat
        BY <2>1, <3>1, AheadFinite DEF Queued, Lanes
      <3>4. Counting' = Counting /\ Cardinality(Counting) \in Nat
        BY <3>1, FS_CardinalityType DEF Counting, SizeInv
      <3>5. size = Queued("urgent") + Queued("normal") - Cardinality(Counting) + 1
        BY <3>1 DEF SizeInv, SizeAccounting, Counting
      <3>6. size' = Queued("urgent")' + Queued("normal")' - Cardinality(Counting')
                      + (IF cpc' = "popped" THEN 1 ELSE 0)
        BY <3>1, <3>3, <3>4, <3>5
      <3>7. SizeAccounting'
        BY <3>6 DEF SizeAccounting, Counting
      <3> QED BY <3>2, <3>4, <3>7 DEF SizeInv
    <2>10. ASSUME WaitNotify \/ WaitClosed PROVE SizeInv'
      BY <2>2, <2>10 DEF WaitNotify, WaitClosed
    <2>11. CASE UNCHANGED vars
      BY <2>2, <2>11 DEF vars
    <2> QED
      BY <2>3, <2>4, <2>5, <2>6, <2>7, <2>8, <2>9, <2>10, <2>11,
         SizePublish, SizePush
      DEF Next, PushStep, Consume
  <1>3. SizeInv => SizeAccounting
    BY DEF SizeInv
  <1> QED BY <1>1, <1>2, <1>3, TypeCorrect, PTL DEF Spec
=============================================================================
