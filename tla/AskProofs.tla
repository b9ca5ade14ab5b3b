----------------------------- MODULE AskProofs -----------------------------
(***************************************************************************)
(* Proofs about Ask, for any number of actors, callers, calls and tokens.  *)
(***************************************************************************)
EXTENDS Ask, FiniteSetTheorems, TLAPS

-----------------------------------------------------------------------------
(* Sequences, correlation IDs and the states of a loop *)

LEMMA SeqOps ==
    ASSUME NEW S, NEW s \in Seq(S)
    PROVE  /\ \A e \in S : Append(s, e) \in Seq(S)
           /\ s # <<>> => Head(s) \in S /\ Tail(s) \in Seq(S)
  OBVIOUS

LEMMA CidFields ==
    ASSUME NEW c \in Cids
    PROVE  /\ c[1] \in Callers /\ c[2] \in 1 .. MaxCalls
           /\ c = <<c[1], c[2]>>
           /\ Home(c[1]) \in Actors
  BY AskAssumption DEF Cids, Home

LEMMA LoopFields ==
    /\ \A c \in Cids \cup {NoCid}, l \in {"pop", "handle", "complete", "done"} :
         /\ LoopAt(l, c) \in LoopStates
         /\ LoopAt(l, c).at = l /\ LoopAt(l, c).cid = c
    /\ Popping \in LoopStates /\ Popping.at = "pop"
    /\ Done \in LoopStates /\ Done.at = "done"
  BY AskAssumption DEF Popping, Done, LoopAt, LoopStates

\* Context.Respond changes the place of the loop and counts, no more.
LEMMA RespondLoop ==
    ASSUME loop \in [Actors -> LoopStates], NEW a \in Actors, Respond(a)
    PROVE  /\ loop' \in [Actors -> LoopStates]
           /\ loop[a].at = "handle" /\ loop'[a].at \in {"handle", "push"}
           /\ loop'[a].cid = loop[a].cid
           /\ \A b \in Actors : b # a => loop'[b] = loop[b]
  <1>1. PICK l \in {"handle", "push"} :
          loop' = [loop EXCEPT ![a] = [loop[a] EXCEPT !.at = l, !.responds = @ + 1]]
    BY DEF Respond, LoopGoto
  <1>2. loop[a] \in LoopStates /\ loop[a].responds < MaxResponds
    BY DEF Respond
  <1>3. loop[a].responds + 1 \in 0 .. MaxResponds
    BY <1>2, AskAssumption DEF LoopStates
  <1>4. [loop[a] EXCEPT !.at = l, !.responds = @ + 1] \in LoopStates
    BY <1>2, <1>3 DEF LoopStates
  <1> QED BY <1>1, <1>2, <1>4 DEF Respond, HandlerRuns, LoopStates

LEMMA PushLoop ==
    ASSUME loop \in [Actors -> LoopStates], NEW a \in Actors, PushResponse(a)
    PROVE  /\ loop' \in [Actors -> LoopStates]
           /\ loop[a].at = "push" /\ loop'[a].at = "handle"
           /\ loop'[a].cid = loop[a].cid
           /\ \A b \in Actors : b # a => loop'[b] = loop[b]
  <1>1. loop' = [loop EXCEPT ![a] = [loop[a] EXCEPT !.at = "handle"]]
    BY DEF PushResponse, LoopGoto
  <1>2. loop[a] \in LoopStates
    OBVIOUS
  <1>3. [loop[a] EXCEPT !.at = "handle"] \in LoopStates
    BY <1>2 DEF LoopStates
  <1> QED BY <1>1, <1>2, <1>3 DEF PushResponse, LoopStates

\* What an enqueue leaves in a bounded lane, and a dequeue.
LEMMA LaneOps ==
    ASSUME NEW q \in Seq(Cids), Len(q) <= Capacity, NEW c \in Cids
    PROVE  /\ Enqueue(q, c) \in Seq(Cids) /\ Len(Enqueue(q, c)) <= Capacity
           /\ q # <<>> => Len(Tail(q)) <= Capacity
  BY AskAssumption DEF Enqueue

\* A call in progress: its correlation ID is in range.
LEMMA CallCid ==
    ASSUME TypeOK, CallInv, NEW x \in Callers, pc[x] # "idle"
    PROVE  cid[x] = <<x, calls[x]>> /\ cid[x] \in Cids /\ calls[x] \in 1 .. MaxCalls
  <1>1. cid[x] = <<x, calls[x]>> /\ calls[x] # 0 /\ calls[x] \in 0 .. MaxCalls
    BY DEF TypeOK, CallInv
  <1>2. calls[x] \in 1 .. MaxCalls
    BY <1>1, AskAssumption
  <1>3. <<x, calls[x]>> \in Cids
    BY <1>2 DEF Cids
  <1> QED BY <1>1, <1>2, <1>3

-----------------------------------------------------------------------------
(* Type correctness *)

LEMMA TypeStep == TypeOK /\ CallInv /\ [Next]_vars => TypeOK'
  <1> SUFFICES ASSUME TypeOK, CallInv, [Next]_vars PROVE TypeOK'
    OBVIOUS
  <1> USE AskAssumption DEF TypeOK, Goto, futures, callers
  <1>1. ASSUME NEW x \in Callers, NEW m \in Modes[x], Call(x, m) PROVE TypeOK'
    <2>1. calls[x] + 1 \in 1 .. MaxCalls
      BY <1>1 DEF Call, MayCall
    <2>2. <<x, calls[x] + 1>> \in Cids
      BY <2>1 DEF Cids
    <2>3. calls' \in [Callers -> 0 .. MaxCalls] /\ cid' \in [Callers -> Cids \cup {NoCid}]
      BY <1>1, <2>1, <2>2 DEF Call
    <2>4. /\ pc' \in [Callers -> {"idle", "token", "track", "send", "push", "await",
                                  "release"}]
          /\ mode' \in [Callers -> {"sync", "degrade", "async"}]
      BY <1>1 DEF Call, Callers
    <2> QED BY <1>1, <2>3, <2>4 DEF Call
  <1>2. ASSUME NEW x \in Callers, TakeToken(x) PROVE TypeOK'
    BY <1>2 DEF TakeToken
  <1>3. ASSUME NEW x \in Callers, DegradeToAsync(x) PROVE TypeOK'
    BY <1>3 DEF DegradeToAsync
  <1>4. ASSUME NEW x \in Callers, TrackPending(x) PROVE TypeOK'
    <2>1. cid[x] \in Cids
      BY <1>4, CallCid DEF TrackPending
    <2>2. Timers[x] \subseteq {"armed", "never"}
      BY DEF Callers
    <2>3. timer' \in [Cids -> {"off", "never", "armed", "took", "over"}]
      BY <1>4, <2>2 DEF TrackPending
    <2> QED BY <1>4, <2>1, <2>3 DEF TrackPending
  <1>5. ASSUME NEW x \in Callers, NEW a \in Asked, SendRequest(x, a)
        PROVE  TypeOK'
    <2>1. /\ pc' \in [Callers -> {"idle", "token", "track", "send", "push",
                                  "await", "release"}]
          /\ mode' \in [Callers -> {"sync", "degrade", "async"}]
      BY <1>5 DEF SendRequest, Sent
    <2>2. target' \in [Callers -> Actors]
      BY <1>5 DEF SendRequest
    <2> QED BY <1>5, <2>1, <2>2 DEF SendRequest
  <1>6. ASSUME NEW x \in Callers, PushRequest(x) PROVE TypeOK'
    <2>1. cid[x] \in Cids /\ target[x] \in Actors
      BY <1>6, CallCid DEF PushRequest, EnqueueRequest
    <2>2. /\ Enqueue(requests[target[x]], cid[x]) \in Seq(Cids)
          /\ Len(Enqueue(requests[target[x]], cid[x])) <= Capacity
      BY <2>1, LaneOps
    <2>3. /\ requests' \in [Actors -> Seq(Cids)]
          /\ \A b \in Actors : Len(requests'[b]) <= Capacity
      BY <1>6, <2>1, <2>2 DEF PushRequest, EnqueueRequest
    <2>4. /\ pc' \in [Callers -> {"idle", "token", "track", "send", "push",
                                  "await", "release"}]
          /\ mode' \in [Callers -> {"sync", "degrade", "async"}]
      BY <1>6 DEF PushRequest, EnqueueRequest, Sent
    <2> QED BY <1>6, <2>3, <2>4 DEF PushRequest, EnqueueRequest
  <1>7. ASSUME NEW x \in Callers, Await(x) PROVE TypeOK'
    <2>1. cid[x] \in Cids
      BY <1>7, CallCid DEF Await
    <2>2. ret' \in [Callers -> {"none", "value", "timeout"}]
      BY <1>7, <2>1 DEF Await
    <2>3. pc' \in [Callers -> {"idle", "token", "track", "send", "push", "await",
                               "release"}]
      BY <1>7 DEF Await
    <2> QED BY <1>7, <2>2, <2>3 DEF Await
  <1>8. ASSUME NEW x \in Callers, ReleaseWaitToken(x) PROVE TypeOK'
    BY <1>8 DEF ReleaseWaitToken, Release
  <1>9. ASSUME NEW c \in Cids, TimerFires(c) PROVE TypeOK'
    BY <1>9 DEF TimerFires, Fire
  <1>10. ASSUME NEW c \in Cids, TimerCompletes(c) PROVE TypeOK'
    BY <1>10 DEF TimerCompletes, Complete
  <1>11. ASSUME NEW a \in Actors, HandleResponse(a) PROVE TypeOK'
    <2>1. /\ Head(responses[a]) \in Cids /\ Tail(responses[a]) \in Seq(Cids)
          /\ Len(Tail(responses[a])) <= Capacity
      BY <1>11, SeqOps, LaneOps DEF HandleResponse, PopResponse
    <2>2. /\ responses' \in [Actors -> Seq(Cids)]
          /\ \A b \in Actors : Len(responses'[b]) <= Capacity
      BY <1>11, <2>1 DEF HandleResponse, PopResponse
    <2>3. loop' \in [Actors -> LoopStates]
      <3>1. LoopAt("complete", Head(responses[a])) \in LoopStates
        BY <2>1, LoopFields
      <3> QED BY <1>11, <3>1 DEF HandleResponse, PopResponse, LoopGoto
    <2> QED BY <1>11, <2>2, <2>3 DEF HandleResponse, PopResponse
  <1>12. ASSUME NEW a \in Actors, CompleteFuture(a) PROVE TypeOK'
    <2>1. loop[a].cid \in Cids
      BY <1>12 DEF CompleteFuture, CallInv
    <2>2. loop' \in [Actors -> LoopStates]
      BY <1>12, LoopFields DEF CompleteFuture, LoopGoto
    <2> QED BY <1>12, <2>1, <2>2, SMTT(40) DEF CompleteFuture, Complete
  <1>13. ASSUME NEW a \in Actors, HandleRequest(a) PROVE TypeOK'
    <2>1. /\ Head(requests[a]) \in Cids /\ Tail(requests[a]) \in Seq(Cids)
          /\ Len(Tail(requests[a])) <= Capacity
      BY <1>13, SeqOps, LaneOps DEF HandleRequest
    <2>2. /\ requests' \in [Actors -> Seq(Cids)]
          /\ \A b \in Actors : Len(requests'[b]) <= Capacity
      BY <1>13, <2>1 DEF HandleRequest
    <2>3. loop' \in [Actors -> LoopStates]
      BY <1>13, <2>1, LoopFields DEF HandleRequest, LoopGoto
    <2> QED BY <1>13, <2>2, <2>3 DEF HandleRequest
  <1>14. ASSUME NEW a \in Actors, Respond(a) PROVE TypeOK'
    <2>1. loop' \in [Actors -> LoopStates]
      BY <1>14, RespondLoop
    <2> QED BY <1>14, <2>1 DEF Respond
  <1>15. ASSUME NEW a \in Actors, PushResponse(a) PROVE TypeOK'
    <2>1. loop[a].cid \in Cids
      BY <1>15 DEF PushResponse, CallInv
    <2>2. ReplyTo(a) \in Actors
      BY <2>1, CidFields DEF ReplyTo
    <2>3. /\ Enqueue(responses[ReplyTo(a)], loop[a].cid) \in Seq(Cids)
          /\ Len(Enqueue(responses[ReplyTo(a)], loop[a].cid)) <= Capacity
      BY <2>1, <2>2, LaneOps
    <2>4. /\ responses' \in [Actors -> Seq(Cids)]
          /\ \A b \in Actors : Len(responses'[b]) <= Capacity
      BY <1>15, <2>2, <2>3 DEF PushResponse
    <2>5. loop' \in [Actors -> LoopStates]
      BY <1>15, PushLoop
    <2> QED BY <1>15, <2>4, <2>5 DEF PushResponse
  <1>16. ASSUME NEW a \in Actors, HandlerReturns(a) \/ LoopEnds(a) PROVE TypeOK'
    <2>1. loop' \in [Actors -> LoopStates]
      <3>1. loop' = [loop EXCEPT ![a] = Popping] \/ loop' = [loop EXCEPT ![a] = Done]
        BY <1>16 DEF HandlerReturns, LoopEnds, LoopGoto
      <3>2. Popping \in LoopStates /\ Done \in LoopStates
        BY LoopFields
      <3> QED BY <3>1, <3>2
    <2> QED BY <1>16, <2>1 DEF HandlerReturns, LoopEnds
  <1>17. ASSUME NEW a \in Actors, Close(a) PROVE TypeOK'
    BY <1>17 DEF Close
  <1>18. CASE UNCHANGED vars
    BY <1>18 DEF vars
  <1> QED
    BY <1>1, <1>2, <1>3, <1>4, <1>5, <1>6, <1>7, <1>8, <1>9, <1>10, <1>11,
       <1>12, <1>13, <1>14, <1>15, <1>16, <1>17, <1>18
    DEF Next, CallStep, TimerStep, LoopStep

-----------------------------------------------------------------------------
(* Calls, their correlation IDs and their loops *)

\* A step that starts no call, tracks nothing and enters no loop state.
LEMMA CallQuiet ==
    ASSUME CallInv, UNCHANGED <<cid, calls>>,
           \A x \in Callers :
             /\ pc'[x] \in {"token", "track"} => pc[x] \in {"token", "track"}
             /\ pc'[x] # "idle" => pc[x] # "idle"
             /\ pc'[x] \in {"await", "release"} => mode'[x] = "sync",
           \A c \in Cids : Tracked(c)' => Tracked(c),
           \A a \in Actors : loop'[a].at \notin {"pop", "done"} => loop'[a].cid \in Cids
    PROVE  CallInv'
  <1>1. \A x \in Callers, n \in 1 .. MaxCalls : <<x, n>> \in Cids
    BY DEF Cids
  <1> QED BY <1>1 DEF CallInv

LEMMA CallInvStep == TypeOK /\ CallInv /\ [Next]_vars => CallInv'
  <1> SUFFICES ASSUME TypeOK, CallInv, [Next]_vars PROVE CallInv'
    OBVIOUS
  <1>0. /\ pc \in [Callers -> {"idle", "token", "track", "send", "push", "await",
                               "release"}]
        /\ mode \in [Callers -> {"sync", "degrade", "async"}]
        /\ calls \in [Callers -> 0 .. MaxCalls]
        /\ cid \in [Callers -> Cids \cup {NoCid}]
        /\ timer \in [Cids -> {"off", "never", "armed", "took", "over"}]
        /\ loop \in [Actors -> LoopStates]
    BY DEF TypeOK
  <1>1. /\ \A x \in Callers : pc[x] \in {"await", "release"} => mode[x] = "sync"
        /\ \A a \in Actors : loop[a].at \notin {"pop", "done"} => loop[a].cid \in Cids
    BY DEF CallInv
  <1> USE AskAssumption DEF Goto, LoopGoto, futures, callers
  <1>2. ASSUME NEW x \in Callers, NEW m \in Modes[x], Call(x, m) PROVE CallInv'
    <2>1. /\ UNCHANGED <<timer, loop>>
          /\ pc'[x] \in {"token", "track"}
          /\ calls'[x] = calls[x] + 1 /\ calls[x] + 1 \in 1 .. MaxCalls
          /\ cid'[x] = <<x, calls[x] + 1>>
          /\ \A y \in Callers : y # x => /\ pc'[y] = pc[y] /\ mode'[y] = mode[y]
                                        /\ calls'[y] = calls[y] /\ cid'[y] = cid[y]
      BY <1>0, <1>2 DEF Call, MayCall
    <2>2. \A n \in 1 .. MaxCalls : Tracked(<<x, n>>) => n <= calls[x]
      BY DEF CallInv
    <2>3. calls[x] \in Nat
      BY <1>0
    <2>4. \A n \in 1 .. MaxCalls : Tracked(<<x, n>>)' =>
            n <= calls'[x] /\ n # calls'[x]
      BY <2>1, <2>2, <2>3 DEF Tracked
    <2>5. \A y \in Callers :
            /\ pc'[y] # "idle" => cid'[y] = <<y, calls'[y]>> /\ calls'[y] # 0
            /\ pc'[y] \in {"await", "release"} => mode'[y] = "sync"
      BY <2>1, <2>3 DEF CallInv
    <2>6. \A y \in Callers, n \in 1 .. MaxCalls : Tracked(<<y, n>>)' =>
            n <= calls'[y] /\ (pc'[y] \in {"token", "track"} => n # calls'[y])
      <3> SUFFICES ASSUME NEW y \in Callers, y # x, NEW n \in 1 .. MaxCalls,
                          Tracked(<<y, n>>)'
                   PROVE  /\ n <= calls'[y]
                          /\ pc'[y] \in {"token", "track"} => n # calls'[y]
        BY <2>4
      <3>1. Tracked(<<y, n>>)
        BY <2>1 DEF Tracked
      <3> QED BY <2>1, <3>1 DEF CallInv
    <2> QED BY <1>1, <2>1, <2>5, <2>6 DEF CallInv
  <1>3. ASSUME NEW x \in Callers, TakeToken(x) \/ DegradeToAsync(x)
        PROVE  CallInv'
    <2>1. /\ UNCHANGED <<cid, calls, timer, loop>>
          /\ pc[x] = "token" /\ pc'[x] = "track"
          /\ \A y \in Callers : y # x => pc'[y] = pc[y] /\ mode'[y] = mode[y]
      BY <1>0, <1>3 DEF TakeToken, DegradeToAsync
    <2> QED BY <1>1, <2>1, CallQuiet DEF Tracked
  <1>4. ASSUME NEW x \in Callers, TrackPending(x) PROVE CallInv'
    <2>1. /\ cid[x] = <<x, calls[x]>> /\ cid[x] \in Cids
          /\ calls[x] \in 1 .. MaxCalls
      BY <1>4, CallCid DEF TrackPending
    <2>2. /\ UNCHANGED <<cid, calls, mode, loop>>
          /\ pc[x] = "track" /\ pc'[x] = "send"
          /\ \A y \in Callers : y # x => pc'[y] = pc[y]
          /\ \A c \in Cids : c # cid[x] => timer'[c] = timer[c]
      BY <1>0, <1>4, <2>1 DEF TrackPending
    <2>3. \A y \in Callers, n \in 1 .. MaxCalls : Tracked(<<y, n>>)' =>
            n <= calls'[y] /\ (pc'[y] \in {"token", "track"} => n # calls'[y])
      <3> SUFFICES ASSUME NEW y \in Callers, NEW n \in 1 .. MaxCalls,
                          Tracked(<<y, n>>)'
                   PROVE  /\ n <= calls[y]
                          /\ pc'[y] \in {"token", "track"} => n # calls[y]
        BY <2>2
      <3>1. CASE <<y, n>> = cid[x]
        BY <2>1, <2>2, <3>1
      <3>2. CASE <<y, n>> # cid[x]
        <4>1. Tracked(<<y, n>>)
          BY <2>2, <3>2 DEF Tracked, Cids
        <4> QED BY <2>2, <4>1 DEF CallInv
      <3> QED BY <3>1, <3>2
    <2>4. \A y \in Callers :
            /\ pc'[y] # "idle" => cid'[y] = <<y, calls'[y]>> /\ calls'[y] # 0
            /\ pc'[y] \in {"await", "release"} => mode'[y] = "sync"
      BY <2>1, <2>2 DEF CallInv
    <2> QED BY <1>1, <2>2, <2>3, <2>4 DEF CallInv
  <1>5. ASSUME NEW x \in Callers,
               (\E a \in Asked : SendRequest(x, a)) \/ PushRequest(x)
        PROVE  CallInv'
    <2>1. /\ UNCHANGED <<cid, calls, timer, loop>>
          /\ pc[x] \in {"send", "push"} /\ pc'[x] \in {"push", "await", "idle"}
          /\ pc'[x] = "await" => mode'[x] = "sync"
          /\ \A y \in Callers : y # x => pc'[y] = pc[y] /\ mode'[y] = mode[y]
      BY <1>0, <1>5 DEF SendRequest, PushRequest, EnqueueRequest, Sent
    <2> QED BY <1>1, <2>1, CallQuiet DEF Tracked
  <1>6. ASSUME NEW x \in Callers, Await(x) \/ ReleaseWaitToken(x)
        PROVE  CallInv'
    <2>1. /\ UNCHANGED <<cid, calls, mode, timer, loop>>
          /\ pc[x] \in {"await", "release"} /\ pc'[x] \in {"release", "idle"}
          /\ \A y \in Callers : y # x => pc'[y] = pc[y]
      BY <1>0, <1>6 DEF Await, ReleaseWaitToken, Release
    <2> QED BY <1>1, <2>1, CallQuiet DEF Tracked
  <1>7. ASSUME NEW c \in Cids, TimerStep(c) PROVE CallInv'
    <2>1. /\ UNCHANGED <<cid, calls, mode, pc, loop>>
          /\ \A d \in Cids : Tracked(d)' => Tracked(d)
      BY <1>0, <1>7 DEF TimerStep, TimerFires, Fire, TimerCompletes, Tracked
    <2> QED BY <1>1, <2>1, CallQuiet
  <1>8. ASSUME NEW a \in Actors, LoopStep(a) \/ Close(a) PROVE CallInv'
    <2>1. UNCHANGED <<cid, calls, mode, pc, timer>>
      BY <1>8 DEF LoopStep, HandleResponse, PopResponse, CompleteFuture,
                  HandleRequest, Respond, PushResponse, HandlerReturns,
                  LoopEnds, Close
    <2>2. \A b \in Actors : loop'[b].at \notin {"pop", "done"} => loop'[b].cid \in Cids
      <3>1. CASE HandleResponse(a)
        <4>1. Head(responses[a]) \in Cids
          BY <3>1, SeqOps DEF HandleResponse, PopResponse, TypeOK
        <4>2. LoopAt("complete", Head(responses[a])).cid \in Cids
          BY <4>1, LoopFields
        <4> QED BY <1>0, <1>1, <3>1, <4>2 DEF HandleResponse, PopResponse
      <3>2. CASE HandleRequest(a)
        <4>1. Head(requests[a]) \in Cids
          BY <3>2, SeqOps DEF HandleRequest, TypeOK
        <4>2. LoopAt("handle", Head(requests[a])).cid \in Cids
          BY <4>1, LoopFields
        <4> QED BY <1>0, <1>1, <3>2, <4>2 DEF HandleRequest
      <3>3. CASE CompleteFuture(a) \/ HandlerReturns(a) \/ LoopEnds(a)
        <4>1. loop' = [loop EXCEPT ![a] = Popping] \/ loop' = [loop EXCEPT ![a] = Done]
          BY <3>3 DEF CompleteFuture, HandlerReturns, LoopEnds
        <4> QED BY <1>0, <1>1, <4>1, LoopFields
      <3>4. CASE Respond(a)
        BY <1>0, <1>1, <3>4, RespondLoop
      <3>5. CASE PushResponse(a)
        BY <1>0, <1>1, <3>5, PushLoop
      <3>6. CASE Close(a)
        BY <1>1, <3>6 DEF Close
      <3> QED BY <1>8, <3>1, <3>2, <3>3, <3>4, <3>5, <3>6 DEF LoopStep
    <2> QED BY <1>1, <2>1, <2>2, CallQuiet DEF Tracked
  <1>9. CASE UNCHANGED vars
    <2>1. UNCHANGED <<cid, calls, mode, pc, timer, loop>>
      BY <1>9 DEF vars
    <2> QED BY <1>1, <2>1, CallQuiet DEF Tracked
  <1> QED
    BY <1>2, <1>3, <1>4, <1>5, <1>6, <1>7, <1>8, <1>9 DEF Next, CallStep

-----------------------------------------------------------------------------
(* One owner *)

\* A step that leaves the table, the timers, the loops and the futures alone.
LEMMA OwnerQuiet ==
    ASSUME OwnerInv, UNCHANGED <<pending, timer, completed>>,
           \A a \in Actors, c \in Cids : Completes(a, c)' <=> Completes(a, c)
    PROVE  OwnerInv'
  BY DEF OwnerInv, Tracked

LEMMA OwnerTrack ==
    ASSUME TypeOK, CallInv, OwnerInv, NEW x \in Callers, TrackPending(x)
    PROVE  OwnerInv'
  <1>1. /\ cid[x] = <<x, calls[x]>> /\ cid[x] \in Cids
        /\ calls[x] \in 1 .. MaxCalls
    BY CallCid DEF TrackPending
  <1>2. ~Tracked(cid[x])
    BY <1>1 DEF TrackPending, CallInv
  <1>3. /\ timer'[cid[x]] \in {"armed", "never"}
        /\ pending' = pending \cup {cid[x]}
        /\ \A c \in Cids : c # cid[x] => timer'[c] = timer[c]
        /\ completed' = completed /\ loop' = loop
    BY <1>1, AskAssumption DEF TrackPending, TypeOK, Callers
  <1>4. \A a \in Actors, c \in Cids : Completes(a, c)' <=> Completes(a, c)
    BY <1>3 DEF Completes
  <1>5. /\ completed[cid[x]] = 0
        /\ \A a \in Actors : ~Completes(a, cid[x])
    BY <1>1, <1>2 DEF OwnerInv, Tracked
  <1> QED BY <1>1, <1>3, <1>4, <1>5 DEF OwnerInv, Tracked

LEMMA OwnerTimerFires ==
    ASSUME TypeOK, OwnerInv, NEW c \in Cids, TimerFires(c)
    PROVE  OwnerInv'
  <1>1. /\ timer[c] = "armed" /\ pending' = pending \ {c}
        /\ timer'[c] = (IF c \in pending THEN "took" ELSE "over")
        /\ \A d \in Cids : d # c => timer'[d] = timer[d]
        /\ completed' = completed /\ loop' = loop
    BY DEF TimerFires, Fire, TypeOK
  <1>2. \A a \in Actors, d \in Cids : Completes(a, d)' <=> Completes(a, d)
    BY <1>1 DEF Completes
  <1> QED BY <1>1, <1>2 DEF OwnerInv, Tracked

LEMMA OwnerTimerCompletes ==
    ASSUME TypeOK, OwnerInv, NEW c \in Cids, TimerCompletes(c)
    PROVE  OwnerInv'
  <1>1. /\ timer[c] = "took" /\ timer'[c] = "over"
        /\ \A d \in Cids : d # c => timer'[d] = timer[d] /\ completed'[d] = completed[d]
        /\ completed'[c] = completed[c] + 1
        /\ pending' = pending /\ loop' = loop
    BY DEF TimerCompletes, Complete, TypeOK
  <1>2. \A a \in Actors, d \in Cids : Completes(a, d)' <=> Completes(a, d)
    BY <1>1 DEF Completes
  <1>3. /\ completed[c] = 0 /\ c \notin pending
        /\ \A a \in Actors : ~Completes(a, c)
    BY <1>1 DEF OwnerInv
  <1>4. completed'[c] = 1
    BY <1>1, <1>3
  <1> QED BY <1>1, <1>2, <1>3, <1>4 DEF OwnerInv, Tracked

LEMMA OwnerHandleResponse ==
    ASSUME TypeOK, OwnerInv, NEW a \in Actors, HandleResponse(a)
    PROVE  OwnerInv'
  <1>0. PICK c \in Cids : c = Head(responses[a])
    BY SeqOps DEF HandleResponse, PopResponse, TypeOK
  <1>1. /\ loop[a].at = "pop" /\ pending' = pending \ {c}
        /\ UNCHANGED <<timer, completed>>
    BY <1>0 DEF HandleResponse, PopResponse
  <1>2. CASE c \in pending
    <2>1. /\ loop'[a].at = "complete" /\ loop'[a].cid = c
          /\ \A b \in Actors : b # a => loop'[b] = loop[b]
      <3>1. loop' = [loop EXCEPT ![a] = LoopAt("complete", c)]
        BY <1>0, <1>2 DEF HandleResponse, PopResponse, LoopGoto
      <3> QED BY <3>1, LoopFields DEF TypeOK
    <2>2. /\ \A d \in Cids : Completes(a, d)' <=> d = c
          /\ \A b \in Actors, d \in Cids : b # a =>
               (Completes(b, d)' <=> Completes(b, d))
          /\ \A d \in Cids : ~Completes(a, d)
      BY <1>1, <2>1 DEF Completes
    <2>3. /\ timer[c] \in {"armed", "never"} /\ completed[c] = 0
          /\ \A b \in Actors : ~Completes(b, c)
      BY <1>2 DEF OwnerInv
    <2> QED BY <1>1, <2>2, <2>3 DEF OwnerInv, Tracked
  <1>3. CASE c \notin pending
    <2>1. pending' = pending /\ loop' = loop
      BY <1>0, <1>1, <1>3 DEF HandleResponse, PopResponse
    <2> QED BY <1>1, <2>1, OwnerQuiet DEF Completes
  <1> QED BY <1>2, <1>3

LEMMA OwnerCompleteFuture ==
    ASSUME TypeOK, CallInv, OwnerInv, NEW a \in Actors, CompleteFuture(a)
    PROVE  OwnerInv'
  <1>0. PICK c \in Cids : c = loop[a].cid
    BY DEF CompleteFuture, CallInv
  <1>1. /\ Completes(a, c) /\ UNCHANGED <<pending, timer>>
        /\ completed'[c] = completed[c] + 1
        /\ \A d \in Cids : d # c => completed'[d] = completed[d]
    BY <1>0 DEF CompleteFuture, Complete, Completes, TypeOK
  <1>2. /\ \A d \in Cids : ~Completes(a, d)'
        /\ \A b \in Actors, d \in Cids : b # a =>
             (Completes(b, d)' <=> Completes(b, d))
        /\ \A d \in Cids : Completes(a, d) => d = c
    <2>1. loop' = [loop EXCEPT ![a] = Popping]
      BY DEF CompleteFuture, LoopGoto
    <2>2. loop'[a].at = "pop" /\ \A b \in Actors : b # a => loop'[b] = loop[b]
      BY <2>1, LoopFields DEF TypeOK
    <2> QED BY <1>0, <2>2 DEF Completes
  <1>3. /\ c \notin pending /\ timer[c] \notin {"off", "took"} /\ completed[c] = 0
        /\ \A b \in Actors : Completes(b, c) => b = a
    BY <1>1 DEF OwnerInv
  <1>4. completed'[c] = 1
    BY <1>1, <1>3
  <1> QED BY <1>1, <1>2, <1>3, <1>4 DEF OwnerInv, Tracked

LEMMA OwnerStep == TypeOK /\ CallInv /\ OwnerInv /\ [Next]_vars => OwnerInv'
  <1> SUFFICES ASSUME TypeOK, CallInv, OwnerInv, [Next]_vars PROVE OwnerInv'
    OBVIOUS
  <1>0. loop \in [Actors -> LoopStates]
    BY DEF TypeOK
  <1>1. ASSUME NEW x \in Callers,
               \/ \E m \in Modes[x] : Call(x, m)
               \/ TakeToken(x) \/ DegradeToAsync(x)
               \/ (\E a \in Asked : SendRequest(x, a)) \/ PushRequest(x)
               \/ Await(x) \/ ReleaseWaitToken(x)
        PROVE  OwnerInv'
    <2>1. UNCHANGED <<pending, timer, completed, loop>>
      BY <1>1 DEF Call, TakeToken, DegradeToAsync, SendRequest, PushRequest,
                  EnqueueRequest, Await, ReleaseWaitToken, Release, futures
    <2> QED BY <2>1, OwnerQuiet DEF Completes
  <1>2. ASSUME NEW a \in Actors, HandleRequest(a) PROVE OwnerInv'
    <2>1. Head(requests[a]) \in Cids
      BY <1>2, SeqOps DEF HandleRequest, TypeOK
    <2>2. LoopAt("handle", Head(requests[a])).at = "handle"
      BY <2>1, LoopFields
    <2>3. \A b \in Actors, c \in Cids : Completes(b, c)' <=> Completes(b, c)
      BY <1>0, <1>2, <2>2 DEF HandleRequest, LoopGoto, Completes
    <2> QED BY <1>2, <2>3, OwnerQuiet DEF HandleRequest, futures
  <1>3. ASSUME NEW a \in Actors, Respond(a) \/ PushResponse(a) PROVE OwnerInv'
    <2>1. /\ loop[a].at \in {"handle", "push"} /\ loop'[a].at \in {"handle", "push"}
          /\ \A b \in Actors : b # a => loop'[b] = loop[b]
      BY <1>0, <1>3, RespondLoop, PushLoop
    <2>2. \A b \in Actors, c \in Cids : Completes(b, c)' <=> Completes(b, c)
      BY <2>1 DEF Completes
    <2> QED BY <1>3, <2>2, OwnerQuiet DEF Respond, PushResponse, futures
  <1>4. ASSUME NEW a \in Actors, HandlerReturns(a) \/ LoopEnds(a) PROVE OwnerInv'
    <2>1. /\ loop[a].at \in {"handle", "pop"} /\ loop'[a].at \in {"pop", "done"}
          /\ \A b \in Actors : b # a => loop'[b] = loop[b]
      BY <1>0, <1>4, LoopFields
      DEF HandlerReturns, LoopEnds, HandlerRuns, LoopGoto
    <2>2. \A b \in Actors, c \in Cids : Completes(b, c)' <=> Completes(b, c)
      BY <2>1 DEF Completes
    <2> QED BY <1>4, <2>2, OwnerQuiet DEF HandlerReturns, LoopEnds, futures
  <1>5. ASSUME NEW a \in Actors, Close(a) PROVE OwnerInv'
    BY <1>5, OwnerQuiet DEF Close, Completes, futures
  <1>6. CASE UNCHANGED vars
    BY <1>6, OwnerQuiet DEF vars, futures, Completes
  <1> QED
    BY <1>1, <1>2, <1>3, <1>4, <1>5, <1>6, OwnerTrack, OwnerTimerFires,
       OwnerTimerCompletes, OwnerHandleResponse, OwnerCompleteFuture
    DEF Next, CallStep, TimerStep, LoopStep

-----------------------------------------------------------------------------
(* One owner *)

\* The four kinds of owner exclude each other, so a tracked call has one.
LEMMA OwnerCount == TypeOK /\ OwnerInv => OneOwner
  <1> SUFFICES ASSUME TypeOK, OwnerInv, NEW c \in Cids
               PROVE  Cardinality(Owners(c)) = IF Tracked(c) THEN 1 ELSE 0
    BY DEF OneOwner
  <1> DEFINE L == {b \in Actors : loop[b].at = "complete" /\ loop[b].cid = c}
  <1>1. \A b \in Actors : b \in L <=> Completes(b, c)
    BY DEF Completes
  <1>2. \A k \in Int : /\ completed[c] = 0 => k \notin 1 .. completed[c]
                      /\ completed[c] = 1 => (k \in 1 .. completed[c] <=> k = 1)
    OBVIOUS
  <1>3. CASE ~Tracked(c)
    <2>1. /\ c \notin pending /\ timer[c] # "took" /\ completed[c] = 0
          /\ \A b \in Actors : ~Completes(b, c)
      BY <1>3 DEF OwnerInv, Tracked
    <2>2. L = {} /\ 1 .. completed[c] = {}
      BY <1>1, <2>1
    <2>3. Owners(c) = {}
      BY <2>1, <2>2 DEF Owners
    <2> QED BY <1>3, <2>3, FS_EmptySet
  <1>4. CASE c \in pending
    <2>1. /\ Tracked(c) /\ timer[c] # "took" /\ completed[c] = 0
          /\ \A b \in Actors : ~Completes(b, c)
      BY <1>4 DEF OwnerInv, Tracked
    <2>2. L = {} /\ 1 .. completed[c] = {}
      BY <1>1, <2>1
    <2>3. Owners(c) = {<<"table", c>>}
      BY <1>4, <2>1, <2>2 DEF Owners
    <2> QED BY <2>1, <2>3, FS_Singleton
  <1>5. CASE timer[c] = "took"
    <2>1. /\ Tracked(c) /\ c \notin pending /\ completed[c] = 0
          /\ \A b \in Actors : ~Completes(b, c)
      BY <1>5 DEF OwnerInv, Tracked
    <2>2. L = {} /\ 1 .. completed[c] = {}
      BY <1>1, <2>1
    <2>3. Owners(c) = {<<"timer", c>>}
      BY <1>5, <2>1, <2>2 DEF Owners
    <2> QED BY <2>1, <2>3, FS_Singleton
  <1>6. CASE Tracked(c) /\ completed[c] = 1
    <2>1. /\ c \notin pending /\ timer[c] # "took"
          /\ \A b \in Actors : ~Completes(b, c)
      BY <1>6 DEF OwnerInv
    <2>2. L = {} /\ 1 .. completed[c] = {1}
      BY <1>1, <1>6, <2>1
    <2>3. Owners(c) = {<<"done", 1>>}
      BY <2>1, <2>2 DEF Owners
    <2> QED BY <1>6, <2>3, FS_Singleton
  <1>7. ASSUME NEW a \in Actors, Completes(a, c)
        PROVE  Cardinality(Owners(c)) = IF Tracked(c) THEN 1 ELSE 0
    <2>1. /\ c \notin pending /\ timer[c] \notin {"off", "took"} /\ completed[c] = 0
          /\ \A b \in Actors : Completes(b, c) => b = a
      BY <1>7 DEF OwnerInv
    <2>2. L = {a} /\ 1 .. completed[c] = {}
      BY <1>1, <1>7, <2>1
    <2>3. Owners(c) = {<<"loop", a>>}
      BY <2>1, <2>2 DEF Owners
    <2> QED BY <2>1, <2>3, FS_Singleton DEF Tracked
  <1> QED BY <1>3, <1>4, <1>5, <1>6, <1>7 DEF OwnerInv

LEMMA AskInductive == Spec => [](TypeOK /\ CallInv /\ OwnerInv)
  <1>1. Init => TypeOK /\ CallInv /\ OwnerInv
    <2> SUFFICES ASSUME Init PROVE TypeOK /\ CallInv /\ OwnerInv
      OBVIOUS
    <2>1. TypeOK
      BY AskAssumption, LoopFields DEF Init, TypeOK, Home
    <2>2. CallInv
      <3>1. \A x \in Callers, n \in 1 .. MaxCalls : <<x, n>> \in Cids
        BY DEF Cids
      <3> QED BY <3>1, LoopFields DEF Init, CallInv, Tracked
    <2>3. OwnerInv
      BY LoopFields DEF Init, OwnerInv, Tracked, Completes
    <2> QED BY <2>1, <2>2, <2>3
  <1>2. TypeOK /\ CallInv /\ OwnerInv /\ [Next]_vars
          => (TypeOK /\ CallInv /\ OwnerInv)'
    BY TypeStep, CallInvStep, OwnerStep
  <1> QED BY <1>1, <1>2, PTL DEF Spec

(***************************************************************************)
(* The state stays well typed and every request that is out has exactly    *)
(* one owner: the entry of s.pending is taken under the mutex by the timer *)
(* or by the loop that got a response, never by both, and whoever took it  *)
(* completes the future, once (actor/system.go:244-282).                   *)
(***************************************************************************)
THEOREM OneOwnerEach == Spec => []AskInv
  <1>1. TypeOK /\ OwnerInv => AskInv
    BY OwnerCount DEF AskInv
  <1> QED BY <1>1, AskInductive, PTL

-----------------------------------------------------------------------------
(* Wait tokens *)

Holding == {x \in Callers : Waiting(x)}
TokenInv == IsFiniteSet(Holding) /\ TokensExact

LEMMA TokenQuiet ==
    ASSUME TokenInv, tokens' = tokens,
           \A x \in Callers : Waiting(x)' <=> Waiting(x)
    PROVE  TokenInv'
  <1>1. Holding' = Holding
    BY DEF Holding
  <1> QED BY <1>1 DEF TokenInv, TokensExact, Holding

LEMMA TokenStep == TypeOK /\ CallInv /\ TokenInv /\ [Next]_vars => TokenInv'
  <1> SUFFICES ASSUME TypeOK, CallInv, TokenInv, [Next]_vars PROVE TokenInv'
    OBVIOUS
  <1>0. /\ pc \in [Callers -> {"idle", "token", "track", "send", "push", "await",
                               "release"}]
        /\ mode \in [Callers -> {"sync", "degrade", "async"}]
        /\ tokens \in Nat
        /\ IsFiniteSet(Holding) /\ tokens = Cardinality(Holding)
    BY AskAssumption DEF TypeOK, TokenInv, TokensExact, Holding
  <1>1. ASSUME NEW x \in Callers,
               \/ \E m \in Modes[x] : Call(x, m)
               \/ DegradeToAsync(x) \/ TrackPending(x)
               \/ (\E a \in Asked : SendRequest(x, a)) \/ PushRequest(x)
               \/ Await(x)
        PROVE  TokenInv'
    <2>1. CASE \E m \in Modes[x] : Call(x, m)
      BY <1>0, <2>1, TokenQuiet DEF Call, MayCall, Goto, Waiting
    <2>2. CASE DegradeToAsync(x)
      BY <1>0, <2>2, TokenQuiet DEF DegradeToAsync, Goto, Waiting
    <2>3. CASE TrackPending(x)
      BY <1>0, <2>3, TokenQuiet DEF TrackPending, Goto, Waiting
    <2>4. CASE (\E a \in Asked : SendRequest(x, a)) \/ PushRequest(x)
      <3>1. /\ tokens' = tokens /\ (Waiting(x)' <=> Waiting(x))
            /\ \A y \in Callers : y # x => (Waiting(y)' <=> Waiting(y))
        BY <1>0, <2>4
        DEF SendRequest, PushRequest, EnqueueRequest, Sent, Goto, Waiting
      <3> QED BY <3>1, TokenQuiet
    <2>5. CASE Await(x)
      BY <1>0, <2>5, TokenQuiet DEF Await, Goto, Waiting
    <2> QED BY <1>1, <2>1, <2>2, <2>3, <2>4, <2>5
  <1>2. ASSUME NEW x \in Callers, TakeToken(x) PROVE TokenInv'
    <2>1. /\ ~Waiting(x) /\ Waiting(x)'
          /\ \A y \in Callers : y # x => (Waiting(y)' <=> Waiting(y))
      BY <1>0, <1>2 DEF TakeToken, Goto, Waiting
    <2>2. x \notin Holding /\ Holding' = Holding \cup {x}
      BY <2>1 DEF Holding
    <2>3. IsFiniteSet(Holding') /\ Cardinality(Holding') = tokens + 1
      BY <1>0, <2>2, FS_AddElement
    <2> QED BY <1>2, <2>3 DEF TakeToken, TokenInv, TokensExact, Holding
  <1>3. ASSUME NEW x \in Callers, ReleaseWaitToken(x) PROVE TokenInv'
    <2>1. /\ Waiting(x) /\ ~Waiting(x)'
          /\ \A y \in Callers : y # x => (Waiting(y)' <=> Waiting(y))
      BY <1>0, <1>3 DEF ReleaseWaitToken, Release, Goto, Waiting, CallInv
    <2>2. x \in Holding /\ Holding' = Holding \ {x}
      BY <2>1 DEF Holding
    <2>3. IsFiniteSet(Holding') /\ Cardinality(Holding') = tokens - 1
      BY <1>0, <2>2, FS_RemoveElement
    <2>4. tokens # 0
      BY <1>0, <2>2, FS_EmptySet
    <2>5. tokens' = tokens - 1
      BY <1>0, <1>3, <2>4 DEF ReleaseWaitToken, Release
    <2> QED BY <2>3, <2>5 DEF TokenInv, TokensExact, Holding
  <1>4. CASE UNCHANGED <<tokens, pc, mode>>
    BY <1>4, TokenQuiet, SMTT(40) DEF Waiting
  <1>5. ASSUME \/ \E c \in Cids : TimerStep(c)
               \/ \E a \in Actors : LoopStep(a) \/ Close(a)
               \/ UNCHANGED vars
        PROVE  UNCHANGED <<tokens, pc, mode>>
    BY <1>5 DEF TimerStep, TimerFires, Fire, TimerCompletes, LoopStep,
                HandleResponse, PopResponse, CompleteFuture, HandleRequest,
                Respond, PushResponse, HandlerReturns, LoopEnds, Close, callers,
                vars
  <1> QED BY <1>1, <1>2, <1>3, <1>4, <1>5 DEF Next, CallStep

(***************************************************************************)
(* The tokens in the channel are exactly those of the calls that wait:     *)
(* acquireWaitToken and the deferred release balance on every path of Ask  *)
(* (actor/ask.go:75-85), and the empty case of the release's select        *)
(* (actor/system.go:324-330) is never taken by a call that holds a token.  *)
(***************************************************************************)
THEOREM TokensBalance == Spec => []TokensExact
  <1>1. Init => TokenInv
    <2> SUFFICES ASSUME Init PROVE TokenInv
      OBVIOUS
    <2>1. Holding = {}
      BY DEF Init, Holding, Waiting
    <2> QED BY <2>1, FS_EmptySet DEF Init, TokenInv, TokensExact, Holding
  <1>2. TokenInv => TokensExact
    BY DEF TokenInv
  <1> QED BY <1>1, <1>2, TokenStep, AskInductive, PTL DEF Spec
=============================================================================
