-------------------------- MODULE SupervisorProofs --------------------------
(***************************************************************************)
(* Proofs about Supervisor, for any number of children, every strategy and *)
(* any limit on retries.                                                   *)
(***************************************************************************)
EXTENDS Supervisor, FiniteSetTheorems, TLAPS

-----------------------------------------------------------------------------
(* What a step does to one record of a sequence *)

LEMMA AppendFacts ==
    ASSUME NEW S, NEW s \in Seq(S), NEW e \in S
    PROVE  /\ Append(s, e) \in Seq(S)
           /\ Len(Append(s, e)) = Len(s) + 1
           /\ DOMAIN Append(s, e) = 1 .. Len(s) + 1
           /\ DOMAIN s = 1 .. Len(s) /\ Len(s) \in Nat
           /\ \A k \in DOMAIN s : Append(s, e)[k] = s[k]
           /\ Append(s, e)[Len(s) + 1] = e
  OBVIOUS

LEMMA UpdateFacts ==
    ASSUME NEW S, NEW s \in Seq(S), NEW i \in DOMAIN s, NEW e \in S
    PROVE  /\ [s EXCEPT ![i] = e] \in Seq(S)
           /\ DOMAIN [s EXCEPT ![i] = e] = DOMAIN s
           /\ Len([s EXCEPT ![i] = e]) = Len(s)
           /\ [s EXCEPT ![i] = e][i] = e
           /\ \A j \in DOMAIN s : j # i => [s EXCEPT ![i] = e][j] = s[j]
  OBVIOUS

\* What a step does to one actor, and to one task.
ActorMoves(a) ==
    /\ actors' \in Seq(ActorRecords) /\ DOMAIN actors' = DOMAIN actors
    /\ \A b \in DOMAIN actors : b # a => actors'[b] = actors[b]
    /\ actors'[a].child = actors[a].child

TaskMoves(k) ==
    /\ tasks' \in Seq(TaskRecords) /\ DOMAIN tasks' = DOMAIN tasks
    /\ \A j \in DOMAIN tasks : j # k => tasks'[j] = tasks[j]
    /\ tasks'[k].slot = tasks[k].slot

LEMMA ActorMovesFact ==
    ASSUME actors \in Seq(ActorRecords), NEW a \in DOMAIN actors,
           NEW r \in ActorRecords, r.child = actors[a].child,
           actors' = [actors EXCEPT ![a] = r]
    PROVE  ActorMoves(a) /\ actors'[a] = r
  BY UpdateFacts DEF ActorMoves

LEMMA TaskMovesFact ==
    ASSUME tasks \in Seq(TaskRecords), NEW k \in DOMAIN tasks,
           NEW r \in TaskRecords, r.slot = tasks[k].slot,
           tasks' = [tasks EXCEPT ![k] = r]
    PROVE  TaskMoves(k) /\ tasks'[k] = r
  BY UpdateFacts DEF TaskMoves

LEMMA RunFields ==
    ASSUME NEW s \in ActorRecords
    PROVE  LET r == [s EXCEPT !.state = "running", !.loop = "running"]
           IN  /\ r \in ActorRecords /\ r.child = s.child
               /\ r.loop = "running" /\ r.stop = s.stop
               /\ r.panics = s.panics /\ r.closed = s.closed
  BY DEF ActorRecords

LEMMA PanicFields ==
    ASSUME NEW s \in ActorRecords
    PROVE  LET r == [s EXCEPT !.loop = "recover", !.panics = @ + 1]
           IN  /\ r \in ActorRecords /\ r.child = s.child
               /\ r.loop = "recover" /\ r.stop = s.stop
               /\ r.panics = s.panics + 1
  <1> DEFINE n == s.panics + 1
             r == [s EXCEPT !.loop = "recover", !.panics = n]
  <1>1. n \in Nat
    BY DEF ActorRecords
  <1> HIDE DEF n
  <1>2. /\ r \in ActorRecords /\ r.child = s.child
        /\ r.loop = "recover" /\ r.stop = s.stop /\ r.panics = n
    BY <1>1 DEF ActorRecords
  <1> QED BY <1>2 DEF n

LEMMA NotifiedFields ==
    ASSUME NEW s \in ActorRecords
    PROVE  LET r == [s EXCEPT !.loop = "notified"]
           IN  /\ r \in ActorRecords /\ r.child = s.child
               /\ r.loop = "notified" /\ r.stop = s.stop
               /\ r.panics = s.panics
  BY DEF ActorRecords

LEMMA CallStopFields ==
    ASSUME NEW s \in ActorRecords
    PROVE  LET r == CallStop(s)
           IN  /\ r \in ActorRecords /\ r.child = s.child
               /\ r.loop = s.loop /\ r.panics = s.panics /\ r.closed = s.closed
               /\ r.stop = IF s.stop = "none" THEN "called" ELSE s.stop
  BY DEF ActorRecords, CallStop

LEMMA RecoverFields ==
    ASSUME NEW s \in ActorRecords
    PROVE  LET r == CallStop([s EXCEPT !.closed = TRUE, !.loop = "running"])
           IN  /\ r \in ActorRecords /\ r.child = s.child
               /\ r.loop = "running" /\ r.panics = s.panics
               /\ r.stop = IF s.stop = "none" THEN "called" ELSE s.stop
  BY DEF ActorRecords, CallStop

LEMMA EndFields ==
    ASSUME NEW s \in ActorRecords
    PROVE  LET r == [s EXCEPT !.loop = "done"]
           IN  /\ r \in ActorRecords /\ r.child = s.child
               /\ r.loop = "done" /\ r.stop = s.stop /\ r.panics = s.panics
  BY DEF ActorRecords

LEMMA CloseFields ==
    ASSUME NEW s \in ActorRecords
    PROVE  LET r == [s EXCEPT !.stop = "waiting", !.closed = TRUE,
                              !.state = "stopping"]
           IN  /\ r \in ActorRecords /\ r.child = s.child
               /\ r.loop = s.loop /\ r.stop = "waiting"
               /\ r.panics = s.panics
  BY DEF ActorRecords

LEMMA WaitFields ==
    ASSUME NEW s \in ActorRecords
    PROVE  LET r == [s EXCEPT !.stop = "unregister", !.state = "stopped"]
           IN  /\ r \in ActorRecords /\ r.child = s.child
               /\ r.loop = s.loop /\ r.stop = "unregister"
               /\ r.panics = s.panics
  BY DEF ActorRecords

LEMMA FinishFields ==
    ASSUME NEW s \in ActorRecords
    PROVE  LET r == [s EXCEPT !.stop = "finished"]
           IN  /\ r \in ActorRecords /\ r.child = s.child
               /\ r.loop = s.loop /\ r.stop = "finished"
               /\ r.panics = s.panics
  BY DEF ActorRecords

LEMMA PcFields ==
    ASSUME NEW s \in TaskRecords,
           NEW c \in {"enter", "stop", "create", "run", "record", "count",
                      "done"}
    PROVE  LET r == [s EXCEPT !.pc = c]
           IN  /\ r \in TaskRecords /\ r.slot = s.slot /\ r.pc = c
               /\ r.actor = s.actor /\ r.retries = s.retries /\ r.new = s.new
  BY DEF TaskRecords

LEMMA CreateFields ==
    ASSUME NEW s \in TaskRecords, NEW a \in Nat
    PROVE  LET r == [s EXCEPT !.pc = "run", !.new = a]
           IN  /\ r \in TaskRecords /\ r.slot = s.slot /\ r.pc = "run"
               /\ r.actor = s.actor /\ r.retries = s.retries /\ r.new = a
  BY DEF TaskRecords

LEMMA NewActor ==
    ASSUME NEW i \in Slots
    PROVE  NewBaseActor(i) \in ActorRecords
  BY DEF NewBaseActor, ActorRecords

-----------------------------------------------------------------------------
(* What each action does, field by field *)

LEMMA PanicFacts ==
    ASSUME TypeOK, NEW a \in DOMAIN actors, Panic(a)
    PROVE  /\ ActorMoves(a)
           /\ actors[a].loop = "running" /\ actors[a].panics <= Backlog
           /\ actors'[a].loop = "recover" /\ actors'[a].stop = actors[a].stop
           /\ actors'[a].panics = actors[a].panics + 1
           /\ actors[a].panics \in Nat
           /\ panics' = panics + 1 /\ panics < MaxPanics[strategy]
           /\ UNCHANGED <<children, byID, byName, tasks, spawning, restarts,
                          strategy>>
  <1> DEFINE r == [actors[a] EXCEPT !.loop = "recover",
                                 !.panics = actors[a].panics + 1]
  <1>1. actors \in Seq(ActorRecords) /\ actors[a] \in ActorRecords
    BY DEF TypeOK
  <1>2. /\ r \in ActorRecords /\ r.child = actors[a].child
        /\ r.loop = "recover" /\ r.stop = actors[a].stop
        /\ r.panics = actors[a].panics + 1
    BY <1>1, PanicFields
  <1>3. actors' = [actors EXCEPT ![a] = r]
    BY DEF Panic
  <1> HIDE DEF r
  <1>4. ActorMoves(a) /\ actors'[a] = r
    BY <1>1, <1>2, <1>3, ActorMovesFact
  <1>5. actors[a].panics \in Nat
    BY <1>1 DEF ActorRecords
  <1> QED BY <1>2, <1>4, <1>5 DEF Panic

LEMMA NotifyActorFacts ==
    ASSUME TypeOK, NEW a \in DOMAIN actors, NotifyFailure(a)
    PROVE  /\ ActorMoves(a)
           /\ actors[a].loop = "recover"
           /\ actors'[a].loop = "notified" /\ actors'[a].stop = actors[a].stop
           /\ actors'[a].panics = actors[a].panics
           /\ tasks' = tasks \o OnFailure(a)
           /\ UNCHANGED <<children, byID, byName, spawning, restarts, panics,
                          strategy>>
  <1> DEFINE r == [actors[a] EXCEPT !.loop = "notified"]
  <1>1. actors \in Seq(ActorRecords) /\ actors[a] \in ActorRecords
    BY DEF TypeOK
  <1>2. /\ r \in ActorRecords /\ r.child = actors[a].child
        /\ r.loop = "notified" /\ r.stop = actors[a].stop
        /\ r.panics = actors[a].panics
    BY <1>1, NotifiedFields
  <1>3. actors' = [actors EXCEPT ![a] = r]
    BY DEF NotifyFailure
  <1> HIDE DEF r
  <1>4. ActorMoves(a) /\ actors'[a] = r
    BY <1>1, <1>2, <1>3, ActorMovesFact
  <1> QED BY <1>2, <1>4 DEF NotifyFailure

LEMMA RecoverFacts ==
    ASSUME TypeOK, NEW a \in DOMAIN actors, RecoverClose(a)
    PROVE  /\ ActorMoves(a)
           /\ actors[a].loop = "notified"
           /\ actors'[a].loop = "running"
           /\ actors'[a].panics = actors[a].panics
           /\ actors'[a].stop = (IF actors[a].stop = "none" THEN "called" ELSE actors[a].stop)
           /\ UNCHANGED <<children, byID, byName, tasks, spawning, restarts,
                          panics, strategy>>
  <1> DEFINE r == CallStop([actors[a] EXCEPT !.closed = TRUE, !.loop = "running"])
  <1>1. actors \in Seq(ActorRecords) /\ actors[a] \in ActorRecords
    BY DEF TypeOK
  <1>2. /\ r \in ActorRecords /\ r.child = actors[a].child
        /\ r.loop = "running"
        /\ r.panics = actors[a].panics
        /\ r.stop = (IF actors[a].stop = "none" THEN "called" ELSE actors[a].stop)
    BY <1>1, RecoverFields
  <1>3. actors' = [actors EXCEPT ![a] = r]
    BY DEF RecoverClose
  <1> HIDE DEF r
  <1>4. ActorMoves(a) /\ actors'[a] = r
    BY <1>1, <1>2, <1>3, ActorMovesFact
  <1> QED BY <1>2, <1>4 DEF RecoverClose

LEMMA LoopEndFacts ==
    ASSUME TypeOK, NEW a \in DOMAIN actors, LoopEnds(a)
    PROVE  /\ ActorMoves(a)
           /\ actors[a].loop = "running"
           /\ actors'[a].loop = "done"
           /\ actors'[a].stop = actors[a].stop
           /\ actors'[a].panics = actors[a].panics
           /\ UNCHANGED <<children, byID, byName, tasks, spawning, restarts,
                          panics, strategy>>
  <1> DEFINE r == [actors[a] EXCEPT !.loop = "done"]
  <1>1. actors \in Seq(ActorRecords) /\ actors[a] \in ActorRecords
    BY DEF TypeOK
  <1>2. /\ r \in ActorRecords /\ r.child = actors[a].child
        /\ r.loop = "done"
        /\ r.stop = actors[a].stop
        /\ r.panics = actors[a].panics
    BY <1>1, EndFields
  <1>3. actors' = [actors EXCEPT ![a] = r]
    BY DEF LoopEnds
  <1> HIDE DEF r
  <1>4. ActorMoves(a) /\ actors'[a] = r
    BY <1>1, <1>2, <1>3, ActorMovesFact
  <1> QED BY <1>2, <1>4 DEF LoopEnds

LEMMA ClientStopFacts ==
    ASSUME TypeOK, NEW a \in DOMAIN actors, ClientStop(a)
    PROVE  /\ ActorMoves(a)
           /\ actors[a].stop = "none"
           /\ actors'[a].loop = actors[a].loop
           /\ actors'[a].panics = actors[a].panics
           /\ actors'[a].stop = (IF actors[a].stop = "none" THEN "called" ELSE actors[a].stop)
           /\ UNCHANGED <<children, byID, byName, tasks, spawning, restarts,
                          panics, strategy>>
  <1> DEFINE r == CallStop(actors[a])
  <1>1. actors \in Seq(ActorRecords) /\ actors[a] \in ActorRecords
    BY DEF TypeOK
  <1>2. /\ r \in ActorRecords /\ r.child = actors[a].child
        /\ r.loop = actors[a].loop
        /\ r.panics = actors[a].panics
        /\ r.stop = (IF actors[a].stop = "none" THEN "called" ELSE actors[a].stop)
    BY <1>1, CallStopFields
  <1>3. actors' = [actors EXCEPT ![a] = r]
    BY DEF ClientStop
  <1> HIDE DEF r
  <1>4. ActorMoves(a) /\ actors'[a] = r
    BY <1>1, <1>2, <1>3, ActorMovesFact
  <1> QED BY <1>2, <1>4 DEF ClientStop

LEMMA StopCloseFacts ==
    ASSUME TypeOK, NEW a \in DOMAIN actors, StopClose(a)
    PROVE  /\ ActorMoves(a)
           /\ actors[a].stop = "called"
           /\ actors'[a].loop = actors[a].loop
           /\ actors'[a].panics = actors[a].panics
           /\ actors'[a].stop = "waiting"
           /\ UNCHANGED <<children, byID, byName, tasks, spawning, restarts,
                          panics, strategy>>
  <1> DEFINE r == [actors[a] EXCEPT !.stop = "waiting", !.closed = TRUE,
                                 !.state = "stopping"]
  <1>1. actors \in Seq(ActorRecords) /\ actors[a] \in ActorRecords
    BY DEF TypeOK
  <1>2. /\ r \in ActorRecords /\ r.child = actors[a].child
        /\ r.loop = actors[a].loop
        /\ r.panics = actors[a].panics
        /\ r.stop = "waiting"
    BY <1>1, CloseFields
  <1>3. actors' = [actors EXCEPT ![a] = r]
    BY DEF StopClose
  <1> HIDE DEF r
  <1>4. ActorMoves(a) /\ actors'[a] = r
    BY <1>1, <1>2, <1>3, ActorMovesFact
  <1> QED BY <1>2, <1>4 DEF StopClose

LEMMA StopWaitFacts ==
    ASSUME TypeOK, NEW a \in DOMAIN actors, StopWait(a)
    PROVE  /\ ActorMoves(a)
           /\ actors[a].stop = "waiting"
           /\ actors[a].loop = "done"
           /\ actors'[a].loop = actors[a].loop
           /\ actors'[a].panics = actors[a].panics
           /\ actors'[a].stop = "unregister"
           /\ UNCHANGED <<children, byID, byName, tasks, spawning, restarts,
                          panics, strategy>>
  <1> DEFINE r == [actors[a] EXCEPT !.stop = "unregister", !.state = "stopped"]
  <1>1. actors \in Seq(ActorRecords) /\ actors[a] \in ActorRecords
    BY DEF TypeOK
  <1>2. /\ r \in ActorRecords /\ r.child = actors[a].child
        /\ r.loop = actors[a].loop
        /\ r.panics = actors[a].panics
        /\ r.stop = "unregister"
    BY <1>1, WaitFields
  <1>3. actors' = [actors EXCEPT ![a] = r]
    BY DEF StopWait
  <1> HIDE DEF r
  <1>4. ActorMoves(a) /\ actors'[a] = r
    BY <1>1, <1>2, <1>3, ActorMovesFact
  <1> QED BY <1>2, <1>4 DEF StopWait

LEMMA UnregisterFacts ==
    ASSUME TypeOK, NEW a \in DOMAIN actors, StopUnregister(a)
    PROVE  /\ ActorMoves(a)
           /\ actors[a].stop = "unregister"
           /\ byID' = byID \ {a}
           /\ byName' = [byName EXCEPT ![actors[a].child] = NoActor]
           /\ actors'[a].loop = actors[a].loop
           /\ actors'[a].panics = actors[a].panics
           /\ actors'[a].stop = "finished"
           /\ UNCHANGED <<children, tasks, spawning, restarts, panics, strategy>>
  <1> DEFINE r == [actors[a] EXCEPT !.stop = "finished"]
  <1>1. actors \in Seq(ActorRecords) /\ actors[a] \in ActorRecords
    BY DEF TypeOK
  <1>2. /\ r \in ActorRecords /\ r.child = actors[a].child
        /\ r.loop = actors[a].loop
        /\ r.panics = actors[a].panics
        /\ r.stop = "finished"
    BY <1>1, FinishFields
  <1>3. actors' = [actors EXCEPT ![a] = r]
    BY DEF StopUnregister
  <1> HIDE DEF r
  <1>4. ActorMoves(a) /\ actors'[a] = r
    BY <1>1, <1>2, <1>3, ActorMovesFact
  <1> QED BY <1>2, <1>4 DEF StopUnregister, Unregister

LEMMA SpawnRunFacts ==
    ASSUME TypeOK, spawning.actor \in DOMAIN actors, SpawnRun
    PROVE  /\ ActorMoves(spawning.actor)
           /\ spawning.pc = "run"
           /\ spawning' = NotSpawning
           /\ actors'[spawning.actor].loop = "running"
           /\ actors'[spawning.actor].panics = actors[spawning.actor].panics
           /\ actors'[spawning.actor].stop = actors[spawning.actor].stop
           /\ UNCHANGED <<children, byID, byName, tasks, restarts, panics,
                          strategy>>
  <1> DEFINE r == [actors[spawning.actor] EXCEPT !.state = "running",
                                              !.loop = "running"]
  <1>1. actors \in Seq(ActorRecords) /\ actors[spawning.actor] \in ActorRecords
    BY DEF TypeOK
  <1>2. /\ r \in ActorRecords /\ r.child = actors[spawning.actor].child
        /\ r.loop = "running"
        /\ r.panics = actors[spawning.actor].panics
        /\ r.stop = actors[spawning.actor].stop
    BY <1>1, RunFields
  <1>3. actors' = [actors EXCEPT ![spawning.actor] = r]
    BY DEF SpawnRun, StartRun
  <1> HIDE DEF r
  <1>4. ActorMoves(spawning.actor) /\ actors'[spawning.actor] = r
    BY <1>1, <1>2, <1>3, ActorMovesFact
  <1> QED BY <1>2, <1>4 DEF SpawnRun

LEMMA RestartStopFacts ==
    ASSUME TypeOK, NEW k \in DOMAIN tasks, tasks[k].actor \in DOMAIN actors,
           RestartStop(k)
    PROVE  /\ TaskMoves(k)
           /\ tasks[k].pc = "stop"
           /\ tasks'[k].pc = "create"
           /\ tasks'[k].actor = tasks[k].actor
           /\ tasks'[k].retries = tasks[k].retries
           /\ tasks'[k].new = tasks[k].new
           /\ ActorMoves(tasks[k].actor)
           /\ actors'[tasks[k].actor].loop = actors[tasks[k].actor].loop
           /\ actors'[tasks[k].actor].panics = actors[tasks[k].actor].panics
           /\ actors'[tasks[k].actor].stop = (IF actors[tasks[k].actor].stop = "none" THEN "called" ELSE actors[tasks[k].actor].stop)
           /\ UNCHANGED <<children, byID, byName, spawning, restarts, panics,
                          strategy>>
  <1> DEFINE t == [tasks[k] EXCEPT !.pc = "create"]
             r == CallStop(actors[tasks[k].actor])
  <1>1. tasks \in Seq(TaskRecords) /\ tasks[k] \in TaskRecords
    BY DEF TypeOK
  <1>2. /\ t \in TaskRecords /\ t.slot = tasks[k].slot
        /\ t.pc = "create"
        /\ t.actor = tasks[k].actor
        /\ t.retries = tasks[k].retries
        /\ t.new = tasks[k].new
    BY <1>1, PcFields
  <1>3. tasks' = [tasks EXCEPT ![k] = t]
    BY DEF RestartStop
  <1>4. actors \in Seq(ActorRecords) /\ actors[tasks[k].actor] \in ActorRecords
    BY DEF TypeOK
  <1>5. /\ r \in ActorRecords /\ r.child = actors[tasks[k].actor].child
        /\ r.loop = actors[tasks[k].actor].loop
        /\ r.panics = actors[tasks[k].actor].panics
        /\ r.stop = (IF actors[tasks[k].actor].stop = "none" THEN "called" ELSE actors[tasks[k].actor].stop)
    BY <1>4, CallStopFields
  <1>6. actors' = [actors EXCEPT ![tasks[k].actor] = r]
    BY DEF RestartStop
  <1> HIDE DEF t, r
  <1>7. TaskMoves(k) /\ tasks'[k] = t
    BY <1>1, <1>2, <1>3, TaskMovesFact
  <1>8. ActorMoves(tasks[k].actor) /\ actors'[tasks[k].actor] = r
    BY <1>4, <1>5, <1>6, ActorMovesFact
  <1> QED BY <1>2, <1>7, <1>5, <1>8 DEF RestartStop

LEMMA RestartRunFacts ==
    ASSUME TypeOK, NEW k \in DOMAIN tasks, tasks[k].new \in DOMAIN actors,
           RestartRun(k)
    PROVE  /\ TaskMoves(k)
           /\ tasks[k].pc = "run"
           /\ tasks'[k].pc = "record"
           /\ tasks'[k].actor = tasks[k].actor
           /\ tasks'[k].retries = tasks[k].retries
           /\ tasks'[k].new = tasks[k].new
           /\ ActorMoves(tasks[k].new)
           /\ actors'[tasks[k].new].loop = "running"
           /\ actors'[tasks[k].new].panics = actors[tasks[k].new].panics
           /\ actors'[tasks[k].new].stop = actors[tasks[k].new].stop
           /\ UNCHANGED <<children, byID, byName, spawning, restarts, panics,
                          strategy>>
  <1> DEFINE t == [tasks[k] EXCEPT !.pc = "record"]
             r == [actors[tasks[k].new] EXCEPT !.state = "running",
                                            !.loop = "running"]
  <1>1. tasks \in Seq(TaskRecords) /\ tasks[k] \in TaskRecords
    BY DEF TypeOK
  <1>2. /\ t \in TaskRecords /\ t.slot = tasks[k].slot
        /\ t.pc = "record"
        /\ t.actor = tasks[k].actor
        /\ t.retries = tasks[k].retries
        /\ t.new = tasks[k].new
    BY <1>1, PcFields
  <1>3. tasks' = [tasks EXCEPT ![k] = t]
    BY DEF RestartRun
  <1>4. actors \in Seq(ActorRecords) /\ actors[tasks[k].new] \in ActorRecords
    BY DEF TypeOK
  <1>5. /\ r \in ActorRecords /\ r.child = actors[tasks[k].new].child
        /\ r.loop = "running"
        /\ r.panics = actors[tasks[k].new].panics
        /\ r.stop = actors[tasks[k].new].stop
    BY <1>4, RunFields
  <1>6. actors' = [actors EXCEPT ![tasks[k].new] = r]
    BY DEF RestartRun, StartRun
  <1> HIDE DEF t, r
  <1>7. TaskMoves(k) /\ tasks'[k] = t
    BY <1>1, <1>2, <1>3, TaskMovesFact
  <1>8. ActorMoves(tasks[k].new) /\ actors'[tasks[k].new] = r
    BY <1>4, <1>5, <1>6, ActorMovesFact
  <1> QED BY <1>2, <1>7, <1>5, <1>8 DEF RestartRun

LEMMA RestartCountFacts ==
    ASSUME TypeOK, NEW k \in DOMAIN tasks, RestartCount(k)
    PROVE  /\ TaskMoves(k)
           /\ tasks[k].pc = "count"
           /\ restarts' = restarts + 1
           /\ tasks'[k].pc = "done"
           /\ tasks'[k].actor = tasks[k].actor
           /\ tasks'[k].retries = tasks[k].retries
           /\ tasks'[k].new = tasks[k].new
           /\ UNCHANGED <<actors, children, byID, byName, spawning, panics, strategy>>
  <1> DEFINE t == [tasks[k] EXCEPT !.pc = "done"]
  <1>1. tasks \in Seq(TaskRecords) /\ tasks[k] \in TaskRecords
    BY DEF TypeOK
  <1>2. /\ t \in TaskRecords /\ t.slot = tasks[k].slot
        /\ t.pc = "done"
        /\ t.actor = tasks[k].actor
        /\ t.retries = tasks[k].retries
        /\ t.new = tasks[k].new
    BY <1>1, PcFields
  <1>3. tasks' = [tasks EXCEPT ![k] = t]
    BY DEF RestartCount
  <1> HIDE DEF t
  <1>7. TaskMoves(k) /\ tasks'[k] = t
    BY <1>1, <1>2, <1>3, TaskMovesFact
  <1> QED BY <1>2, <1>7 DEF RestartCount

\* What SpawnAppend and RestartCreate do to the actors.
ActorComes(a, i) ==
    /\ a = Len(actors) + 1 /\ a \in Nat /\ a # NoActor
    /\ actors' \in Seq(ActorRecords)
    /\ DOMAIN actors' = DOMAIN actors \cup {a} /\ a \notin DOMAIN actors
    /\ \A b \in DOMAIN actors : actors'[b] = actors[b]
    /\ actors'[a] = NewBaseActor(i)

LEMMA ActorComesFact ==
    ASSUME actors \in Seq(ActorRecords), NEW i \in Slots,
           actors' = Append(actors, NewBaseActor(i))
    PROVE  ActorComes(Len(actors) + 1, i)
  <1>1. NewBaseActor(i) \in ActorRecords
    BY NewActor
  <1>2. /\ actors' \in Seq(ActorRecords)
        /\ DOMAIN actors' = 1 .. Len(actors) + 1
        /\ DOMAIN actors = 1 .. Len(actors) /\ Len(actors) \in Nat
        /\ \A b \in DOMAIN actors : actors'[b] = actors[b]
        /\ actors'[Len(actors) + 1] = NewBaseActor(i)
    BY <1>1, AppendFacts
  <1> QED BY <1>2 DEF ActorComes, NoActor

LEMMA SpawnAppendFacts ==
    ASSUME SupervisorAssumption, TypeOK, SpawnAppend
    PROVE  LET i == Len(children) + 1
               a == Len(actors) + 1
           IN  /\ ActorComes(a, i) /\ i \in Slots
               /\ children' \in Seq(ChildRecords) /\ Len(children') <= Children
               /\ DOMAIN children' = DOMAIN children \cup {i}
               /\ i \notin DOMAIN children
               /\ \A j \in DOMAIN children : children'[j] = children[j]
               /\ children'[i].actor = a /\ children'[i].retries = 0
               /\ spawning = NotSpawning
               /\ spawning' = [pc |-> "register", actor |-> a]
               /\ UNCHANGED <<byID, byName, tasks, restarts, panics, strategy>>
  <1> DEFINE i == Len(children) + 1
             a == Len(actors) + 1
             c == [actor |-> a, retries |-> 0]
  <1>1. i \in Slots
    BY DEF SpawnAppend, TypeOK, SupervisorAssumption, Slots
  <1>2. ActorComes(a, i)
    BY <1>1, ActorComesFact DEF SpawnAppend, TypeOK
  <1>3. c \in ChildRecords
    BY <1>2 DEF ActorComes, ChildRecords, SupervisorAssumption
  <1>4. /\ children \in Seq(ChildRecords) /\ children' = Append(children, c)
        /\ Len(children) < Children
    BY DEF TypeOK, SpawnAppend
  <1>5. c.actor = a /\ c.retries = 0
    OBVIOUS
  <1> HIDE DEF c
  <1>6. /\ children' \in Seq(ChildRecords) /\ Len(children') = i
        /\ DOMAIN children' = 1 .. i
        /\ DOMAIN children = 1 .. Len(children) /\ Len(children) \in Nat
        /\ \A j \in DOMAIN children : children'[j] = children[j]
        /\ children'[i] = c
    BY <1>3, <1>4, AppendFacts
  <1>7. /\ DOMAIN children' = DOMAIN children \cup {i}
        /\ i \notin DOMAIN children /\ Len(children') <= Children
    BY <1>4, <1>6 DEF SupervisorAssumption
  <1> QED BY <1>1, <1>2, <1>5, <1>6, <1>7 DEF SpawnAppend

LEMMA RestartCreateFacts ==
    ASSUME TypeOK, NEW k \in DOMAIN tasks, RestartCreate(k)
    PROVE  LET a == Len(actors) + 1
               i == tasks[k].slot
           IN  /\ ActorComes(a, i) /\ i \in Slots
               /\ tasks[k].pc = "create"
               /\ actors[tasks[k].actor].stop = "finished"
               /\ TaskMoves(k) /\ tasks'[k].pc = "run" /\ tasks'[k].new = a
               /\ tasks'[k].actor = tasks[k].actor
               /\ tasks'[k].retries = tasks[k].retries
               /\ byID' = byID \cup {a}
               /\ byName' = [byName EXCEPT ![i] = a]
               /\ UNCHANGED <<children, spawning, restarts, panics, strategy>>
  <1> DEFINE a == Len(actors) + 1
             i == tasks[k].slot
             t == [tasks[k] EXCEPT !.pc = "run", !.new = a]
  <1>1. tasks \in Seq(TaskRecords) /\ tasks[k] \in TaskRecords
    BY DEF TypeOK
  <1>2. i \in Slots
    BY <1>1 DEF TaskRecords
  <1>3. ActorComes(a, i)
    BY <1>2, ActorComesFact DEF RestartCreate, TypeOK
  <1>4. a \in Nat
    BY <1>3 DEF ActorComes
  <1>5. actors'[a].child = i
    BY <1>3 DEF ActorComes, NewBaseActor
  <1>6. tasks' = [tasks EXCEPT ![k] = t]
    BY DEF RestartCreate
  <1>7. byID' = byID \cup {a} /\ byName' = [byName EXCEPT ![i] = a]
    BY <1>5 DEF RestartCreate, Register
  <1>8. /\ tasks[k].pc = "create" /\ actors[tasks[k].actor].stop = "finished"
        /\ UNCHANGED <<children, spawning, restarts, panics, strategy>>
    BY DEF RestartCreate
  <1> HIDE DEF a
  <1>9. /\ t \in TaskRecords /\ t.slot = tasks[k].slot /\ t.pc = "run"
        /\ t.actor = tasks[k].actor /\ t.retries = tasks[k].retries
        /\ t.new = a
    BY <1>1, <1>4, CreateFields
  <1> HIDE DEF t
  <1>10. TaskMoves(k) /\ tasks'[k] = t
    BY <1>1, <1>6, <1>9, TaskMovesFact
  <1> QED BY <1>2, <1>3, <1>7, <1>8, <1>9, <1>10 DEF a

LEMMA SpawnRegisterFacts ==
    ASSUME SpawnRegister
    PROVE  LET a == spawning.actor IN
           /\ spawning.pc = "register" /\ spawning'.actor = a
           /\ spawning' = [spawning EXCEPT !.pc = "run"]
           /\ byID' = byID \cup {a}
           /\ byName' = [byName EXCEPT ![actors[a].child] = a]
           /\ UNCHANGED <<actors, children, tasks, restarts, panics, strategy>>
  BY DEF SpawnRegister, Register

\* What a step does to one entry of s.children.
ChildMoves(i) ==
    /\ children' \in Seq(ChildRecords) /\ DOMAIN children' = DOMAIN children
    /\ Len(children') = Len(children)
    /\ \A j \in DOMAIN children : j # i => children'[j] = children[j]

LEMMA GiveUpFacts ==
    ASSUME TypeOK, NEW k \in DOMAIN tasks, RestartEnter(k),
           Retries(k) + 1 > MaxRetries, SupervisorAssumption,
           tasks[k].slot \in DOMAIN children
    PROVE  /\ TaskMoves(k)
           /\ tasks[k].pc = "enter"
           /\ tasks'[k].pc = "done"
           /\ tasks'[k].actor = tasks[k].actor
           /\ tasks'[k].retries = tasks[k].retries
           /\ tasks'[k].new = tasks[k].new
           /\ UNCHANGED <<actors, children, byID, byName, spawning, restarts,
                          panics, strategy>>
  <1> DEFINE t == [tasks[k] EXCEPT !.pc = "done"]
  <1>1. tasks \in Seq(TaskRecords) /\ tasks[k] \in TaskRecords
    BY DEF TypeOK
  <1>2. /\ t \in TaskRecords /\ t.slot = tasks[k].slot
        /\ t.pc = "done" /\ t.actor = tasks[k].actor
        /\ t.retries = tasks[k].retries /\ t.new = tasks[k].new
    BY <1>1, PcFields
  <1>3. Retries(k) \in Nat /\ MaxRetries \in Nat
    <2>1. children[tasks[k].slot] \in ChildRecords
      BY DEF TypeOK
    <2> QED BY <2>1 DEF ChildRecords, Retries, SupervisorAssumption
  <1>4. ~(Retries(k) + 1 <= MaxRetries)
    BY <1>3
  <1>5. tasks' = [tasks EXCEPT ![k] = t] /\ children' = children
    BY <1>4 DEF RestartEnter, EnterWith
  <1> HIDE DEF t
  <1>6. TaskMoves(k) /\ tasks'[k] = t
    BY <1>1, <1>2, <1>5, TaskMovesFact
  <1> QED BY <1>2, <1>5, <1>6 DEF RestartEnter, EnterWith

LEMMA EnterFacts ==
    ASSUME TypeOK, NEW k \in DOMAIN tasks, RestartEnter(k),
           ~(Retries(k) + 1 > MaxRetries), SupervisorAssumption,
           tasks[k].slot \in DOMAIN children
    PROVE  LET i == tasks[k].slot IN
           /\ TaskMoves(k)
           /\ tasks[k].pc = "enter"
           /\ tasks'[k].pc = "stop"
           /\ tasks'[k].actor = children[i].actor
           /\ tasks'[k].retries = children'[i].retries
           /\ tasks'[k].new = tasks[k].new
           /\ ChildMoves(i)
           /\ children'[i].retries = children[i].retries + 1
           /\ children'[i].actor = children[i].actor
           /\ UNCHANGED <<actors, byID, byName, spawning, restarts, panics,
                          strategy>>
  <1> DEFINE i == tasks[k].slot
             n == Retries(k) + 1
             b == children[i].actor
             t == [tasks[k] EXCEPT !.pc = "stop", !.retries = n, !.actor = b]
             c == [children[i] EXCEPT !.retries = n]
  <1>1. /\ tasks \in Seq(TaskRecords) /\ tasks[k] \in TaskRecords
        /\ children \in Seq(ChildRecords) /\ children[i] \in ChildRecords
    BY DEF TypeOK
  <1>2. Retries(k) \in Nat /\ MaxRetries \in Nat /\ b \in Nat
    BY <1>1 DEF ChildRecords, Retries, SupervisorAssumption
  <1>3. n \in 0 .. MaxRetries /\ n <= MaxRetries
    BY <1>2
  <1>4. n = children[i].retries + 1
    BY DEF Retries
  <1>5. /\ tasks' = [tasks EXCEPT ![k] = t]
        /\ children' = [children EXCEPT ![i] = c]
    BY <1>3 DEF RestartEnter, EnterWith
  <1> HIDE DEF n, b
  <1>6. /\ t \in TaskRecords /\ t.slot = i /\ t.pc = "stop"
        /\ t.actor = b /\ t.retries = n /\ t.new = tasks[k].new
    BY <1>1, <1>2, <1>3 DEF TaskRecords
  <1>7. c \in ChildRecords /\ c.retries = n /\ c.actor = children[i].actor
    BY <1>1, <1>3 DEF ChildRecords
  <1> HIDE DEF t, c
  <1>8. TaskMoves(k) /\ tasks'[k] = t
    BY <1>1, <1>5, <1>6, TaskMovesFact
  <1>9. ChildMoves(i) /\ children'[i] = c
    BY <1>1, <1>5, <1>7, UpdateFacts DEF ChildMoves
  <1> QED BY <1>4, <1>6, <1>7, <1>8, <1>9 DEF RestartEnter, EnterWith, b

LEMMA RestartRecordFacts ==
    ASSUME TypeOK, NEW k \in DOMAIN tasks, RestartRecord(k),
           tasks[k].slot \in DOMAIN children, tasks[k].new # NoActor
    PROVE  LET i == tasks[k].slot IN
           /\ TaskMoves(k)
           /\ tasks[k].pc = "record"
           /\ tasks'[k].pc = "count"
           /\ tasks'[k].actor = tasks[k].actor
           /\ tasks'[k].retries = tasks[k].retries
           /\ tasks'[k].new = tasks[k].new
           /\ ChildMoves(i)
           /\ children'[i].retries = tasks[k].retries
           /\ children'[i].actor = tasks[k].new
           /\ UNCHANGED <<actors, byID, byName, spawning, restarts, panics,
                          strategy>>
  <1> DEFINE i == tasks[k].slot
             t == [tasks[k] EXCEPT !.pc = "count"]
             c == [actor |-> tasks[k].new, retries |-> tasks[k].retries]
  <1>1. /\ tasks \in Seq(TaskRecords) /\ tasks[k] \in TaskRecords
        /\ children \in Seq(ChildRecords)
    BY DEF TypeOK
  <1>2. /\ t \in TaskRecords /\ t.slot = i /\ t.pc = "count"
        /\ t.actor = tasks[k].actor /\ t.retries = tasks[k].retries
        /\ t.new = tasks[k].new
    BY <1>1, PcFields
  <1>3. /\ c \in ChildRecords /\ c.retries = tasks[k].retries
        /\ c.actor = tasks[k].new
    BY <1>1 DEF ChildRecords, TaskRecords
  <1>4. /\ tasks' = [tasks EXCEPT ![k] = t]
        /\ children' = [children EXCEPT ![i] = c]
    BY DEF RestartRecord
  <1> HIDE DEF t, c
  <1>5. TaskMoves(k) /\ tasks'[k] = t
    BY <1>1, <1>2, <1>4, TaskMovesFact
  <1>6. ChildMoves(i) /\ children'[i] = c
    BY <1>1, <1>3, <1>4, UpdateFacts DEF ChildMoves
  <1> QED BY <1>2, <1>3, <1>5, <1>6 DEF RestartRecord

LEMMA ConcatFacts ==
    ASSUME NEW S, NEW s \in Seq(S), NEW t \in Seq(S)
    PROVE  /\ s \o t \in Seq(S) /\ Len(s \o t) = Len(s) + Len(t)
           /\ DOMAIN (s \o t) = 1 .. Len(s) + Len(t)
           /\ DOMAIN s = 1 .. Len(s) /\ Len(s) \in Nat
           /\ DOMAIN t = 1 .. Len(t) /\ Len(t) \in Nat
           /\ \A k \in DOMAIN s : (s \o t)[k] = s[k]
           /\ \A k \in DOMAIN t : (s \o t)[Len(s) + k] = t[k]
  OBVIOUS

\* The goroutines onFailure starts enter restartChild, for different slots:
\* with one-for-one, for that of the failed actor.
LEMMA OnFailureFacts ==
    ASSUME SupervisorAssumption, TypeOK, LinkInv, NEW a \in DOMAIN actors
    PROVE  /\ OnFailure(a) \in Seq(TaskRecords)
           /\ \A k \in DOMAIN OnFailure(a) :
                /\ OnFailure(a)[k] = NewTask(OnFailure(a)[k].slot)
                /\ OnFailure(a)[k].slot \in DOMAIN children
                /\ \A j \in DOMAIN OnFailure(a) :
                     OnFailure(a)[j].slot = OnFailure(a)[k].slot => j = k
                /\ strategy = "one" =>
                     /\ children[OnFailure(a)[k].slot].actor = a
                     /\ k = 1
  <1> DEFINE failed == {i \in DOMAIN children : children[i].actor = a}
             i == CHOOSE i \in failed : \A j \in failed : i <= j
             n == Len(children)
             f == RestartFirst(i)
             len == RestartLast(i) - f + 1
  <1>1. /\ n \in Nat /\ DOMAIN children = 1 .. n /\ n <= Children
        /\ Children \in Nat
    BY DEF TypeOK, SupervisorAssumption
  <1>2. CASE failed = {}
    <2>1. OnFailure(a) = <<>>
      BY <1>2 DEF OnFailure
    <2> QED BY <2>1
  <1>3. CASE failed # {}
    <2>1. failed = {actors[a].child}
      BY <1>3 DEF LinkInv
    <2>2. i \in failed
      <3>1. \E x \in failed : \A j \in failed : x <= j
        BY <1>1, <2>1, SMTT(40)
      <3> QED BY <3>1
    <2>3. OnFailure(a) = TasksFor(i)
      BY <1>3 DEF OnFailure
    <2>4. i \in 1 .. n /\ children[i].actor = a
      BY <1>1, <2>2
    <2> HIDE DEF i, failed, n
    <2>5. /\ f \in 1 .. n /\ len \in Nat /\ f + len - 1 <= n
          /\ strategy = "one" => len = 1 /\ f = i
      BY <1>1, <2>4 DEF RestartFirst, RestartLast, n
    <2>6. TasksFor(i) = [k \in 1 .. len |-> NewTask(f + k - 1)]
      BY DEF TasksFor
    <2> HIDE DEF f, len
    <2>7. \A k \in 1 .. len : f + k - 1 \in 1 .. n
      BY <1>1, <2>5
    <2>8. \A s \in Slots : NewTask(s) \in TaskRecords /\ NewTask(s).slot = s
      BY DEF NewTask, TaskRecords, NoActor, SupervisorAssumption
    <2>9. 1 .. n \subseteq Slots
      BY <1>1 DEF Slots
    <2>10. \A k \in 1 .. len : /\ NewTask(f + k - 1) \in TaskRecords
                               /\ NewTask(f + k - 1).slot = f + k - 1
      BY <2>7, <2>8, <2>9
    <2> DEFINE t == OnFailure(a)
    <2>11. t = [k \in 1 .. len |-> NewTask(f + k - 1)]
      BY <2>3, <2>6
    <2> HIDE DEF t
    <2>12. t \in Seq(TaskRecords) /\ DOMAIN t = 1 .. len
      <3>1. t \in [1 .. len -> TaskRecords]
        BY <2>10, <2>11
      <3> QED BY <3>1, <2>5
    <2>13. \A k \in 1 .. len : t[k] = NewTask(f + k - 1) /\ t[k].slot = f + k - 1
      BY <2>10, <2>11
    <2>14. \A k \in 1 .. len : t[k] = NewTask(t[k].slot)
      BY <2>13
    <2>15. \A k \in 1 .. len : t[k].slot \in DOMAIN children
      BY <2>13, <2>7, <1>1
    <2>16. \A k, j \in 1 .. len : t[j].slot = t[k].slot => j = k
      BY <2>13, <2>5
    <2>17. ASSUME NEW k \in 1 .. len, strategy = "one"
           PROVE  children[t[k].slot].actor = a /\ k = 1
      <3>1. k = 1 /\ f = i
        BY <2>17, <2>5
      <3>2. t[k].slot = i
        BY <2>13, <3>1, <2>4, <1>1
      <3> QED BY <3>1, <3>2, <2>4
    <2> QED BY <2>12, <2>14, <2>15, <2>16, <2>17 DEF t
  <1> QED BY <1>2, <1>3

LEMMA NotifyTaskFacts ==
    ASSUME SupervisorAssumption, TypeOK, LinkInv, NEW a \in DOMAIN actors,
           NotifyFailure(a)
    PROVE  /\ tasks' \in Seq(TaskRecords) /\ DOMAIN tasks \subseteq DOMAIN tasks'
           /\ \A k \in DOMAIN tasks : tasks'[k] = tasks[k]
           /\ \A k \in DOMAIN tasks' \ DOMAIN tasks :
                /\ tasks'[k].pc = "enter" /\ tasks'[k].new = NoActor
                /\ tasks'[k].slot \in DOMAIN children
                /\ \A j \in DOMAIN tasks' \ DOMAIN tasks :
                     tasks'[j].slot = tasks'[k].slot => j = k
                /\ strategy = "one" => children[tasks'[k].slot].actor = a
  <1> DEFINE t == OnFailure(a)
  <1>1. /\ t \in Seq(TaskRecords)
        /\ \A k \in DOMAIN t :
             /\ t[k] = NewTask(t[k].slot) /\ t[k].slot \in DOMAIN children
             /\ \A j \in DOMAIN t : t[j].slot = t[k].slot => j = k
             /\ strategy = "one" => children[t[k].slot].actor = a
    BY OnFailureFacts
  <1>2. tasks \in Seq(TaskRecords) /\ tasks' = tasks \o t
    BY DEF TypeOK, NotifyFailure
  <1> HIDE DEF t
  <1>3. /\ tasks' \in Seq(TaskRecords)
        /\ DOMAIN tasks' = 1 .. Len(tasks) + Len(t)
        /\ DOMAIN tasks = 1 .. Len(tasks) /\ Len(tasks) \in Nat
        /\ DOMAIN t = 1 .. Len(t) /\ Len(t) \in Nat
        /\ \A k \in DOMAIN tasks : tasks'[k] = tasks[k]
        /\ \A k \in DOMAIN t : tasks'[Len(tasks) + k] = t[k]
    BY <1>1, <1>2, ConcatFacts
  <1>4. \A k \in DOMAIN t : t[k].pc = "enter" /\ t[k].new = NoActor
    BY <1>1 DEF NewTask
  <1>5. \A k \in DOMAIN tasks' \ DOMAIN tasks :
          /\ k - Len(tasks) \in DOMAIN t /\ tasks'[k] = t[k - Len(tasks)]
          /\ k \in Int
    BY <1>3
  <1>6. ASSUME NEW k \in DOMAIN tasks' \ DOMAIN tasks,
               NEW j \in DOMAIN tasks' \ DOMAIN tasks,
               tasks'[j].slot = tasks'[k].slot
        PROVE  j = k
    <2>1. j - Len(tasks) = k - Len(tasks)
      BY <1>6, <1>5, <1>1
    <2> QED BY <2>1, <1>5, <1>3
  <1>7. ASSUME NEW k \in DOMAIN tasks' \ DOMAIN tasks
        PROVE  /\ tasks'[k].pc = "enter" /\ tasks'[k].new = NoActor
               /\ tasks'[k].slot \in DOMAIN children
               /\ strategy = "one" => children[tasks'[k].slot].actor = a
    BY <1>1, <1>4, <1>5
  <1> QED BY <1>3, <1>6, <1>7

-----------------------------------------------------------------------------
(* Types, and how slots, actors and tasks refer to each other *)

LEMMA StepCases ==
    ASSUME [Next]_vars
    PROVE  \/ SpawnAppend \/ SpawnRegister \/ SpawnRun
           \/ \E a \in DOMAIN actors :
                \/ Panic(a) \/ NotifyFailure(a) \/ RecoverClose(a) \/ LoopEnds(a)
                \/ ClientStop(a) \/ StopClose(a) \/ StopWait(a)
                \/ StopUnregister(a)
           \/ \E k \in DOMAIN tasks :
                \/ RestartEnter(k) \/ RestartStop(k) \/ RestartCreate(k)
                \/ RestartRun(k) \/ RestartRecord(k) \/ RestartCount(k)
           \/ UNCHANGED vars
  BY DEF Next, SpawnStep, ActorStep, StopStep, TaskStep

LEMMA TypeInit == SupervisorAssumption /\ Init => TypeOK
  <1> SUFFICES ASSUME SupervisorAssumption, Init PROVE TypeOK
    OBVIOUS
  <1>1. MaxPanics[strategy] \in Nat /\ Children \in Nat
    BY DEF Init, SupervisorAssumption
  <1>2. byName \in [Slots -> DOMAIN actors \cup {NoActor}]
    BY DEF Init
  <1> QED BY <1>1, <1>2 DEF Init, TypeOK, NotSpawning, NoActor

\* The part of TypeOK a step of one actor can disturb.
LEMMA ActorKeepsType ==
    ASSUME TypeOK, NEW a, ActorMoves(a),
           byID' \subseteq byID,
           byName' = byName \/ \E i \in Slots : byName' = [byName EXCEPT ![i] = NoActor],
           UNCHANGED <<children, strategy>>,
           tasks' \in Seq(TaskRecords),
           spawning' \in {spawning, NotSpawning}, restarts' = restarts,
           panics' \in 0 .. MaxPanics[strategy]
    PROVE  TypeOK'
  <1>1. byName' \in [Slots -> DOMAIN actors \cup {NoActor}]
    BY DEF TypeOK
  <1> QED BY <1>1 DEF TypeOK, ActorMoves, NotSpawning, NoActor

LEMMA TypeStep ==
    ASSUME SupervisorAssumption, TypeOK, LinkInv, [Next]_vars
    PROVE  TypeOK'
  <1>0. /\ tasks \in Seq(TaskRecords) /\ panics \in 0 .. MaxPanics[strategy]
        /\ MaxPanics[strategy] \in Nat
        /\ \A k \in DOMAIN tasks : tasks[k] \in TaskRecords
        /\ \A a \in DOMAIN actors : actors[a] \in ActorRecords
    BY DEF TypeOK, SupervisorAssumption
  <1>1. CASE SpawnAppend
    <2> DEFINE i == Len(children) + 1
               a == Len(actors) + 1
    <2>1. /\ ActorComes(a, i) /\ children' \in Seq(ChildRecords)
          /\ Len(children') <= Children
          /\ spawning' = [pc |-> "register", actor |-> a]
          /\ UNCHANGED <<byID, byName, tasks, restarts, panics, strategy>>
      BY <1>1, SpawnAppendFacts
    <2> HIDE DEF a, i
    <2>2. byName' \in [Slots -> DOMAIN actors' \cup {NoActor}]
      BY <2>1 DEF TypeOK, ActorComes
    <2> QED BY <2>1, <2>2 DEF TypeOK, ActorComes
  <1>2. CASE SpawnRegister
    <2> DEFINE a == spawning.actor
    <2>1. a \in DOMAIN actors /\ actors[a].child \in Slots
      BY <1>0, <1>2, SpawnRegisterFacts DEF LinkInv, ActorRecords
    <2>2. /\ spawning' = [spawning EXCEPT !.pc = "run"]
          /\ byID' = byID \cup {a}
          /\ byName' = [byName EXCEPT ![actors[a].child] = a]
          /\ UNCHANGED <<actors, children, tasks, restarts, panics, strategy>>
      BY <1>2, SpawnRegisterFacts
    <2>3. byName' \in [Slots -> DOMAIN actors \cup {NoActor}]
      BY <2>1, <2>2 DEF TypeOK
    <2>4. spawning' \in [pc : {"idle", "register", "run"}, actor : Nat]
      BY <2>2 DEF TypeOK
    <2> QED BY <2>1, <2>2, <2>3, <2>4 DEF TypeOK
  <1>3. CASE SpawnRun
    <2>1. spawning.actor \in DOMAIN actors
      BY <1>3 DEF SpawnRun, LinkInv
    <2> QED BY <1>0, <1>3, <2>1, SpawnRunFacts, ActorKeepsType
  <1>4. ASSUME NEW a \in DOMAIN actors, Panic(a)
        PROVE  TypeOK'
    BY <1>0, <1>4, PanicFacts, ActorKeepsType
  <1>5. ASSUME NEW a \in DOMAIN actors, RecoverClose(a)
        PROVE  TypeOK'
    BY <1>0, <1>5, RecoverFacts, ActorKeepsType
  <1>6. ASSUME NEW a \in DOMAIN actors, LoopEnds(a)
        PROVE  TypeOK'
    BY <1>0, <1>6, LoopEndFacts, ActorKeepsType
  <1>7. ASSUME NEW a \in DOMAIN actors, ClientStop(a)
        PROVE  TypeOK'
    BY <1>0, <1>7, ClientStopFacts, ActorKeepsType
  <1>8. ASSUME NEW a \in DOMAIN actors, StopClose(a)
        PROVE  TypeOK'
    BY <1>0, <1>8, StopCloseFacts, ActorKeepsType
  <1>9. ASSUME NEW a \in DOMAIN actors, StopWait(a)
        PROVE  TypeOK'
    BY <1>0, <1>9, StopWaitFacts, ActorKeepsType
  <1>10. ASSUME NEW a \in DOMAIN actors, NotifyFailure(a)
        PROVE  TypeOK'
    BY <1>0, <1>10, NotifyActorFacts, NotifyTaskFacts, ActorKeepsType
  <1>11. ASSUME NEW a \in DOMAIN actors, StopUnregister(a)
        PROVE  TypeOK'
    <2>1. actors[a].child \in Slots
      BY <1>0 DEF ActorRecords
    <2> QED BY <1>0, <1>11, <2>1, UnregisterFacts, ActorKeepsType
  <1>12. ASSUME NEW k \in DOMAIN tasks, RestartEnter(k)
        PROVE  TypeOK'
    <2>1. tasks[k].slot \in DOMAIN children
      BY DEF LinkInv, TaskLinks
    <2>2. CASE Retries(k) + 1 > MaxRetries
      BY <1>12, <2>1, <2>2, GiveUpFacts, SMTT(40) DEF TypeOK, TaskMoves
    <2>3. CASE ~(Retries(k) + 1 > MaxRetries)
      BY <1>12, <2>1, <2>3, EnterFacts, SMTT(40) DEF TypeOK, TaskMoves, ChildMoves
    <2> QED BY <2>2, <2>3
  <1>13. ASSUME NEW k \in DOMAIN tasks, RestartStop(k)
        PROVE  TypeOK'
    <2>1. tasks[k].actor \in DOMAIN actors
      BY <1>13 DEF LinkInv, TaskLinks, RestartStop, Copied
    <2>2. /\ ActorMoves(tasks[k].actor) /\ TaskMoves(k)
          /\ UNCHANGED <<children, byID, byName, spawning, restarts, panics,
                         strategy>>
      BY <1>13, <2>1, RestartStopFacts
    <2> QED BY <1>0, <2>2, ActorKeepsType DEF TaskMoves
  <1>14. ASSUME NEW k \in DOMAIN tasks, RestartCreate(k)
        PROVE  TypeOK'
    <2> DEFINE i == tasks[k].slot
               a == Len(actors) + 1
    <2>1. /\ ActorComes(a, i) /\ i \in Slots /\ TaskMoves(k)
          /\ byID' = byID \cup {a} /\ byName' = [byName EXCEPT ![i] = a]
          /\ UNCHANGED <<children, spawning, restarts, panics, strategy>>
      BY <1>14, RestartCreateFacts
    <2> HIDE DEF a, i
    <2>2. byName' \in [Slots -> DOMAIN actors' \cup {NoActor}]
      BY <2>1 DEF TypeOK, ActorComes
    <2> QED BY <2>1, <2>2 DEF TypeOK, ActorComes, TaskMoves
  <1>15. ASSUME NEW k \in DOMAIN tasks, RestartRun(k)
        PROVE  TypeOK'
    <2>1. tasks[k].new \in DOMAIN actors
      BY <1>15 DEF LinkInv, TaskLinks, RestartRun, Replaced
    <2>2. /\ ActorMoves(tasks[k].new) /\ TaskMoves(k)
          /\ UNCHANGED <<children, byID, byName, spawning, restarts, panics,
                         strategy>>
      BY <1>15, <2>1, RestartRunFacts
    <2> QED BY <1>0, <2>2, ActorKeepsType DEF TaskMoves
  <1>16. ASSUME NEW k \in DOMAIN tasks, RestartRecord(k)
        PROVE  TypeOK'
    <2>1. tasks[k].slot \in DOMAIN children /\ tasks[k].new # NoActor
      BY <1>16 DEF LinkInv, TaskLinks, RestartRecord, Replaced
    <2> QED BY <1>16, <2>1, RestartRecordFacts, SMTT(40) DEF TypeOK, TaskMoves, ChildMoves
  <1>17. ASSUME NEW k \in DOMAIN tasks, RestartCount(k)
        PROVE  TypeOK'
    BY <1>17, RestartCountFacts DEF TypeOK, TaskMoves
  <1>18. CASE UNCHANGED vars
    BY <1>18 DEF vars, TypeOK
  <1> QED BY <1>1, <1>2, <1>3, <1>4, <1>5, <1>6, <1>7, <1>8, <1>9, <1>10, <1>11, <1>12, <1>13, <1>14, <1>15, <1>16, <1>17, <1>18, StepCases

LEMMA LinkInit == Init => LinkInv
  BY DEF Init, LinkInv, NotSpawning

LEMMA LinksKept ==
    ASSUME NEW j \in DOMAIN tasks, TaskLinks(j), tasks'[j] = tasks[j],
           DOMAIN children \subseteq DOMAIN children',
           DOMAIN actors \subseteq DOMAIN actors',
           \A b \in DOMAIN actors : actors'[b].child = actors[b].child,
           tasks[j].pc = "run" => actors'[tasks[j].new].loop = "none"
    PROVE  TaskLinks(j)'
  <1>1. tasks[j].new \in DOMAIN actors' \cup {NoActor}
    BY DEF TaskLinks
  <1>2. Copied(j) => /\ tasks[j].actor \in DOMAIN actors'
                     /\ actors'[tasks[j].actor].child = tasks[j].slot
    BY DEF TaskLinks
  <1>3. Replaced(j) => /\ tasks[j].new # NoActor
                       /\ actors'[tasks[j].new].child = tasks[j].slot
    BY DEF TaskLinks
  <1> QED BY <1>1, <1>2, <1>3 DEF TaskLinks, Copied, Replaced

LEMMA ActorKeepsLinks ==
    ASSUME LinkInv, NEW a \in DOMAIN actors, ActorMoves(a),
           actors[a].loop = "none" => actors'[a].loop = "none",
           UNCHANGED <<children, tasks, spawning>>
    PROVE  LinkInv'
  <1>1. \A b \in DOMAIN actors :
          /\ actors'[b].child = actors[b].child
          /\ actors[b].loop = "none" => actors'[b].loop = "none"
    BY DEF ActorMoves
  <1>2. DOMAIN actors' = DOMAIN actors
    BY DEF ActorMoves
  <1>3. \A k \in DOMAIN tasks : TaskLinks(k)'
    BY <1>1, <1>2, SMTT(40) DEF LinkInv, TaskLinks, Copied, Replaced
  <1> QED BY <1>1, <1>2, <1>3 DEF LinkInv

\* A step of a task that makes no actor and does not start one.
LEMMA TaskKeepsLinks ==
    ASSUME LinkInv, NEW k \in DOMAIN tasks, TaskMoves(k),
           DOMAIN actors' = DOMAIN actors,
           \A b \in DOMAIN actors : /\ actors'[b].child = actors[b].child
                                    /\ actors'[b].loop = actors[b].loop,
           DOMAIN children' = DOMAIN children,
           \A i \in DOMAIN children :
             /\ children'[i].actor \in DOMAIN actors
             /\ actors[children'[i].actor].child = i,
           tasks'[k].new = tasks[k].new, TaskLinks(k)', spawning' = spawning
    PROVE  LinkInv'
  <1>1. \A j \in DOMAIN tasks : j # k => TaskLinks(j)'
    <2> SUFFICES ASSUME NEW j \in DOMAIN tasks, j # k PROVE TaskLinks(j)'
      OBVIOUS
    <2>1. tasks'[j] = tasks[j] /\ TaskLinks(j)
      BY DEF TaskMoves, LinkInv
    <2>2. tasks[j].pc = "run" => actors'[tasks[j].new].loop = "none"
      BY <2>1 DEF TaskLinks, Replaced
    <2> QED BY <2>1, <2>2, LinksKept
  <1>2. \A j \in DOMAIN tasks : tasks'[j].new = tasks[j].new
    BY DEF TaskMoves
  <1>3. DOMAIN tasks' = DOMAIN tasks
    BY DEF TaskMoves
  <1>4. \A j \in DOMAIN tasks' : TaskLinks(j)'
    BY <1>1, <1>3
  <1> QED BY <1>2, <1>3, <1>4 DEF LinkInv

LEMMA LinkStep ==
    ASSUME SupervisorAssumption, TypeOK, LinkInv, [Next]_vars
    PROVE  LinkInv'
  <1>1. CASE SpawnAppend
    <2> DEFINE i == Len(children) + 1
               a == Len(actors) + 1
    <2>1. /\ ActorComes(a, i) /\ DOMAIN children' = DOMAIN children \cup {i}
          /\ i \notin DOMAIN children
          /\ \A j \in DOMAIN children : children'[j] = children[j]
          /\ children'[i].actor = a
          /\ spawning' = [pc |-> "register", actor |-> a]
          /\ tasks' = tasks
      BY <1>1, SpawnAppendFacts
    <2> HIDE DEF a, i
    <2>2. actors'[a].child = i /\ actors'[a].loop = "none"
      BY <2>1 DEF ActorComes, NewBaseActor
    <2>3. /\ DOMAIN actors' = DOMAIN actors \cup {a} /\ a \notin DOMAIN actors
          /\ \A b \in DOMAIN actors : actors'[b] = actors[b] /\ a # NoActor
      BY <2>1 DEF ActorComes
    <2>4. \A k \in DOMAIN tasks : TaskLinks(k)'
      BY <2>1, <2>3 DEF LinkInv, TaskLinks, Copied, Replaced
    <2>5. \A k \in DOMAIN tasks : tasks[k].new # a
      BY <2>1, <2>3 DEF LinkInv, TaskLinks, ActorComes
    <2> QED BY <2>1, <2>2, <2>3, <2>4, <2>5 DEF LinkInv
  <1>2. CASE SpawnRegister
    <2>1. /\ spawning.pc = "register" /\ spawning'.actor = spawning.actor
          /\ UNCHANGED <<actors, children, tasks>>
      BY <1>2, SpawnRegisterFacts
    <2> QED BY <2>1 DEF LinkInv, TaskLinks, Copied, Replaced
  <1>3. CASE SpawnRun
    <2> DEFINE a == spawning.actor
    <2>1. a \in DOMAIN actors /\ \A k \in DOMAIN tasks : tasks[k].new # a
      BY <1>3 DEF SpawnRun, LinkInv
    <2>2. /\ ActorMoves(a) /\ spawning' = NotSpawning
          /\ UNCHANGED <<children, tasks>>
      BY <1>3, <2>1, SpawnRunFacts
    <2> HIDE DEF a
    <2>3. /\ DOMAIN actors' = DOMAIN actors
          /\ \A b \in DOMAIN actors : /\ actors'[b].child = actors[b].child
                                      /\ b # a => actors'[b] = actors[b]
      BY <2>2 DEF ActorMoves
    <2>4. \A k \in DOMAIN tasks : TaskLinks(k)'
      <3> SUFFICES ASSUME NEW k \in DOMAIN tasks PROVE TaskLinks(k)'
        OBVIOUS
      <3>1. tasks'[k] = tasks[k] /\ TaskLinks(k) /\ tasks[k].new # a
        BY <2>1, <2>2 DEF LinkInv
      <3>2. tasks[k].pc = "run" => actors'[tasks[k].new].loop = "none"
        BY <3>1, <2>3 DEF TaskLinks, Replaced
      <3> QED BY <2>2, <2>3, <3>1, <3>2, LinksKept
    <2>5. \A i \in DOMAIN children : /\ children[i].actor \in DOMAIN actors'
                                     /\ actors'[children[i].actor].child = i
      BY <2>3 DEF LinkInv
    <2>6. \A b \in DOMAIN actors' : actors'[b].child \in DOMAIN children
      BY <2>3 DEF LinkInv
    <2>7. spawning'.pc = "idle"
      BY <2>2 DEF NotSpawning
    <2> QED BY <2>2, <2>4, <2>5, <2>6, <2>7 DEF LinkInv
  <1>4. ASSUME NEW a \in DOMAIN actors, Panic(a)
        PROVE  LinkInv'
    BY <1>4, PanicFacts, ActorKeepsLinks
  <1>5. ASSUME NEW a \in DOMAIN actors, RecoverClose(a)
        PROVE  LinkInv'
    BY <1>5, RecoverFacts, ActorKeepsLinks
  <1>6. ASSUME NEW a \in DOMAIN actors, LoopEnds(a)
        PROVE  LinkInv'
    BY <1>6, LoopEndFacts, ActorKeepsLinks
  <1>7. ASSUME NEW a \in DOMAIN actors, ClientStop(a)
        PROVE  LinkInv'
    BY <1>7, ClientStopFacts, ActorKeepsLinks
  <1>8. ASSUME NEW a \in DOMAIN actors, StopClose(a)
        PROVE  LinkInv'
    BY <1>8, StopCloseFacts, ActorKeepsLinks
  <1>9. ASSUME NEW a \in DOMAIN actors, StopWait(a)
        PROVE  LinkInv'
    BY <1>9, StopWaitFacts, ActorKeepsLinks
  <1>10. ASSUME NEW a \in DOMAIN actors, StopUnregister(a)
        PROVE  LinkInv'
    BY <1>10, UnregisterFacts, ActorKeepsLinks
  <1>11. ASSUME NEW a \in DOMAIN actors, NotifyFailure(a)
        PROVE  LinkInv'
    <2>1. /\ ActorMoves(a) /\ UNCHANGED <<children, spawning>>
          /\ actors[a].loop = "recover"
      BY <1>11, NotifyActorFacts
    <2>2. /\ DOMAIN tasks \subseteq DOMAIN tasks'
          /\ \A k \in DOMAIN tasks : tasks'[k] = tasks[k]
          /\ \A k \in DOMAIN tasks' \ DOMAIN tasks :
               /\ tasks'[k].pc = "enter" /\ tasks'[k].new = NoActor
               /\ tasks'[k].slot \in DOMAIN children
      BY <1>11, NotifyTaskFacts
    <2>3. /\ DOMAIN actors' = DOMAIN actors
          /\ \A b \in DOMAIN actors :
               /\ actors'[b].child = actors[b].child
               /\ actors[b].loop = "none" => actors'[b].loop = "none"
      BY <2>1 DEF ActorMoves
    <2>4. \A k \in DOMAIN tasks : TaskLinks(k)'
      BY <2>1, <2>2, <2>3 DEF LinkInv, TaskLinks, Copied, Replaced
    <2>5. \A k \in DOMAIN tasks' \ DOMAIN tasks : TaskLinks(k)'
      BY <2>1, <2>2, <2>3 DEF LinkInv, TaskLinks, Copied, Replaced
    <2>6. \A j, k \in DOMAIN tasks' :
            tasks'[j].new = tasks'[k].new /\ tasks'[k].new # NoActor => j = k
      BY <2>2 DEF LinkInv
    <2>7. spawning.pc # "idle" =>
            \A k \in DOMAIN tasks' : tasks'[k].new # spawning.actor
      <3>1. spawning.pc # "idle" => spawning.actor # NoActor
        BY DEF LinkInv, TypeOK, NoActor
      <3> QED BY <2>2, <3>1 DEF LinkInv
    <2> QED BY <2>1, <2>3, <2>4, <2>5, <2>6, <2>7 DEF LinkInv
  <1>12. ASSUME NEW k \in DOMAIN tasks, RestartEnter(k)
        PROVE  LinkInv'
    <2>1. tasks[k].slot \in DOMAIN children /\ TaskLinks(k)
      BY DEF LinkInv, TaskLinks
    <2>2. CASE Retries(k) + 1 > MaxRetries
      <3>1. /\ TaskMoves(k) /\ tasks'[k].pc = "done"
            /\ tasks'[k].new = tasks[k].new
            /\ UNCHANGED <<actors, children, spawning>>
        BY <1>12, <2>1, <2>2, GiveUpFacts
      <3>2. TaskLinks(k)'
        BY <2>1, <3>1 DEF TaskLinks, Copied, Replaced, TaskMoves
      <3> QED BY <3>1, <3>2, TaskKeepsLinks DEF LinkInv
    <2>3. CASE ~(Retries(k) + 1 > MaxRetries)
      <3>1. /\ TaskMoves(k) /\ tasks'[k].pc = "stop"
            /\ tasks[k].pc = "enter" /\ tasks'[k].new = tasks[k].new
            /\ tasks'[k].actor = children[tasks[k].slot].actor
            /\ ChildMoves(tasks[k].slot)
            /\ children'[tasks[k].slot].actor = children[tasks[k].slot].actor
            /\ UNCHANGED <<actors, spawning>>
        BY <1>12, <2>1, <2>3, EnterFacts
      <3>2. TaskLinks(k)'
        BY <2>1, <3>1 DEF LinkInv, TaskLinks, Copied, Replaced, TaskMoves,
                          ChildMoves
      <3>3. /\ DOMAIN children' = DOMAIN children
            /\ \A i \in DOMAIN children : children'[i].actor = children[i].actor
        BY <3>1 DEF ChildMoves
      <3> QED BY <3>1, <3>2, <3>3, TaskKeepsLinks DEF LinkInv
    <2> QED BY <2>2, <2>3
  <1>13. ASSUME NEW k \in DOMAIN tasks, RestartStop(k)
        PROVE  LinkInv'
    <2>1. tasks[k].slot \in DOMAIN children /\ TaskLinks(k)
      BY DEF LinkInv, TaskLinks
    <2>2. tasks[k].actor \in DOMAIN actors
      BY <1>13, <2>1 DEF TaskLinks, RestartStop, Copied
    <2> DEFINE a == tasks[k].actor
    <2>3. /\ ActorMoves(a) /\ TaskMoves(k) /\ actors'[a].loop = actors[a].loop
          /\ tasks[k].pc = "stop" /\ tasks'[k].pc = "create"
          /\ tasks'[k].actor = tasks[k].actor /\ tasks'[k].new = tasks[k].new
          /\ UNCHANGED <<children, spawning>>
      BY <1>13, <2>2, RestartStopFacts
    <2> HIDE DEF a
    <2>4. /\ DOMAIN actors' = DOMAIN actors
          /\ \A b \in DOMAIN actors : /\ actors'[b].child = actors[b].child
                                      /\ actors'[b].loop = actors[b].loop
      BY <2>3 DEF ActorMoves
    <2>5. TaskLinks(k)'
      BY <2>1, <2>3, <2>4 DEF TaskLinks, Copied, Replaced, TaskMoves
    <2> QED BY <2>3, <2>4, <2>5, TaskKeepsLinks DEF LinkInv
  <1>14. ASSUME NEW k \in DOMAIN tasks, RestartCreate(k)
        PROVE  LinkInv'
    <2>1. tasks[k].slot \in DOMAIN children /\ TaskLinks(k)
      BY DEF LinkInv, TaskLinks
    <2> DEFINE i == tasks[k].slot
               a == Len(actors) + 1
    <2>2. /\ ActorComes(a, i) /\ i \in Slots /\ TaskMoves(k)
          /\ tasks[k].pc = "create" /\ tasks'[k].pc = "run"
          /\ tasks'[k].new = a /\ tasks'[k].actor = tasks[k].actor
          /\ UNCHANGED <<children, spawning>>
      BY <1>14, RestartCreateFacts
    <2> HIDE DEF a
    <2>3. /\ DOMAIN actors' = DOMAIN actors \cup {a} /\ a \notin DOMAIN actors
          /\ \A b \in DOMAIN actors : actors'[b] = actors[b]
          /\ a # NoActor /\ actors'[a].child = i /\ actors'[a].loop = "none"
      BY <2>2 DEF ActorComes, NewBaseActor
    <2>4. /\ DOMAIN tasks' = DOMAIN tasks /\ tasks'[k].slot = i
          /\ \A j \in DOMAIN tasks : j # k => tasks'[j] = tasks[j]
      BY <2>2 DEF TaskMoves
    <2> HIDE DEF i
    <2>5. TaskLinks(k)'
      BY <2>1, <2>2, <2>3, <2>4 DEF TaskLinks, Copied, Replaced, i
    <2>6. \A j \in DOMAIN tasks : j # k => TaskLinks(j)'
      BY <2>2, <2>3, <2>4 DEF LinkInv, TaskLinks, Copied, Replaced
    <2>7. \A j \in DOMAIN tasks : tasks[j].new # a
      BY <2>3 DEF LinkInv, TaskLinks
    <2>8. spawning.pc # "idle" => spawning.actor # a
      BY <2>3 DEF LinkInv
    <2>9. \A b \in DOMAIN actors' : actors'[b].child \in DOMAIN children
      BY <2>1, <2>3 DEF LinkInv, i
    <2>10. \A h, j \in DOMAIN tasks' :
             tasks'[h].new = tasks'[j].new /\ tasks'[j].new # NoActor => h = j
      BY <2>2, <2>4, <2>7 DEF LinkInv
    <2>11. \A j \in DOMAIN tasks' : TaskLinks(j)'
      BY <2>4, <2>5, <2>6
    <2>12. spawning.pc # "idle" =>
             /\ spawning.actor \in DOMAIN actors'
             /\ actors'[spawning.actor].loop = "none"
             /\ \A j \in DOMAIN tasks' : tasks'[j].new # spawning.actor
      BY <2>2, <2>3, <2>4, <2>8 DEF LinkInv
    <2>13. \A j \in DOMAIN children : /\ children[j].actor \in DOMAIN actors'
                                      /\ actors'[children[j].actor].child = j
      BY <2>3 DEF LinkInv
    <2> QED BY <2>2, <2>9, <2>10, <2>11, <2>12, <2>13 DEF LinkInv
  <1>15. ASSUME NEW k \in DOMAIN tasks, RestartRun(k)
        PROVE  LinkInv'
    <2>1. tasks[k].slot \in DOMAIN children /\ TaskLinks(k)
      BY DEF LinkInv, TaskLinks
    <2> DEFINE a == tasks[k].new
    <2>2. a \in DOMAIN actors /\ a # NoActor /\ actors[a].loop = "none"
      BY <1>15, <2>1 DEF TaskLinks, RestartRun, Replaced
    <2>3. /\ ActorMoves(a) /\ TaskMoves(k)
          /\ tasks[k].pc = "run" /\ tasks'[k].pc = "record"
          /\ tasks'[k].actor = tasks[k].actor /\ tasks'[k].new = a
          /\ UNCHANGED <<children, spawning>>
      BY <1>15, <2>2, RestartRunFacts
    <2>4. \A j \in DOMAIN tasks : j # k => tasks[j].new # a
      BY <2>2 DEF LinkInv
    <2>5. spawning.pc # "idle" => spawning.actor # a
      BY DEF LinkInv
    <2>6. /\ DOMAIN actors' = DOMAIN actors
          /\ \A b \in DOMAIN actors : /\ actors'[b].child = actors[b].child
                                      /\ b # a => actors'[b] = actors[b]
      BY <2>3 DEF ActorMoves
    <2>7. /\ DOMAIN tasks' = DOMAIN tasks /\ tasks'[k].slot = tasks[k].slot
          /\ \A j \in DOMAIN tasks : j # k => tasks'[j] = tasks[j]
      BY <2>3 DEF TaskMoves
    <2>8. TaskLinks(k)'
      <3>1. /\ tasks[k].actor \in DOMAIN actors
            /\ actors'[tasks[k].actor].child = tasks[k].slot
            /\ actors'[a].child = tasks[k].slot
        BY <2>1, <2>3, <2>6 DEF TaskLinks, Copied, Replaced
      <3> QED BY <2>1, <2>2, <2>3, <2>6, <2>7, <3>1
              DEF TaskLinks, Copied, Replaced
    <2> HIDE DEF a
    <2>9. \A j \in DOMAIN tasks : j # k => TaskLinks(j)'
      <3> SUFFICES ASSUME NEW j \in DOMAIN tasks, j # k PROVE TaskLinks(j)'
        OBVIOUS
      <3>1. tasks'[j] = tasks[j] /\ TaskLinks(j) /\ tasks[j].new # a
        BY <2>4, <2>7 DEF LinkInv
      <3>2. tasks[j].pc = "run" => actors'[tasks[j].new].loop = "none"
        BY <3>1, <2>6 DEF TaskLinks, Replaced
      <3> QED BY <2>3, <2>6, <3>1, <3>2, LinksKept
    <2>10. \A j \in DOMAIN tasks : tasks'[j].new = tasks[j].new
      BY <2>3, <2>7 DEF a
    <2>11. \A j \in DOMAIN tasks' : TaskLinks(j)'
      BY <2>7, <2>8, <2>9
    <2>12. \A i \in DOMAIN children : /\ children[i].actor \in DOMAIN actors'
                                      /\ actors'[children[i].actor].child = i
      BY <2>6 DEF LinkInv
    <2>13. \A b \in DOMAIN actors' : actors'[b].child \in DOMAIN children
      BY <2>6 DEF LinkInv
    <2>14. \A h, j \in DOMAIN tasks' :
             tasks'[h].new = tasks'[j].new /\ tasks'[j].new # NoActor => h = j
      BY <2>7, <2>10 DEF LinkInv
    <2>15. spawning.pc # "idle" =>
             /\ spawning.actor \in DOMAIN actors'
             /\ actors'[spawning.actor].loop = "none"
             /\ \A j \in DOMAIN tasks' : tasks'[j].new # spawning.actor
      BY <2>5, <2>6, <2>7, <2>10 DEF LinkInv
    <2> QED BY <2>3, <2>11, <2>12, <2>13, <2>14, <2>15 DEF LinkInv
  <1>16. ASSUME NEW k \in DOMAIN tasks, RestartRecord(k)
        PROVE  LinkInv'
    <2>1. tasks[k].slot \in DOMAIN children /\ TaskLinks(k)
      BY DEF LinkInv, TaskLinks
    <2> DEFINE a == tasks[k].new
               i == tasks[k].slot
    <2>2. /\ a # NoActor /\ a \in DOMAIN actors /\ actors[a].child = i
          /\ i \in DOMAIN children
      BY <1>16, <2>1 DEF TaskLinks, RestartRecord, Replaced
    <2>3. /\ TaskMoves(k) /\ ChildMoves(i) /\ tasks'[k].pc = "count"
          /\ tasks'[k].new = tasks[k].new /\ children'[i].actor = a
          /\ UNCHANGED <<actors, spawning>>
      BY <1>16, <2>2, RestartRecordFacts
    <2>4. TaskLinks(k)'
      BY <2>1, <2>3 DEF TaskLinks, Copied, Replaced, TaskMoves, ChildMoves
    <2> HIDE DEF a, i
    <2>5. /\ DOMAIN children' = DOMAIN children
          /\ \A j \in DOMAIN children : /\ children'[j].actor \in DOMAIN actors
                                        /\ actors[children'[j].actor].child = j
      BY <2>2, <2>3 DEF LinkInv, ChildMoves
    <2> QED BY <2>3, <2>4, <2>5, TaskKeepsLinks
  <1>17. ASSUME NEW k \in DOMAIN tasks, RestartCount(k)
        PROVE  LinkInv'
    <2>1. tasks[k].slot \in DOMAIN children /\ TaskLinks(k)
      BY DEF LinkInv, TaskLinks
    <2>2. /\ TaskMoves(k) /\ tasks'[k].pc = "done"
          /\ tasks'[k].new = tasks[k].new
          /\ UNCHANGED <<actors, children, spawning>>
      BY <1>17, RestartCountFacts
    <2>3. TaskLinks(k)'
      BY <2>1, <2>2 DEF TaskLinks, Copied, Replaced, TaskMoves
    <2> QED BY <2>2, <2>3, TaskKeepsLinks DEF LinkInv
  <1>18. CASE UNCHANGED vars
    BY <1>18 DEF vars, LinkInv, TaskLinks, Copied, Replaced
  <1> QED BY <1>1, <1>2, <1>3, <1>4, <1>5, <1>6, <1>7, <1>8, <1>9, <1>10, <1>11, <1>12, <1>13, <1>14, <1>15, <1>16, <1>17, <1>18, StepCases

-----------------------------------------------------------------------------
(* A stopped actor is gone *)

LEMMA GoneInit == Init => GoneInv /\ StoppedIsGone
  BY DEF Init, GoneInv, StoppedIsGone

\* A step of one actor that leaves the registry alone.
LEMMA ActorKeepsGone ==
    ASSUME TypeOK, GoneInv, StoppedIsGone,
           NEW a \in DOMAIN actors, ActorMoves(a), UNCHANGED <<byID, byName>>,
           actors'[a].stop = "finished" => actors[a].stop = "finished",
           actors'[a].stop \in {"unregister", "finished"}
             => actors'[a].loop = "done"
    PROVE  GoneInv' /\ StoppedIsGone'
  <1>1. /\ DOMAIN actors' = DOMAIN actors
        /\ \A b \in DOMAIN actors :
             /\ actors'[b].child = actors[b].child
             /\ actors'[b].stop = "finished" => actors[b].stop = "finished"
             /\ actors'[b].stop \in {"unregister", "finished"}
                  => actors'[b].loop = "done"
    BY DEF ActorMoves, GoneInv
  <1>2. \A i \in Slots : byName[i] # NoActor => byName[i] \in DOMAIN actors
    BY DEF TypeOK
  <1>3. GoneInv'
    BY <1>1, <1>2 DEF GoneInv
  <1>4. StoppedIsGone'
    BY <1>1 DEF StoppedIsGone
  <1> QED BY <1>3, <1>4

\* A step that registers an actor, new or not running yet.
LEMMA RegisterKeepsGone ==
    ASSUME TypeOK, GoneInv, StoppedIsGone,
           NEW a \in DOMAIN actors', a # NoActor,
           DOMAIN actors' = DOMAIN actors \cup {a},
           \A b \in DOMAIN actors : actors'[b] = actors[b],
           actors'[a].stop \notin {"unregister", "finished"},
           actors'[a].child \in Slots,
           byID' = byID \cup {a},
           byName' = [byName EXCEPT ![actors'[a].child] = a]
    PROVE  GoneInv' /\ StoppedIsGone'
  <1> DEFINE c == actors'[a].child
  <1>1. /\ byName'[c] = a
        /\ \A i \in Slots : i # c => byName'[i] = byName[i]
    BY DEF TypeOK
  <1>2. \A i \in Slots : byName[i] # NoActor => byName[i] \in DOMAIN actors
    BY DEF TypeOK
  <1> HIDE DEF c
  <1>3. \A i \in Slots : byName'[i] # NoActor => actors'[byName'[i]].child = i
    BY <1>1, <1>2 DEF GoneInv, c
  <1>4. GoneInv'
    BY <1>3 DEF GoneInv
  <1>5. ASSUME NEW b \in DOMAIN actors', actors'[b].stop = "finished"
        PROVE  /\ b \notin byID' /\ actors'[b].loop = "done"
               /\ \A i \in Slots : byName'[i] # b
    <2>1. b # a /\ b \in DOMAIN actors /\ actors[b].stop = "finished"
      BY <1>5
    <2> QED BY <1>1, <2>1 DEF StoppedIsGone
  <1>6. StoppedIsGone'
    BY <1>5 DEF StoppedIsGone
  <1> QED BY <1>4, <1>6

LEMMA GoneStep ==
    ASSUME SupervisorAssumption, TypeOK, LinkInv, GoneInv, StoppedIsGone,
           [Next]_vars
    PROVE  GoneInv' /\ StoppedIsGone'
  <1>0. \A a \in DOMAIN actors :
          /\ actors[a].child \in Slots /\ a # NoActor
          /\ actors[a].stop \in {"unregister", "finished"}
               => actors[a].loop = "done"
    <2>1. \A a \in DOMAIN actors : actors[a] \in ActorRecords /\ a # NoActor
      BY DEF TypeOK, NoActor
    <2> QED BY <2>1 DEF ActorRecords, GoneInv
  <1>1. CASE SpawnAppend
    <2> DEFINE i == Len(children) + 1
               a == Len(actors) + 1
    <2>1. ActorComes(a, i) /\ UNCHANGED <<byID, byName>>
      BY <1>1, SpawnAppendFacts
    <2> HIDE DEF a, i
    <2>2. /\ DOMAIN actors' = DOMAIN actors \cup {a} /\ a \notin DOMAIN actors
          /\ actors'[a].stop = "none"
          /\ \A b \in DOMAIN actors : actors'[b] = actors[b]
      BY <2>1 DEF ActorComes, NewBaseActor
    <2>3. \A j \in Slots : byName[j] # NoActor => byName[j] \in DOMAIN actors
      BY DEF TypeOK
    <2>4. GoneInv'
      BY <2>1, <2>2, <2>3 DEF GoneInv
    <2>5. StoppedIsGone'
      BY <2>1, <2>2 DEF StoppedIsGone
    <2> QED BY <2>4, <2>5
  <1>2. CASE SpawnRegister
    <2> DEFINE a == spawning.actor
    <2>1. a \in DOMAIN actors /\ actors[a].loop = "none"
      BY <1>2, SpawnRegisterFacts DEF LinkInv
    <2>2. /\ byID' = byID \cup {a} /\ actors' = actors
          /\ byName' = [byName EXCEPT ![actors[a].child] = a]
      BY <1>2, SpawnRegisterFacts
    <2> HIDE DEF a
    <2> QED BY <1>0, <2>1, <2>2, RegisterKeepsGone
  <1>3. CASE SpawnRun
    <2>1. spawning.actor \in DOMAIN actors /\ actors[spawning.actor].loop = "none"
      BY <1>3 DEF SpawnRun, LinkInv
    <2> QED BY <1>0, <1>3, <2>1, SpawnRunFacts, ActorKeepsGone
  <1>4. ASSUME NEW a \in DOMAIN actors, Panic(a)
        PROVE  GoneInv' /\ StoppedIsGone'
    BY <1>0, <1>4, PanicFacts, ActorKeepsGone
  <1>5. ASSUME NEW a \in DOMAIN actors, NotifyFailure(a)
        PROVE  GoneInv' /\ StoppedIsGone'
    BY <1>0, <1>5, NotifyActorFacts, ActorKeepsGone
  <1>6. ASSUME NEW a \in DOMAIN actors, RecoverClose(a)
        PROVE  GoneInv' /\ StoppedIsGone'
    BY <1>0, <1>6, RecoverFacts, ActorKeepsGone
  <1>7. ASSUME NEW a \in DOMAIN actors, LoopEnds(a)
        PROVE  GoneInv' /\ StoppedIsGone'
    BY <1>0, <1>7, LoopEndFacts, ActorKeepsGone
  <1>8. ASSUME NEW a \in DOMAIN actors, ClientStop(a)
        PROVE  GoneInv' /\ StoppedIsGone'
    BY <1>0, <1>8, ClientStopFacts, ActorKeepsGone
  <1>9. ASSUME NEW a \in DOMAIN actors, StopClose(a)
        PROVE  GoneInv' /\ StoppedIsGone'
    BY <1>0, <1>9, StopCloseFacts, ActorKeepsGone
  <1>10. ASSUME NEW a \in DOMAIN actors, StopWait(a)
        PROVE  GoneInv' /\ StoppedIsGone'
    BY <1>0, <1>10, StopWaitFacts, ActorKeepsGone
  <1>11. ASSUME NEW a \in DOMAIN actors, StopUnregister(a)
        PROVE  GoneInv' /\ StoppedIsGone'
    <2> DEFINE c == actors[a].child
    <2>1. /\ ActorMoves(a) /\ byID' = byID \ {a}
          /\ byName' = [byName EXCEPT ![c] = NoActor]
          /\ actors[a].loop = "done" /\ actors'[a].loop = "done"
      BY <1>0, <1>11, UnregisterFacts
    <2>2. c \in Slots /\ a # NoActor
      BY <1>0
    <2>3. /\ byName'[c] = NoActor
          /\ \A i \in Slots : i # c => byName'[i] = byName[i]
      BY <2>1, <2>2 DEF TypeOK
    <2>4. /\ DOMAIN actors' = DOMAIN actors
          /\ \A b \in DOMAIN actors :
               /\ actors'[b].child = actors[b].child
               /\ b # a => actors'[b] = actors[b]
      BY <2>1 DEF ActorMoves
    <2>5. \A i \in Slots : byName[i] # NoActor =>
            byName[i] \in DOMAIN actors /\ actors[byName[i]].child = i
      BY DEF TypeOK, GoneInv
    <2> HIDE DEF c
    <2>6. \A i \in Slots : byName'[i] # NoActor => actors'[byName'[i]].child = i
      BY <2>3, <2>4, <2>5
    <2>7. GoneInv'
      BY <2>1, <2>4, <2>6 DEF GoneInv
    <2>8. \A i \in Slots : byName'[i] # a
      BY <2>2, <2>3, <2>5 DEF c
    <2>9. \A b \in DOMAIN actors : \A i \in Slots :
            b # a /\ byName[i] # b => byName'[i] # b
      BY <1>0, <2>2, <2>3
    <2>10. StoppedIsGone'
      BY <2>1, <2>4, <2>8, <2>9 DEF StoppedIsGone
    <2> QED BY <2>7, <2>10
  <1>12. ASSUME NEW k \in DOMAIN tasks, RestartEnter(k)
        PROVE  GoneInv' /\ StoppedIsGone'
    <2>1. UNCHANGED <<actors, byID, byName>>
      BY <1>12 DEF RestartEnter, EnterWith
    <2> QED BY <2>1 DEF GoneInv, StoppedIsGone
  <1>13. ASSUME NEW k \in DOMAIN tasks, RestartStop(k)
        PROVE  GoneInv' /\ StoppedIsGone'
    <2>1. tasks[k].actor \in DOMAIN actors
      BY <1>13 DEF LinkInv, TaskLinks, RestartStop, Copied
    <2> DEFINE a == tasks[k].actor
    <2>2. /\ ActorMoves(a) /\ UNCHANGED <<byID, byName>>
          /\ actors'[a].loop = actors[a].loop
          /\ actors'[a].stop =
               (IF actors[a].stop = "none" THEN "called" ELSE actors[a].stop)
      BY <1>13, <2>1, RestartStopFacts
    <2> HIDE DEF a
    <2> QED BY <1>0, <2>1, <2>2, ActorKeepsGone DEF a
  <1>14. ASSUME NEW k \in DOMAIN tasks, RestartCreate(k)
        PROVE  GoneInv' /\ StoppedIsGone'
    <2> DEFINE i == tasks[k].slot
               a == Len(actors) + 1
    <2>1. /\ ActorComes(a, i) /\ i \in Slots
          /\ byID' = byID \cup {a} /\ byName' = [byName EXCEPT ![i] = a]
      BY <1>14, RestartCreateFacts
    <2> HIDE DEF a, i
    <2>2. /\ DOMAIN actors' = DOMAIN actors \cup {a} /\ a \in DOMAIN actors'
          /\ \A b \in DOMAIN actors : actors'[b] = actors[b]
          /\ a # NoActor /\ actors'[a].child = i /\ actors'[a].stop = "none"
      BY <2>1 DEF ActorComes, NewBaseActor
    <2> QED BY <2>1, <2>2, RegisterKeepsGone
  <1>15. ASSUME NEW k \in DOMAIN tasks, RestartRun(k)
        PROVE  GoneInv' /\ StoppedIsGone'
    <2> DEFINE a == tasks[k].new
    <2>1. a \in DOMAIN actors /\ actors[a].loop = "none"
      BY <1>15 DEF LinkInv, TaskLinks, RestartRun, Replaced
    <2>2. /\ ActorMoves(a) /\ UNCHANGED <<byID, byName>>
          /\ actors'[a].stop = actors[a].stop
      BY <1>15, <2>1, RestartRunFacts
    <2> HIDE DEF a
    <2> QED BY <1>0, <2>1, <2>2, ActorKeepsGone
  <1>16. ASSUME NEW k \in DOMAIN tasks, RestartRecord(k)
        PROVE  GoneInv' /\ StoppedIsGone'
    <2>1. UNCHANGED <<actors, byID, byName>>
      BY <1>16 DEF RestartRecord
    <2> QED BY <2>1 DEF GoneInv, StoppedIsGone
  <1>17. ASSUME NEW k \in DOMAIN tasks, RestartCount(k)
        PROVE  GoneInv' /\ StoppedIsGone'
    <2>1. UNCHANGED <<actors, byID, byName>>
      BY <1>17 DEF RestartCount
    <2> QED BY <2>1 DEF GoneInv, StoppedIsGone
  <1>18. CASE UNCHANGED vars
    BY <1>18 DEF vars, GoneInv, StoppedIsGone
  <1> QED BY <1>1, <1>2, <1>3, <1>4, <1>5, <1>6, <1>7, <1>8, <1>9, <1>10, <1>11, <1>12, <1>13, <1>14, <1>15, <1>16, <1>17, <1>18, StepCases

-----------------------------------------------------------------------------
(* Who may have failed *)

LEMMA OverlapStays ==
    ASSUME TypeOK, SupervisorAssumption, [Next]_vars, NoOverlap'
    PROVE  NoOverlap
  <1>1. strategy' = strategy /\ (panics' = panics \/ panics' = panics + 1)
    <2>1. \/ UNCHANGED <<strategy, panics>>
          \/ \E a \in DOMAIN actors : Panic(a)
      BY StepCases DEF vars, SpawnAppend, SpawnRegister, SpawnRun,
           NotifyFailure, RecoverClose, LoopEnds, ClientStop, StopClose,
           StopWait, StopUnregister, RestartEnter, EnterWith, RestartStop,
           RestartCreate, RestartRun, RestartRecord, RestartCount
    <2> QED BY <2>1 DEF Panic
  <1>2. panics \in Nat
    BY DEF TypeOK, SupervisorAssumption
  <1> QED BY <1>1, <1>2 DEF NoOverlap

LEMMA FailureInit == Init => FailureInv
  BY DEF Init, FailureInv

\* Steps after which no actor has just failed that had not before.
LEMMA QuietKeepsFailure ==
    ASSUME LinkInv, FailureInv,
           DOMAIN actors \subseteq DOMAIN actors',
           \A b \in DOMAIN actors :
             /\ actors'[b].panics = actors[b].panics
             /\ actors'[b].loop = "recover" => actors[b].loop = "recover",
           \A b \in DOMAIN actors' \ DOMAIN actors : actors'[b].loop # "recover",
           tasks' = <<>> <=> tasks = <<>>,
           DOMAIN tasks' = DOMAIN tasks,
           \A j \in DOMAIN tasks :
             /\ tasks'[j].slot = tasks[j].slot
             /\ Active(j)' => Active(j)
             /\ Active(j)' => children'[tasks[j].slot].actor
                                = children[tasks[j].slot].actor,
           UNCHANGED <<panics, strategy>>
    PROVE  FailureInv'
  <1>1. \A a \in DOMAIN actors' : actors'[a].loop = "recover" =>
          a \in DOMAIN actors /\ actors[a].loop = "recover"
    OBVIOUS
  <1>2. \A a \in DOMAIN actors' :
          actors'[a].loop = "recover" => actors'[a].panics > 0 /\ panics > 0
    BY <1>1 DEF FailureInv
  <1>3. panics = 0 => tasks' = <<>>
    BY DEF FailureInv
  <1>4. panics <= 1 => \A a, b \in DOMAIN actors' :
          actors'[a].loop = "recover" =>
            tasks' = <<>> /\ (actors'[b].loop = "recover" => b = a)
    BY <1>1 DEF FailureInv
  <1>5. ASSUME strategy = "one" /\ Backlog = 0, NEW k \in DOMAIN tasks,
               Active(k)'
        PROVE  LET b == children'[tasks'[k].slot].actor
               IN  actors'[b].panics > 0 /\ actors'[b].loop # "recover"
    <2> DEFINE b == children[tasks[k].slot].actor
    <2>1. b = children'[tasks'[k].slot].actor /\ Active(k)
      BY <1>5
    <2>2. actors[b].panics > 0 /\ actors[b].loop # "recover"
      BY <1>5, <2>1 DEF FailureInv
    <2>3. b \in DOMAIN actors
      BY DEF LinkInv, TaskLinks
    <2> HIDE DEF b
    <2> QED BY <2>1, <2>2, <2>3
  <1> QED BY <1>2, <1>3, <1>4, <1>5 DEF FailureInv

LEMMA ActorKeepsFailure ==
    ASSUME LinkInv, FailureInv, NEW a \in DOMAIN actors, ActorMoves(a),
           actors'[a].panics = actors[a].panics,
           actors'[a].loop = "recover" => actors[a].loop = "recover",
           UNCHANGED <<children, tasks, panics, strategy>>
    PROVE  FailureInv'
  <1>1. /\ DOMAIN actors' = DOMAIN actors
        /\ \A b \in DOMAIN actors :
             /\ actors'[b].panics = actors[b].panics
             /\ actors'[b].loop = "recover" => actors[b].loop = "recover"
    BY DEF ActorMoves
  <1>2. \A j \in DOMAIN tasks : Active(j)' => Active(j)
    BY DEF Active
  <1> QED BY <1>1, <1>2, QuietKeepsFailure

LEMMA TaskKeepsFailure ==
    ASSUME TypeOK, LinkInv, FailureInv, NEW k \in DOMAIN tasks, TaskMoves(k),
           Active(k)' => Active(k),
           DOMAIN actors \subseteq DOMAIN actors',
           \A b \in DOMAIN actors :
             /\ actors'[b].panics = actors[b].panics
             /\ actors'[b].loop = "recover" => actors[b].loop = "recover",
           \A b \in DOMAIN actors' \ DOMAIN actors : actors'[b].loop # "recover",
           \A i \in DOMAIN children : children'[i].actor = children[i].actor,
           UNCHANGED <<panics, strategy>>
    PROVE  FailureInv'
  <1>1. DOMAIN tasks' = DOMAIN tasks
    BY DEF TaskMoves
  <1>2. tasks' # <<>> /\ tasks # <<>>
    BY <1>1
  <1>3. \A j \in DOMAIN tasks :
          /\ tasks'[j].slot = tasks[j].slot
          /\ Active(j)' => Active(j)
          /\ children'[tasks[j].slot].actor = children[tasks[j].slot].actor
    BY DEF TaskMoves, Active, LinkInv, TaskLinks
  <1> QED BY <1>1, <1>2, <1>3, QuietKeepsFailure

LEMMA FailureStep ==
    ASSUME SupervisorAssumption, TypeOK, LinkInv, FailureInv, RestartInv,
           [Next]_vars
    PROVE  FailureInv'
  <1>0. panics \in Nat /\ \A a \in DOMAIN actors : actors[a].panics \in Nat
    <2>1. \A a \in DOMAIN actors : actors[a] \in ActorRecords
      BY DEF TypeOK
    <2>2. panics \in Nat
      BY DEF TypeOK, SupervisorAssumption
    <2> QED BY <2>1, <2>2 DEF ActorRecords
  <1>1. CASE SpawnAppend
    <2> DEFINE i == Len(children) + 1
               a == Len(actors) + 1
    <2>1. /\ ActorComes(a, i) /\ UNCHANGED <<tasks, panics, strategy>>
          /\ \A j \in DOMAIN children : children'[j] = children[j]
      BY <1>1, SpawnAppendFacts
    <2> HIDE DEF a, i
    <2>2. /\ DOMAIN actors' = DOMAIN actors \cup {a} /\ actors'[a].loop = "none"
          /\ \A b \in DOMAIN actors : actors'[b] = actors[b]
      BY <2>1 DEF ActorComes, NewBaseActor
    <2>3. \A j \in DOMAIN tasks : Active(j)' => Active(j)
      BY <2>1 DEF Active
    <2>4. \A j \in DOMAIN tasks : children'[tasks[j].slot] = children[tasks[j].slot]
      BY <2>1 DEF LinkInv, TaskLinks
    <2> QED BY <2>1, <2>2, <2>3, <2>4, QuietKeepsFailure
  <1>2. CASE SpawnRegister
    <2>1. UNCHANGED <<actors, children, tasks, panics, strategy>>
      BY <1>2, SpawnRegisterFacts
    <2>2. \A j \in DOMAIN tasks : Active(j)' => Active(j)
      BY <2>1 DEF Active
    <2> QED BY <2>1, <2>2, QuietKeepsFailure
  <1>3. CASE SpawnRun
    <2>1. spawning.actor \in DOMAIN actors
      BY <1>3 DEF SpawnRun, LinkInv
    <2> QED BY <1>3, <2>1, SpawnRunFacts, ActorKeepsFailure
  <1>4. ASSUME NEW a \in DOMAIN actors, RecoverClose(a)
        PROVE  FailureInv'
    BY <1>4, RecoverFacts, ActorKeepsFailure
  <1>5. ASSUME NEW a \in DOMAIN actors, LoopEnds(a)
        PROVE  FailureInv'
    BY <1>5, LoopEndFacts, ActorKeepsFailure
  <1>6. ASSUME NEW a \in DOMAIN actors, ClientStop(a)
        PROVE  FailureInv'
    BY <1>6, ClientStopFacts, ActorKeepsFailure
  <1>7. ASSUME NEW a \in DOMAIN actors, StopClose(a)
        PROVE  FailureInv'
    BY <1>7, StopCloseFacts, ActorKeepsFailure
  <1>8. ASSUME NEW a \in DOMAIN actors, StopWait(a)
        PROVE  FailureInv'
    BY <1>8, StopWaitFacts, ActorKeepsFailure
  <1>9. ASSUME NEW a \in DOMAIN actors, StopUnregister(a)
        PROVE  FailureInv'
    BY <1>9, UnregisterFacts, ActorKeepsFailure
  <1>10. ASSUME NEW a \in DOMAIN actors, Panic(a)
        PROVE  FailureInv'
    <2>1. /\ ActorMoves(a) /\ actors[a].panics <= Backlog
          /\ actors[a].loop = "running" /\ actors'[a].loop = "recover"
          /\ actors'[a].panics = actors[a].panics + 1 /\ panics' = panics + 1
          /\ UNCHANGED <<children, tasks, strategy>>
      BY <1>10, PanicFacts
    <2>2. /\ DOMAIN actors' = DOMAIN actors
          /\ \A b \in DOMAIN actors : b # a => actors'[b] = actors[b]
      BY <2>1 DEF ActorMoves
    <2>3. \A b \in DOMAIN actors' : actors'[b].loop = "recover" =>
            actors'[b].panics > 0 /\ panics' > 0
      BY <1>0, <2>1, <2>2 DEF FailureInv
    <2>4. panics' # 0
      BY <1>0, <2>1
    <2>5. ASSUME panics' <= 1
          PROVE  tasks = <<>> /\ \A b \in DOMAIN actors : actors[b].loop # "recover"
      <3>1. panics = 0
        BY <1>0, <2>1, <2>5
      <3> QED BY <3>1 DEF FailureInv
    <2>6. panics' <= 1 => \A b, c \in DOMAIN actors' :
            actors'[b].loop = "recover" =>
              tasks' = <<>> /\ (actors'[c].loop = "recover" => c = b)
      BY <2>1, <2>2, <2>5
    <2>7. ASSUME strategy = "one" /\ Backlog = 0, NEW k \in DOMAIN tasks,
                 Active(k)'
          PROVE  LET b == children[tasks[k].slot].actor
                 IN  actors'[b].panics > 0 /\ actors'[b].loop # "recover"
      <3> DEFINE b == children[tasks[k].slot].actor
      <3>1. Active(k)
        BY <2>1, <2>7 DEF Active
      <3>2. actors[b].panics > 0 /\ actors[b].loop # "recover"
        BY <2>7, <3>1 DEF FailureInv
      <3>3. b \in DOMAIN actors
        BY DEF LinkInv, TaskLinks
      <3> HIDE DEF b
      <3>4. b # a
        BY <1>0, <2>1, <2>7, <3>2
      <3> QED BY <2>2, <3>2, <3>3, <3>4 DEF b
    <2> QED BY <2>1, <2>3, <2>4, <2>6, <2>7 DEF FailureInv
  <1>11. ASSUME NEW a \in DOMAIN actors, NotifyFailure(a)
        PROVE  FailureInv'
    <2>1. /\ ActorMoves(a) /\ actors[a].loop = "recover"
          /\ actors'[a].loop = "notified"
          /\ actors'[a].panics = actors[a].panics
          /\ UNCHANGED <<children, panics, strategy>>
      BY <1>11, NotifyActorFacts
    <2>2. /\ DOMAIN tasks \subseteq DOMAIN tasks'
          /\ \A k \in DOMAIN tasks : tasks'[k] = tasks[k]
          /\ \A k \in DOMAIN tasks' \ DOMAIN tasks :
               /\ tasks'[k].slot \in DOMAIN children
               /\ strategy = "one" => children[tasks'[k].slot].actor = a
      BY <1>11, NotifyTaskFacts
    <2>3. /\ DOMAIN actors' = DOMAIN actors
          /\ \A b \in DOMAIN actors :
               /\ b # a => actors'[b] = actors[b]
               /\ actors'[b].panics = actors[b].panics
               /\ actors'[b].loop = "recover" =>
                    b # a /\ actors[b].loop = "recover"
      BY <2>1 DEF ActorMoves
    <2>4. actors[a].panics > 0 /\ panics > 0 /\ panics # 0
      BY <1>0, <2>1 DEF FailureInv
    <2>5. \A b \in DOMAIN actors' :
            actors'[b].loop = "recover" => actors'[b].panics > 0
      BY <2>3 DEF FailureInv
    <2>6. panics <= 1 => \A b \in DOMAIN actors' : actors'[b].loop # "recover"
      BY <2>1, <2>3 DEF FailureInv
    <2>7. ASSUME strategy = "one" /\ Backlog = 0, NEW k \in DOMAIN tasks',
                 Active(k)'
          PROVE  LET b == children[tasks'[k].slot].actor
                 IN  actors'[b].panics > 0 /\ actors'[b].loop # "recover"
      <3>1. CASE k \in DOMAIN tasks
        <4> DEFINE b == children[tasks[k].slot].actor
        <4>1. Active(k) /\ tasks'[k] = tasks[k]
          BY <2>2, <2>7, <3>1 DEF Active
        <4>2. actors[b].panics > 0 /\ actors[b].loop # "recover"
          BY <2>7, <3>1, <4>1 DEF FailureInv
        <4>3. b \in DOMAIN actors
          BY <3>1 DEF LinkInv, TaskLinks
        <4> HIDE DEF b
        <4> QED BY <2>3, <4>1, <4>2, <4>3 DEF b
      <3>2. CASE k \notin DOMAIN tasks
        BY <2>1, <2>2, <2>4, <2>7, <3>2
      <3> QED BY <3>1, <3>2
    <2> QED BY <2>1, <2>4, <2>5, <2>6, <2>7 DEF FailureInv
  <1>12. ASSUME NEW k \in DOMAIN tasks, RestartEnter(k)
        PROVE  FailureInv'
    <2>1. tasks[k].slot \in DOMAIN children
      BY DEF LinkInv, TaskLinks
    <2>2. CASE Retries(k) + 1 > MaxRetries
      <3>1. /\ TaskMoves(k) /\ tasks[k].pc = "enter"
            /\ UNCHANGED <<actors, children, panics, strategy>>
        BY <1>12, <2>1, <2>2, GiveUpFacts
      <3>2. Active(k)
        BY <3>1 DEF Active
      <3> QED BY <3>1, <3>2, TaskKeepsFailure
    <2>3. CASE ~(Retries(k) + 1 > MaxRetries)
      <3>1. /\ TaskMoves(k) /\ tasks[k].pc = "enter"
            /\ ChildMoves(tasks[k].slot)
            /\ children'[tasks[k].slot].actor = children[tasks[k].slot].actor
            /\ UNCHANGED <<actors, panics, strategy>>
        BY <1>12, <2>1, <2>3, EnterFacts
      <3>2. \A i \in DOMAIN children : children'[i].actor = children[i].actor
        BY <3>1 DEF ChildMoves
      <3>3. Active(k)
        BY <3>1 DEF Active
      <3> QED BY <3>1, <3>2, <3>3, TaskKeepsFailure
    <2> QED BY <2>2, <2>3
  <1>13. ASSUME NEW k \in DOMAIN tasks, RestartStop(k)
        PROVE  FailureInv'
    <2> DEFINE a == tasks[k].actor
    <2>1. a \in DOMAIN actors
      BY <1>13 DEF LinkInv, TaskLinks, RestartStop, Copied
    <2>2. /\ ActorMoves(a) /\ actors'[a].loop = actors[a].loop
          /\ actors'[a].panics = actors[a].panics
          /\ TaskMoves(k) /\ tasks[k].pc = "stop"
          /\ UNCHANGED <<children, panics, strategy>>
      BY <1>13, <2>1, RestartStopFacts
    <2>3. Active(k)
      BY <2>2 DEF Active
    <2> HIDE DEF a
    <2>4. /\ DOMAIN actors' = DOMAIN actors
          /\ \A b \in DOMAIN actors :
               /\ actors'[b].panics = actors[b].panics
               /\ actors'[b].loop = actors[b].loop
      BY <2>2 DEF ActorMoves
    <2> QED BY <2>2, <2>3, <2>4, TaskKeepsFailure
  <1>14. ASSUME NEW k \in DOMAIN tasks, RestartCreate(k)
        PROVE  FailureInv'
    <2> DEFINE i == tasks[k].slot
               a == Len(actors) + 1
    <2>1. /\ ActorComes(a, i) /\ TaskMoves(k) /\ tasks[k].pc = "create"
          /\ UNCHANGED <<children, panics, strategy>>
      BY <1>14, RestartCreateFacts
    <2> HIDE DEF a, i
    <2>2. /\ DOMAIN actors' = DOMAIN actors \cup {a} /\ actors'[a].loop = "none"
          /\ \A b \in DOMAIN actors : actors'[b] = actors[b]
      BY <2>1 DEF ActorComes, NewBaseActor
    <2>3. Active(k)
      BY <2>1 DEF Active
    <2> QED BY <2>1, <2>2, <2>3, TaskKeepsFailure
  <1>15. ASSUME NEW k \in DOMAIN tasks, RestartRun(k)
        PROVE  FailureInv'
    <2> DEFINE a == tasks[k].new
    <2>1. a \in DOMAIN actors
      BY <1>15 DEF LinkInv, TaskLinks, RestartRun, Replaced
    <2>2. /\ ActorMoves(a) /\ actors'[a].loop = "running"
          /\ actors'[a].panics = actors[a].panics
          /\ TaskMoves(k) /\ tasks[k].pc = "run"
          /\ UNCHANGED <<children, panics, strategy>>
      BY <1>15, <2>1, RestartRunFacts
    <2>3. Active(k)
      BY <2>2 DEF Active
    <2> HIDE DEF a
    <2>4. /\ DOMAIN actors' = DOMAIN actors
          /\ \A b \in DOMAIN actors :
               /\ actors'[b].panics = actors[b].panics
               /\ actors'[b].loop = "recover" => actors[b].loop = "recover"
      BY <2>2 DEF ActorMoves
    <2> QED BY <2>2, <2>3, <2>4, TaskKeepsFailure
  <1>16. ASSUME NEW k \in DOMAIN tasks, RestartRecord(k)
        PROVE  FailureInv'
    <2> DEFINE i == tasks[k].slot
    <2>1. i \in DOMAIN children /\ tasks[k].new # NoActor
      BY <1>16 DEF LinkInv, TaskLinks, RestartRecord, Replaced
    <2>2. /\ TaskMoves(k) /\ ChildMoves(i)
          /\ tasks[k].pc = "record" /\ tasks'[k].pc = "count"
          /\ UNCHANGED <<actors, panics, strategy>>
      BY <1>16, <2>1, RestartRecordFacts
    <2>3. CASE NoOverlap
      <3>1. Active(k) /\ ~Active(k)'
        BY <2>2 DEF Active
      <3>2. /\ DOMAIN tasks' = DOMAIN tasks
            /\ \A j \in DOMAIN tasks : /\ tasks'[j].slot = tasks[j].slot
                                       /\ j # k => tasks'[j] = tasks[j]
        BY <2>2 DEF TaskMoves
      <3>3. tasks' # <<>> /\ tasks # <<>>
        BY <3>2
      <3>4. \A j \in DOMAIN tasks :
              /\ Active(j)' => Active(j)
              /\ Active(j)' => tasks[j].slot # i /\ tasks[j].slot \in DOMAIN children
        BY <2>3, <3>1, <3>2 DEF RestartInv, Active, LinkInv, TaskLinks
      <3>5. \A j \in DOMAIN children : j # i => children'[j] = children[j]
        BY <2>2 DEF ChildMoves
      <3> HIDE DEF i
      <3> QED BY <2>2, <3>2, <3>3, <3>4, <3>5, QuietKeepsFailure
    <2>4. CASE ~NoOverlap
      <3>1. panics > 1 /\ panics # 0 /\ ~(strategy = "one" /\ Backlog = 0)
        BY <1>0, <2>4 DEF NoOverlap
      <3>2. ~(panics <= 1)
        BY <1>0, <3>1
      <3> QED BY <2>2, <3>1, <3>2 DEF FailureInv
    <2> QED BY <2>3, <2>4
  <1>17. ASSUME NEW k \in DOMAIN tasks, RestartCount(k)
        PROVE  FailureInv'
    <2>1. /\ TaskMoves(k) /\ tasks'[k].pc = "done"
          /\ UNCHANGED <<actors, children, panics, strategy>>
      BY <1>17, RestartCountFacts
    <2>2. ~Active(k)'
      BY <2>1 DEF Active
    <2> QED BY <2>1, <2>2, TaskKeepsFailure
  <1>18. CASE UNCHANGED vars
    BY <1>18 DEF vars, FailureInv, Active
  <1> QED BY <1>1, <1>2, <1>3, <1>4, <1>5, <1>6, <1>7, <1>8, <1>9, <1>10, <1>11, <1>12, <1>13, <1>14, <1>15, <1>16, <1>17, <1>18, StepCases

-----------------------------------------------------------------------------
(* One restart of a slot at a time *)

LEMMA RestartInit == Init => RestartInv
  BY DEF Init, RestartInv

\* Steps that no task takes.
LEMMA QuietKeepsRestart ==
    ASSUME LinkInv, NoOverlap' => NoOverlap, RestartInv,
           \A b \in DOMAIN actors :
             actors[b].stop = "finished" => actors'[b].stop = "finished",
           \A i \in DOMAIN children : children'[i] = children[i],
           tasks' = tasks
    PROVE  RestartInv'
  <1> SUFFICES ASSUME NoOverlap', NoOverlap, NEW k \in DOMAIN tasks
               PROVE  /\ Active(k)' => \A j \in DOMAIN tasks :
                            Active(j)' /\ tasks[j].slot = tasks[k].slot => j = k
                      /\ Copied(k)' =>
                           /\ tasks[k].actor = children'[tasks[k].slot].actor
                           /\ tasks[k].retries
                                = children'[tasks[k].slot].retries
                      /\ Replaced(k)' =>
                           actors'[tasks[k].actor].stop = "finished"
    BY DEF RestartInv
  <1>1. \A j \in DOMAIN tasks : /\ Active(j)' <=> Active(j)
                                /\ Copied(j)' <=> Copied(j)
                                /\ Replaced(j)' <=> Replaced(j)
                                /\ Replaced(j) => Copied(j)
    BY DEF Active, Copied, Replaced
  <1>2. children'[tasks[k].slot] = children[tasks[k].slot]
    BY DEF LinkInv, TaskLinks
  <1>3. Copied(k) => tasks[k].actor \in DOMAIN actors
    BY DEF LinkInv, TaskLinks
  <1> QED BY <1>1, <1>2, <1>3 DEF RestartInv

LEMMA ActorKeepsRestart ==
    ASSUME LinkInv, NoOverlap' => NoOverlap, RestartInv,
           NEW a \in DOMAIN actors, ActorMoves(a),
           actors[a].stop = "finished" => actors'[a].stop = "finished",
           UNCHANGED <<children, tasks>>
    PROVE  RestartInv'
  <1>1. \A b \in DOMAIN actors :
          actors[b].stop = "finished" => actors'[b].stop = "finished"
    BY DEF ActorMoves
  <1> QED BY <1>1, QuietKeepsRestart

LEMMA TaskKeepsRestart ==
    ASSUME LinkInv, NoOverlap' => NoOverlap, RestartInv,
           NEW k \in DOMAIN tasks, TaskMoves(k), Active(k)' => Active(k),
           \A b \in DOMAIN actors :
             actors[b].stop = "finished" => actors'[b].stop = "finished",
           \A i \in DOMAIN children : i # tasks[k].slot =>
             children'[i] = children[i],
           Active(k) \/ children' = children,
           NoOverlap /\ Copied(k)' =>
             /\ tasks'[k].actor = children'[tasks[k].slot].actor
             /\ tasks'[k].retries = children'[tasks[k].slot].retries,
           NoOverlap /\ Replaced(k)' =>
             actors'[tasks'[k].actor].stop = "finished"
    PROVE  RestartInv'
  <1> SUFFICES ASSUME NoOverlap', NoOverlap, NEW h \in DOMAIN tasks'
               PROVE  /\ Active(h)' => \A j \in DOMAIN tasks' :
                            Active(j)' /\ tasks'[j].slot = tasks'[h].slot
                              => j = h
                      /\ Copied(h)' =>
                           /\ tasks'[h].actor = children'[tasks'[h].slot].actor
                           /\ tasks'[h].retries
                                = children'[tasks'[h].slot].retries
                      /\ Replaced(h)' =>
                           actors'[tasks'[h].actor].stop = "finished"
    BY DEF RestartInv
  <1>1. /\ DOMAIN tasks' = DOMAIN tasks
        /\ \A j \in DOMAIN tasks : /\ tasks'[j].slot = tasks[j].slot
                                   /\ j # k => tasks'[j] = tasks[j]
    BY DEF TaskMoves
  <1>2. \A j \in DOMAIN tasks : /\ Active(j)' => Active(j)
                                /\ j # k => (Copied(j)' <=> Copied(j))
                                /\ j # k => (Replaced(j)' <=> Replaced(j))
                                /\ Copied(j) => Active(j)
                                /\ Replaced(j) => Copied(j)
    BY <1>1 DEF Active, Copied, Replaced
  <1>3. Active(h)' => \A j \in DOMAIN tasks' :
          Active(j)' /\ tasks'[j].slot = tasks'[h].slot => j = h
    BY <1>1, <1>2 DEF RestartInv
  <1>4. CASE h = k
    BY <1>1, <1>3, <1>4
  <1>5. CASE h # k
    <2>1. tasks'[h] = tasks[h] /\ tasks[h].slot \in DOMAIN children
      BY <1>1, <1>5 DEF LinkInv, TaskLinks
    <2>2. Copied(h) => children'[tasks[h].slot] = children[tasks[h].slot]
      BY <1>1, <1>2, <1>5, <2>1 DEF RestartInv
    <2>3. Copied(h) => tasks[h].actor \in DOMAIN actors
      BY <1>1 DEF LinkInv, TaskLinks
    <2> QED BY <1>1, <1>2, <1>3, <1>5, <2>1, <2>2, <2>3 DEF RestartInv
  <1> QED BY <1>4, <1>5

LEMMA RestartStep ==
    ASSUME SupervisorAssumption, TypeOK, LinkInv, FailureInv, RestartInv,
           [Next]_vars
    PROVE  RestartInv'
  <1>0. NoOverlap' => NoOverlap
    BY OverlapStays
  <1>1. CASE SpawnAppend
    <2> DEFINE i == Len(children) + 1
               a == Len(actors) + 1
    <2>1. /\ ActorComes(a, i) /\ tasks' = tasks
          /\ \A j \in DOMAIN children : children'[j] = children[j]
      BY <1>1, SpawnAppendFacts
    <2> HIDE DEF a, i
    <2>2. \A b \in DOMAIN actors : actors'[b] = actors[b]
      BY <2>1 DEF ActorComes
    <2> QED BY <1>0, <2>1, <2>2, QuietKeepsRestart
  <1>2. CASE SpawnRegister
    BY <1>0, <1>2, SpawnRegisterFacts, QuietKeepsRestart
  <1>3. CASE SpawnRun
    <2>1. spawning.actor \in DOMAIN actors
      BY <1>3 DEF SpawnRun, LinkInv
    <2> QED BY <1>0, <1>3, <2>1, SpawnRunFacts, ActorKeepsRestart
  <1>4. ASSUME NEW a \in DOMAIN actors, Panic(a)
        PROVE  RestartInv'
    BY <1>0, <1>4, PanicFacts, ActorKeepsRestart
  <1>5. ASSUME NEW a \in DOMAIN actors, RecoverClose(a)
        PROVE  RestartInv'
    BY <1>0, <1>5, RecoverFacts, ActorKeepsRestart
  <1>6. ASSUME NEW a \in DOMAIN actors, LoopEnds(a)
        PROVE  RestartInv'
    BY <1>0, <1>6, LoopEndFacts, ActorKeepsRestart
  <1>7. ASSUME NEW a \in DOMAIN actors, ClientStop(a)
        PROVE  RestartInv'
    BY <1>0, <1>7, ClientStopFacts, ActorKeepsRestart
  <1>8. ASSUME NEW a \in DOMAIN actors, StopClose(a)
        PROVE  RestartInv'
    BY <1>0, <1>8, StopCloseFacts, ActorKeepsRestart
  <1>9. ASSUME NEW a \in DOMAIN actors, StopWait(a)
        PROVE  RestartInv'
    BY <1>0, <1>9, StopWaitFacts, ActorKeepsRestart
  <1>10. ASSUME NEW a \in DOMAIN actors, StopUnregister(a)
        PROVE  RestartInv'
    BY <1>0, <1>10, UnregisterFacts, ActorKeepsRestart
  <1>11. ASSUME NEW a \in DOMAIN actors, NotifyFailure(a)
        PROVE  RestartInv'
    <2> SUFFICES ASSUME NoOverlap', NoOverlap PROVE RestartInv'
      BY <1>0 DEF RestartInv
    <2>1. /\ ActorMoves(a) /\ actors[a].loop = "recover"
          /\ actors'[a].stop = actors[a].stop
          /\ UNCHANGED <<children, panics, strategy>>
      BY <1>11, NotifyActorFacts
    <2>2. /\ DOMAIN tasks \subseteq DOMAIN tasks'
          /\ \A k \in DOMAIN tasks : tasks'[k] = tasks[k]
          /\ \A k \in DOMAIN tasks' \ DOMAIN tasks :
               /\ tasks'[k].pc = "enter"
               /\ \A j \in DOMAIN tasks' \ DOMAIN tasks :
                    tasks'[j].slot = tasks'[k].slot => j = k
               /\ strategy = "one" => children[tasks'[k].slot].actor = a
      BY <1>11, NotifyTaskFacts
    <2>3. \A k \in DOMAIN tasks : /\ Active(k)' <=> Active(k)
                                  /\ Copied(k)' <=> Copied(k)
                                  /\ Replaced(k)' <=> Replaced(k)
                                  /\ Replaced(k) => Copied(k)
      BY <2>2 DEF Active, Copied, Replaced
    <2>4. \A k \in DOMAIN tasks' \ DOMAIN tasks : ~Copied(k)' /\ ~Replaced(k)'
      BY <2>2 DEF Copied, Replaced
    <2>5. \A k \in DOMAIN tasks, j \in DOMAIN tasks' \ DOMAIN tasks :
            Active(k) => tasks[k].slot # tasks'[j].slot
      <3>1. CASE panics <= 1
        BY <2>1, <3>1 DEF FailureInv
      <3>2. CASE strategy = "one" /\ Backlog = 0
        BY <2>1, <2>2, <3>2 DEF FailureInv
      <3> QED BY <3>1, <3>2 DEF NoOverlap
    <2>6. \A b \in DOMAIN actors :
            actors[b].stop = "finished" => actors'[b].stop = "finished"
      BY <2>1 DEF ActorMoves
    <2>7. ASSUME NEW k \in DOMAIN tasks', NEW j \in DOMAIN tasks', Active(k)',
                 Active(j)', tasks'[j].slot = tasks'[k].slot
          PROVE  j = k
      <3>1. CASE k \in DOMAIN tasks /\ j \in DOMAIN tasks
        BY <2>2, <2>3, <2>7, <3>1 DEF RestartInv
      <3>2. CASE k \in DOMAIN tasks /\ j \notin DOMAIN tasks
        BY <2>2, <2>3, <2>5, <2>7, <3>2
      <3>3. CASE k \notin DOMAIN tasks /\ j \in DOMAIN tasks
        BY <2>2, <2>3, <2>5, <2>7, <3>3
      <3>4. CASE k \notin DOMAIN tasks /\ j \notin DOMAIN tasks
        BY <2>2, <2>7, <3>4
      <3> QED BY <3>1, <3>2, <3>3, <3>4
    <2>8. ASSUME NEW k \in DOMAIN tasks', Copied(k)'
          PROVE  /\ tasks'[k].actor = children[tasks'[k].slot].actor
                 /\ tasks'[k].retries = children[tasks'[k].slot].retries
      BY <2>2, <2>3, <2>4, <2>8 DEF RestartInv
    <2>9. ASSUME NEW k \in DOMAIN tasks', Replaced(k)'
          PROVE  actors'[tasks'[k].actor].stop = "finished"
      <3>1. /\ k \in DOMAIN tasks /\ Replaced(k) /\ tasks'[k] = tasks[k]
            /\ Copied(k)
        BY <2>2, <2>3, <2>4, <2>9
      <3>2. tasks[k].actor \in DOMAIN actors
        BY <3>1 DEF LinkInv, TaskLinks
      <3> QED BY <2>6, <3>1, <3>2 DEF RestartInv
    <2> QED BY <2>1, <2>7, <2>8, <2>9 DEF RestartInv
  <1>12. ASSUME NEW k \in DOMAIN tasks, RestartEnter(k)
        PROVE  RestartInv'
    <2>1. tasks[k].slot \in DOMAIN children
      BY DEF LinkInv, TaskLinks
    <2>2. CASE Retries(k) + 1 > MaxRetries
      <3>1. /\ TaskMoves(k) /\ tasks'[k].pc = "done"
            /\ UNCHANGED <<actors, children>>
        BY <1>12, <2>1, <2>2, GiveUpFacts
      <3>2. ~Active(k)' /\ ~Copied(k)' /\ ~Replaced(k)'
        BY <3>1 DEF Active, Copied, Replaced
      <3> QED BY <1>0, <3>1, <3>2, TaskKeepsRestart
    <2>3. CASE ~(Retries(k) + 1 > MaxRetries)
      <3> DEFINE i == tasks[k].slot
      <3>1. /\ TaskMoves(k) /\ tasks[k].pc = "enter" /\ tasks'[k].pc = "stop"
            /\ tasks'[k].actor = children[i].actor
            /\ tasks'[k].retries = children'[i].retries
            /\ ChildMoves(i) /\ children'[i].actor = children[i].actor
            /\ UNCHANGED actors
        BY <1>12, <2>1, <2>3, EnterFacts
      <3>2. Active(k) /\ ~Replaced(k)'
        BY <3>1 DEF Active, Replaced
      <3>3. \A j \in DOMAIN children : j # i => children'[j] = children[j]
        BY <3>1 DEF ChildMoves
      <3> QED BY <1>0, <3>1, <3>2, <3>3, TaskKeepsRestart
    <2> QED BY <2>2, <2>3
  <1>13. ASSUME NEW k \in DOMAIN tasks, RestartStop(k)
        PROVE  RestartInv'
    <2> DEFINE a == tasks[k].actor
    <2>1. a \in DOMAIN actors
      BY <1>13 DEF LinkInv, TaskLinks, RestartStop, Copied
    <2>2. /\ ActorMoves(a) /\ TaskMoves(k)
          /\ tasks[k].pc = "stop" /\ tasks'[k].pc = "create"
          /\ tasks'[k].actor = a /\ tasks'[k].retries = tasks[k].retries
          /\ actors'[a].stop =
               (IF actors[a].stop = "none" THEN "called" ELSE actors[a].stop)
          /\ UNCHANGED children
      BY <1>13, <2>1, RestartStopFacts
    <2>3. Active(k) /\ Copied(k) /\ ~Replaced(k)'
      BY <2>2 DEF Active, Copied, Replaced
    <2>4. \A b \in DOMAIN actors :
            actors[b].stop = "finished" => actors'[b].stop = "finished"
      BY <2>2 DEF ActorMoves
    <2>5. NoOverlap => /\ a = children[tasks[k].slot].actor
                       /\ tasks[k].retries = children[tasks[k].slot].retries
      BY <2>3 DEF RestartInv
    <2> HIDE DEF a
    <2> QED BY <1>0, <2>2, <2>3, <2>4, <2>5, TaskKeepsRestart
  <1>14. ASSUME NEW k \in DOMAIN tasks, RestartCreate(k)
        PROVE  RestartInv'
    <2> DEFINE i == tasks[k].slot
               a == Len(actors) + 1
    <2>1. /\ ActorComes(a, i) /\ TaskMoves(k)
          /\ tasks[k].pc = "create" /\ tasks'[k].pc = "run"
          /\ actors[tasks[k].actor].stop = "finished"
          /\ tasks'[k].actor = tasks[k].actor
          /\ tasks'[k].retries = tasks[k].retries
          /\ UNCHANGED children
      BY <1>14, RestartCreateFacts
    <2> HIDE DEF a
    <2>2. \A b \in DOMAIN actors : actors'[b] = actors[b]
      BY <2>1 DEF ActorComes
    <2>3. Active(k) /\ Copied(k)
      BY <2>1 DEF Active, Copied
    <2>4. tasks[k].actor \in DOMAIN actors
      BY <2>3 DEF LinkInv, TaskLinks
    <2>5. NoOverlap => /\ tasks[k].actor = children[i].actor
                       /\ tasks[k].retries = children[i].retries
      BY <2>3 DEF RestartInv
    <2> QED BY <1>0, <2>1, <2>2, <2>3, <2>4, <2>5, TaskKeepsRestart
  <1>15. ASSUME NEW k \in DOMAIN tasks, RestartRun(k)
        PROVE  RestartInv'
    <2> DEFINE a == tasks[k].new
    <2>1. a \in DOMAIN actors /\ tasks[k].actor \in DOMAIN actors
      BY <1>15 DEF LinkInv, TaskLinks, RestartRun, Replaced, Copied
    <2>2. /\ ActorMoves(a) /\ actors'[a].stop = actors[a].stop
          /\ TaskMoves(k) /\ tasks[k].pc = "run"
          /\ tasks'[k].actor = tasks[k].actor
          /\ tasks'[k].retries = tasks[k].retries
          /\ UNCHANGED children
      BY <1>15, <2>1, RestartRunFacts
    <2>3. Active(k) /\ Copied(k) /\ Replaced(k)
      BY <2>2 DEF Active, Copied, Replaced
    <2> HIDE DEF a
    <2>4. \A b \in DOMAIN actors : actors'[b].stop = actors[b].stop
      BY <2>2 DEF ActorMoves
    <2>5. NoOverlap => /\ tasks[k].actor = children[tasks[k].slot].actor
                       /\ tasks[k].retries = children[tasks[k].slot].retries
                       /\ actors[tasks[k].actor].stop = "finished"
      BY <2>3 DEF RestartInv
    <2> QED BY <1>0, <2>1, <2>2, <2>3, <2>4, <2>5, TaskKeepsRestart
  <1>16. ASSUME NEW k \in DOMAIN tasks, RestartRecord(k)
        PROVE  RestartInv'
    <2> DEFINE i == tasks[k].slot
    <2>1. i \in DOMAIN children /\ tasks[k].new # NoActor
      BY <1>16 DEF LinkInv, TaskLinks, RestartRecord, Replaced
    <2>2. /\ TaskMoves(k) /\ ChildMoves(i)
          /\ tasks[k].pc = "record" /\ tasks'[k].pc = "count"
          /\ UNCHANGED actors
      BY <1>16, <2>1, RestartRecordFacts
    <2>3. Active(k) /\ ~Active(k)' /\ ~Copied(k)' /\ ~Replaced(k)'
      BY <2>2 DEF Active, Copied, Replaced
    <2>4. \A j \in DOMAIN children : j # i => children'[j] = children[j]
      BY <2>2 DEF ChildMoves
    <2> QED BY <1>0, <2>2, <2>3, <2>4, TaskKeepsRestart
  <1>17. ASSUME NEW k \in DOMAIN tasks, RestartCount(k)
        PROVE  RestartInv'
    <2>1. /\ TaskMoves(k) /\ tasks'[k].pc = "done"
          /\ UNCHANGED <<actors, children>>
      BY <1>17, RestartCountFacts
    <2>2. ~Active(k)' /\ ~Copied(k)' /\ ~Replaced(k)'
      BY <2>1 DEF Active, Copied, Replaced
    <2> QED BY <1>0, <2>1, <2>2, TaskKeepsRestart
  <1>18. CASE UNCHANGED vars
    BY <1>0, <1>18, QuietKeepsRestart DEF vars
  <1> QED BY <1>1, <1>2, <1>3, <1>4, <1>5, <1>6, <1>7, <1>8, <1>9, <1>10, <1>11, <1>12, <1>13, <1>14, <1>15, <1>16, <1>17, <1>18, StepCases

-----------------------------------------------------------------------------
(* An actor whose Stop has not returned is recorded or about to be *)

LEMMA AliveInit == Init => AliveInv
  BY DEF Init, AliveInv

\* Steps that record no actor in place of another.
LEMMA QuietKeepsAlive ==
    ASSUME LinkInv, NoOverlap' => NoOverlap, AliveInv,
           DOMAIN actors \subseteq DOMAIN actors',
           \A b \in DOMAIN actors :
             /\ actors'[b].child = actors[b].child
             /\ actors[b].stop = "finished" => actors'[b].stop = "finished",
           \A b \in DOMAIN actors' \ DOMAIN actors :
             \/ Recorded(b)'
             \/ \E k \in DOMAIN tasks' : Replaced(k)' /\ tasks'[k].new = b,
           \A i \in DOMAIN children : children'[i].actor = children[i].actor,
           DOMAIN tasks \subseteq DOMAIN tasks',
           \A k \in DOMAIN tasks : Replaced(k) =>
             Replaced(k)' /\ tasks'[k].new = tasks[k].new
    PROVE  AliveInv'
  <1> SUFFICES ASSUME NoOverlap, NEW b \in DOMAIN actors
               PROVE  \/ actors'[b].stop = "finished"
                      \/ Recorded(b)'
                      \/ \E k \in DOMAIN tasks' :
                           Replaced(k)' /\ tasks'[k].new = b
    BY DEF AliveInv
  <1>1. CASE actors[b].stop = "finished"
    BY <1>1
  <1>2. CASE Recorded(b)
    <2>1. Recorded(b)'
      BY <1>2 DEF Recorded, LinkInv
    <2> QED BY <2>1
  <1>3. CASE \E k \in DOMAIN tasks : Replaced(k) /\ tasks[k].new = b
    <2>1. PICK k \in DOMAIN tasks : Replaced(k) /\ tasks[k].new = b
      BY <1>3
    <2>2. k \in DOMAIN tasks' /\ Replaced(k)' /\ tasks'[k].new = b
      BY <2>1
    <2> QED BY <2>2
  <1> QED BY <1>1, <1>2, <1>3 DEF AliveInv

LEMMA ActorKeepsAlive ==
    ASSUME LinkInv, NoOverlap' => NoOverlap, AliveInv,
           NEW a \in DOMAIN actors, ActorMoves(a),
           actors[a].stop = "finished" => actors'[a].stop = "finished",
           UNCHANGED children, DOMAIN tasks \subseteq DOMAIN tasks',
           \A k \in DOMAIN tasks : tasks'[k] = tasks[k]
    PROVE  AliveInv'
  <1>1. /\ DOMAIN actors' = DOMAIN actors
        /\ \A b \in DOMAIN actors :
             /\ actors'[b].child = actors[b].child
             /\ actors[b].stop = "finished" => actors'[b].stop = "finished"
    BY DEF ActorMoves
  <1>2. \A k \in DOMAIN tasks : Replaced(k) => Replaced(k)'
    BY DEF Replaced
  <1> QED BY <1>1, <1>2, QuietKeepsAlive

LEMMA TaskKeepsAlive ==
    ASSUME LinkInv, NoOverlap' => NoOverlap, AliveInv,
           NEW k \in DOMAIN tasks, TaskMoves(k),
           Replaced(k) => Replaced(k)' /\ tasks'[k].new = tasks[k].new,
           DOMAIN actors' = DOMAIN actors,
           \A b \in DOMAIN actors :
             /\ actors'[b].child = actors[b].child
             /\ actors[b].stop = "finished" => actors'[b].stop = "finished",
           \A i \in DOMAIN children : children'[i].actor = children[i].actor
    PROVE  AliveInv'
  <1>1. DOMAIN tasks' = DOMAIN tasks
    BY DEF TaskMoves
  <1>2. \A j \in DOMAIN tasks : Replaced(j) =>
          Replaced(j)' /\ tasks'[j].new = tasks[j].new
    BY DEF TaskMoves, Replaced
  <1> QED BY <1>1, <1>2, QuietKeepsAlive

LEMMA AliveStep ==
    ASSUME SupervisorAssumption, TypeOK, LinkInv, RestartInv, AliveInv,
           [Next]_vars
    PROVE  AliveInv'
  <1>0. NoOverlap' => NoOverlap
    BY OverlapStays
  <1>1. CASE SpawnAppend
    <2> DEFINE i == Len(children) + 1
               a == Len(actors) + 1
    <2>1. /\ ActorComes(a, i) /\ tasks' = tasks /\ children'[i].actor = a
          /\ \A j \in DOMAIN children : children'[j] = children[j]
      BY <1>1, SpawnAppendFacts
    <2> HIDE DEF a, i
    <2>2. /\ DOMAIN actors' = DOMAIN actors \cup {a} /\ actors'[a].child = i
          /\ \A b \in DOMAIN actors : actors'[b] = actors[b]
      BY <2>1 DEF ActorComes, NewBaseActor
    <2>4. \A k \in DOMAIN tasks : Replaced(k) => Replaced(k)'
      BY <2>1 DEF Replaced
    <2>5. \A b \in DOMAIN actors' \ DOMAIN actors : Recorded(b)'
      BY <2>1, <2>2 DEF Recorded
    <2> QED BY <1>0, <2>1, <2>2, <2>4, <2>5, QuietKeepsAlive
  <1>2. CASE SpawnRegister
    <2>1. UNCHANGED <<actors, children, tasks>>
      BY <1>2, SpawnRegisterFacts
    <2>2. \A k \in DOMAIN tasks : Replaced(k) => Replaced(k)'
      BY <2>1 DEF Replaced
    <2> QED BY <1>0, <2>1, <2>2, QuietKeepsAlive
  <1>3. CASE SpawnRun
    <2>1. spawning.actor \in DOMAIN actors
      BY <1>3 DEF SpawnRun, LinkInv
    <2> QED BY <1>0, <1>3, <2>1, SpawnRunFacts, ActorKeepsAlive
  <1>4. ASSUME NEW a \in DOMAIN actors, Panic(a)
        PROVE  AliveInv'
    BY <1>0, <1>4, PanicFacts, ActorKeepsAlive
  <1>5. ASSUME NEW a \in DOMAIN actors, RecoverClose(a)
        PROVE  AliveInv'
    BY <1>0, <1>5, RecoverFacts, ActorKeepsAlive
  <1>6. ASSUME NEW a \in DOMAIN actors, LoopEnds(a)
        PROVE  AliveInv'
    BY <1>0, <1>6, LoopEndFacts, ActorKeepsAlive
  <1>7. ASSUME NEW a \in DOMAIN actors, ClientStop(a)
        PROVE  AliveInv'
    BY <1>0, <1>7, ClientStopFacts, ActorKeepsAlive
  <1>8. ASSUME NEW a \in DOMAIN actors, StopClose(a)
        PROVE  AliveInv'
    BY <1>0, <1>8, StopCloseFacts, ActorKeepsAlive
  <1>9. ASSUME NEW a \in DOMAIN actors, StopWait(a)
        PROVE  AliveInv'
    BY <1>0, <1>9, StopWaitFacts, ActorKeepsAlive
  <1>10. ASSUME NEW a \in DOMAIN actors, StopUnregister(a)
        PROVE  AliveInv'
    BY <1>0, <1>10, UnregisterFacts, ActorKeepsAlive
  <1>11. ASSUME NEW a \in DOMAIN actors, NotifyFailure(a)
        PROVE  AliveInv'
    BY <1>0, <1>11, NotifyActorFacts, NotifyTaskFacts, ActorKeepsAlive
  <1>12. ASSUME NEW k \in DOMAIN tasks, RestartEnter(k)
        PROVE  AliveInv'
    <2>1. tasks[k].slot \in DOMAIN children
      BY DEF LinkInv, TaskLinks
    <2>2. CASE Retries(k) + 1 > MaxRetries
      <3>1. /\ TaskMoves(k) /\ tasks[k].pc = "enter"
            /\ UNCHANGED <<actors, children>>
        BY <1>12, <2>1, <2>2, GiveUpFacts
      <3>2. ~Replaced(k)
        BY <3>1 DEF Replaced
      <3> QED BY <1>0, <3>1, <3>2, TaskKeepsAlive
    <2>3. CASE ~(Retries(k) + 1 > MaxRetries)
      <3> DEFINE i == tasks[k].slot
      <3>1. /\ TaskMoves(k) /\ tasks[k].pc = "enter"
            /\ ChildMoves(i) /\ children'[i].actor = children[i].actor
            /\ UNCHANGED actors
        BY <1>12, <2>1, <2>3, EnterFacts
      <3>2. ~Replaced(k)
        BY <3>1 DEF Replaced
      <3>3. \A j \in DOMAIN children : children'[j].actor = children[j].actor
        BY <3>1 DEF ChildMoves
      <3> QED BY <1>0, <3>1, <3>2, <3>3, TaskKeepsAlive
    <2> QED BY <2>2, <2>3
  <1>13. ASSUME NEW k \in DOMAIN tasks, RestartStop(k)
        PROVE  AliveInv'
    <2> DEFINE a == tasks[k].actor
    <2>1. a \in DOMAIN actors
      BY <1>13 DEF LinkInv, TaskLinks, RestartStop, Copied
    <2>2. /\ ActorMoves(a) /\ TaskMoves(k) /\ tasks[k].pc = "stop"
          /\ actors'[a].stop =
               (IF actors[a].stop = "none" THEN "called" ELSE actors[a].stop)
          /\ UNCHANGED children
      BY <1>13, <2>1, RestartStopFacts
    <2>3. ~Replaced(k)
      BY <2>2 DEF Replaced
    <2> HIDE DEF a
    <2>4. /\ DOMAIN actors' = DOMAIN actors
          /\ \A b \in DOMAIN actors :
               /\ actors'[b].child = actors[b].child
               /\ actors[b].stop = "finished" => actors'[b].stop = "finished"
      BY <2>2 DEF ActorMoves
    <2> QED BY <1>0, <2>2, <2>3, <2>4, TaskKeepsAlive
  <1>14. ASSUME NEW k \in DOMAIN tasks, RestartCreate(k)
        PROVE  AliveInv'
    <2> DEFINE i == tasks[k].slot
               a == Len(actors) + 1
    <2>1. /\ ActorComes(a, i) /\ TaskMoves(k)
          /\ tasks[k].pc = "create" /\ tasks'[k].pc = "run"
          /\ tasks'[k].new = a /\ UNCHANGED children
      BY <1>14, RestartCreateFacts
    <2> HIDE DEF a, i
    <2>2. /\ DOMAIN actors' = DOMAIN actors \cup {a}
          /\ \A b \in DOMAIN actors : actors'[b] = actors[b]
      BY <2>1 DEF ActorComes
    <2>3. ~Replaced(k) /\ Replaced(k)'
      BY <2>1 DEF Replaced
    <2>4. DOMAIN tasks' = DOMAIN tasks
      BY <2>1 DEF TaskMoves
    <2>5. \A j \in DOMAIN tasks : Replaced(j) =>
            Replaced(j)' /\ tasks'[j].new = tasks[j].new
      BY <2>1, <2>3 DEF TaskMoves, Replaced
    <2>6. \A b \in DOMAIN actors' \ DOMAIN actors :
            \E j \in DOMAIN tasks' : Replaced(j)' /\ tasks'[j].new = b
      BY <2>1, <2>2, <2>3, <2>4
    <2> QED BY <1>0, <2>1, <2>2, <2>4, <2>5, <2>6, QuietKeepsAlive
  <1>15. ASSUME NEW k \in DOMAIN tasks, RestartRun(k)
        PROVE  AliveInv'
    <2> DEFINE a == tasks[k].new
    <2>1. a \in DOMAIN actors
      BY <1>15 DEF LinkInv, TaskLinks, RestartRun, Replaced
    <2>2. /\ ActorMoves(a) /\ actors'[a].stop = actors[a].stop
          /\ TaskMoves(k) /\ tasks'[k].pc = "record" /\ tasks'[k].new = a
          /\ UNCHANGED children
      BY <1>15, <2>1, RestartRunFacts
    <2>3. Replaced(k)'
      BY <2>2 DEF Replaced
    <2>4. /\ DOMAIN actors' = DOMAIN actors
          /\ \A b \in DOMAIN actors : actors'[b].child = actors[b].child
          /\ \A b \in DOMAIN actors : actors'[b].stop = actors[b].stop
      BY <2>2 DEF ActorMoves
    <2> QED BY <1>0, <2>2, <2>3, <2>4, TaskKeepsAlive
  <1>16. ASSUME NEW k \in DOMAIN tasks, RestartRecord(k)
        PROVE  AliveInv'
    <2> SUFFICES ASSUME NoOverlap, NEW b \in DOMAIN actors,
                        actors[b].stop # "finished"
                 PROVE  \/ Recorded(b)'
                        \/ \E j \in DOMAIN tasks' :
                             Replaced(j)' /\ tasks'[j].new = b
      BY <1>0, <1>16 DEF AliveInv, RestartRecord
    <2> DEFINE i == tasks[k].slot
               a == tasks[k].new
    <2>1. /\ i \in DOMAIN children /\ a # NoActor /\ a \in DOMAIN actors
          /\ actors[a].child = i
      BY <1>16 DEF LinkInv, TaskLinks, RestartRecord, Replaced
    <2>2. /\ TaskMoves(k) /\ ChildMoves(i) /\ children'[i].actor = a
          /\ tasks[k].pc = "record" /\ UNCHANGED actors
      BY <1>16, <2>1, RestartRecordFacts
    <2>3. \A j \in DOMAIN children : j # i => children'[j] = children[j]
      BY <2>2 DEF ChildMoves
    <2>4. CASE Recorded(b)
      <3>1. Replaced(k) /\ Copied(k)
        BY <2>2 DEF Replaced, Copied
      <3>2. actors[children[i].actor].stop = "finished"
        BY <3>1 DEF RestartInv
      <3>3. actors[b].child # i /\ actors[b].child \in DOMAIN children
        BY <2>4, <3>2 DEF Recorded, LinkInv
      <3>4. Recorded(b)'
        BY <2>2, <2>3, <2>4, <3>3 DEF Recorded
      <3> QED BY <3>4
    <2>5. CASE \E j \in DOMAIN tasks : Replaced(j) /\ tasks[j].new = b
      <3>1. PICK j \in DOMAIN tasks : Replaced(j) /\ tasks[j].new = b
        BY <2>5
      <3>2. CASE j = k
        <4>1. Recorded(b)'
          BY <2>1, <2>2, <3>1, <3>2 DEF Recorded
        <4> QED BY <4>1
      <3>3. CASE j # k
        <4>1. tasks'[j] = tasks[j] /\ j \in DOMAIN tasks'
          BY <2>2, <3>3 DEF TaskMoves
        <4>2. Replaced(j)'
          BY <3>1, <4>1 DEF Replaced
        <4> QED BY <3>1, <4>1, <4>2
      <3> QED BY <3>2, <3>3
    <2> QED BY <2>4, <2>5 DEF AliveInv
  <1>17. ASSUME NEW k \in DOMAIN tasks, RestartCount(k)
        PROVE  AliveInv'
    <2>1. /\ TaskMoves(k) /\ tasks[k].pc = "count"
          /\ UNCHANGED <<actors, children>>
      BY <1>17, RestartCountFacts
    <2>2. ~Replaced(k)
      BY <2>1 DEF Replaced
    <2> QED BY <1>0, <2>1, <2>2, TaskKeepsAlive
  <1>18. CASE UNCHANGED vars
    <2>1. UNCHANGED <<actors, children, tasks>>
      BY <1>18 DEF vars
    <2>2. \A k \in DOMAIN tasks : Replaced(k) => Replaced(k)'
      BY <2>1 DEF Replaced
    <2> QED BY <1>0, <2>1, <2>2, QuietKeepsAlive
  <1> QED BY <1>1, <1>2, <1>3, <1>4, <1>5, <1>6, <1>7, <1>8, <1>9, <1>10, <1>11, <1>12, <1>13, <1>14, <1>15, <1>16, <1>17, <1>18, StepCases

\* Two actors of a slot are never both without a finished Stop.
LEMMA Alone ==
    ASSUME LinkInv, RestartInv, AliveInv, NoOverlap,
           NEW a \in DOMAIN actors, NEW b \in DOMAIN actors,
           actors[a].child = actors[b].child,
           actors[a].stop # "finished", actors[b].stop # "finished"
    PROVE  a = b
  <1> DEFINE i == actors[a].child
             Coming(c, k) == Replaced(k) /\ tasks[k].new = c
  <1>1. \A c \in {a, b} : \/ Recorded(c)
                          \/ \E k \in DOMAIN tasks : Coming(c, k)
    BY DEF AliveInv
  <1>2. \A k \in DOMAIN tasks : Replaced(k) =>
          /\ Active(k) /\ actors[tasks[k].new].child = tasks[k].slot
          /\ actors[children[tasks[k].slot].actor].stop = "finished"
    BY DEF LinkInv, TaskLinks, Replaced, Copied, Active, RestartInv
  <1>3. CASE Recorded(a) /\ Recorded(b)
    BY <1>3 DEF Recorded
  <1>4. ASSUME NEW c \in {a, b}, NEW d \in {a, b}, Recorded(c),
               NEW k \in DOMAIN tasks, Coming(d, k)
        PROVE  FALSE
    BY <1>2, <1>4 DEF Recorded
  <1>5. ASSUME NEW j \in DOMAIN tasks, Coming(a, j),
               NEW k \in DOMAIN tasks, Coming(b, k)
        PROVE  a = b
    BY <1>2, <1>5 DEF RestartInv
  <1> QED BY <1>1, <1>3, <1>4, <1>5

-----------------------------------------------------------------------------
(* Every actor of a slot but the first was paid for with a retry *)

LEMMA BudgetInit == Init => BudgetInv
  BY DEF Init, BudgetInv

LEMMA ActorsOfFinite ==
    ASSUME TypeOK, NEW i
    PROVE  IsFiniteSet(ActorsOf(i)) /\ Cardinality(ActorsOf(i)) \in Nat
  <1>1. DOMAIN actors = 1 .. Len(actors) /\ Len(actors) \in Nat
    BY DEF TypeOK
  <1>2. IsFiniteSet(DOMAIN actors)
    BY <1>1, FS_Interval
  <1>3. ActorsOf(i) \subseteq DOMAIN actors
    BY DEF ActorsOf
  <1> QED BY <1>2, <1>3, FS_Subset, FS_CardinalityType

LEMMA SameActors ==
    ASSUME DOMAIN actors' = DOMAIN actors,
           \A b \in DOMAIN actors : actors'[b].child = actors[b].child,
           NEW i
    PROVE  ActorsOf(i)' = ActorsOf(i)
  BY DEF ActorsOf

\* Steps that make no actor.
LEMMA QuietKeepsBudget ==
    ASSUME NoOverlap' => NoOverlap, BudgetInv,
           DOMAIN actors' = DOMAIN actors,
           \A b \in DOMAIN actors : actors'[b].child = actors[b].child,
           DOMAIN children' = DOMAIN children,
           NoOverlap => \A i \in DOMAIN children :
             children'[i].retries = children[i].retries,
           \A k \in DOMAIN tasks' : tasks'[k].pc \in {"stop", "create"} =>
             /\ k \in DOMAIN tasks /\ tasks[k].pc \in {"stop", "create"}
             /\ tasks'[k].slot = tasks[k].slot
    PROVE  BudgetInv'
  <1> SUFFICES ASSUME NoOverlap', NoOverlap, NEW i \in DOMAIN children
               PROVE  /\ Cardinality(ActorsOf(i)') <= 1 + children'[i].retries
                      /\ \A k \in DOMAIN tasks' :
                           tasks'[k].slot = i /\ tasks'[k].pc \in {"stop", "create"}
                             => Cardinality(ActorsOf(i)') <= children'[i].retries
    BY DEF BudgetInv
  <1>1. ActorsOf(i)' = ActorsOf(i)
    BY SameActors
  <1> QED BY <1>1 DEF BudgetInv

LEMMA ActorKeepsBudget ==
    ASSUME NoOverlap' => NoOverlap, BudgetInv, NEW a, ActorMoves(a),
           UNCHANGED children,
           \A k \in DOMAIN tasks' : tasks'[k].pc \in {"stop", "create"} =>
             k \in DOMAIN tasks /\ tasks'[k] = tasks[k]
    PROVE  BudgetInv'
  <1>1. /\ DOMAIN actors' = DOMAIN actors
        /\ \A b \in DOMAIN actors : actors'[b].child = actors[b].child
    BY DEF ActorMoves
  <1> QED BY <1>1, QuietKeepsBudget

LEMMA TaskKeepsBudget ==
    ASSUME NoOverlap' => NoOverlap, BudgetInv,
           NEW k \in DOMAIN tasks, TaskMoves(k),
           tasks'[k].pc \in {"stop", "create"}
             => tasks[k].pc \in {"stop", "create"},
           DOMAIN actors' = DOMAIN actors,
           \A b \in DOMAIN actors : actors'[b].child = actors[b].child,
           DOMAIN children' = DOMAIN children,
           NoOverlap => \A i \in DOMAIN children :
             children'[i].retries = children[i].retries
    PROVE  BudgetInv'
  <1>1. \A j \in DOMAIN tasks' : tasks'[j].pc \in {"stop", "create"} =>
          /\ j \in DOMAIN tasks /\ tasks[j].pc \in {"stop", "create"}
          /\ tasks'[j].slot = tasks[j].slot
    BY DEF TaskMoves
  <1> QED BY <1>1, QuietKeepsBudget

LEMMA BudgetStep ==
    ASSUME SupervisorAssumption, TypeOK, LinkInv, RestartInv, BudgetInv,
           [Next]_vars
    PROVE  BudgetInv'
  <1>0. NoOverlap' => NoOverlap
    BY OverlapStays
  <1>1. CASE SpawnAppend
    <2> SUFFICES ASSUME NoOverlap', NoOverlap PROVE BudgetInv'
      BY <1>0 DEF BudgetInv
    <2>0. PICK i : i = Len(children) + 1
      OBVIOUS
    <2>1. PICK a : a = Len(actors) + 1
      OBVIOUS
    <2>2. /\ ActorComes(a, i) /\ tasks' = tasks
          /\ DOMAIN children' = DOMAIN children \cup {i}
          /\ i \notin DOMAIN children /\ children'[i].retries = 0
          /\ \A j \in DOMAIN children : children'[j] = children[j]
      BY <1>1, <2>0, <2>1, SpawnAppendFacts
    <2>3. /\ DOMAIN actors' = DOMAIN actors \cup {a} /\ actors'[a].child = i
          /\ \A b \in DOMAIN actors : actors'[b] = actors[b]
      BY <2>2 DEF ActorComes, NewBaseActor
    <2>4. \A b \in DOMAIN actors : actors[b].child # i
      BY <2>2 DEF LinkInv
    <2>5. \A j \in DOMAIN children : ActorsOf(j)' = ActorsOf(j)
      BY <2>2, <2>3 DEF ActorsOf
    <2>6. ActorsOf(i)' = {a}
      BY <2>3, <2>4 DEF ActorsOf
    <2>7. Cardinality(ActorsOf(i)') = 1
      BY <2>6, FS_Singleton
    <2>8. \A k \in DOMAIN tasks : tasks[k].slot \in DOMAIN children
      BY DEF LinkInv, TaskLinks
    <2>9. ASSUME NEW j \in DOMAIN children
          PROVE  /\ Cardinality(ActorsOf(j)') <= 1 + children'[j].retries
                 /\ \A k \in DOMAIN tasks :
                      tasks[k].slot = j /\ tasks[k].pc \in {"stop", "create"}
                        => Cardinality(ActorsOf(j)') <= children'[j].retries
      BY <2>2, <2>5 DEF BudgetInv
    <2>10. Cardinality(ActorsOf(i)') <= 1 + children'[i].retries
      BY <2>2, <2>7
    <2> QED BY <2>2, <2>8, <2>9, <2>10 DEF BudgetInv
  <1>2. CASE SpawnRegister
    BY <1>0, <1>2, SpawnRegisterFacts, QuietKeepsBudget
  <1>3. CASE SpawnRun
    <2>1. spawning.actor \in DOMAIN actors
      BY <1>3 DEF SpawnRun, LinkInv
    <2> QED BY <1>0, <1>3, <2>1, SpawnRunFacts, ActorKeepsBudget
  <1>4. ASSUME NEW a \in DOMAIN actors, Panic(a)
        PROVE  BudgetInv'
    BY <1>0, <1>4, PanicFacts, ActorKeepsBudget
  <1>5. ASSUME NEW a \in DOMAIN actors, RecoverClose(a)
        PROVE  BudgetInv'
    BY <1>0, <1>5, RecoverFacts, ActorKeepsBudget
  <1>6. ASSUME NEW a \in DOMAIN actors, LoopEnds(a)
        PROVE  BudgetInv'
    BY <1>0, <1>6, LoopEndFacts, ActorKeepsBudget
  <1>7. ASSUME NEW a \in DOMAIN actors, ClientStop(a)
        PROVE  BudgetInv'
    BY <1>0, <1>7, ClientStopFacts, ActorKeepsBudget
  <1>8. ASSUME NEW a \in DOMAIN actors, StopClose(a)
        PROVE  BudgetInv'
    BY <1>0, <1>8, StopCloseFacts, ActorKeepsBudget
  <1>9. ASSUME NEW a \in DOMAIN actors, StopWait(a)
        PROVE  BudgetInv'
    BY <1>0, <1>9, StopWaitFacts, ActorKeepsBudget
  <1>10. ASSUME NEW a \in DOMAIN actors, StopUnregister(a)
        PROVE  BudgetInv'
    BY <1>0, <1>10, UnregisterFacts, ActorKeepsBudget
  <1>11. ASSUME NEW a \in DOMAIN actors, NotifyFailure(a)
        PROVE  BudgetInv'
    BY <1>0, <1>11, NotifyActorFacts, NotifyTaskFacts, ActorKeepsBudget
  <1>12. ASSUME NEW k \in DOMAIN tasks, RestartEnter(k)
        PROVE  BudgetInv'
    <2>1. tasks[k].slot \in DOMAIN children
      BY DEF LinkInv, TaskLinks
    <2>2. CASE Retries(k) + 1 > MaxRetries
      BY <1>0, <1>12, <2>1, <2>2, GiveUpFacts, TaskKeepsBudget
    <2>3. CASE ~(Retries(k) + 1 > MaxRetries)
      <3> SUFFICES ASSUME NoOverlap', NoOverlap PROVE BudgetInv'
        BY <1>0 DEF BudgetInv
      <3> DEFINE i == tasks[k].slot
      <3>1. /\ TaskMoves(k) /\ ChildMoves(i)
            /\ children'[i].retries = children[i].retries + 1
            /\ UNCHANGED actors
        BY <1>12, <2>1, <2>3, EnterFacts
      <3>2. \A j : ActorsOf(j)' = ActorsOf(j)
        BY <3>1 DEF ActorsOf
      <3>3. /\ Cardinality(ActorsOf(i)) <= 1 + children[i].retries
            /\ Cardinality(ActorsOf(i)) \in Nat
            /\ children[i].retries \in Nat
        <4>1. children[i] \in ChildRecords
          BY <2>1 DEF TypeOK
        <4> QED BY <2>1, <4>1, ActorsOfFinite DEF BudgetInv, ChildRecords
      <3>4. /\ DOMAIN tasks' = DOMAIN tasks
            /\ \A j \in DOMAIN tasks : j # k => tasks'[j] = tasks[j]
            /\ tasks'[k].slot = i
        BY <3>1 DEF TaskMoves
      <3>5. /\ DOMAIN children' = DOMAIN children
            /\ \A j \in DOMAIN children : j # i => children'[j] = children[j]
        BY <3>1 DEF ChildMoves
      <3> DEFINE c == Cardinality(ActorsOf(i))
                 n == children'[i].retries
      <3>6. c <= n /\ c <= 1 + n
        <4>1. n \in Nat /\ c <= n
          BY <3>1, <3>3
        <4> QED BY <3>3, <4>1
      <3> HIDE DEF i, c, n
      <3>7. ASSUME NEW j \in DOMAIN children, j # i
            PROVE  /\ Cardinality(ActorsOf(j)) <= 1 + children'[j].retries
                   /\ \A h \in DOMAIN tasks' :
                        tasks'[h].slot = j /\ tasks'[h].pc \in {"stop", "create"}
                          => Cardinality(ActorsOf(j)) <= children'[j].retries
        BY <3>4, <3>5, <3>7 DEF BudgetInv
      <3>8. ASSUME NEW j \in DOMAIN children'
            PROVE  /\ Cardinality(ActorsOf(j)') <= 1 + children'[j].retries
                   /\ \A h \in DOMAIN tasks' :
                        tasks'[h].slot = j /\ tasks'[h].pc \in {"stop", "create"}
                          => Cardinality(ActorsOf(j)') <= children'[j].retries
        BY <3>2, <3>5, <3>6, <3>7 DEF c, n
      <3> QED BY <3>8 DEF BudgetInv
    <2> QED BY <2>2, <2>3
  <1>13. ASSUME NEW k \in DOMAIN tasks, RestartStop(k)
        PROVE  BudgetInv'
    <2> DEFINE a == tasks[k].actor
    <2>1. a \in DOMAIN actors
      BY <1>13 DEF LinkInv, TaskLinks, RestartStop, Copied
    <2>2. /\ ActorMoves(a) /\ TaskMoves(k) /\ tasks[k].pc = "stop"
          /\ UNCHANGED children
      BY <1>13, <2>1, RestartStopFacts
    <2> HIDE DEF a
    <2>3. /\ DOMAIN actors' = DOMAIN actors
          /\ \A b \in DOMAIN actors : actors'[b].child = actors[b].child
      BY <2>2 DEF ActorMoves
    <2> QED BY <1>0, <2>2, <2>3, TaskKeepsBudget
  <1>14. ASSUME NEW k \in DOMAIN tasks, RestartCreate(k)
        PROVE  BudgetInv'
    <2> SUFFICES ASSUME NoOverlap', NoOverlap PROVE BudgetInv'
      BY <1>0 DEF BudgetInv
    <2>0. PICK i : i = tasks[k].slot
      OBVIOUS
    <2>1. PICK a : a = Len(actors) + 1
      OBVIOUS
    <2>2. /\ ActorComes(a, i) /\ TaskMoves(k)
          /\ tasks[k].pc = "create" /\ tasks'[k].pc = "run"
          /\ UNCHANGED children
      BY <1>14, <2>0, <2>1, RestartCreateFacts
    <2>3. /\ DOMAIN actors' = DOMAIN actors \cup {a} /\ a \notin DOMAIN actors
          /\ \A b \in DOMAIN actors : actors'[b] = actors[b]
          /\ actors'[a].child = i
      BY <2>2 DEF ActorComes, NewBaseActor
    <2>4. i \in DOMAIN children
      BY <2>0 DEF LinkInv, TaskLinks
    <2>5. ActorsOf(i)' = ActorsOf(i) \cup {a} /\ a \notin ActorsOf(i)
      BY <2>3 DEF ActorsOf
    <2>6. \A j : j # i => ActorsOf(j)' = ActorsOf(j)
      BY <2>3 DEF ActorsOf
    <2>7. Cardinality(ActorsOf(i)') = Cardinality(ActorsOf(i)) + 1
      BY <2>5, ActorsOfFinite, FS_AddElement
    <2>8. /\ Cardinality(ActorsOf(i)) <= children[i].retries
          /\ Cardinality(ActorsOf(i)) \in Nat /\ children[i].retries \in Nat
      <3>1. children[i] \in ChildRecords
        BY <2>4 DEF TypeOK
      <3> QED BY <2>0, <2>2, <2>4, <3>1, ActorsOfFinite DEF BudgetInv, ChildRecords
    <2>9. Cardinality(ActorsOf(i)') <= 1 + children[i].retries
      BY <2>7, <2>8
    <2>10. /\ DOMAIN tasks' = DOMAIN tasks
           /\ \A j \in DOMAIN tasks : j # k => tasks'[j] = tasks[j]
      BY <2>2 DEF TaskMoves
    <2>11. \A h \in DOMAIN tasks' : tasks'[h].pc \in {"stop", "create"} =>
             tasks'[h].slot # i /\ tasks'[h] = tasks[h]
      <3>1. \A h \in DOMAIN tasks :
              tasks[h].pc \in {"stop", "create"} => Active(h)
        BY DEF Active
      <3> QED BY <2>0, <2>2, <2>10, <3>1 DEF RestartInv
    <2>12. ASSUME NEW j \in DOMAIN children
           PROVE  /\ Cardinality(ActorsOf(j)') <= 1 + children[j].retries
                  /\ \A h \in DOMAIN tasks' :
                       tasks'[h].slot = j /\ tasks'[h].pc \in {"stop", "create"}
                         => Cardinality(ActorsOf(j)') <= children[j].retries
      <3>1. CASE j = i
        BY <2>9, <2>11, <3>1
      <3>2. CASE j # i
        BY <2>6, <2>10, <2>11, <3>2 DEF BudgetInv
      <3> QED BY <3>1, <3>2
    <2> QED BY <2>2, <2>12 DEF BudgetInv
  <1>15. ASSUME NEW k \in DOMAIN tasks, RestartRun(k)
        PROVE  BudgetInv'
    <2> DEFINE a == tasks[k].new
    <2>1. a \in DOMAIN actors
      BY <1>15 DEF LinkInv, TaskLinks, RestartRun, Replaced
    <2>2. /\ ActorMoves(a) /\ TaskMoves(k) /\ tasks'[k].pc = "record"
          /\ UNCHANGED children
      BY <1>15, <2>1, RestartRunFacts
    <2> HIDE DEF a
    <2>3. /\ DOMAIN actors' = DOMAIN actors
          /\ \A b \in DOMAIN actors : actors'[b].child = actors[b].child
      BY <2>2 DEF ActorMoves
    <2> QED BY <1>0, <2>2, <2>3, TaskKeepsBudget
  <1>16. ASSUME NEW k \in DOMAIN tasks, RestartRecord(k)
        PROVE  BudgetInv'
    <2> DEFINE i == tasks[k].slot
    <2>1. i \in DOMAIN children /\ tasks[k].new # NoActor
      BY <1>16 DEF LinkInv, TaskLinks, RestartRecord, Replaced
    <2>2. /\ TaskMoves(k) /\ ChildMoves(i) /\ tasks'[k].pc = "count"
          /\ tasks[k].pc = "record"
          /\ children'[i].retries = tasks[k].retries /\ UNCHANGED actors
      BY <1>16, <2>1, RestartRecordFacts
    <2>3. Copied(k)
      BY <2>2 DEF Copied
    <2>4. NoOverlap => tasks[k].retries = children[i].retries
      BY <2>3 DEF RestartInv
    <2>5. /\ DOMAIN children' = DOMAIN children
          /\ NoOverlap => \A j \in DOMAIN children :
               children'[j].retries = children[j].retries
      BY <2>2, <2>4 DEF ChildMoves
    <2> QED BY <1>0, <2>2, <2>5, TaskKeepsBudget
  <1>17. ASSUME NEW k \in DOMAIN tasks, RestartCount(k)
        PROVE  BudgetInv'
    BY <1>0, <1>17, RestartCountFacts, TaskKeepsBudget
  <1>18. CASE UNCHANGED vars
    BY <1>0, <1>18, QuietKeepsBudget DEF vars
  <1> QED BY <1>1, <1>2, <1>3, <1>4, <1>5, <1>6, <1>7, <1>8, <1>9, <1>10, <1>11, <1>12, <1>13, <1>14, <1>15, <1>16, <1>17, <1>18, StepCases

-----------------------------------------------------------------------------
(* A registered actor whose Stop has not returned is found *)

LEMMA FoundInit == Init => FoundInv
  BY DEF Init, FoundInv

\* Steps that leave the registry alone.
LEMMA QuietKeepsFound ==
    ASSUME NoOverlap' => NoOverlap, FoundInv, UNCHANGED <<byID, byName>>,
           \A b \in DOMAIN actors :
             /\ actors'[b].child = actors[b].child
             /\ actors[b].stop = "finished" => actors'[b].stop = "finished",
           \A b \in DOMAIN actors' : Registered(b)' =>
             b \in DOMAIN actors /\ Registered(b)
    PROVE  FoundInv'
  BY DEF FoundInv

LEMMA ActorKeepsFound ==
    ASSUME NoOverlap' => NoOverlap, FoundInv, NEW a \in DOMAIN actors,
           ActorMoves(a), actors'[a].loop # "none" => Registered(a),
           actors[a].stop = "finished" => actors'[a].stop = "finished",
           UNCHANGED <<byID, byName>>,
           spawning' \in {spawning, NotSpawning},
           \A k \in DOMAIN tasks' : tasks'[k].pc = "run" =>
             k \in DOMAIN tasks /\ tasks'[k] = tasks[k]
    PROVE  FoundInv'
  <1>1. /\ DOMAIN actors' = DOMAIN actors
        /\ \A b \in DOMAIN actors :
             /\ actors'[b].child = actors[b].child
             /\ actors[b].stop = "finished" => actors'[b].stop = "finished"
             /\ b # a => actors'[b] = actors[b]
    BY DEF ActorMoves
  <1>2. ASSUME NEW b \in DOMAIN actors, Registered(b)'
        PROVE  Registered(b)
    <2>1. CASE actors'[b].loop # "none"
      BY <1>1, <2>1 DEF Registered
    <2>2. CASE spawning'.pc = "run" /\ spawning'.actor = b
      <3>1. spawning' = spawning
        BY <2>2 DEF NotSpawning
      <3> QED BY <2>2, <3>1 DEF Registered
    <2>3. CASE \E k \in DOMAIN tasks' : tasks'[k].pc = "run" /\ tasks'[k].new = b
      BY <2>3 DEF Registered
    <2> QED BY <1>2, <2>1, <2>2, <2>3 DEF Registered
  <1> QED BY <1>1, <1>2, QuietKeepsFound

LEMMA TaskKeepsFound ==
    ASSUME NoOverlap' => NoOverlap, FoundInv, NEW k \in DOMAIN tasks,
           TaskMoves(k), tasks'[k].pc # "run",
           DOMAIN actors' = DOMAIN actors,
           \A b \in DOMAIN actors :
             /\ actors'[b].child = actors[b].child
             /\ actors'[b].loop # "none" => Registered(b)
             /\ actors[b].stop = "finished" => actors'[b].stop = "finished",
           UNCHANGED <<byID, byName, spawning>>
    PROVE  FoundInv'
  <1>1. \A j \in DOMAIN tasks' : tasks'[j].pc = "run" =>
          j \in DOMAIN tasks /\ tasks'[j] = tasks[j]
    BY DEF TaskMoves
  <1>2. \A b \in DOMAIN actors : Registered(b)' => Registered(b)
    BY <1>1 DEF Registered
  <1> QED BY <1>2, QuietKeepsFound

\* A step that registers an actor whose slot has nobody else to find.
LEMMA RegisterKeepsFound ==
    ASSUME TypeOK, NoOverlap' => NoOverlap, FoundInv,
           NEW a \in DOMAIN actors', actors'[a].child \in Slots,
           DOMAIN actors' = DOMAIN actors \cup {a},
           \A b \in DOMAIN actors : actors'[b] = actors[b],
           NoOverlap => \A b \in DOMAIN actors :
             b # a /\ actors[b].stop # "finished" =>
               actors[b].child # actors'[a].child,
           \A b \in DOMAIN actors : b # a /\ Registered(b)' => Registered(b),
           byID' = byID \cup {a},
           byName' = [byName EXCEPT ![actors'[a].child] = a]
    PROVE  FoundInv'
  <1> SUFFICES ASSUME NoOverlap, NEW b \in DOMAIN actors', Registered(b)',
                      actors'[b].stop # "finished"
               PROVE  b \in byID' /\ byName'[actors'[b].child] = b
    BY DEF FoundInv
  <1> DEFINE c == actors'[a].child
  <1>1. /\ byName'[c] = a
        /\ \A i \in Slots : i # c => byName'[i] = byName[i]
    BY DEF TypeOK
  <1>2. CASE b = a
    BY <1>1, <1>2
  <1>3. CASE b # a
    <2>1. /\ b \in DOMAIN actors /\ actors'[b] = actors[b] /\ Registered(b)
          /\ actors[b].child # c
      BY <1>3
    <2>2. actors[b].child \in Slots
      <3>1. actors[b] \in ActorRecords
        BY <2>1 DEF TypeOK
      <3> QED BY <3>1 DEF ActorRecords
    <2>3. b \in byID /\ byName[actors[b].child] = b
      BY <2>1 DEF FoundInv
    <2> QED BY <1>1, <2>1, <2>2, <2>3
  <1> QED BY <1>2, <1>3

LEMMA FoundStep ==
    ASSUME SupervisorAssumption, TypeOK, LinkInv, GoneInv, RestartInv,
           AliveInv, FoundInv, [Next]_vars
    PROVE  FoundInv'
  <1>0. /\ NoOverlap' => NoOverlap
        /\ \A a \in DOMAIN actors :
             /\ actors[a].child \in Slots
             /\ actors[a].stop = "finished" => actors[a].loop = "done"
             /\ actors[a].loop # "none" => Registered(a)
    <2>1. \A a \in DOMAIN actors : actors[a] \in ActorRecords
      BY DEF TypeOK
    <2> QED BY <2>1, OverlapStays DEF GoneInv, ActorRecords, Registered
  <1>1. CASE SpawnAppend
    <2>0. PICK i : i = Len(children) + 1
      OBVIOUS
    <2>1. PICK a : a = Len(actors) + 1
      OBVIOUS
    <2>2. /\ ActorComes(a, i) /\ UNCHANGED <<byID, byName, tasks>>
          /\ spawning' = [pc |-> "register", actor |-> a]
      BY <1>1, <2>0, <2>1, SpawnAppendFacts
    <2>3. /\ DOMAIN actors' = DOMAIN actors \cup {a} /\ a \notin DOMAIN actors
          /\ actors'[a].loop = "none" /\ a # NoActor
          /\ \A b \in DOMAIN actors : actors'[b] = actors[b]
      BY <2>2 DEF ActorComes, NewBaseActor
    <2>4. spawning'.pc # "run"
      BY <2>2
    <2>5. \A k \in DOMAIN tasks : tasks[k].new # a
      BY <2>3 DEF LinkInv, TaskLinks
    <2>6. \A b \in DOMAIN actors' : Registered(b)' =>
            b \in DOMAIN actors /\ Registered(b)
      BY <2>2, <2>3, <2>4, <2>5 DEF Registered
    <2> QED BY <1>0, <2>2, <2>3, <2>6, QuietKeepsFound
  <1>2. CASE SpawnRegister
    <2>0. PICK a : a = spawning.actor
      OBVIOUS
    <2>1. a \in DOMAIN actors /\ actors[a].loop = "none"
      BY <1>2, <2>0, SpawnRegisterFacts DEF LinkInv
    <2>2. /\ byID' = byID \cup {a} /\ spawning'.actor = a
          /\ byName' = [byName EXCEPT ![actors[a].child] = a]
          /\ UNCHANGED <<actors, tasks>>
      BY <1>2, <2>0, SpawnRegisterFacts
    <2>3. NoOverlap => \A b \in DOMAIN actors :
            b # a /\ actors[b].stop # "finished" =>
              actors[b].child # actors[a].child
      BY <1>0, <2>1, Alone
    <2>4. \A b \in DOMAIN actors : b # a /\ Registered(b)' => Registered(b)
      BY <2>2 DEF Registered
    <2>5. /\ a \in DOMAIN actors' /\ DOMAIN actors' = DOMAIN actors \cup {a}
          /\ \A b \in DOMAIN actors : actors'[b] = actors[b]
          /\ actors'[a].child \in Slots
          /\ byName' = [byName EXCEPT ![actors'[a].child] = a]
      BY <1>0, <2>1, <2>2
    <2>6. NoOverlap => \A b \in DOMAIN actors :
            b # a /\ actors[b].stop # "finished" =>
              actors[b].child # actors'[a].child
      BY <2>1, <2>3, <2>5
    <2>7. byID' = byID \cup {a}
      BY <2>2
    <2> QED BY <1>0, <2>4, <2>5, <2>6, <2>7, RegisterKeepsFound
  <1>3. CASE SpawnRun
    <2>0. PICK a : a = spawning.actor
      OBVIOUS
    <2>1. a \in DOMAIN actors /\ spawning.pc = "run"
      BY <1>3, <2>0 DEF SpawnRun, LinkInv
    <2>2. Registered(a)
      BY <2>0, <2>1 DEF Registered
    <2>3. /\ ActorMoves(a) /\ actors'[a].stop = actors[a].stop
          /\ spawning' = NotSpawning /\ UNCHANGED <<byID, byName, tasks>>
      BY <1>3, <2>0, <2>1, SpawnRunFacts
    <2> QED BY <1>0, <2>1, <2>2, <2>3, ActorKeepsFound
  <1>4. ASSUME NEW a \in DOMAIN actors, Panic(a)
        PROVE  FoundInv'
    BY <1>0, <1>4, PanicFacts, ActorKeepsFound
  <1>5. ASSUME NEW a \in DOMAIN actors, RecoverClose(a)
        PROVE  FoundInv'
    BY <1>0, <1>5, RecoverFacts, ActorKeepsFound
  <1>6. ASSUME NEW a \in DOMAIN actors, LoopEnds(a)
        PROVE  FoundInv'
    BY <1>0, <1>6, LoopEndFacts, ActorKeepsFound
  <1>7. ASSUME NEW a \in DOMAIN actors, ClientStop(a)
        PROVE  FoundInv'
    BY <1>0, <1>7, ClientStopFacts, ActorKeepsFound
  <1>8. ASSUME NEW a \in DOMAIN actors, StopClose(a)
        PROVE  FoundInv'
    BY <1>0, <1>8, StopCloseFacts, ActorKeepsFound
  <1>9. ASSUME NEW a \in DOMAIN actors, StopWait(a)
        PROVE  FoundInv'
    BY <1>0, <1>9, StopWaitFacts, ActorKeepsFound
  <1>10. ASSUME NEW a \in DOMAIN actors, NotifyFailure(a)
        PROVE  FoundInv'
    <2>1. \A k \in DOMAIN tasks' : tasks'[k].pc = "run" =>
            k \in DOMAIN tasks /\ tasks'[k] = tasks[k]
      BY <1>10, NotifyTaskFacts
    <2> QED BY <1>0, <1>10, <2>1, NotifyActorFacts, ActorKeepsFound
  <1>11. ASSUME NEW a \in DOMAIN actors, StopUnregister(a)
        PROVE  FoundInv'
    <2> SUFFICES ASSUME NoOverlap, NEW b \in DOMAIN actors', Registered(b)',
                        actors'[b].stop # "finished"
                 PROVE  b \in byID' /\ byName'[actors'[b].child] = b
      BY <1>0 DEF FoundInv
    <2>1. /\ ActorMoves(a) /\ byID' = byID \ {a} /\ actors'[a].stop = "finished"
          /\ byName' = [byName EXCEPT ![actors[a].child] = NoActor]
          /\ actors[a].stop = "unregister" /\ UNCHANGED <<spawning, tasks>>
      BY <1>11, UnregisterFacts
    <2>2. b # a /\ b \in DOMAIN actors /\ actors'[b] = actors[b]
      BY <2>1 DEF ActorMoves
    <2>3. Registered(b)
      BY <2>1, <2>2 DEF Registered
    <2>4. actors[b].child # actors[a].child
      BY <2>1, <2>2, Alone
    <2>5. b \in byID /\ byName[actors[b].child] = b
      BY <2>2, <2>3 DEF FoundInv
    <2>6. byName'[actors[b].child] = byName[actors[b].child]
      BY <1>0, <2>1, <2>2, <2>4 DEF TypeOK
    <2> QED BY <2>1, <2>2, <2>5, <2>6
  <1>12. ASSUME NEW k \in DOMAIN tasks, RestartEnter(k)
        PROVE  FoundInv'
    <2>1. tasks[k].slot \in DOMAIN children
      BY DEF LinkInv, TaskLinks
    <2>2. /\ TaskMoves(k) /\ tasks'[k].pc # "run"
          /\ UNCHANGED <<actors, byID, byName, spawning>>
      <3>1. CASE Retries(k) + 1 > MaxRetries
        BY <1>12, <2>1, <3>1, GiveUpFacts
      <3>2. CASE ~(Retries(k) + 1 > MaxRetries)
        BY <1>12, <2>1, <3>2, EnterFacts
      <3> QED BY <3>1, <3>2
    <2> QED BY <1>0, <2>2, TaskKeepsFound
  <1>13. ASSUME NEW k \in DOMAIN tasks, RestartStop(k)
        PROVE  FoundInv'
    <2>0. PICK a : a = tasks[k].actor
      OBVIOUS
    <2>1. a \in DOMAIN actors
      BY <1>13, <2>0 DEF LinkInv, TaskLinks, RestartStop, Copied
    <2>2. /\ ActorMoves(a) /\ actors'[a].loop = actors[a].loop
          /\ actors'[a].stop =
               (IF actors[a].stop = "none" THEN "called" ELSE actors[a].stop)
          /\ TaskMoves(k) /\ tasks'[k].pc = "create"
          /\ UNCHANGED <<byID, byName, spawning>>
      BY <1>13, <2>0, <2>1, RestartStopFacts
    <2>3. /\ DOMAIN actors' = DOMAIN actors
          /\ \A b \in DOMAIN actors :
               /\ actors'[b].child = actors[b].child
               /\ actors'[b].loop = actors[b].loop
               /\ actors[b].stop = "finished" => actors'[b].stop = "finished"
      BY <2>2 DEF ActorMoves
    <2> QED BY <1>0, <2>2, <2>3, TaskKeepsFound
  <1>14. ASSUME NEW k \in DOMAIN tasks, RestartCreate(k)
        PROVE  FoundInv'
    <2>0. PICK i : i = tasks[k].slot
      OBVIOUS
    <2>1. PICK a : a = Len(actors) + 1
      OBVIOUS
    <2>2. /\ ActorComes(a, i) /\ i \in Slots /\ TaskMoves(k)
          /\ tasks[k].pc = "create" /\ tasks'[k].new = a
          /\ actors[tasks[k].actor].stop = "finished"
          /\ byID' = byID \cup {a} /\ byName' = [byName EXCEPT ![i] = a]
          /\ UNCHANGED spawning
      BY <1>14, <2>0, <2>1, RestartCreateFacts
    <2>3. /\ DOMAIN actors' = DOMAIN actors \cup {a} /\ a \in DOMAIN actors'
          /\ \A b \in DOMAIN actors : actors'[b] = actors[b]
          /\ actors'[a].child = i
      BY <2>2 DEF ActorComes, NewBaseActor
    <2>4. ASSUME NoOverlap, NEW b \in DOMAIN actors,
                 actors[b].stop # "finished", actors[b].child = i
          PROVE  FALSE
      <3>1. Active(k) /\ Copied(k) /\ ~Replaced(k)
        BY <2>2 DEF Active, Copied, Replaced
      <3>2. CASE Recorded(b)
        BY <2>0, <2>2, <2>4, <3>1, <3>2 DEF Recorded, RestartInv
      <3>3. CASE \E j \in DOMAIN tasks : Replaced(j) /\ tasks[j].new = b
        <4>1. PICK j \in DOMAIN tasks : Replaced(j) /\ tasks[j].new = b
          BY <3>3
        <4>2. tasks[j].slot = i /\ Active(j)
          BY <2>4, <4>1 DEF LinkInv, TaskLinks, Replaced, Active
        <4> QED BY <2>0, <2>4, <3>1, <4>1, <4>2 DEF RestartInv
      <3> QED BY <2>4, <3>2, <3>3 DEF AliveInv
    <2>5. /\ DOMAIN tasks' = DOMAIN tasks
          /\ \A j \in DOMAIN tasks : j # k => tasks'[j] = tasks[j]
      BY <2>2 DEF TaskMoves
    <2>6. \A b \in DOMAIN actors : b # a /\ Registered(b)' => Registered(b)
      BY <2>2, <2>3, <2>5 DEF Registered
    <2> QED BY <1>0, <2>2, <2>3, <2>4, <2>6, RegisterKeepsFound
  <1>15. ASSUME NEW k \in DOMAIN tasks, RestartRun(k)
        PROVE  FoundInv'
    <2>0. PICK a : a = tasks[k].new
      OBVIOUS
    <2>1. a \in DOMAIN actors /\ tasks[k].pc = "run"
      BY <1>15, <2>0 DEF LinkInv, TaskLinks, RestartRun, Replaced
    <2>2. Registered(a)
      BY <2>0, <2>1 DEF Registered
    <2>3. /\ ActorMoves(a) /\ actors'[a].stop = actors[a].stop
          /\ TaskMoves(k) /\ tasks'[k].pc = "record"
          /\ UNCHANGED <<byID, byName, spawning>>
      BY <1>15, <2>0, <2>1, RestartRunFacts
    <2>4. /\ DOMAIN actors' = DOMAIN actors
          /\ \A b \in DOMAIN actors :
               /\ actors'[b].child = actors[b].child
               /\ b # a => actors'[b].loop = actors[b].loop
               /\ actors[b].stop = "finished" => actors'[b].stop = "finished"
      BY <2>3 DEF ActorMoves
    <2> QED BY <1>0, <2>2, <2>3, <2>4, TaskKeepsFound
  <1>16. ASSUME NEW k \in DOMAIN tasks, RestartRecord(k)
        PROVE  FoundInv'
    <2>1. tasks[k].slot \in DOMAIN children /\ tasks[k].new # NoActor
      BY <1>16 DEF LinkInv, TaskLinks, RestartRecord, Replaced
    <2>2. /\ TaskMoves(k) /\ tasks'[k].pc = "count"
          /\ UNCHANGED <<actors, byID, byName, spawning>>
      BY <1>16, <2>1, RestartRecordFacts
    <2> QED BY <1>0, <2>2, TaskKeepsFound
  <1>17. ASSUME NEW k \in DOMAIN tasks, RestartCount(k)
        PROVE  FoundInv'
    <2>1. /\ TaskMoves(k) /\ tasks'[k].pc = "done"
          /\ UNCHANGED <<actors, byID, byName, spawning>>
      BY <1>17, RestartCountFacts
    <2> QED BY <1>0, <2>1, TaskKeepsFound
  <1>18. CASE UNCHANGED vars
    <2>1. UNCHANGED <<actors, byID, byName, tasks, spawning>>
      BY <1>18 DEF vars
    <2>2. \A b \in DOMAIN actors : Registered(b)' => Registered(b)
      BY <2>1 DEF Registered
    <2> QED BY <1>0, <2>1, <2>2, QuietKeepsFound
  <1> QED BY <1>1, <1>2, <1>3, <1>4, <1>5, <1>6, <1>7, <1>8, <1>9, <1>10, <1>11, <1>12, <1>13, <1>14, <1>15, <1>16, <1>17, <1>18, StepCases

-----------------------------------------------------------------------------
(* The theorems *)

SafeInv == TypeOK /\ LinkInv /\ GoneInv /\ StoppedIsGone

SlotInv == FailureInv /\ RestartInv /\ AliveInv /\ BudgetInv /\ FoundInv

LEMMA SafeAlways == Spec => []SafeInv
  <1>1. SupervisorAssumption /\ Init => SafeInv
    BY TypeInit, LinkInit, GoneInit DEF SafeInv
  <1>2. SupervisorAssumption /\ SafeInv /\ [Next]_vars => SafeInv'
    BY TypeStep, LinkStep, GoneStep DEF SafeInv
  <1> QED BY <1>1, <1>2, SupervisorAssumption, PTL DEF Spec

LEMMA SlotsAlways == Spec => []SlotInv
  <1>1. Init => SlotInv
    BY FailureInit, RestartInit, AliveInit, BudgetInit, FoundInit DEF SlotInv
  <1>2. SupervisorAssumption /\ SafeInv /\ SlotInv /\ [Next]_vars => SlotInv'
    BY FailureStep, RestartStep, AliveStep, BudgetStep, FoundStep
       DEF SafeInv, SlotInv
  <1> QED BY <1>1, <1>2, SupervisorAssumption, SafeAlways, PTL DEF Spec

(***************************************************************************)
(* An actor whose Stop has returned is in the registry neither by its ID   *)
(* nor by its name, and its loop has ended, whatever restarts overlap      *)
(* (base_actor.go:103-136, registry.go:28-46).                             *)
(***************************************************************************)
THEOREM StoppedGone == Spec => []StoppedIsGone
  <1>1. SafeInv => StoppedIsGone
    BY DEF SafeInv
  <1> QED BY <1>1, SafeAlways, PTL

LEMMA SlotsManaged ==
    ASSUME LinkInv, RestartInv, AliveInv, NoOverlap
    PROVE  Managed
  <1> SUFFICES ASSUME NEW a \in DOMAIN actors, Serving(a)
               PROVE  /\ \/ Recorded(a)
                         \/ \E k \in DOMAIN tasks : /\ tasks[k].new = a
                                                    /\ tasks[k].pc = "record"
                      /\ \A b \in DOMAIN actors :
                           Serving(b) /\ actors[b].child = actors[a].child
                             => b = a
    BY DEF Managed
  <1>1. \A b \in DOMAIN actors : Serving(b) =>
          actors[b].stop # "finished" /\ actors[b].loop = "running"
    BY DEF Serving
  <1>2. \A b \in DOMAIN actors :
          Serving(b) /\ actors[b].child = actors[a].child => b = a
    BY <1>1, Alone
  <1>3. CASE \E k \in DOMAIN tasks : Replaced(k) /\ tasks[k].new = a
    <2>1. PICK k \in DOMAIN tasks : Replaced(k) /\ tasks[k].new = a
      BY <1>3
    <2>2. tasks[k].pc # "run"
      BY <1>1, <2>1 DEF LinkInv, TaskLinks
    <2>3. tasks[k].pc = "record"
      BY <2>1, <2>2 DEF Replaced
    <2> QED BY <1>2, <2>1, <2>3
  <1>4. CASE Recorded(a)
    BY <1>2, <1>4
  <1> QED BY <1>1, <1>3, <1>4 DEF AliveInv

(***************************************************************************)
(* The supervisor loses no child as long as no restarts of a slot overlap, *)
(* and no copy of an entry ever counts more than MaxRetries retries        *)
(* (supervisor.go:152-212).                                                *)
(***************************************************************************)
THEOREM ChildrenSupervised == Spec => []SupervisorInv
  <1>1. SafeInv /\ SlotInv => SupervisorInv
    BY SlotsManaged DEF SafeInv, SlotInv, SupervisorInv, Supervised
  <1> QED BY <1>1, SafeAlways, SlotsAlways, PTL

(***************************************************************************)
(* A slot sees at most MaxRetries actors after its first                   *)
(* (supervisor.go:182-206).                                                *)
(***************************************************************************)
THEOREM BudgetKept == Spec => []RestartBudget
  <1>1. ASSUME SupervisorAssumption, SafeInv, SlotInv, NoOverlap,
               NEW i \in Slots
        PROVE  Cardinality({a \in DOMAIN actors : actors[a].child = i})
                 <= 1 + MaxRetries
    <2>1. MaxRetries \in Nat /\ Cardinality(ActorsOf(i)) \in Nat
      BY <1>1, ActorsOfFinite DEF SafeInv, SupervisorAssumption
    <2>2. CASE i \in DOMAIN children
      <3>1. children[i] \in ChildRecords
        BY <1>1, <2>2 DEF SafeInv, TypeOK
      <3>2. children[i].retries \in 0 .. MaxRetries
        BY <3>1 DEF ChildRecords
      <3>3. Cardinality(ActorsOf(i)) <= 1 + children[i].retries
        BY <1>1, <2>2 DEF SlotInv, BudgetInv
      <3>4. Cardinality(ActorsOf(i)) <= 1 + MaxRetries
        BY <2>1, <3>2, <3>3
      <3> QED BY <3>4 DEF ActorsOf
    <2>3. CASE i \notin DOMAIN children
      <3>1. ActorsOf(i) = {}
        BY <1>1, <2>3 DEF SafeInv, LinkInv, ActorsOf
      <3>2. Cardinality(ActorsOf(i)) = 0
        BY <3>1, FS_EmptySet
      <3>3. Cardinality(ActorsOf(i)) <= 1 + MaxRetries
        BY <2>1, <3>2
      <3> QED BY <3>3 DEF ActorsOf
    <2> QED BY <2>2, <2>3
  <1>2. SupervisorAssumption /\ SafeInv /\ SlotInv => RestartBudget
    BY <1>1 DEF RestartBudget
  <1> QED BY <1>2, SupervisorAssumption, SafeAlways, SlotsAlways, PTL

(***************************************************************************)
(* The name of a child that serves leads to that child, also after         *)
(* restarts (supervisor.go:198-212, registry.go:28-46).                    *)
(***************************************************************************)
THEOREM NamesResolve == Spec => []NameResolves
  <1>1. ASSUME SafeInv, SlotInv, NoOverlap, NEW i \in DOMAIN children,
               Serving(children[i].actor)
        PROVE  byName[i] = children[i].actor /\ children[i].actor \in byID
    <2> DEFINE a == children[i].actor
    <2>1. a \in DOMAIN actors /\ actors[a].child = i
      BY <1>1 DEF SafeInv, LinkInv
    <2>2. Registered(a) /\ actors[a].stop # "finished"
      BY <1>1 DEF Serving, Registered
    <2> HIDE DEF a
    <2>3. a \in byID /\ byName[i] = a
      BY <1>1, <2>1, <2>2 DEF SlotInv, FoundInv
    <2> QED BY <2>3 DEF a
  <1>2. SafeInv /\ SlotInv => NameResolves
    BY <1>1 DEF NameResolves
  <1> QED BY <1>2, SafeAlways, SlotsAlways, PTL

=============================================================================
