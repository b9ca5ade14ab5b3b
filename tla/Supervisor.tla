----------------------------- MODULE Supervisor -----------------------------
(***************************************************************************)
(* actor/supervisor.go with the parts of BaseActor, System and Registry it *)
(* lives on: Start, Stop, the recovery of a panic (actor/base_actor.go),   *)
(* notifyFailure (actor/system.go), Register and Unregister                *)
(* (actor/registry.go).                                                    *)
(*                                                                         *)
(* Actors are numbered in the order the factories make them; the child in  *)
(* slot i is named i.  A critical section of a mutex is one action, and so *)
(* is Mailbox.Close (module Mailbox has its steps).  Messages are left     *)
(* out except for the one thing they do here: a handler may panic.  Every  *)
(* go statement makes a process of its own, and time.Sleep is any delay.   *)
(***************************************************************************)
EXTENDS Integers, Sequences, FiniteSetsExt

CONSTANTS
    Children,     \* number of calls of Spawn
    Strategies,   \* the strategies the supervisor may be made with
    MaxRetries,   \* s.maxRetries
    Backlog,      \* messages behind the first panicking one that panic, too
    MaxPanics     \* bound of the model: panics in a behaviour, by strategy

ASSUME SupervisorAssumption ==
    /\ Children \in Nat \ {0}
    /\ Strategies \subseteq {"one", "all", "rest"}
    /\ MaxRetries \in Nat \ {0}
    /\ Backlog \in Nat
    /\ MaxPanics \in [Strategies -> Nat]

Slots == 1 .. Children

\* A panic starts one task, or one per slot, and a task makes one actor.
MaxTasks(st) == MaxPanics[st] * (IF st = "one" THEN 1 ELSE Children)
TaskIds == 1 .. Max({MaxTasks(st) : st \in Strategies})
ActorIds == 1 .. Children + Max({MaxTasks(st) : st \in Strategies})

NoActor == 0

VARIABLES
    actors,     \* actors[a]: a BaseActor
    children,   \* s.children
    byID,       \* Registry.byID
    byName,     \* Registry.byName
    tasks,      \* the goroutines running restartChild
    spawning,   \* the actor of a Spawn in progress, and how far it is
    restarts,   \* s.restarts
    panics,     \* panics so far
    strategy    \* s.strategy

vars == <<actors, children, byID, byName, tasks, spawning, restarts, panics,
          strategy>>

NotSpawning == [pc |-> "idle", actor |-> NoActor]

\* NewBaseActor
NewBaseActor(i) ==
    [child |-> i,        \* the slot, which is also the name
     state |-> "new",    \* a.state
     loop |-> "none",    \* run: none, running, recover, notified, done
     closed |-> FALSE,   \* the mailbox is closed
     stop |-> "none",    \* Stop: none, called, waiting, unregister, finished
     panics |-> 0]

\* NewSupervisor
Init ==
    /\ actors = <<>>
    /\ children = <<>>
    /\ byID = {}
    /\ byName = [i \in Slots |-> NoActor]
    /\ tasks = <<>>
    /\ spawning = NotSpawning
    /\ restarts = 0
    /\ panics = 0
    /\ strategy \in Strategies

-----------------------------------------------------------------------------
(* Registry, Start *)

Register(a) ==
    /\ byID' = byID \cup {a}
    /\ byName' = [byName EXCEPT ![actors'[a].child] = a]

\* The name goes whoever it leads to.
Unregister(a) ==
    /\ byID' = byID \ {a}
    /\ byName' = [byName EXCEPT ![actors[a].child] = NoActor]

\* The end of Start: the state, and go a.run().
StartRun(a) ==
    actors' = [actors EXCEPT ![a] =
                 [@ EXCEPT !.state = "running", !.loop = "running"]]

-----------------------------------------------------------------------------
(* Spawn *)

SpawnAppend ==
    /\ spawning = NotSpawning
    /\ Len(children) < Children
    /\ LET i == Len(children) + 1
           a == Len(actors) + 1
       IN /\ actors' = Append(actors, NewBaseActor(i))
          /\ children' = Append(children, [actor |-> a, retries |-> 0])
          /\ spawning' = [pc |-> "register", actor |-> a]
    /\ UNCHANGED <<byID, byName, tasks, restarts, panics, strategy>>

SpawnRegister ==
    /\ spawning.pc = "register"
    /\ actors' = actors
    /\ Register(spawning.actor)
    /\ spawning' = [spawning EXCEPT !.pc = "run"]
    /\ UNCHANGED <<children, tasks, restarts, panics, strategy>>

SpawnRun ==
    /\ spawning.pc = "run"
    /\ StartRun(spawning.actor)
    /\ spawning' = NotSpawning
    /\ UNCHANGED <<children, byID, byName, tasks, restarts, panics, strategy>>

-----------------------------------------------------------------------------
(* The loop of an actor: a panic, its recovery, the end of run *)

Recorded(a) == children[actors[a].child].actor = a

Panic(a) ==
    /\ actors[a].loop = "running"
    /\ actors[a].panics <= Backlog
    /\ panics < MaxPanics[strategy]
    /\ actors' = [actors EXCEPT ![a] =
                    [@ EXCEPT !.loop = "recover",
                              !.panics = actors[a].panics + 1]]
    /\ panics' = panics + 1
    /\ UNCHANGED <<children, byID, byName, tasks, spawning, restarts,
                   strategy>>

\* The slots whose child restarts when the one in slot i fails: an interval.
RestartFirst(i) == IF strategy = "all" THEN 1 ELSE i
RestartLast(i) == IF strategy = "one" THEN i ELSE Len(children)

NewTask(i) == [slot |-> i, pc |-> "enter", actor |-> NoActor, retries |-> 0,
               new |-> NoActor]

\* One go statement for each of them, in order.
TasksFor(i) ==
    [k \in 1 .. RestartLast(i) - RestartFirst(i) + 1 |->
       NewTask(RestartFirst(i) + k - 1)]

\* The goroutines onFailure starts; it searches the actor among the children.
OnFailure(a) ==
    LET failed == {i \in DOMAIN children : children[i].actor = a} IN
    IF failed = {} THEN <<>>
    ELSE TasksFor(CHOOSE i \in failed : \A j \in failed : i <= j)

\* The supervisor is the subscriber; it is called on the actor's goroutine.
NotifyFailure(a) ==
    /\ actors[a].loop = "recover"
    /\ tasks' = tasks \o OnFailure(a)
    /\ actors' = [actors EXCEPT ![a].loop = "notified"]
    /\ UNCHANGED <<children, byID, byName, spawning, restarts, panics,
                   strategy>>

\* Variant of CallStop that takes a closed mailbox for a stopped actor.
CallStopUnlessClosed(r) ==
    IF r.closed \/ r.stop # "none" THEN r ELSE [r EXCEPT !.stop = "called"]

\* stopOnce.Do: the first call runs Stop.
CallStop(r) == IF r.stop = "none" THEN [r EXCEPT !.stop = "called"] ELSE r

\* a.mb.Close(); go a.Stop(); then the loop pops what is left.
RecoverClose(a) ==
    /\ actors[a].loop = "notified"
    /\ actors' = [actors EXCEPT ![a] =
                    CallStop([@ EXCEPT !.closed = TRUE, !.loop = "running"])]
    /\ UNCHANGED <<children, byID, byName, tasks, spawning, restarts, panics,
                   strategy>>

\* Nothing to pop, and Wait returns false: close(a.done).
LoopEnds(a) ==
    /\ actors[a].loop = "running"
    /\ actors[a].closed
    /\ actors' = [actors EXCEPT ![a].loop = "done"]
    /\ UNCHANGED <<children, byID, byName, tasks, spawning, restarts, panics,
                   strategy>>

-----------------------------------------------------------------------------
(* Stop, run once by the first of its callers; the others wait for it *)

\* A client stops a child it was given.
ClientStop(a) ==
    /\ actors[a].stop = "none"
    /\ actors[a].loop # "none"
    /\ actors' = [actors EXCEPT ![a] = CallStop(@)]
    /\ UNCHANGED <<children, byID, byName, tasks, spawning, restarts, panics,
                   strategy>>

StopClose(a) ==
    /\ actors[a].stop = "called"
    /\ actors' = [actors EXCEPT ![a] =
                    [@ EXCEPT !.stop = "waiting", !.closed = TRUE,
                              !.state = "stopping"]]
    /\ UNCHANGED <<children, byID, byName, tasks, spawning, restarts, panics,
                   strategy>>

\* Variant of StopWait that does not wait for the loop.
StopWaitNot(a) ==
    /\ actors[a].stop = "waiting"
    /\ actors' = [actors EXCEPT ![a] =
                    [@ EXCEPT !.stop = "unregister", !.state = "stopped"]]
    /\ UNCHANGED <<children, byID, byName, tasks, spawning, restarts, panics,
                   strategy>>

\* <-a.done
StopWait(a) ==
    /\ actors[a].stop = "waiting"
    /\ actors[a].loop = "done"
    /\ actors' = [actors EXCEPT ![a] =
                    [@ EXCEPT !.stop = "unregister", !.state = "stopped"]]
    /\ UNCHANGED <<children, byID, byName, tasks, spawning, restarts, panics,
                   strategy>>

StopUnregister(a) ==
    /\ actors[a].stop = "unregister"
    /\ Unregister(a)
    /\ actors' = [actors EXCEPT ![a].stop = "finished"]
    /\ UNCHANGED <<children, tasks, spawning, restarts, panics, strategy>>

-----------------------------------------------------------------------------
(* restartChild *)

\* s.children[i] is copied; with ok, the copy with n retries is stored back.
EnterWith(k, ok, n) ==
    LET i == tasks[k].slot IN
    /\ tasks[k].pc = "enter"
    /\ \/ /\ ~ok
          /\ tasks' = [tasks EXCEPT ![k].pc = "done"]
          /\ children' = children
       \/ /\ ok
          /\ tasks' = [tasks EXCEPT ![k] =
                         [@ EXCEPT !.pc = "stop", !.retries = n,
                                   !.actor = children[i].actor]]
          /\ children' = [children EXCEPT ![i].retries = n]
    /\ UNCHANGED <<actors, byID, byName, spawning, restarts, panics,
                   strategy>>

Retries(k) == children[tasks[k].slot].retries

\* Variants of RestartEnter: one that does not count, and one that gives up
\* a retry too soon.
RestartEnterUncounted(k) ==
    EnterWith(k, Retries(k) < MaxRetries, Retries(k))

RestartEnterTooStrict(k) ==
    EnterWith(k, Retries(k) + 1 < MaxRetries, Retries(k) + 1)

RestartEnter(k) == EnterWith(k, Retries(k) + 1 <= MaxRetries, Retries(k) + 1)

\* After the backoff: entry.actor.Stop()
RestartStop(k) ==
    /\ tasks[k].pc = "stop"
    /\ actors' = [actors EXCEPT ![tasks[k].actor] = CallStop(@)]
    /\ tasks' = [tasks EXCEPT ![k].pc = "create"]
    /\ UNCHANGED <<children, byID, byName, spawning, restarts, panics,
                   strategy>>

\* Variant of RestartCreate that does not wait for Stop to return.
RestartCreateAtOnce(k) ==
    LET a == Len(actors) + 1 IN
    /\ tasks[k].pc = "create"
    /\ actors' = Append(actors, NewBaseActor(tasks[k].slot))
    /\ Register(a)
    /\ tasks' = [tasks EXCEPT ![k] = [@ EXCEPT !.pc = "run", !.new = a]]
    /\ UNCHANGED <<children, spawning, restarts, panics, strategy>>

\* Stop has returned: the factory makes the new actor and Start registers it.
RestartCreate(k) ==
    LET a == Len(actors) + 1 IN
    /\ tasks[k].pc = "create"
    /\ actors[tasks[k].actor].stop = "finished"
    /\ actors' = Append(actors, NewBaseActor(tasks[k].slot))
    /\ Register(a)
    /\ tasks' = [tasks EXCEPT ![k] = [@ EXCEPT !.pc = "run", !.new = a]]
    /\ UNCHANGED <<children, spawning, restarts, panics, strategy>>

RestartRun(k) ==
    /\ tasks[k].pc = "run"
    /\ StartRun(tasks[k].new)
    /\ tasks' = [tasks EXCEPT ![k].pc = "record"]
    /\ UNCHANGED <<children, byID, byName, spawning, restarts, panics,
                   strategy>>

\* Variant of RestartRecord that stores the copy with the old actor.
RestartRecordOld(k) ==
    /\ tasks[k].pc = "record"
    /\ children' = [children EXCEPT ![tasks[k].slot] =
                      [actor |-> tasks[k].actor, retries |-> tasks[k].retries]]
    /\ tasks' = [tasks EXCEPT ![k].pc = "count"]
    /\ UNCHANGED <<actors, byID, byName, spawning, restarts, panics,
                   strategy>>

\* The copy made on entry is stored back, with the new actor.
RestartRecord(k) ==
    /\ tasks[k].pc = "record"
    /\ children' = [children EXCEPT ![tasks[k].slot] =
                      [actor |-> tasks[k].new, retries |-> tasks[k].retries]]
    /\ tasks' = [tasks EXCEPT ![k].pc = "count"]
    /\ UNCHANGED <<actors, byID, byName, spawning, restarts, panics,
                   strategy>>

RestartCount(k) ==
    /\ tasks[k].pc = "count"
    /\ restarts' = restarts + 1
    /\ tasks' = [tasks EXCEPT ![k].pc = "done"]
    /\ UNCHANGED <<actors, children, byID, byName, spawning, panics,
                   strategy>>

-----------------------------------------------------------------------------
SpawnStep == SpawnRegister \/ SpawnRun

ActorStep(a) == NotifyFailure(a) \/ RecoverClose(a) \/ LoopEnds(a)

StopStep(a) == StopClose(a) \/ StopWait(a) \/ StopUnregister(a)

TaskStep(k) ==
    \/ RestartEnter(k) \/ RestartStop(k) \/ RestartCreate(k)
    \/ RestartRun(k) \/ RestartRecord(k) \/ RestartCount(k)

Next ==
    \/ SpawnAppend \/ SpawnStep
    \/ \E a \in DOMAIN actors :
         Panic(a) \/ ClientStop(a) \/ ActorStep(a) \/ StopStep(a)
    \/ \E k \in DOMAIN tasks : TaskStep(k)

Spec == Init /\ [][Next]_vars

(***************************************************************************)
(* Goroutines that are not blocked run on, backoffs end, and handlers      *)
(* return.  Panics and the clients' Spawn and Stop need not happen.        *)
(***************************************************************************)
Fairness ==
    /\ WF_vars(SpawnStep)
    /\ \A a \in ActorIds : /\ WF_vars(a \in DOMAIN actors /\ ActorStep(a))
                           /\ WF_vars(a \in DOMAIN actors /\ StopStep(a))
    /\ \A k \in TaskIds : WF_vars(k \in DOMAIN tasks /\ TaskStep(k))

FairSpec == Spec /\ Fairness

-----------------------------------------------------------------------------
(* Correctness *)

ActorRecords ==
    [child : Slots,
     state : {"new", "running", "stopping", "stopped"},
     loop : {"none", "running", "recover", "notified", "done"},
     closed : BOOLEAN,
     stop : {"none", "called", "waiting", "unregister", "finished"},
     panics : Nat]

ChildRecords == [actor : Nat \ {NoActor}, retries : 0 .. MaxRetries]

TaskRecords ==
    [slot : Slots,
     pc : {"enter", "stop", "create", "run", "record", "count", "done"},
     actor : Nat, retries : 0 .. MaxRetries, new : Nat]

\* Types; the retries of a child, and of a stale copy, stay within MaxRetries.
TypeOK ==
    /\ actors \in Seq(ActorRecords)
    /\ children \in Seq(ChildRecords)
    /\ Len(children) <= Children
    /\ byID \subseteq DOMAIN actors
    /\ byName \in [Slots -> DOMAIN actors \cup {NoActor}]
    /\ tasks \in Seq(TaskRecords)
    /\ spawning \in [pc : {"idle", "register", "run"}, actor : Nat]
    /\ restarts \in Nat
    /\ strategy \in Strategies
    /\ panics \in 0 .. MaxPanics[strategy]

\* The actor works for somebody: it takes messages and nobody is ending it.
Serving(a) == actors[a].loop = "running" /\ ~actors[a].closed
                /\ actors[a].stop = "none"

(***************************************************************************)
(* No two restarts of a slot can overlap: a failing child restarts nobody  *)
(* else, or nobody else has failed.  (restartChild works on a copy of the  *)
(* entry and does not notice another restart of the same slot.)            *)
(***************************************************************************)
NoOverlap == (strategy = "one" /\ Backlog = 0) \/ panics <= 1

(***************************************************************************)
(* The supervisor manages the lifecycle of its children (supervisor.go:128)*)
(* and loses none: every serving actor is the one recorded in its slot, or *)
(* the one a Spawn or a restart in progress is about to put there.  Also,  *)
(* a slot has never two serving actors.                                    *)
(***************************************************************************)
Managed ==
    \A a \in DOMAIN actors : Serving(a) =>
        /\ \/ Recorded(a)
           \/ \E k \in DOMAIN tasks : tasks[k].new = a /\ tasks[k].pc = "record"
        /\ \A b \in DOMAIN actors :
             Serving(b) /\ actors[b].child = actors[a].child => b = a

\* That holds as long as no restarts of a slot overlap.
Supervised == NoOverlap => Managed

(***************************************************************************)
(* "Gives up after the maximum number of retries" (supervisor.go:79, 181): *)
(* a slot sees its first actor and at most MaxRetries others.              *)
(***************************************************************************)
RestartBudget ==
    NoOverlap => \A i \in Slots :
        Cardinality({a \in DOMAIN actors : actors[a].child = i})
          <= 1 + MaxRetries

(***************************************************************************)
(* The registry follows a restart: the name of a child that serves and is  *)
(* recorded leads to that child.  Stop removes the name whoever it leads   *)
(* to, so this needs the old actor gone before the new one is registered.  *)
(***************************************************************************)
NameResolves ==
    NoOverlap => \A i \in DOMAIN children :
        Serving(children[i].actor) => /\ byName[i] = children[i].actor
                                      /\ children[i].actor \in byID

(***************************************************************************)
(* An actor whose Stop has returned is not in the registry, even when Stop *)
(* overtakes the Start of a Spawn: a message sent to its ID is refused     *)
(* rather than left in a mailbox that nobody reads.                        *)
(***************************************************************************)
StoppedIsGone ==
    \A a \in DOMAIN actors : actors[a].stop = "finished" =>
        /\ a \notin byID
        /\ actors[a].loop = "done"
        /\ \A i \in Slots : byName[i] # a

(***************************************************************************)
(* Why, in parts.  Slots, actors and tasks refer to each other: what a     *)
(* slot, a Spawn or a task refers to exists and belongs to its slot, and   *)
(* an actor that Start has not got to run yet has one starter.             *)
(***************************************************************************)
Active(k) == tasks[k].pc \in {"enter", "stop", "create", "run", "record"}
Copied(k) == tasks[k].pc \in {"stop", "create", "run", "record"}
Replaced(k) == tasks[k].pc \in {"run", "record"}

TaskLinks(k) ==
    /\ tasks[k].slot \in DOMAIN children
    /\ tasks[k].new \in DOMAIN actors \cup {NoActor}
    /\ tasks[k].pc \in {"enter", "stop", "create"} => tasks[k].new = NoActor
    /\ Copied(k) => /\ tasks[k].actor \in DOMAIN actors
                    /\ actors[tasks[k].actor].child = tasks[k].slot
    /\ Replaced(k) => /\ tasks[k].new # NoActor
                      /\ actors[tasks[k].new].child = tasks[k].slot
    /\ tasks[k].pc = "run" => actors[tasks[k].new].loop = "none"

LinkInv ==
    /\ \A i \in DOMAIN children : /\ children[i].actor \in DOMAIN actors
                                  /\ actors[children[i].actor].child = i
    /\ \A a \in DOMAIN actors : actors[a].child \in DOMAIN children
    /\ \A k \in DOMAIN tasks : TaskLinks(k)
    /\ \A j, k \in DOMAIN tasks :
         tasks[j].new = tasks[k].new /\ tasks[k].new # NoActor => j = k
    /\ spawning.pc # "idle" =>
         /\ spawning.actor \in DOMAIN actors
         /\ actors[spawning.actor].loop = "none"
         /\ \A k \in DOMAIN tasks : tasks[k].new # spawning.actor

\* Stop waits for the loop, and a name leads to an actor of that name.
GoneInv ==
    /\ \A a \in DOMAIN actors :
         actors[a].stop \in {"unregister", "finished"} => actors[a].loop = "done"
    /\ \A i \in Slots : byName[i] # NoActor => actors[byName[i]].child = i

(***************************************************************************)
(* Who may have failed: a slot under restart has been reported, and with   *)
(* one-for-one and no backlog its actor does not fail again.               *)
(***************************************************************************)
FailureInv ==
    /\ \A a \in DOMAIN actors :
         actors[a].loop = "recover" => actors[a].panics > 0 /\ panics > 0
    /\ panics = 0 => tasks = <<>>
    /\ panics <= 1 => \A a, b \in DOMAIN actors :
         actors[a].loop = "recover" =>
           tasks = <<>> /\ (actors[b].loop = "recover" => b = a)
    /\ strategy = "one" /\ Backlog = 0 => \A k \in DOMAIN tasks : Active(k) =>
         LET b == children[tasks[k].slot].actor
         IN  actors[b].panics > 0 /\ actors[b].loop # "recover"

\* One restart of a slot at a time, whose copy of the entry is not stale,
\* and whose new actor comes when the old one is gone.
RestartInv ==
    NoOverlap => \A k \in DOMAIN tasks :
        /\ Active(k) => \A j \in DOMAIN tasks :
             Active(j) /\ tasks[j].slot = tasks[k].slot => j = k
        /\ Copied(k) => /\ tasks[k].actor = children[tasks[k].slot].actor
                        /\ tasks[k].retries = children[tasks[k].slot].retries
        /\ Replaced(k) => actors[tasks[k].actor].stop = "finished"

\* An actor whose Stop has not returned is recorded or about to be.
AliveInv ==
    NoOverlap => \A a \in DOMAIN actors :
        \/ actors[a].stop = "finished"
        \/ Recorded(a)
        \/ \E k \in DOMAIN tasks : Replaced(k) /\ tasks[k].new = a

ActorsOf(i) == {a \in DOMAIN actors : actors[a].child = i}

\* Every actor of a slot but the first was paid for with a retry.
BudgetInv ==
    NoOverlap => \A i \in DOMAIN children :
        /\ Cardinality(ActorsOf(i)) <= 1 + children[i].retries
        /\ \A k \in DOMAIN tasks :
             tasks[k].slot = i /\ tasks[k].pc \in {"stop", "create"}
               => Cardinality(ActorsOf(i)) <= children[i].retries

\* Start has registered the actor.
Registered(a) ==
    \/ actors[a].loop # "none"
    \/ spawning.pc = "run" /\ spawning.actor = a
    \/ \E k \in DOMAIN tasks : tasks[k].pc = "run" /\ tasks[k].new = a

\* A registered actor whose Stop has not returned is found.
FoundInv ==
    NoOverlap => \A a \in DOMAIN actors :
        Registered(a) /\ actors[a].stop # "finished"
          => a \in byID /\ byName[actors[a].child] = a

(***************************************************************************)
(* Restarts come to an end: the goroutine of restartChild, which stops the *)
(* old actor and waits for its loop, always returns.                       *)
(***************************************************************************)
EveryRestartEnds ==
    \A k \in TaskIds :
        k \in DOMAIN tasks ~> (k \in DOMAIN tasks /\ tasks[k].pc = "done")

Panicked(a) == a \in DOMAIN actors /\ actors[a].loop = "recover"

Retriable(a) == Recorded(a) /\ children[actors[a].child].retries < MaxRetries

HasSuccessor(a) ==
    \E b \in DOMAIN actors : /\ b > a
                             /\ actors[b].child = actors[a].child
                             /\ actors[b].loop # "none"

(***************************************************************************)
(* "A child that fails is restarted automatically" (supervisor.go:128): a  *)
(* panicking actor that is recorded and has retries left gets a successor  *)
(* in its slot that runs.  (onFailure ignores an actor that is not         *)
(* recorded yet.)                                                          *)
(***************************************************************************)
FailureRestarted ==
    \A a \in ActorIds : (Panicked(a) /\ Retriable(a)) ~> HasSuccessor(a)

(***************************************************************************)
(* The retries stay within MaxRetries, also in the stale copies of a       *)
(* restart, and no child is lost (supervisor.go:168-212).                  *)
(***************************************************************************)
SupervisorInv == TypeOK /\ Supervised
=============================================================================
