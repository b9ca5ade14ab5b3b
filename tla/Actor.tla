------------------------------- MODULE Actor -------------------------------
(***************************************************************************)
(* actor/base_actor.go: one actor of a system with persistence, from       *)
(* NewBaseActor over Start (with the replay of the log), the loop and the  *)
(* recovery of a handler's panic to Stop, and then again in the next       *)
(* incarnation, which opens the same log.  The process may crash at any    *)
(* point; a write to the log may end early.                                *)
(*                                                                         *)
(* The mailbox has one lane, and an envelope is queued and the loop        *)
(* notified in one step: the steps in between are those of Mailbox.        *)
(* Senders hold the actor itself (Tell to a *BaseActor).                   *)
(***************************************************************************)
EXTENDS WAL, FiniteSets

CONSTANTS
    Senders,      \* goroutines that call Tell
    Starter,      \* the goroutine that calls Start, which pushes as well
    Messages, NoMessage,
    Durable,      \* the messages sent with SendOptions.Persist
    Marshal,      \* Serializer.Marshal: Marshal[m], <<>> where it fails
    Capacity,     \* envelopes the mailbox holds
    UsedPolicies, \* backpressure policies
    MaxRuns,      \* bound of the model: incarnations
    MaxTears,     \* bound of the model: writes that end early
    Cuts          \* bound of the model: where they may end

ASSUME ActorAssumption ==
    /\ Starter \notin Senders
    /\ NoMessage \notin Messages
    /\ Durable \subseteq Messages
    /\ \A m \in Messages : Marshal[m] \in Seq(Byte)
    /\ \A m, n \in Messages : Marshal[m] = Marshal[n] => m = n
    /\ Capacity \in Nat \ {0}
    /\ UsedPolicies \subseteq {"expand", "block"}
    /\ MaxRuns \in Nat /\ MaxTears \in Nat /\ Cuts \subseteq Nat

VARIABLES
    file,     \* the bytes of the log
    runs,     \* incarnations so far
    wal,      \* a.wal: "none", or its file is "open" or "closed"
    start,    \* "none" (no actor), "new", "replay" (in Start) or "started"
    todo,     \* payloads Start has read and not decoded yet
    mb,       \* the lane of a.mb
    notify,   \* tokens in the channel of the same name
    closed,   \* the mailbox is closed
    loop,     \* the next step of run, or "self": a handler in its own Stop
    stop,     \* the next step of the body of Stop
    pc, msg,  \* the next step of each Push, and what it pushes
    policy,
    told,     \* history: messages sent
    early,    \* history: messages sent to an actor not yet started
    count,    \* history: how often this incarnation has handled a message
    owed,     \* history: accepted or logged messages not handled yet
    lost,     \* history: logged messages this Start could not queue
    disk,     \* history: the writes the file is made of, [msg, at, len]
    damaged   \* history: the log this Start read had a write cut short

vars == <<file, runs, wal, start, todo, mb, notify, closed, loop, stop, pc,
          msg, policy, told, early, count, owed, lost, disk, damaged>>

Pushers == Senders \cup {Starter}
ToSet(s) == {s[i] : i \in DOMAIN s}

-----------------------------------------------------------------------------
(* The file *)

Bytes(m) == Record(Marshal[m])
Writes == [msg : Messages, at : Nat, len : Nat]
IsTorn(w) == w.len # Len(Bytes(w.msg))
Torn == {i \in DOMAIN disk : IsTorn(disk[i])}
Logged == {disk[i].msg : i \in DOMAIN disk \ Torn}

\* Serializer.Unmarshal fails on what Marshal has not produced.
Decodable(b) == \E m \in Messages : Marshal[m] = b
Unmarshal(b) == CHOOSE m \in Messages : Marshal[m] = b

\* O_APPEND: the first k bytes of the record go to the end of the file.
Write(m, k) ==
    /\ file' = file \o SubSeq(Bytes(m), 1, k)
    /\ disk' = Append(disk, [msg |-> m, at |-> Len(file), len |-> k])

\* Append: one Write, whole or cut short, or ErrClosed.
AppendRecord(m) ==
    \/ wal = "open" /\ Write(m, Len(Bytes(m)))
    \/ /\ wal = "open"
       /\ Cardinality(Torn) < MaxTears
       /\ \E k \in Cuts \cap 1 .. Len(Bytes(m)) - 1 : Write(m, k)
    \/ wal = "closed" /\ UNCHANGED <<file, disk>>

-----------------------------------------------------------------------------
Init ==
    /\ file = <<>> /\ runs = 0
    /\ wal = "none" /\ start = "none" /\ todo = <<>>
    /\ mb = <<>> /\ notify = 0 /\ closed = FALSE
    /\ loop = "off" /\ stop = "idle"
    /\ pc = [p \in Pushers |-> "idle"]
    /\ msg = [p \in Pushers |-> NoMessage]
    /\ policy \in UsedPolicies
    /\ told = {} /\ early = {} /\ owed = {} /\ lost = {}
    /\ count = [m \in Messages |-> 0]
    /\ disk = <<>> /\ damaged = FALSE

\* The memory of an actor that is new, or of a process without one.  What
\* senders still do with an earlier actor has no effect on this one.
Fresh(s, w) ==
    /\ start' = s /\ wal' = w /\ todo' = <<>>
    /\ mb' = <<>> /\ notify' = 0 /\ closed' = FALSE
    /\ loop' = "off" /\ stop' = "idle"
    /\ pc' = [p \in Pushers |-> "idle"]
    /\ early' = {} /\ owed' = {} /\ lost' = {}
    /\ count' = [m \in Messages |-> 0]
    /\ msg' = [p \in Pushers |-> NoMessage]
    /\ damaged' = FALSE
    /\ UNCHANGED <<file, policy, told, disk>>

\* NewBaseActor; without a file (Open failed) there is no log.
New(w) ==
    /\ start = "none" \/ stop = "finished"
    /\ runs < MaxRuns
    /\ runs' = runs + 1
    /\ Fresh("new", w)

\* The process ends, by a crash or by a panic nobody recovers.
Die == Fresh("none", "none") /\ UNCHANGED runs
Crash == start # "none" /\ Die

-----------------------------------------------------------------------------
(* Mailbox.Push, from Tell and from Start *)

Goto(p, l) == pc' = [pc EXCEPT ![p] = l]

Tell(s, m) ==
    /\ start # "none"
    /\ pc[s] = "idle"
    /\ m \notin told
    /\ told' = told \cup {m}
    /\ early' = IF start = "new" THEN early \cup {m} ELSE early
    /\ msg' = [msg EXCEPT ![s] = m]
    /\ Goto(s, "check")
    /\ UNCHANGED <<file, runs, wal, start, todo, mb, notify, closed, loop,
                   stop, policy, count, owed, lost, disk, damaged>>

\* The end of a Push.
Return(p) == Goto(p, "idle") /\ msg' = [msg EXCEPT ![p] = NoMessage]

\* An error: Tell hands it to its caller, Start ignores it.
Refused(p) ==
    /\ Return(p)
    /\ lost' = IF p = Starter THEN lost \cup {msg[p]} ELSE lost

Persists(p) ==
    p # Starter /\ msg[p] \in Durable /\ wal # "none" /\ Marshal[msg[p]] # <<>>

PushCheck(p) ==
    /\ pc[p] = "check"
    /\ \/ closed /\ Refused(p)
       \/ /\ ~closed
          /\ Goto(p, IF Persists(p) THEN "persist" ELSE "enqueue")
          /\ UNCHANGED <<msg, lost>>
    /\ UNCHANGED <<file, runs, wal, start, todo, mb, notify, closed, loop,
                   stop, policy, told, early, count, owed, disk, damaged>>

\* _ = m.persist(b)
PushPersist(p) ==
    /\ pc[p] = "persist"
    /\ AppendRecord(msg[p])
    /\ Goto(p, "enqueue")
    /\ UNCHANGED <<runs, wal, start, todo, mb, notify, closed, loop, stop,
                   msg, policy, told, early, count, owed, lost, damaged>>

Enqueue(p, slots, givesUp) ==
    /\ pc[p] = "enqueue"
    /\ \/ /\ Len(mb) < slots
          /\ mb' = Append(mb, msg[p])
          /\ notify' = 1
          /\ owed' = owed \cup {msg[p]}
          /\ Return(p)
          /\ lost' = lost
       \/ /\ Len(mb) >= slots
          /\ givesUp
          /\ Refused(p)
          /\ UNCHANGED <<mb, notify, owed>>
    /\ UNCHANGED <<file, runs, wal, start, todo, closed, loop, stop, policy,
                   told, early, count, disk, damaged>>

\* Variants of PushEnqueue: one slot too many; deaf to Close when blocked.
PushEnqueueOver(p) == Enqueue(p, Capacity + 1, policy = "expand" \/ closed)
PushEnqueueDeaf(p) == Enqueue(p, Capacity, policy = "expand")

\* With BackpressureBlock a full lane is retried until it has room or the
\* mailbox is closed; BackpressureDropNewest drops where Expand refuses.
PushEnqueue(p) == Enqueue(p, Capacity, policy = "expand" \/ closed)

-----------------------------------------------------------------------------
(* Start *)

Recovered == Replay(file).recs

\* Start takes recs from the log; all of an intact log is owed.
ReplayLog(recs) ==
    /\ start' = "replay"
    /\ todo' = IF wal = "none" THEN <<>> ELSE recs
    /\ owed' = owed \cup Logged
    /\ damaged' = (Torn # {})
    /\ lost' = IF wal = "none" \/ damaged'
                 THEN {m \in Logged : Marshal[m] \notin ToSet(todo')} ELSE {}
    /\ UNCHANGED <<file, runs, wal, mb, notify, closed, loop, stop, pc, msg,
                   policy, told, early, count, disk>>

\* Variants of StartReplay: without startOnce, and without the last record.
StartReplayAgain == start \in {"new", "started"} /\ ReplayLog(Recovered)
StartReplayShort ==
    start = "new" /\ ReplayLog(SubSeq(Recovered, 1, Len(Recovered) - 1))

StartReplay == start = "new" /\ ReplayLog(Recovered)

\* What Unmarshal refuses is left out.
StartPush ==
    /\ start = "replay"
    /\ pc[Starter] = "idle"
    /\ todo # <<>>
    /\ todo' = Tail(todo)
    /\ \/ /\ Decodable(Head(todo))
          /\ msg' = [msg EXCEPT ![Starter] = Unmarshal(Head(todo))]
          /\ Goto(Starter, "check")
       \/ ~Decodable(Head(todo)) /\ UNCHANGED <<msg, pc>>
    /\ UNCHANGED <<file, runs, wal, start, mb, notify, closed, loop, stop,
                   policy, told, early, count, owed, lost, disk, damaged>>

\* Register, and go a.run()
StartRun ==
    /\ start = "replay"
    /\ pc[Starter] = "idle"
    /\ todo = <<>>
    /\ start' = "started"
    /\ loop' = "pop"
    /\ UNCHANGED <<file, runs, wal, todo, mb, notify, closed, stop, pc, msg,
                   policy, told, early, count, owed, lost, disk, damaged>>

-----------------------------------------------------------------------------
(* run and handle *)

\* stopOnce: the first call runs the body, the others wait for it.
BeginStop == stop' = IF stop = "idle" THEN "select" ELSE stop

\* Pop and handle.  The handler returns, panics, or calls Stop on its actor.
Handle(outcome) ==
    /\ loop = "pop"
    /\ mb # <<>>
    /\ mb' = Tail(mb)
    /\ count' = [count EXCEPT ![Head(mb)] = @ + 1]
    /\ owed' = owed \ {Head(mb)}
    /\ loop' = outcome
    /\ UNCHANGED <<file, runs, wal, start, todo, notify, closed, stop, pc,
                   msg, policy, told, early, lost, disk, damaged>>

PopNothing ==
    /\ loop = "pop"
    /\ mb = <<>>
    /\ loop' = "wait"
    /\ UNCHANGED <<file, runs, wal, start, todo, mb, notify, closed, stop,
                   pc, msg, policy, told, early, count, owed, lost, disk,
                   damaged>>

WaitUntil(ends) ==
    /\ loop = "wait"
    /\ \/ notify = 1 /\ notify' = 0 /\ loop' = "pop"
       \/ ends /\ loop' = "done" /\ notify' = notify
    /\ UNCHANGED <<file, runs, wal, start, todo, mb, closed, stop, pc, msg,
                   policy, told, early, count, owed, lost, disk, damaged>>

\* Variant of Wait that ends only when the mailbox had been stopped.
WaitForStop == WaitUntil(stop = "finished")

\* With both channels ready, select picks either.
Wait == WaitUntil(closed)

\* The deferred function of handle: a.mb.Close(), in two steps, then
\* go a.Stop(); the loop goes on popping.
RecoverSelect ==
    /\ loop = "panic"
    /\ \/ closed /\ loop' = "pop" /\ BeginStop
       \/ ~closed /\ loop' = "close" /\ stop' = stop
    /\ UNCHANGED <<file, runs, wal, start, todo, mb, notify, closed, pc, msg,
                   policy, told, early, count, owed, lost, disk, damaged>>

\* close of a closed channel panics inside the deferred function.
RecoverClose ==
    /\ loop = "close"
    /\ \/ closed /\ Die
       \/ /\ ~closed
          /\ closed' = TRUE
          /\ loop' = "pop"
          /\ BeginStop
          /\ UNCHANGED <<file, runs, wal, start, todo, mb, notify, pc, msg,
                         policy, told, early, count, owed, lost, disk,
                         damaged>>

-----------------------------------------------------------------------------
(* Stop *)

StopUnchanged == UNCHANGED <<file, runs, start, todo, mb, notify, loop, pc,
                             msg, policy, told, early, count, owed, lost,
                             disk, damaged>>

\* From outside, or from the handler that then waits for its own loop.
StopCall ==
    /\ start # "none"
    /\ stop = "idle"
    /\ BeginStop
    /\ UNCHANGED <<wal, closed>> /\ StopUnchanged

StopSelect ==
    /\ stop = "select"
    /\ stop' = IF closed THEN "join" ELSE "close"
    /\ UNCHANGED <<wal, closed>> /\ StopUnchanged

StopClose ==
    /\ stop = "close"
    /\ \/ closed /\ Die
       \/ /\ ~closed
          /\ closed' = TRUE
          /\ stop' = "join"
          /\ UNCHANGED wal /\ StopUnchanged

\* <-a.done, Unregister, a.wal.Close()
StopJoin ==
    /\ stop = "join"
    /\ loop = "done"
    /\ stop' = "finished"
    /\ wal' = IF wal = "open" THEN "closed" ELSE wal
    /\ UNCHANGED closed /\ StopUnchanged

-----------------------------------------------------------------------------
PushStep(p) == PushCheck(p) \/ PushPersist(p) \/ PushEnqueue(p)

StartStep == StartPush \/ StartRun \/ PushStep(Starter)

RunStep ==
    \/ \E outcome \in {"pop", "panic", "self"} : Handle(outcome)
    \/ PopNothing \/ Wait \/ RecoverSelect \/ RecoverClose

StopStep ==
    \/ loop = "self" /\ StopCall
    \/ StopSelect \/ StopClose \/ StopJoin

Next ==
    \/ \E w \in {"open", "none"} : New(w)
    \/ Crash
    \/ \E s \in Senders : PushStep(s) \/ \E m \in Messages : Tell(s, m)
    \/ StartReplay \/ StartStep
    \/ RunStep
    \/ StopCall \/ StopStep

Spec == Init /\ [][Next]_vars

(***************************************************************************)
(* What has begun goes on: a Push, a Start, the loop, a Stop.  Creating    *)
(* the actor, starting it, sending to it and stopping it are up to the     *)
(* application.  A blocked Push tries again and again, so it finds a slot  *)
(* that stays free; it need not win one that others keep taking.           *)
(***************************************************************************)
Fairness ==
    /\ \A s \in Senders : WF_vars(PushStep(s))
    /\ WF_vars(StartStep) /\ WF_vars(RunStep) /\ WF_vars(StopStep)

FairSpec == Spec /\ Fairness

-----------------------------------------------------------------------------
(* Correctness *)

(***************************************************************************)
(* Types.  The mailbox never holds more than its capacity, also while      *)
(* Start replays a log that is longer, and the channel one token.          *)
(***************************************************************************)
TypeOK ==
    /\ file \in Seq(Byte)
    /\ runs \in 0 .. MaxRuns
    /\ wal \in {"none", "open", "closed"}
    /\ start \in {"none", "new", "replay", "started"}
    /\ todo \in Seq(Seq(Byte))
    /\ mb \in Seq(Messages) /\ Len(mb) <= Capacity
    /\ notify \in {0, 1} /\ closed \in BOOLEAN
    /\ loop \in {"off", "pop", "wait", "panic", "close", "self", "done"}
    /\ stop \in {"idle", "select", "close", "join", "finished"}
    /\ pc \in [Pushers -> {"idle", "check", "persist", "enqueue"}]
    /\ msg \in [Pushers -> Messages \cup {NoMessage}]
    /\ \A p \in Pushers : pc[p] # "idle" <=> msg[p] \in Messages
    /\ policy \in UsedPolicies
    /\ told \subseteq Messages /\ early \subseteq told
    /\ owed \subseteq Messages /\ lost \subseteq Messages
    /\ count \in [Messages -> Nat]
    /\ disk \in Seq(Writes)
    /\ damaged \in BOOLEAN

Payloads(writes) == [i \in DOMAIN writes |-> Marshal[writes[i].msg]]

(***************************************************************************)
(* What Replay returns.  Of an intact log, and of one whose last header    *)
(* was cut short ("a truncated header is the end of the log", wal.go:71),  *)
(* every record in the order of the writes.  Once a write was cut short    *)
(* anywhere, an error, or at least the records before it, in order.        *)
(***************************************************************************)
ReplaySound ==
    LET r == Replay(file)
        first == CHOOSE i \in Torn : \A j \in Torn : i <= j
        good == SubSeq(disk, 1, first - 1)
    IN  /\ Torn = {} => r = Read(Payloads(disk))
        /\ Torn # {} =>
             /\ r.ok => /\ Len(r.recs) >= Len(good)
                        /\ SubSeq(r.recs, 1, Len(good)) = Payloads(good)
             /\ Torn = {Len(disk)} /\ disk[Len(disk)].len < HeaderLen
                  => r = Read(Payloads(good))

(***************************************************************************)
(* An incarnation handles what was sent, and handles it once, although the *)
(* log keeps what has been handled and every Start replays all of it.  The *)
(* exception is a message sent before Start: Push logs and queues it, and  *)
(* Start queues it again.  Of a log with a write cut short nothing of the  *)
(* kind is promised: Replay goes on out of step, and what it takes for a   *)
(* payload may be one.                                                     *)
(***************************************************************************)
OncePerRun ==
    ~damaged => \A m \in Messages : /\ count[m] > 0 => m \in told
                                   /\ count[m] > 1 => m \in early

\* Start waits for room that only the loop it has yet to start could make.
StartStuck ==
    policy = "block" /\ pc[Starter] = "enqueue" /\ Len(mb) = Capacity

\* This incarnation handles nothing more: gone, stopping, or stuck.
Over == start \in {"none", "new"} \/ closed \/ loop = "self" \/ StartStuck

(***************************************************************************)
(* Accepted or logged means handled by this incarnation, in particular     *)
(* after a crash, unless Start could not read or queue the record, or the  *)
(* incarnation ends first: it is stopped, dies, waits for itself in Stop,  *)
(* or its log does not fit in a mailbox whose policy is to block           *)
(* (base_actor.go:110).                                                    *)
(***************************************************************************)
OwedIsHandled ==
    \A m \in Messages : m \in owed ~> (m \notin owed \/ m \in lost \/ Over)

(***************************************************************************)
(* Stop returns, whoever calls Stop or Close at the same time, once Start  *)
(* has been called, and it ends a Start that is stuck.  The exceptions:    *)
(* the process dies, or a handler waits in Stop for its own loop           *)
(* (base_actor.go:129).                                                    *)
(***************************************************************************)
StopReturns ==
    stop \notin {"idle", "finished"} /\ start \in {"replay", "started"}
      ~> (stop = "finished" \/ start = "none" \/ loop = "self")

(***************************************************************************)
(* Close reaches everyone who is inside Push, the Start of an actor whose  *)
(* replay does not fit in a blocking mailbox included.                     *)
(***************************************************************************)
CloseFreesPush ==
    \A p \in Pushers : closed /\ pc[p] # "idle" ~> pc[p] = "idle"
=============================================================================
