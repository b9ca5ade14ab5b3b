------------------------------- MODULE Remote -------------------------------
(***************************************************************************)
(* actor/remote.go with System.Tell and deliverToID: goroutines of one     *)
(* system send to an actor by its ID, while the actor moves between this   *)
(* system and its peers, locations change, and the transport is enabled    *)
(* and stopped.  s.remote is read without a lock, so each read is an       *)
(* action; what is done under rt.mu is one action.                         *)
(*                                                                         *)
(* gRPC is external: a call is lost, or answered, or ends with an error at *)
(* any time (deadline, closed connection, unreachable peer), and the peer  *)
(* may still work on a call whose caller has given up.  A Tell that panics *)
(* is one of a handler, which recovers; elsewhere the process ends.  The   *)
(* rate limiter admits every Tell (module TokenBucket).                    *)
(***************************************************************************)
EXTENDS Integers, FiniteSets

CONSTANTS
    Senders,    \* goroutines that call Tell
    Addrs,      \* addresses of the peers
    Here,       \* the place of an actor of this system
    Nowhere,    \* no place, no location
    MaxCalls,   \* MaxCalls[s]: bound of the model, Tells of sender s
    MaxEnabled, \* bound of the model: transports EnableRemote makes
    MaxMoves    \* bound of the model: moves of the actor and its location

ASSUME RemoteAssumption ==
    /\ {Here, Nowhere} \cap Addrs = {} /\ Here # Nowhere
    /\ MaxCalls \in [Senders -> Nat] /\ MaxEnabled \in Nat /\ MaxMoves \in Nat

VARIABLES
    remote,   \* s.remote: 0 (nil) or the number of a transport
    made,     \* transports made so far
    table,    \* table[g]: rt.conns of transport g, a connection or NoConn each
    isNil,    \* the transports whose table StopRemote has set to nil
    open,     \* open connections, each named after the Tell that dialled it
    admin,    \* the next step of StopRemote
    location, \* s.locations of the actor
    place,    \* where the actor is registered
    moves,    \* moves made
    net,      \* calls of Deliver: [from, n, to, at]
    reached,  \* Tells that were handed to the actor's mailbox
    panicked, \* Tells that panicked
    pc, addr, gen, conn, calls, ret   \* of each sender

sys == <<remote, made, table, isNil, open, admin>>
world == <<location, place, moves>>
past == <<reached, panicked>>
vars == <<sys, world, net, past, pc, addr, gen, conn, calls, ret>>

Gens == 1 .. MaxEnabled
Tells == Senders \X Nat
NoConn == <<>>
NoConns == [a \in Addrs |-> NoConn]
Calls == [from : Senders, n : Nat, to : Addrs,
          at : {"sent", "found", "ok", "refused"}]

Init ==
    /\ remote = 0 /\ made = 0 /\ isNil = {} /\ open = {}
    /\ table = [g \in Gens |-> NoConns]
    /\ admin = "idle"
    /\ location = Nowhere /\ place = Nowhere /\ moves = 0
    /\ net = {} /\ reached = {} /\ panicked = {}
    /\ pc = [s \in Senders |-> "idle"]
    /\ addr = [s \in Senders |-> Nowhere]
    /\ gen = [s \in Senders |-> 0]
    /\ conn = [s \in Senders |-> NoConn]
    /\ calls = [s \in Senders |-> 0]
    /\ ret = [s \in Senders |-> "none"]

-----------------------------------------------------------------------------
(* EnableRemote and StopRemote, by one goroutine *)

AdminUnchanged ==
    UNCHANGED <<world, net, past, pc, addr, gen, conn, calls, ret>>

EnableRemote ==
    /\ admin = "idle"
    /\ remote = 0
    /\ made < MaxEnabled
    /\ made' = made + 1
    /\ remote' = made'
    /\ UNCHANGED <<table, isNil, open, admin>> /\ AdminUnchanged

\* Variant of StopBegin without its nil check.
StopBeginUnchecked ==
    /\ admin = "idle"
    /\ admin' = "conns"
    /\ UNCHANGED <<remote, made, table, isNil, open>> /\ AdminUnchanged

\* The server and the listener are stopped; the peers see that as an error.
StopBegin ==
    /\ admin = "idle"
    /\ remote # 0
    /\ admin' = "conns"
    /\ UNCHANGED <<remote, made, table, isNil, open>> /\ AdminUnchanged

\* Under rt.mu: close the connections of the table, which becomes nils.
CloseConns(nils) ==
    /\ admin = "conns"
    /\ open' = open \ {table[remote][a] : a \in Addrs}
    /\ isNil' = nils
    /\ table' = [table EXCEPT ![remote] = NoConns]
    /\ admin' = "clear"
    /\ UNCHANGED <<remote, made>> /\ AdminUnchanged

\* Variant of StopConns: the table is emptied but stays usable.
StopConnsEmpties == CloseConns(isNil)

StopConns == CloseConns(isNil \cup {remote})

StopClear ==
    /\ admin = "clear"
    /\ remote' = 0
    /\ admin' = "idle"
    /\ UNCHANGED <<made, table, isNil, open>> /\ AdminUnchanged

-----------------------------------------------------------------------------
(* SetLocation, and the life of the actor *)

Moved ==
    /\ moves < MaxMoves
    /\ moves' = moves + 1
    /\ UNCHANGED <<sys, net, past, pc, addr, gen, conn, calls, ret>>

SetLocation(a) == location' = a /\ location # a /\ place' = place /\ Moved

\* Registry.Register and Unregister, here or in a peer.
Move(a) == place' = a /\ place # a /\ location' = location /\ Moved

-----------------------------------------------------------------------------
(* Tell, deliverToID and remoteDeliver *)

Goto(s, l) == pc' = [pc EXCEPT ![s] = l]

\* Tell returns r, or panics; of its locals, gen is kept for the properties.
Return(s, r) ==
    /\ Goto(s, "idle")
    /\ ret' = [ret EXCEPT ![s] = r]
    /\ addr' = [addr EXCEPT ![s] = Nowhere]
    /\ conn' = [conn EXCEPT ![s] = NoConn]

Id(s) == <<s, calls[s]>>

\* s.registry.Get finds an actor of this system: tell calls its Push.
DeliverHere(s) ==
    /\ place = Here
    /\ reached' = reached \cup {<<s, calls[s] + 1>>}
    /\ Goto(s, "push")

\* Tell with a target that is known by its ID.
Tell(s) ==
    /\ pc[s] = "idle"
    /\ calls[s] < MaxCalls[s]
    /\ calls' = [calls EXCEPT ![s] = @ + 1]
    /\ \/ DeliverHere(s)
       \/ place # Here /\ Goto(s, "locate") /\ reached' = reached
    /\ ret' = [ret EXCEPT ![s] = "none"]
    /\ UNCHANGED <<sys, world, net, panicked, addr, gen, conn>>

\* The mailbox takes or refuses the message; one that blocks may never.
PushReturns(s) ==
    /\ pc[s] = "push"
    /\ \E r \in {"nil", "error"} : Return(s, r)
    /\ UNCHANGED <<sys, world, net, past, gen, calls>>

\* locationOf, and Marshal, which may fail
Locate(s) ==
    /\ pc[s] = "locate"
    /\ \/ Return(s, "error")
       \/ /\ location # Nowhere
          /\ addr' = [addr EXCEPT ![s] = location]
          /\ Goto(s, "enabled")
          /\ UNCHANGED <<conn, ret>>
    /\ UNCHANGED <<sys, world, net, past, gen, calls>>

\* A nil pointer, or a nil map.
Panic(s) == Return(s, "panic") /\ panicked' = panicked \cup {Id(s)}

\* Where the check of s.remote leads; gen keeps what it saw.
CheckEnabled(s, goesOn) ==
    /\ pc[s] = "enabled"
    /\ gen' = [gen EXCEPT ![s] = remote]
    /\ \/ goesOn /\ Goto(s, "transport") /\ UNCHANGED <<addr, conn, ret>>
       \/ remote = 0 /\ Return(s, "error")
    /\ UNCHANGED <<sys, world, net, past, calls>>

\* Variant of Enabled without the nil check of line 172.
EnabledUnchecked(s) == CheckEnabled(s, TRUE)

Enabled(s) == CheckEnabled(s, remote # 0)

\* s.remote is read again, for the call of conn.
Transport(s) ==
    /\ pc[s] = "transport"
    /\ \/ remote = 0 /\ Panic(s) /\ gen' = gen
       \/ /\ remote # 0
          /\ gen' = [gen EXCEPT ![s] = remote]
          /\ Goto(s, "conn")
          /\ UNCHANGED <<panicked, addr, conn, ret>>
    /\ UNCHANGED <<sys, world, net, reached, calls>>

\* conn, under rt.mu: the cached connection, or a new one.  Dial may fail;
\* a write to a nil table panics, with the new connection still open.
Conn(s) ==
    LET g == gen[s]  cached == table[g][addr[s]] IN
    /\ pc[s] = "conn"
    /\ \/ /\ cached # NoConn
          /\ conn' = [conn EXCEPT ![s] = cached]
          /\ Goto(s, "invoke")
          /\ UNCHANGED <<table, open, panicked, addr, ret>>
       \/ /\ cached = NoConn
          /\ Return(s, "error")
          /\ UNCHANGED <<table, open, panicked>>
       \/ /\ cached = NoConn
          /\ open' = open \cup {Id(s)}
          /\ \/ g \in isNil /\ Panic(s) /\ table' = table
             \/ /\ g \notin isNil
                /\ table' = [table EXCEPT ![g][addr[s]] = Id(s)]
                /\ conn' = [conn EXCEPT ![s] = Id(s)]
                /\ Goto(s, "invoke")
                /\ UNCHANGED <<panicked, addr, ret>>
    /\ UNCHANGED <<remote, made, isNil, admin, world, net, reached, gen, calls>>

\* conn.Invoke: an error at once on a closed connection.
Invoke(s) ==
    /\ pc[s] = "invoke"
    /\ \/ /\ conn[s] \in open
          /\ net' = net \cup {[from |-> s, n |-> calls[s], to |-> addr[s],
                               at |-> "sent"]}
          /\ Goto(s, "wait")
          /\ UNCHANGED <<addr, conn, ret>>
       \/ /\ conn[s] \notin open
          /\ Return(s, "error")
          /\ net' = net
    /\ UNCHANGED <<sys, world, past, gen, calls>>

\* c is the acknowledgement of s's call, which returns r.
Answered(s, c, r) ==
    /\ pc[s] = "wait"
    /\ c.from = s /\ c.n = calls[s] /\ c.at \in {"ok", "refused"}
    /\ net' = net \ {c}
    /\ Return(s, r)
    /\ UNCHANGED <<sys, world, past, gen, calls>>

\* Variant of Ack that does not look at the acknowledgement.
AckUnread(s) == \E c \in net : Answered(s, c, "nil")

\* A refusal comes with the text of its reason, which Deliver never leaves
\* empty.
Ack(s) == \E c \in net : Answered(s, c, IF c.at = "ok" THEN "nil" ELSE "error")

\* The deadline of five seconds, or any other error of the call.
CallEnds(s, ready) ==
    /\ pc[s] = "wait"
    /\ ready
    /\ Return(s, "error")
    /\ UNCHANGED <<sys, world, net, past, gen, calls>>

\* Variant of CallFails without a deadline: only a closed connection ends it.
CallFailsNoDeadline(s) == CallEnds(s, conn[s] \notin open)

CallFails(s) == CallEnds(s, TRUE)

-----------------------------------------------------------------------------
(* The peer, and the network between *)

Progress(c, at) == net' = (net \ {c}) \cup {[c EXCEPT !.at = at]}

\* Deliver: Unmarshal may fail, the registry may not know the actor.
DeliverGet(c) ==
    /\ c.at = "sent"
    /\ \/ Progress(c, "refused")
       \/ place = c.to /\ Progress(c, "found")
    /\ UNCHANGED <<sys, world, past, pc, addr, gen, conn, calls, ret>>

\* _ = ba.tell(...): acknowledged whether or not the mailbox accepts.
DeliverTell(c) ==
    /\ c.at = "found"
    /\ reached' = reached \cup {<<c.from, c.n>>}
    /\ Progress(c, "ok")
    /\ UNCHANGED <<sys, world, panicked, pc, addr, gen, conn, calls, ret>>

\* A request, or an answer, that arrives nowhere.
Lose(c) ==
    /\ net' = net \ {c}
    /\ UNCHANGED <<sys, world, past, pc, addr, gen, conn, calls, ret>>

-----------------------------------------------------------------------------
SenderStep(s) ==
    \/ Locate(s) \/ Enabled(s) \/ Transport(s) \/ Conn(s) \/ Invoke(s)
    \/ Ack(s) \/ CallFails(s)

AdminStep == StopConns \/ StopClear

Next ==
    \/ EnableRemote \/ StopBegin \/ AdminStep
    \/ \E a \in Addrs \cup {Nowhere} : SetLocation(a)
    \/ \E a \in Addrs \cup {Here, Nowhere} : Move(a)
    \/ \E s \in Senders : Tell(s) \/ PushReturns(s) \/ SenderStep(s)
    \/ \E c \in net : DeliverGet(c) \/ DeliverTell(c) \/ Lose(c)

Spec == Init /\ [][Next]_vars

\* Goroutines are scheduled, and timers fire.  A Push need not end.
FairSpec ==
    /\ Spec
    /\ \A s \in Senders : WF_vars(SenderStep(s))
    /\ WF_vars(AdminStep)

-----------------------------------------------------------------------------
(* Correctness *)

(***************************************************************************)
(* Types.  While StopRemote is under way s.remote stays the transport it   *)
(* stops, which every step of StopRemote dereferences (remote.go:130-138). *)
(***************************************************************************)
TypeOK ==
    /\ remote \in 0 .. made /\ made \in 0 .. MaxEnabled
    /\ table \in [Gens -> [Addrs -> Tells \cup {NoConn}]]
    /\ isNil \subseteq 1 .. made /\ open \subseteq Tells
    /\ admin \in {"idle", "conns", "clear"}
    /\ admin # "idle" => remote # 0
    /\ location \in Addrs \cup {Nowhere}
    /\ place \in Addrs \cup {Here, Nowhere}
    /\ moves \in 0 .. MaxMoves
    /\ net \subseteq Calls /\ reached \subseteq Tells /\ panicked \subseteq Tells
    /\ pc \in [Senders -> {"idle", "push", "locate", "enabled", "transport",
                           "conn", "invoke", "wait"}]
    /\ addr \in [Senders -> Addrs \cup {Nowhere}]
    /\ gen \in [Senders -> 0 .. made]
    /\ conn \in [Senders -> Tells \cup {NoConn}]
    /\ calls \in [Senders -> Nat]
    /\ ret \in [Senders -> {"none", "nil", "error", "panic"}]

(***************************************************************************)
(* A nil from Tell means that the message was handed to the mailbox of the *)
(* actor, here or in the peer, although acknowledgements are lost and late *)
(* ones belong to earlier calls.  It does not mean that the mailbox took   *)
(* it: Deliver acknowledges a refused message as well (remote.go:248).     *)
(***************************************************************************)
NilMeansReached == \A s \in Senders : ret[s] = "nil" => Id(s) \in reached

(***************************************************************************)
(* What is left of "closes the server and all client connections"          *)
(* (remote.go:125): every open connection is in the table of the transport *)
(* in use, where the next StopRemote finds it, although deliveries that    *)
(* hold a stopped transport may still dial.  The exception contradicts     *)
(* that line: a delivery that StopRemote has overtaken dials (remote.go:   *)
(* 200), panics on the nil table (remote.go:204), and its connection stays *)
(* open with nobody to close it.                                           *)
(***************************************************************************)
StoppedIsClosed ==
    \A c \in open :
        \/ remote # 0 /\ \E a \in Addrs : table[remote][a] = c
        \/ c \in panicked

(***************************************************************************)
(* A delivery panics only when the transport it saw has been stopped, or   *)
(* is being stopped, while it was on its way (remote.go:175, :204): never  *)
(* where the transport was never enabled or stays enabled.                 *)
(***************************************************************************)
PanicOnlyAtStop ==
    \A s \in Senders : ret[s] = "panic" =>
        gen[s] # 0 /\ (gen[s] = remote => admin = "clear")

\* Why: what a Tell in progress knows, which tables are nil, and what an
\* acknowledgement stands for.
SenderInv ==
    \A s \in Senders :
        /\ pc[s] # "idle" => ret[s] = "none" /\ calls[s] # 0
        /\ pc[s] \notin {"idle", "push", "locate"} => addr[s] \in Addrs
        /\ pc[s] \notin {"idle", "push", "locate", "enabled"} => gen[s] # 0
        /\ pc[s] = "push" => Id(s) \in reached

TransportInv ==
    /\ \A g \in 1 .. made : g # remote => g \in isNil
    /\ remote \in isNil <=> admin = "clear"
    /\ \A g \in isNil : table[g] = NoConns

AckInv == \A c \in net : c.at = "ok" => <<c.from, c.n>> \in reached

(***************************************************************************)
(* A Tell that does not find the actor in this system returns, whatever    *)
(* happens to the call, the peer and the transport: the deadline of the    *)
(* call is all it relies on.  A local delivery waits as long as its Push   *)
(* does (mailbox.go:164-185).                                              *)
(***************************************************************************)
TellReturns ==
    \A s \in Senders : pc[s] \notin {"idle", "push"} ~> pc[s] = "idle"
=============================================================================
