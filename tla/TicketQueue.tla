---------------------------- MODULE TicketQueue ----------------------------
(***************************************************************************)
(* What the bounded queue of mailbox/ring.go promises to its callers,      *)
(* without its cells, sequence numbers and compare-and-swap loops.         *)
(*                                                                         *)
(* An accepted Enqueue draws the next ticket; the values leave in ticket   *)
(* order.  Between drawing a ticket and publishing it (and, on the other   *)
(* side, between taking a ticket and returning its value) a call is in     *)
(* progress, and this is visible to others: an unpublished ticket at the   *)
(* front makes Dequeue answer "empty" even when later tickets are          *)
(* published, and a ticket whose Dequeue has not returned still occupies   *)
(* its slot and makes Enqueue answer "full".                               *)
(***************************************************************************)
EXTENDS Integers, Sequences

CONSTANTS
    Producers,   \* goroutines that call Enqueue
    Consumers,   \* goroutines that call Dequeue
    Values,      \* what is enqueued (pointers, never nil)
    Nil,         \* the nil pointer
    Capacity     \* number of slots

VARIABLES
    log,      \* log[t+1] is the value that drew ticket t
    first,    \* the next ticket to be taken; tickets below it have left
    open,     \* open[p]: the ticket p has drawn and not published, or NoTicket
    taken,    \* taken[c]: the ticket c has taken and not returned, or NoTicket
    result,   \* result[c]: the value of the last ticket c has taken
    reply     \* reply[x]: the outcome of x's last call, or "pending"

avars == <<log, first, open, taken, result, reply>>

NoTicket == -1
Procs == Producers \cup Consumers

\* The number of tickets drawn so far is the next ticket.
NextTicket == Len(log)

\* The slot that ticket t needs is the one ticket t - Capacity had: it is
\* occupied as long as that ticket is queued or its Dequeue has not returned.
Occupied(t) ==
    \/ t - first >= Capacity
    \/ \E c \in Consumers : taken[c] # NoTicket /\ taken[c] = t - Capacity

Published(t) ==
    /\ t < NextTicket
    /\ \A p \in Producers : open[p] # t

Init ==
    /\ log = <<>>
    /\ first = 0
    /\ open = [p \in Producers |-> NoTicket]
    /\ taken = [c \in Consumers |-> NoTicket]
    /\ result = [c \in Consumers |-> Nil]
    /\ reply = [x \in Procs |-> "none"]

Call(x) ==
    /\ reply[x] # "pending"
    /\ reply' = [reply EXCEPT ![x] = "pending"]
    /\ UNCHANGED <<log, first, open, taken, result>>

Claim(p, v) ==
    /\ reply[p] = "pending"
    /\ open[p] = NoTicket
    /\ ~Occupied(NextTicket)
    /\ log' = Append(log, v)
    /\ open' = [open EXCEPT ![p] = NextTicket]
    /\ UNCHANGED <<first, taken, result, reply>>

Publish(p) ==
    /\ open[p] # NoTicket
    /\ open' = [open EXCEPT ![p] = NoTicket]
    /\ reply' = [reply EXCEPT ![p] = "ok"]
    /\ UNCHANGED <<log, first, taken, result>>

AnswerFull(p) ==
    /\ reply[p] = "pending"
    /\ open[p] = NoTicket
    /\ Occupied(NextTicket)
    /\ reply' = [reply EXCEPT ![p] = "full"]
    /\ UNCHANGED <<log, first, open, taken, result>>

Take(c) ==
    /\ reply[c] = "pending"
    /\ taken[c] = NoTicket
    /\ Published(first)
    /\ taken' = [taken EXCEPT ![c] = first]
    /\ first' = first + 1
    /\ result' = [result EXCEPT ![c] = log[first + 1]]
    /\ UNCHANGED <<log, open, reply>>

Return(c) ==
    /\ taken[c] # NoTicket
    /\ taken' = [taken EXCEPT ![c] = NoTicket]
    /\ reply' = [reply EXCEPT ![c] = "ok"]
    /\ UNCHANGED <<log, first, open, result>>

AnswerEmpty(c) ==
    /\ reply[c] = "pending"
    /\ taken[c] = NoTicket
    /\ ~Published(first)
    /\ reply' = [reply EXCEPT ![c] = "empty"]
    /\ UNCHANGED <<log, first, open, taken, result>>

Next ==
    \/ \E x \in Procs : Call(x)
    \/ \E p \in Producers :
         \/ \E v \in Values : Claim(p, v)
         \/ Publish(p)
         \/ AnswerFull(p)
    \/ \E c \in Consumers : Take(c) \/ Return(c) \/ AnswerEmpty(c)

Spec == Init /\ [][Next]_avars
=============================================================================
