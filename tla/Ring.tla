-------------------------------- MODULE Ring --------------------------------
(***************************************************************************)
(* mailbox/ring.go: the lock-free bounded queue (Vyukov's MPMC ring).      *)
(*                                                                         *)
(* Every atomic load, store and compare-and-swap of Enqueue and Dequeue is *)
(* one action; the code between two of them touches only locals and is     *)
(* folded into the action before it.  Go's sync/atomic operations are      *)
(* sequentially consistent, so interleaving these actions gives all the    *)
(* behaviours of the code.                                                 *)
(*                                                                         *)
(* Tickets (head, tail, seq) are uint64 in the code.  They are naturals    *)
(* here: the difference int64(seq) - int64(tail) is the same modulo 2^64   *)
(* because the capacity divides 2^64, and 2^64 operations are out of reach.*)
(***************************************************************************)
EXTENDS Integers, Sequences

CONSTANTS
    Producers,    \* goroutines that call Enqueue
    Consumers,    \* goroutines that call Dequeue
    Values,       \* the pointers they enqueue
    Nil,          \* the nil pointer stored in an empty cell
    Capacity,     \* len(r.buf), after NewRing's rounding
    MaxTickets    \* bound of the model: no Enqueue starts once tail reaches it

(***************************************************************************)
(* NewRing raises the capacity to at least 2 and then to a power of two,   *)
(* so that tail & mask is tail modulo the capacity.  The algorithm needs   *)
(* only the lower bound.                                                   *)
(***************************************************************************)
ASSUME CapacityAssumption == Capacity \in Nat /\ Capacity >= 2

ASSUME ProcessAssumption == Producers \cap Consumers = {}

ASSUME ValueAssumption == Nil \notin Values

ASSUME BoundAssumption == MaxTickets \in Nat

VARIABLES
    head,    \* r.head
    tail,    \* r.tail
    seq,     \* seq[i]: r.buf[i].seq
    val,     \* val[i]: r.buf[i].val
    pc,      \* the next atomic operation of each goroutine
    pos,     \* its local: the tail (Enqueue) or head (Dequeue) it loaded
    arg,     \* arg[p]: Enqueue's argument v
    got,     \* got[c]: Dequeue's local v
    ret,     \* the outcome of the goroutine's last call
    log      \* history: log[t+1] is the value whose Enqueue drew ticket t

vars == <<head, tail, seq, val, pc, pos, arg, got, ret, log>>

Procs == Producers \cup Consumers
Slots == 0 .. Capacity - 1

\* &r.buf[t & r.mask]
Idx(t) == t % Capacity

(***************************************************************************)
(* NewRing: cell i starts with sequence number i.                          *)
(***************************************************************************)
Init ==
    /\ head = 0
    /\ tail = 0
    /\ seq = [i \in Slots |-> i]
    /\ val = [i \in Slots |-> Nil]
    /\ pc = [x \in Procs |-> "idle"]
    /\ pos = [x \in Procs |-> 0]
    /\ arg = [p \in Producers |-> Nil]
    /\ got = [c \in Consumers |-> Nil]
    /\ ret = [x \in Procs |-> "none"]
    /\ log = <<>>

-----------------------------------------------------------------------------
(* Enqueue *)

EnqCall(p, v) ==
    /\ pc[p] = "idle"
    /\ tail < MaxTickets
    /\ arg' = [arg EXCEPT ![p] = v]
    /\ pc' = [pc EXCEPT ![p] = "e_tail"]
    /\ UNCHANGED <<head, tail, seq, val, pos, got, ret, log>>

EnqLoadTail(p) ==
    /\ pc[p] = "e_tail"
    /\ pos' = [pos EXCEPT ![p] = tail]
    /\ pc' = [pc EXCEPT ![p] = "e_seq"]
    /\ UNCHANGED <<head, tail, seq, val, arg, got, ret, log>>

\* Variant of EnqLoadSeq without the full test: a lap behind is let through.
EnqLoadSeqNoFullTest(p) ==
    /\ pc[p] = "e_seq"
    /\ LET dif == seq[Idx(pos[p])] - pos[p] IN
         pc' = [pc EXCEPT ![p] = IF dif <= 0 THEN "e_cas" ELSE "e_tail"]
    /\ UNCHANGED <<head, tail, seq, val, pos, arg, got, ret, log>>

\* Variant of EnqLoadSeq that takes a stale tail for a full ring.
EnqLoadSeqStaleIsFull(p) ==
    /\ pc[p] = "e_seq"
    /\ IF seq[Idx(pos[p])] = pos[p]
         THEN pc' = [pc EXCEPT ![p] = "e_cas"] /\ ret' = ret
         ELSE pc' = [pc EXCEPT ![p] = "idle"] /\ ret' = [ret EXCEPT ![p] = "full"]
    /\ UNCHANGED <<head, tail, seq, val, pos, arg, got, log>>

\* seq := cell.seq.Load(), then the three-way branch on dif.
EnqLoadSeq(p) ==
    /\ pc[p] = "e_seq"
    /\ LET dif == seq[Idx(pos[p])] - pos[p] IN
         \/ /\ dif = 0
            /\ pc' = [pc EXCEPT ![p] = "e_cas"]
            /\ ret' = ret
         \/ /\ dif < 0
            /\ pc' = [pc EXCEPT ![p] = "idle"]
            /\ ret' = [ret EXCEPT ![p] = "full"]
         \/ /\ dif > 0
            /\ pc' = [pc EXCEPT ![p] = "e_tail"]
            /\ ret' = ret
    /\ UNCHANGED <<head, tail, seq, val, pos, arg, got, log>>

EnqCAS(p) ==
    /\ pc[p] = "e_cas"
    /\ \/ /\ tail = pos[p]
          /\ tail' = tail + 1
          /\ log' = Append(log, arg[p])
          /\ pc' = [pc EXCEPT ![p] = "e_val"]
       \/ /\ tail # pos[p]
          /\ pc' = [pc EXCEPT ![p] = "e_tail"]
          /\ UNCHANGED <<tail, log>>
    /\ UNCHANGED <<head, seq, val, pos, arg, got, ret>>

EnqStoreVal(p) ==
    /\ pc[p] = "e_val"
    /\ val' = [val EXCEPT ![Idx(pos[p])] = arg[p]]
    /\ pc' = [pc EXCEPT ![p] = "e_pub"]
    /\ UNCHANGED <<head, tail, seq, pos, arg, got, ret, log>>

EnqPublish(p) ==
    /\ pc[p] = "e_pub"
    /\ seq' = [seq EXCEPT ![Idx(pos[p])] = pos[p] + 1]
    /\ ret' = [ret EXCEPT ![p] = "ok"]
    /\ pc' = [pc EXCEPT ![p] = "idle"]
    /\ UNCHANGED <<head, tail, val, pos, arg, got, log>>

-----------------------------------------------------------------------------
(* Dequeue *)

DeqCall(c) ==
    /\ pc[c] = "idle"
    /\ pc' = [pc EXCEPT ![c] = "d_head"]
    /\ UNCHANGED <<head, tail, seq, val, pos, arg, got, ret, log>>

DeqLoadHead(c) ==
    /\ pc[c] = "d_head"
    /\ pos' = [pos EXCEPT ![c] = head]
    /\ pc' = [pc EXCEPT ![c] = "d_seq"]
    /\ UNCHANGED <<head, tail, seq, val, arg, got, ret, log>>

DeqLoadSeq(c) ==
    /\ pc[c] = "d_seq"
    /\ LET dif == seq[Idx(pos[c])] - (pos[c] + 1) IN
         \/ /\ dif = 0
            /\ pc' = [pc EXCEPT ![c] = "d_cas"]
            /\ ret' = ret
         \/ /\ dif < 0
            /\ pc' = [pc EXCEPT ![c] = "idle"]
            /\ ret' = [ret EXCEPT ![c] = "empty"]
         \/ /\ dif > 0
            /\ pc' = [pc EXCEPT ![c] = "d_head"]
            /\ ret' = ret
    /\ UNCHANGED <<head, tail, seq, val, pos, arg, got, log>>

\* Variant of DeqCAS that hands the cell back before reading it.
DeqCASReleasesFirst(c) ==
    /\ pc[c] = "d_cas"
    /\ \/ /\ head = pos[c]
          /\ head' = head + 1
          /\ seq' = [seq EXCEPT ![Idx(pos[c])] = pos[c] + Capacity]
          /\ pc' = [pc EXCEPT ![c] = "d_load"]
       \/ /\ head # pos[c]
          /\ pc' = [pc EXCEPT ![c] = "d_head"]
          /\ UNCHANGED <<head, seq>>
    /\ UNCHANGED <<tail, val, pos, arg, got, ret, log>>

DeqCAS(c) ==
    /\ pc[c] = "d_cas"
    /\ \/ /\ head = pos[c]
          /\ head' = head + 1
          /\ pc' = [pc EXCEPT ![c] = "d_load"]
       \/ /\ head # pos[c]
          /\ pc' = [pc EXCEPT ![c] = "d_head"]
          /\ head' = head
    /\ UNCHANGED <<tail, seq, val, pos, arg, got, ret, log>>

DeqLoadVal(c) ==
    /\ pc[c] = "d_load"
    /\ got' = [got EXCEPT ![c] = val[Idx(pos[c])]]
    /\ pc' = [pc EXCEPT ![c] = "d_clear"]
    /\ UNCHANGED <<head, tail, seq, val, pos, arg, ret, log>>

DeqClear(c) ==
    /\ pc[c] = "d_clear"
    /\ val' = [val EXCEPT ![Idx(pos[c])] = Nil]
    /\ pc' = [pc EXCEPT ![c] = "d_rel"]
    /\ UNCHANGED <<head, tail, seq, pos, arg, got, ret, log>>

\* cell.seq.Store(s), and the call returns.
ReleaseTo(c, s) ==
    /\ pc[c] = "d_rel"
    /\ seq' = [seq EXCEPT ![Idx(pos[c])] = s]
    /\ ret' = [ret EXCEPT ![c] = "ok"]
    /\ pc' = [pc EXCEPT ![c] = "idle"]
    /\ UNCHANGED <<head, tail, val, pos, arg, got, log>>

\* Variants of DeqRelease: head + mask, and head - (mask + 1).
DeqReleaseOffByOne(c) == ReleaseTo(c, pos[c] + Capacity - 1)

DeqReleaseBackwards(c) == ReleaseTo(c, pos[c] - Capacity)

\* cell.seq.Store(head + r.mask + 1): the slot is free for the next lap.
DeqRelease(c) == ReleaseTo(c, pos[c] + Capacity)

-----------------------------------------------------------------------------
EnqStep(p) ==
    \/ EnqLoadTail(p)
    \/ EnqLoadSeq(p)
    \/ EnqCAS(p)
    \/ EnqStoreVal(p)
    \/ EnqPublish(p)

DeqStep(c) ==
    \/ DeqLoadHead(c)
    \/ DeqLoadSeq(c)
    \/ DeqCAS(c)
    \/ DeqLoadVal(c)
    \/ DeqClear(c)
    \/ DeqRelease(c)

Next ==
    \/ \E p \in Producers : (\E v \in Values : EnqCall(p, v)) \/ EnqStep(p)
    \/ \E c \in Consumers : DeqCall(c) \/ DeqStep(c)

Spec == Init /\ [][Next]_vars

-----------------------------------------------------------------------------
(* Correctness *)

EnqLabels == {"e_tail", "e_seq", "e_cas", "e_val", "e_pub"}
DeqLabels == {"d_head", "d_seq", "d_cas", "d_load", "d_clear", "d_rel"}

(***************************************************************************)
(* Types of the cells and of the goroutines' locals: a producer only ever  *)
(* stands in Enqueue, a consumer only in Dequeue, and a call of Enqueue in *)
(* progress carries a value that is not nil.                               *)
(***************************************************************************)
TypeOK ==
    /\ head \in Nat
    /\ tail \in Nat
    /\ seq \in [Slots -> Nat]
    /\ val \in [Slots -> Values \cup {Nil}]
    /\ pc \in [Procs -> {"idle"} \cup EnqLabels \cup DeqLabels]
    /\ \A p \in Producers : pc[p] \in {"idle"} \cup EnqLabels
    /\ \A c \in Consumers : pc[c] \in {"idle"} \cup DeqLabels
    /\ pos \in [Procs -> Nat]
    /\ arg \in [Producers -> Values \cup {Nil}]
    /\ \A p \in Producers : pc[p] \in EnqLabels => arg[p] \in Values
    /\ got \in [Consumers -> Values \cup {Nil}]
    /\ ret \in [Procs -> {"none", "ok", "full", "empty"}]
    /\ log \in Seq(Values)

\* p has drawn ticket pos[p] and not yet published it.
Writing(p) == pc[p] \in {"e_val", "e_pub"}

\* c has taken ticket pos[c] and not yet released its cell.
Reading(c) == pc[c] \in {"d_load", "d_clear", "d_rel"}

\* The queue holds at most Capacity tickets, and each ticket has its value.
Window ==
    /\ head <= tail
    /\ tail <= head + Capacity
    /\ Len(log) = tail

\* The cell of a queued ticket is either being written by the producer that
\* drew it, or carries exactly that producer's value.
QueuedCells ==
    \A t \in head .. tail - 1 :
        \/ /\ seq[Idx(t)] = t
           /\ \E p \in Producers : Writing(p) /\ pos[p] = t
        \/ /\ seq[Idx(t)] = t + 1
           /\ val[Idx(t)] = log[t + 1]

\* The cell a ticket not yet drawn will use is free, or the consumer of the
\* previous lap is still in it.
FreeCells ==
    \A t \in tail .. head + Capacity - 1 :
        \/ seq[Idx(t)] = t
        \/ /\ seq[Idx(t)] = t - Capacity + 1
           /\ \E c \in Consumers : Reading(c) /\ pos[c] = t - Capacity

Writers ==
    \A p \in Producers : Writing(p) =>
        /\ head <= pos[p] /\ pos[p] < tail
        /\ seq[Idx(pos[p])] = pos[p]
        /\ arg[p] = log[pos[p] + 1]
        /\ pc[p] = "e_pub" => val[Idx(pos[p])] = arg[p]
        /\ \A q \in Producers : Writing(q) /\ pos[q] = pos[p] => q = p

Readers ==
    \A c \in Consumers : Reading(c) =>
        /\ pos[c] < head /\ tail <= pos[c] + Capacity
        /\ seq[Idx(pos[c])] = pos[c] + 1
        /\ pc[c] = "d_load" => val[Idx(pos[c])] = log[pos[c] + 1]
        /\ pc[c] # "d_load" => got[c] = log[pos[c] + 1]
        /\ \A d \in Consumers : Reading(d) /\ pos[d] = pos[c] => d = c

\* What a loaded head or tail, and a sequence number that matched it, still
\* mean when the compare-and-swap is attempted.
Loaded ==
    /\ \A p \in Producers :
         /\ pc[p] \in {"e_seq", "e_cas"} => pos[p] <= tail
         /\ pc[p] = "e_cas" /\ pos[p] = tail => seq[Idx(pos[p])] = pos[p]
    /\ \A c \in Consumers :
         /\ pc[c] \in {"d_seq", "d_cas"} => pos[c] <= head
         /\ pc[c] = "d_cas" /\ pos[c] = head => seq[Idx(pos[c])] = pos[c] + 1

\* A cell's sequence number never falls behind a ticket that has been drawn,
\* or that has been taken.
Passed ==
    /\ \A t \in 0 .. tail - 1 : seq[Idx(t)] >= t
    /\ \A t \in 0 .. head - 1 : seq[Idx(t)] >= t + 1

\* The inductive invariant: the cells of the window are in the state that the
\* goroutines inside them and the tickets drawn and taken so far imply.
RingInv ==
    /\ Window
    /\ QueuedCells
    /\ FreeCells
    /\ Writers
    /\ Readers
    /\ Loaded
    /\ Passed

(***************************************************************************)
(* No two goroutines are ever inside the same cell: the stores to val and  *)
(* seq between a successful compare-and-swap and the final seq.Store are   *)
(* not disturbed by any other producer or consumer, a lap ahead or behind. *)
(***************************************************************************)
CellExclusive ==
    \A x, y \in Procs :
        /\ pc[x] \in {"e_val", "e_pub", "d_load", "d_clear", "d_rel"}
        /\ pc[y] \in {"e_val", "e_pub", "d_load", "d_clear", "d_rel"}
        /\ Idx(pos[x]) = Idx(pos[y])
        => x = y

(***************************************************************************)
(* Dequeue hands out the values in the order in which Enqueue drew the     *)
(* tickets: the value about to be returned for ticket t is the one that    *)
(* drew it, and never nil (Mailbox.Pop would drop a nil).                  *)
(***************************************************************************)
FifoDelivery ==
    \A c \in Consumers : pc[c] \in {"d_clear", "d_rel"} =>
        /\ got[c] = log[pos[c] + 1]
        /\ got[c] # Nil

\* The mapping: a goroutine inside a cell has its ticket open or taken.
Abstract == INSTANCE TicketQueue WITH
    first <- head,
    open <- [p \in Producers |-> IF Writing(p) THEN pos[p] ELSE -1],
    taken <- [c \in Consumers |-> IF Reading(c) THEN pos[c] ELSE -1],
    result <- [c \in Consumers |->
                 IF Reading(c) THEN log[pos[c] + 1] ELSE got[c]],
    reply <- [x \in Procs |-> IF pc[x] = "idle" THEN ret[x] ELSE "pending"]

(***************************************************************************)
(* The ring implements TicketQueue: Enqueue takes effect when its          *)
(* compare-and-swap on tail succeeds and Dequeue when the one on head      *)
(* does; "full" is answered only while the slot of the next ticket is      *)
(* occupied, and "empty" only while the front ticket is not published.     *)
(***************************************************************************)
RefinesTicketQueue == Abstract!Spec

=============================================================================
