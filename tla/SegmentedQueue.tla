--------------------------- MODULE SegmentedQueue ---------------------------
(***************************************************************************)
(* mailbox/segmented.go: a chain of rings that grows at the tail and is    *)
(* released at the head.                                                   *)
(*                                                                         *)
(* Each atomic operation of Enqueue and Dequeue on head, tail, segs and    *)
(* next is one action.  A segment's ring is taken at the level of          *)
(* TicketQueue, which Ring is shown to implement: an Enqueue draws a       *)
(* ticket and publishes it later, a Dequeue takes the front ticket and     *)
(* releases its slot later, "full" and "empty" are answered as there.      *)
(* The segments form one chain, so segment i's next is segment i + 1, nil  *)
(* while i is the last.                                                    *)
(***************************************************************************)
EXTENDS Integers, Sequences, FiniteSets

CONSTANTS
    Producers,      \* goroutines that call Enqueue
    Consumers,      \* goroutines that call Dequeue
    SegCap,         \* q.segCap, the capacity asked for
    MaxSeg,         \* q.maxSeg
    CountModulus,   \* q.segs is a uint64: it wraps modulo 2^64 (a smaller
                    \* power of two here)
    MaxSends        \* bound of the model: calls of Enqueue per producer

ASSUME SegmentAssumption ==
    /\ SegCap \in Nat
    /\ MaxSeg \in Nat \ {0}
    /\ IsFiniteSet(Producers) /\ Producers # {}
    /\ CountModulus \in Nat
    /\ CountModulus > MaxSeg + Cardinality(Producers)
    /\ MaxSends \in Nat
    /\ Producers \cap Consumers = {}

\* NewRing: at least 2, rounded up to a power of two.
RingSize(c) ==
    LET wanted == IF c < 2 THEN 2 ELSE c
    IN  CHOOSE n \in wanted .. 2 * wanted :
          /\ \E k \in 0 .. wanted : n = 2 ^ k
          /\ \A m \in wanted .. n - 1 : \A k \in 0 .. wanted : m # 2 ^ k

Size == RingSize(SegCap)

\* There is a power of two from n to 2n.
ASSUME SizeAssumption == Size \in Nat /\ Size >= 2

VARIABLES
    chain,   \* the segments linked so far, oldest first
    head,    \* q.head, an index into chain
    tail,    \* q.tail, an index into chain
    segs,    \* q.segs
    pc,      \* the next atomic operation of each goroutine
    at,      \* its local t (Enqueue) or h (Dequeue): an index into chain
    ticket,  \* the ticket it holds in that segment's ring
    sent,    \* sent[p]: calls of Enqueue made; the argument is <<p, sent[p]>>
    ret,     \* the outcome of its last call
    out      \* history: the values taken by Dequeue, in order

vars == <<chain, head, tail, segs, pc, at, ticket, sent, ret, out>>

Procs == Producers \cup Consumers
Items == Producers \X (1 .. MaxSends)

(***************************************************************************)
(* A segment's ring: the values in ticket order, the tickets published,    *)
(* the next ticket to take and the tickets taken but not yet released.     *)
(***************************************************************************)
NewSegment == [items |-> <<>>, published |-> {}, first |-> 0, held |-> {}]

\* The front ticket is taken: the ring's head moves on, its slot is in use.
TakeFront(s) == [items |-> s.items, published |-> s.published,
                 first |-> s.first + 1, held |-> s.held \cup {s.first}]

NextTicket(s) == Len(s.items)
SlotTaken(s) == \/ NextTicket(s) - s.first >= Size
                \/ NextTicket(s) - Size \in s.held
FrontReady(s) == s.first \in s.published

Init ==
    /\ chain = <<NewSegment>>
    /\ head = 1
    /\ tail = 1
    /\ segs = 1
    /\ pc = [x \in Procs |-> "idle"]
    /\ at = [x \in Procs |-> 1]
    /\ ticket = [x \in Procs |-> 0]
    /\ sent = [p \in Producers |-> 0]
    /\ ret = [x \in Procs |-> "none"]
    /\ out = <<>>

Goto(x, l) == pc' = [pc EXCEPT ![x] = l]
Return(x, r) == Goto(x, "idle") /\ ret' = [ret EXCEPT ![x] = r]

-----------------------------------------------------------------------------
(* Enqueue *)

EnqCall(p) ==
    /\ pc[p] = "idle"
    /\ sent[p] < MaxSends
    /\ sent' = [sent EXCEPT ![p] = @ + 1]
    /\ Goto(p, "e_tail")
    /\ UNCHANGED <<chain, head, tail, segs, at, ticket, ret, out>>

EnqLoadTail(p) ==
    /\ pc[p] = "e_tail"
    /\ at' = [at EXCEPT ![p] = tail]
    /\ Goto(p, "e_try")
    /\ UNCHANGED <<chain, head, tail, segs, ticket, sent, ret, out>>

\* t.q.Enqueue(v) draws a ticket, or answers full.
EnqTry(p) ==
    /\ pc[p] = "e_try"
    /\ LET s == chain[at[p]] IN
         \/ /\ ~SlotTaken(s)
            /\ chain' = [chain EXCEPT ![at[p]].items =
                           Append(@, <<p, sent[p]>>)]
            /\ ticket' = [ticket EXCEPT ![p] = NextTicket(s)]
            /\ Goto(p, "e_pub")
         \/ /\ SlotTaken(s)
            /\ Goto(p, "e_segs")
            /\ UNCHANGED <<chain, ticket>>
    /\ UNCHANGED <<head, tail, segs, at, sent, ret, out>>

\* The end of t.q.Enqueue(v): the value is stored and published.
EnqPublish(p) ==
    /\ pc[p] = "e_pub"
    /\ chain' = [chain EXCEPT ![at[p]].published = @ \cup {ticket[p]}]
    /\ Return(p, "ok")
    /\ UNCHANGED <<head, tail, segs, at, ticket, sent, out>>

\* Variant of EnqLoadSegs: one segment too many.
EnqLoadSegsOffByOne(p) ==
    /\ pc[p] = "e_segs"
    /\ \/ segs > MaxSeg /\ Return(p, "full")
       \/ segs <= MaxSeg /\ Goto(p, "e_next") /\ ret' = ret
    /\ UNCHANGED <<chain, head, tail, segs, at, ticket, sent, out>>

EnqLoadSegs(p) ==
    /\ pc[p] = "e_segs"
    /\ \/ segs >= MaxSeg /\ Return(p, "full")
       \/ segs < MaxSeg /\ Goto(p, "e_next") /\ ret' = ret
    /\ UNCHANGED <<chain, head, tail, segs, at, ticket, sent, out>>

EnqLoadNext(p) ==
    /\ pc[p] = "e_next"
    /\ \/ at[p] = Len(chain) /\ Goto(p, "e_link")
       \/ at[p] < Len(chain) /\ Goto(p, "e_adv")
    /\ UNCHANGED <<chain, head, tail, segs, at, ticket, sent, ret, out>>

\* t.next.CompareAndSwap(nil, ns)
EnqLink(p) ==
    /\ pc[p] = "e_link"
    /\ \/ /\ at[p] = Len(chain)
          /\ chain' = Append(chain, NewSegment)
          /\ Goto(p, "e_swing")
       \/ /\ at[p] < Len(chain)
          /\ Goto(p, "e_tail")
          /\ chain' = chain
    /\ UNCHANGED <<head, tail, segs, at, ticket, sent, ret, out>>

\* q.tail.CompareAndSwap(t, ns) or (t, n): the next of t either way.
SwingTail(p) == tail' = IF tail = at[p] THEN at[p] + 1 ELSE tail

EnqSwingNew(p) ==
    /\ pc[p] = "e_swing"
    /\ SwingTail(p)
    /\ Goto(p, "e_add")
    /\ UNCHANGED <<chain, head, segs, at, ticket, sent, ret, out>>

EnqCount(p) ==
    /\ pc[p] = "e_add"
    /\ segs' = (segs + 1) % CountModulus
    /\ Goto(p, "e_tail")
    /\ UNCHANGED <<chain, head, tail, at, ticket, sent, ret, out>>

EnqSwingOld(p) ==
    /\ pc[p] = "e_adv"
    /\ SwingTail(p)
    /\ Goto(p, "e_tail")
    /\ UNCHANGED <<chain, head, segs, at, ticket, sent, ret, out>>

-----------------------------------------------------------------------------
(* Dequeue *)

DeqCall(c) ==
    /\ pc[c] = "idle"
    /\ Goto(c, "d_head")
    /\ UNCHANGED <<chain, head, tail, segs, at, ticket, sent, ret, out>>

DeqLoadHead(c) ==
    /\ pc[c] = "d_head"
    /\ at' = [at EXCEPT ![c] = head]
    /\ Goto(c, "d_try")
    /\ UNCHANGED <<chain, head, tail, segs, ticket, sent, ret, out>>

\* Variant of DeqTry that does not advance the ring's head.
DeqTryNoAdvance(c) ==
    /\ pc[c] = "d_try"
    /\ LET s == chain[at[c]] IN
         \/ /\ FrontReady(s)
            /\ ticket' = [ticket EXCEPT ![c] = s.first]
            /\ out' = Append(out, s.items[s.first + 1])
            /\ Goto(c, "d_rel")
         \/ /\ ~FrontReady(s)
            /\ Goto(c, "d_next")
            /\ UNCHANGED <<ticket, out>>
    /\ UNCHANGED <<chain, head, tail, segs, at, sent, ret>>

\* h.q.Dequeue() takes the front ticket, or answers empty.
DeqTry(c) ==
    /\ pc[c] = "d_try"
    /\ LET s == chain[at[c]] IN
         \/ /\ FrontReady(s)
            /\ chain' = [chain EXCEPT ![at[c]] = TakeFront(s)]
            /\ ticket' = [ticket EXCEPT ![c] = s.first]
            /\ out' = Append(out, s.items[s.first + 1])
            /\ Goto(c, "d_rel")
         \/ /\ ~FrontReady(s)
            /\ Goto(c, "d_next")
            /\ UNCHANGED <<chain, ticket, out>>
    /\ UNCHANGED <<head, tail, segs, at, sent, ret>>

\* The end of h.q.Dequeue(): the slot is free for the next lap.
DeqRelease(c) ==
    /\ pc[c] = "d_rel"
    /\ chain' = [chain EXCEPT ![at[c]].held = @ \ {ticket[c]}]
    /\ Return(c, "ok")
    /\ UNCHANGED <<head, tail, segs, at, ticket, sent, out>>

DeqLoadNext(c) ==
    /\ pc[c] = "d_next"
    /\ \/ at[c] = Len(chain) /\ Return(c, "empty")
       \/ at[c] < Len(chain) /\ Goto(c, "d_store") /\ ret' = ret
    /\ UNCHANGED <<chain, head, tail, segs, at, ticket, sent, out>>

DeqStoreHead(c) ==
    /\ pc[c] = "d_store"
    /\ head' = at[c] + 1
    /\ Goto(c, "d_dec")
    /\ UNCHANGED <<chain, tail, segs, at, ticket, sent, ret, out>>

\* q.segs.Add(^uint64(0)), then q.Dequeue() again.
DeqCount(c) ==
    /\ pc[c] = "d_dec"
    /\ segs' = (segs - 1) % CountModulus
    /\ Goto(c, "d_head")
    /\ UNCHANGED <<chain, head, tail, at, ticket, sent, ret, out>>

-----------------------------------------------------------------------------
EnqStep(p) ==
    \/ EnqLoadTail(p) \/ EnqTry(p) \/ EnqPublish(p) \/ EnqLoadSegs(p)
    \/ EnqLoadNext(p) \/ EnqLink(p) \/ EnqSwingNew(p) \/ EnqCount(p)
    \/ EnqSwingOld(p)

DeqStep(c) ==
    \/ DeqLoadHead(c) \/ DeqTry(c) \/ DeqRelease(c) \/ DeqLoadNext(c)
    \/ DeqStoreHead(c) \/ DeqCount(c)

Next ==
    \/ \E p \in Producers : EnqCall(p) \/ EnqStep(p)
    \/ \E c \in Consumers : DeqCall(c) \/ DeqStep(c)

Spec == Init /\ [][Next]_vars

-----------------------------------------------------------------------------
(* Correctness *)

EnqLabels == {"e_tail", "e_try", "e_pub", "e_segs", "e_next", "e_link",
              "e_swing", "e_add", "e_adv"}
DeqLabels == {"d_head", "d_try", "d_rel", "d_next", "d_store", "d_dec"}

Segments == [items : Seq(Items), published : SUBSET Nat, first : Nat,
             held : SUBSET Nat]

OwnTickets(s) ==
    /\ s.published \subseteq 0 .. Len(s.items) - 1
    /\ s.held \subseteq 0 .. s.first - 1
    /\ s.first <= Len(s.items)
    /\ Len(s.items) - s.first <= Size

\* Types: the pointers point into the chain, a segment's tickets are its own.
TypeOK ==
    /\ chain \in Seq(Segments)
    /\ \A i \in DOMAIN chain : OwnTickets(chain[i])
    /\ head \in DOMAIN chain
    /\ tail \in DOMAIN chain
    /\ segs \in 0 .. CountModulus - 1
    /\ pc \in [Procs -> {"idle"} \cup EnqLabels \cup DeqLabels]
    /\ at \in [Procs -> DOMAIN chain]
    /\ ticket \in [Procs -> Nat]
    /\ sent \in [Producers -> 0 .. MaxSends]
    /\ ret \in [Procs -> {"none", "ok", "full", "empty"}]
    /\ out \in Seq(Items)

\* The segments a Dequeue can still reach.
LiveSegments == Len(chain) - head + 1

Linking == {p \in Producers : pc[p] \in {"e_swing", "e_add"}}
Unlinking == {c \in Consumers : pc[c] = "d_dec"}

(***************************************************************************)
(* LenSegments "returns the current number of segments": q.segs is the     *)
(* number of live segments, up to the increments and decrements that       *)
(* linking producers and the advancing consumer still owe.                 *)
(***************************************************************************)
SegAccounting ==
    segs = (LiveSegments - Cardinality(Linking) + Cardinality(Unlinking))
             % CountModulus

(***************************************************************************)
(* How far check-then-link may exceed the limit: each producer but one can *)
(* have linked a segment that q.segs does not count yet.                   *)
(***************************************************************************)
SegmentBound ==
    LiveSegments <= MaxSeg + Cardinality(Producers) - 1

(***************************************************************************)
(* Values of one producer leave the queue in the order in which it         *)
(* enqueued them, each at most once.                                       *)
(***************************************************************************)
ProducerOrder ==
    \A i, j \in DOMAIN out :
        i < j /\ out[i][1] = out[j][1] => out[i][2] < out[j][2]

(***************************************************************************)
(* Why, with one consumer, as in Mailbox.  Where the calls in progress     *)
(* are: a ticket drawn is in its segment, what is swung or stored has been *)
(* linked, and the consumer works at the head.                             *)
(***************************************************************************)
ProducerInv(p) ==
    /\ pc[p] # "idle" => sent[p] # 0
    /\ pc[p] = "e_pub" => ticket[p] < Len(chain[at[p]].items)
    /\ pc[p] = "e_try" => at[p] <= tail
    /\ pc[p] \in {"e_swing", "e_adv"} => at[p] < Len(chain)

ConsumerInv(c) ==
    /\ pc[c] \in {"d_try", "d_rel", "d_next", "d_store"} => at[c] = head
    /\ pc[c] = "d_store" => at[c] < Len(chain)

LocalInv == /\ \A p \in Producers : ProducerInv(p)
            /\ \A c \in Consumers : ConsumerInv(c)

\* A producer that saw room and can still link leaves room for the others.
RoomInv ==
    \A p \in Producers :
        pc[p] \in {"e_next", "e_link"} /\ at[p] = Len(chain)
          => LiveSegments < MaxSeg + Cardinality(Producers) - 1

\* The call whose value has no ticket yet has a number of its own.
Unplaced(p) == pc[p] \in EnqLabels \ {"e_pub"}

Numbered(item) ==
    /\ item[2] <= sent[item[1]]
    /\ Unplaced(item[1]) => item[2] < sent[item[1]]

\* The position <<i, k>> comes before <<j, l>>.
Before(i, k, j, l) == i < j \/ (i = j /\ k < l)

\* A value in the chain has a number and is not behind where its producer
\* goes on.
PlacedInv ==
    \A i \in DOMAIN chain : \A k \in DOMAIN chain[i].items :
        LET item == chain[i].items[k] IN
        /\ Numbered(item)
        /\ i <= tail
        /\ pc[item[1]] = "e_try" => i <= at[item[1]]

\* The values of a producer are in the chain in the order of its calls.
ChainOrder ==
    \A i, j \in DOMAIN chain :
        \A k \in DOMAIN chain[i].items, l \in DOMAIN chain[j].items :
            Before(i, k, j, l) /\ chain[i].items[k][1] = chain[j].items[l][1]
              => chain[i].items[k][2] < chain[j].items[l][2]

\* Those taken come before those that can still be taken.
TakenInv ==
    \A n \in DOMAIN out :
        /\ Numbered(out[n])
        /\ \A i \in DOMAIN chain : \A k \in DOMAIN chain[i].items :
             i >= head /\ k > chain[i].first /\ chain[i].items[k][1] = out[n][1]
               => out[n][2] < chain[i].items[k][2]

(***************************************************************************)
(* No accepted value is lost: every value whose Enqueue has returned true  *)
(* has been taken or is in a segment that Dequeue can still reach.         *)
(***************************************************************************)
NoneStranded ==
    \A i \in 1 .. head - 1 : chain[i].published \subseteq 0 .. chain[i].first - 1

(***************************************************************************)
(* The chain of segments stays well formed, its counter is exact up to the *)
(* calls in progress, and racing producers exceed MaxSeg by at most one    *)
(* segment each (segmented.go:64-75, 93-94).                               *)
(***************************************************************************)
SegmentInv == TypeOK /\ SegAccounting /\ SegmentBound
=============================================================================
