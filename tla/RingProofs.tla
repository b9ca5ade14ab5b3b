----------------------------- MODULE RingProofs -----------------------------
(***************************************************************************)
(* Proofs about Ring, for every number of goroutines and every capacity    *)
(* that NewRing can produce.                                               *)
(***************************************************************************)
EXTENDS Ring, TLAPS

-----------------------------------------------------------------------------
(* Arithmetic of the cell index t & mask, that is t % Capacity *)

LEMMA DivMod ==
    ASSUME NEW t \in Nat
    PROVE  /\ t = Capacity * (t \div Capacity) + (t % Capacity)
           /\ t \div Capacity \in Nat
           /\ t % Capacity \in 0 .. Capacity - 1
  BY CapacityAssumption

LEMMA MultipleAtLeast ==
    ASSUME NEW q \in Int, q >= 1
    PROVE  Capacity * q >= Capacity
  BY CapacityAssumption

LEMMA IdxType ==
    ASSUME NEW t \in Nat
    PROVE  Idx(t) \in Slots
  BY CapacityAssumption DEF Idx, Slots

\* Two tickets less than a lap apart that share a cell are the same ticket.
LEMMA IdxInjective ==
    ASSUME NEW t \in Nat, NEW u \in Nat,
           Idx(t) = Idx(u), t - u < Capacity, u - t < Capacity
    PROVE  t = u
  <1> DEFINE q == t \div Capacity
             s == u \div Capacity
             r == t % Capacity
  <1>1. t = Capacity * q + r /\ q \in Nat /\ r \in 0 .. Capacity - 1
    BY DivMod
  <1>2. u = Capacity * s + r /\ s \in Nat
    BY DivMod DEF Idx
  <1> HIDE DEF q, r, s
  <1>3. ~(s - q >= 1)
    <2> SUFFICES ASSUME s - q >= 1 PROVE FALSE
      OBVIOUS
    <2>1. Capacity * (s - q) >= Capacity
      BY <1>1, <1>2, MultipleAtLeast
    <2>2. Capacity * (s - q) = u - t
      BY <1>1, <1>2, CapacityAssumption
    <2> QED BY <2>1, <2>2, CapacityAssumption
  <1>4. ~(q - s >= 1)
    <2> SUFFICES ASSUME q - s >= 1 PROVE FALSE
      OBVIOUS
    <2>1. Capacity * (q - s) >= Capacity
      BY <1>1, <1>2, MultipleAtLeast
    <2>2. Capacity * (q - s) = t - u
      BY <1>1, <1>2, CapacityAssumption
    <2> QED BY <2>1, <2>2, CapacityAssumption
  <1>5. s = q
    BY <1>1, <1>2, <1>3, <1>4
  <1> QED BY <1>1, <1>2, <1>5

\* A ticket and the one a lap later share a cell.
LEMMA IdxLap ==
    ASSUME NEW t \in Nat
    PROVE  Idx(t + Capacity) = Idx(t)
  <1> DEFINE q == t \div Capacity
             r == t % Capacity
             s == (t + Capacity) \div Capacity
             d == (t + Capacity) % Capacity
  <1>1. t = Capacity * q + r /\ q \in Nat /\ r \in 0 .. Capacity - 1
    BY DivMod
  <1>2. t + Capacity \in Nat
    BY CapacityAssumption
  <1>3. t + Capacity = Capacity * s + d /\ s \in Nat /\ d \in 0 .. Capacity - 1
    BY <1>2, DivMod
  <1> HIDE DEF q, r, s, d
  <1>4. Capacity * (q + 1 - s) = d - r
    BY <1>1, <1>3, CapacityAssumption
  <1>5. ~(q + 1 - s >= 1)
    <2> SUFFICES ASSUME q + 1 - s >= 1 PROVE FALSE
      OBVIOUS
    <2>1. Capacity * (q + 1 - s) >= Capacity
      BY <1>1, <1>3, MultipleAtLeast
    <2> QED BY <1>1, <1>3, <1>4, <2>1, CapacityAssumption
  <1>6. ~(s - q - 1 >= 1)
    <2> SUFFICES ASSUME s - q - 1 >= 1 PROVE FALSE
      OBVIOUS
    <2>1. Capacity * (s - q - 1) >= Capacity
      BY <1>1, <1>3, MultipleAtLeast
    <2>2. Capacity * (s - q - 1) = r - d
      BY <1>1, <1>3, CapacityAssumption
    <2> QED BY <1>1, <1>3, <2>1, <2>2, CapacityAssumption
  <1>7. s = q + 1
    BY <1>1, <1>3, <1>5, <1>6
  <1>8. d = r
    BY <1>1, <1>3, <1>7, CapacityAssumption
  <1> QED BY <1>8 DEF Idx, d, r

LEMMA AppendType ==
    ASSUME NEW S, NEW s \in Seq(S), NEW e \in S
    PROVE  /\ Append(s, e) \in Seq(S)
           /\ Len(Append(s, e)) = Len(s) + 1
           /\ Append(s, e)[Len(s) + 1] = e
           /\ \A i \in 1 .. Len(s) : Append(s, e)[i] = s[i]
  OBVIOUS

-----------------------------------------------------------------------------
(* Type correctness *)

(***************************************************************************)
(* The cells, the counters and the locals of every goroutine keep their    *)
(* types through every step of Enqueue and Dequeue (ring.go:68-111).       *)
(***************************************************************************)
THEOREM TypeCorrect == Spec => []TypeOK
  <1>1. Init => TypeOK
    <2> SUFFICES ASSUME Init PROVE TypeOK
      OBVIOUS
    <2>1. seq \in [Slots -> Nat]
      BY CapacityAssumption DEF Init, Slots
    <2>2. log \in Seq(Values)
      BY DEF Init
    <2> QED BY <2>1, <2>2 DEF Init, TypeOK, Procs, EnqLabels, DeqLabels
  <1>2. TypeOK /\ [Next]_vars => TypeOK'
    <2> SUFFICES ASSUME TypeOK, [Next]_vars PROVE TypeOK'
      OBVIOUS
    <2> USE ProcessAssumption, CapacityAssumption, IdxType
        DEF TypeOK, Procs, EnqLabels, DeqLabels
    <2>1. ASSUME NEW p \in Producers, NEW v \in Values, EnqCall(p, v)
          PROVE  TypeOK'
      BY <2>1 DEF EnqCall
    <2>2. ASSUME NEW p \in Producers, EnqLoadTail(p) PROVE TypeOK'
      BY <2>2 DEF EnqLoadTail
    <2>3. ASSUME NEW p \in Producers, EnqLoadSeq(p) PROVE TypeOK'
      BY <2>3, ZenonT(60) DEF EnqLoadSeq
    <2>4. ASSUME NEW p \in Producers, EnqCAS(p) PROVE TypeOK'
      <3>1. arg[p] \in Values
        BY <2>4 DEF EnqCAS
      <3>2. tail' \in Nat
        BY <2>4, SMTT(40) DEF EnqCAS
      <3>3. log' = log \/ log' = Append(log, arg[p])
        BY <2>4 DEF EnqCAS
      <3>4. log \in Seq(Values)
        OBVIOUS
      <3>5. Append(log, arg[p]) \in Seq(Values)
        <4> HIDE DEF TypeOK
        <4> QED BY ONLY <3>1, <3>4, AppendType
      <3>6. log' \in Seq(Values)
        <4> HIDE DEF TypeOK
        <4> QED BY ONLY <3>3, <3>4, <3>5, Zenon
      <3> QED BY <2>4, <3>2, <3>6, ZenonT(60) DEF EnqCAS
    <2>5. ASSUME NEW p \in Producers, EnqStoreVal(p) PROVE TypeOK'
      BY <2>5 DEF EnqStoreVal
    <2>6. ASSUME NEW p \in Producers, EnqPublish(p) PROVE TypeOK'
      <3>1. seq' \in [Slots -> Nat]
        BY <2>6, SMTT(40) DEF EnqPublish
      <3> QED BY <2>6, <3>1 DEF EnqPublish
    <2>7. ASSUME NEW c \in Consumers, DeqCall(c) PROVE TypeOK'
      BY <2>7 DEF DeqCall
    <2>8. ASSUME NEW c \in Consumers, DeqLoadHead(c) PROVE TypeOK'
      BY <2>8 DEF DeqLoadHead
    <2>9. ASSUME NEW c \in Consumers, DeqLoadSeq(c) PROVE TypeOK'
      BY <2>9, ZenonT(60) DEF DeqLoadSeq
    <2>10. ASSUME NEW c \in Consumers, DeqCAS(c) PROVE TypeOK'
      <3>1. head' \in Nat
        BY <2>10, SMTT(40) DEF DeqCAS
      <3> QED BY <2>10, <3>1 DEF DeqCAS
    <2>11. ASSUME NEW c \in Consumers, DeqLoadVal(c) PROVE TypeOK'
      BY <2>11 DEF DeqLoadVal
    <2>12. ASSUME NEW c \in Consumers, DeqClear(c) PROVE TypeOK'
      BY <2>12 DEF DeqClear
    <2>13. ASSUME NEW c \in Consumers, DeqRelease(c) PROVE TypeOK'
      <3>1. seq' \in [Slots -> Nat]
        <4>1. seq \in [Slots -> Nat] /\ pos[c] + Capacity \in Nat
          BY SMTT(40)
        <4>2. seq' = [seq EXCEPT ![Idx(pos[c])] = pos[c] + Capacity]
          BY <2>13 DEF DeqRelease, ReleaseTo
        <4> HIDE DEF TypeOK
        <4> QED BY ONLY <4>1, <4>2
      <3> QED BY <2>13, <3>1 DEF DeqRelease, ReleaseTo
    <2>14. CASE UNCHANGED vars
      BY <2>14 DEF vars
    <2> QED
      BY <2>1, <2>2, <2>3, <2>4, <2>5, <2>6, <2>7, <2>8, <2>9, <2>10,
         <2>11, <2>12, <2>13, <2>14
      DEF Next, EnqStep, DeqStep
  <1> QED BY <1>1, <1>2, PTL DEF Spec

-----------------------------------------------------------------------------
(* The ring invariant *)

\* Tickets less than a lap apart have different cells.
LEMMA IdxDistinct ==
    ASSUME NEW t \in Nat, NEW u \in Nat,
           t # u, t - u < Capacity, u - t < Capacity
    PROVE  Idx(t) # Idx(u)
  BY IdxInjective

LEMMA IdxPreviousLap ==
    ASSUME NEW t \in Nat, t >= Capacity
    PROVE  t - Capacity \in Nat /\ Idx(t - Capacity) = Idx(t)
  <1>1. t - Capacity \in Nat
    BY CapacityAssumption
  <1>2. Idx((t - Capacity) + Capacity) = Idx(t - Capacity)
    BY <1>1, IdxLap
  <1>3. (t - Capacity) + Capacity = t
    BY CapacityAssumption
  <1> QED BY <1>1, <1>2, <1>3

\* A step that touches neither the counters nor the cells, and neither
\* enters nor leaves a cell, can only disturb Loaded.
LEMMA LocalStep ==
    ASSUME TypeOK, RingInv,
           UNCHANGED <<head, tail, seq, val, log>>,
           \A p \in Producers :
             /\ Writing(p)' <=> Writing(p)
             /\ Writing(p) => /\ pc'[p] = pc[p]
                              /\ pos'[p] = pos[p]
                              /\ arg'[p] = arg[p],
           \A c \in Consumers :
             /\ Reading(c)' <=> Reading(c)
             /\ Reading(c) => /\ pc'[c] = pc[c]
                              /\ pos'[c] = pos[c]
                              /\ got'[c] = got[c],
           Loaded'
    PROVE  RingInv'
  <1> USE DEF RingInv
  <1>1. Window'
    BY DEF Window
  <1>2. QueuedCells'
    BY DEF QueuedCells
  <1>3. FreeCells'
    BY DEF FreeCells
  <1>4. Writers'
    BY DEF Writers
  <1>5. Readers'
    BY DEF Readers
  <1>6. Passed'
    BY DEF Passed
  <1> QED BY <1>1, <1>2, <1>3, <1>4, <1>5, <1>6

LEMMA EnqCallInv ==
    ASSUME TypeOK, RingInv, NEW p \in Producers, NEW v \in Values, EnqCall(p, v)
    PROVE  RingInv'
  <1> USE ProcessAssumption DEF TypeOK, EnqCall, Procs
  <1>1. Loaded'
    BY DEF RingInv, Loaded
  <1> QED BY <1>1, LocalStep DEF Writing, Reading

LEMMA EnqLoadTailInv ==
    ASSUME TypeOK, RingInv, NEW p \in Producers, EnqLoadTail(p)
    PROVE  RingInv'
  <1> USE ProcessAssumption DEF TypeOK, EnqLoadTail, Procs
  <1>1. Loaded'
    BY DEF RingInv, Loaded
  <1> QED BY <1>1, LocalStep DEF Writing, Reading

LEMMA EnqLoadSeqInv ==
    ASSUME TypeOK, RingInv, NEW p \in Producers, EnqLoadSeq(p)
    PROVE  RingInv'
  <1>1. pos[p] \in Nat /\ seq[Idx(pos[p])] \in Nat
    BY IdxType DEF TypeOK, Procs
  <1>2. pc'[p] = "e_cas" => seq[Idx(pos[p])] = pos[p]
    BY <1>1 DEF TypeOK, EnqLoadSeq, Procs
  <1>3. /\ pc[p] = "e_seq"
        /\ pc'[p] \in {"idle", "e_tail", "e_cas"}
        /\ \A x \in Procs \ {p} : pc'[x] = pc[x]
        /\ UNCHANGED <<head, tail, seq, val, pos, arg, got, log>>
    BY DEF TypeOK, EnqLoadSeq, Procs
  <1>4. Loaded'
    BY <1>2, <1>3, ProcessAssumption DEF RingInv, Loaded, Procs
  <1> QED BY <1>3, <1>4, LocalStep, ProcessAssumption DEF Writing, Reading, Procs

LEMMA DeqCallInv ==
    ASSUME TypeOK, RingInv, NEW c \in Consumers, DeqCall(c)
    PROVE  RingInv'
  <1> USE ProcessAssumption DEF TypeOK, DeqCall, Procs
  <1>1. Loaded'
    BY DEF RingInv, Loaded
  <1> QED BY <1>1, LocalStep DEF Writing, Reading

LEMMA DeqLoadHeadInv ==
    ASSUME TypeOK, RingInv, NEW c \in Consumers, DeqLoadHead(c)
    PROVE  RingInv'
  <1> USE ProcessAssumption DEF TypeOK, DeqLoadHead, Procs
  <1>1. Loaded'
    BY DEF RingInv, Loaded
  <1> QED BY <1>1, LocalStep DEF Writing, Reading

LEMMA DeqLoadSeqInv ==
    ASSUME TypeOK, RingInv, NEW c \in Consumers, DeqLoadSeq(c)
    PROVE  RingInv'
  <1>1. pos[c] \in Nat /\ seq[Idx(pos[c])] \in Nat
    BY IdxType DEF TypeOK, Procs
  <1>2. pc'[c] = "d_cas" => seq[Idx(pos[c])] = pos[c] + 1
    BY <1>1 DEF TypeOK, DeqLoadSeq, Procs
  <1>3. /\ pc[c] = "d_seq"
        /\ pc'[c] \in {"idle", "d_head", "d_cas"}
        /\ \A x \in Procs \ {c} : pc'[x] = pc[x]
        /\ UNCHANGED <<head, tail, seq, val, pos, arg, got, log>>
    BY DEF TypeOK, DeqLoadSeq, Procs
  <1>4. Loaded'
    BY <1>2, <1>3, ProcessAssumption DEF RingInv, Loaded, Procs
  <1> QED BY <1>3, <1>4, LocalStep, ProcessAssumption DEF Writing, Reading, Procs

LEMMA EnqCASInv ==
    ASSUME TypeOK, RingInv, NEW p \in Producers, EnqCAS(p)
    PROVE  RingInv'
  <1>1. CASE tail # pos[p]
    <2>1. /\ pc[p] = "e_cas" /\ pc'[p] = "e_tail"
          /\ \A x \in Procs \ {p} : pc'[x] = pc[x]
          /\ UNCHANGED <<head, tail, seq, val, pos, arg, got, log>>
      BY <1>1 DEF TypeOK, EnqCAS, Procs
    <2>2. Loaded'
      BY <2>1, ProcessAssumption DEF RingInv, Loaded, Procs
    <2> QED
      BY <2>1, <2>2, LocalStep, ProcessAssumption DEF Writing, Reading, Procs
  <1>2. CASE tail = pos[p]
    <2>1. /\ pc[p] = "e_cas" /\ pc'[p] = "e_val"
          /\ \A x \in Procs \ {p} : pc'[x] = pc[x]
          /\ tail' = tail + 1
          /\ log' = Append(log, arg[p])
          /\ UNCHANGED <<head, seq, val, pos, arg, got>>
      BY <1>2 DEF TypeOK, EnqCAS, Procs
    <2>2. /\ head \in Nat /\ tail \in Nat
          /\ seq \in [Slots -> Nat]
          /\ pos \in [Procs -> Nat]
          /\ Len(log) = tail /\ head <= tail /\ tail <= head + Capacity
      BY DEF TypeOK, RingInv, Window
    <2>3. seq[Idx(tail)] = tail
      BY <1>2, <2>1 DEF RingInv, Loaded
    <2>4. /\ Len(log') = tail + 1
          /\ log'[tail + 1] = arg[p]
          /\ \A i \in 1 .. tail : log'[i] = log[i]
      <3>1. log \in Seq(Values) /\ arg[p] \in Values
        BY <2>1 DEF TypeOK, EnqLabels
      <3> QED BY <2>1, <2>2, <3>1, AppendType
    \* The compare-and-swap cannot succeed on a full ring: the cell would
    \* carry the sequence number of the ticket a lap behind.
    <2>5. tail < head + Capacity
      <3> SUFFICES ASSUME tail = head + Capacity PROVE FALSE
        BY <2>2, CapacityAssumption
      <3>1. Idx(tail) = Idx(head)
        BY <2>2, IdxLap
      <3>2. head \in head .. tail - 1
        BY <2>2, CapacityAssumption
      <3>3. seq[Idx(head)] \in {head, head + 1}
        BY <3>2 DEF RingInv, QueuedCells
      <3> QED BY <2>2, <2>3, <3>1, <3>3, CapacityAssumption
    <2>6. Window'
      BY <2>1, <2>2, <2>4, <2>5, CapacityAssumption DEF Window
    <2>7. QueuedCells'
      <3> SUFFICES ASSUME NEW t \in head .. tail
                   PROVE  \/ /\ seq[Idx(t)] = t
                             /\ \E q \in Producers : Writing(q)' /\ pos[q] = t
                          \/ /\ seq[Idx(t)] = t + 1
                             /\ val[Idx(t)] = log'[t + 1]
        BY <2>1, <2>2 DEF QueuedCells
      <3>1. CASE t = tail
        BY <1>2, <2>1, <2>3, <3>1 DEF Writing
      <3>2. CASE t # tail
        <4>1. t \in head .. tail - 1 /\ t + 1 \in 1 .. tail
          BY <2>2, <3>2
        <4>2. \A q \in Producers : Writing(q) => Writing(q)'
          BY <2>1 DEF Writing, Procs
        <4> QED BY <2>4, <4>1, <4>2 DEF RingInv, QueuedCells
      <3> QED BY <3>1, <3>2
    <2>8. FreeCells'
      <3>1. \A c \in Consumers : Reading(c)' <=> Reading(c)
        BY <2>1, ProcessAssumption DEF Reading, Procs
      <3>2. tail' .. head' + Capacity - 1 \subseteq tail .. head + Capacity - 1
        BY <2>1, <2>2, CapacityAssumption
      <3> QED BY <2>1, <3>1, <3>2 DEF RingInv, FreeCells
    <2>9. Writers'
      <3>1. \A q \in Producers \ {p} : Writing(q)' <=> Writing(q)
        BY <2>1 DEF Writing, Procs
      <3>2. \A q \in Producers : Writing(q) => pos[q] < tail /\ pos[q] + 1 \in 1 .. tail
        BY <2>2 DEF RingInv, Writers, Procs
      <3>3. ~Writing(p)
        BY <2>1 DEF Writing
      <3> SUFFICES ASSUME NEW q \in Producers, Writing(q)'
                   PROVE  /\ head <= pos[q] /\ pos[q] < tail + 1
                          /\ seq[Idx(pos[q])] = pos[q]
                          /\ arg[q] = log'[pos[q] + 1]
                          /\ pc'[q] = "e_pub" => val[Idx(pos[q])] = arg[q]
                          /\ \A r \in Producers :
                               Writing(r)' /\ pos[r] = pos[q] => r = q
        BY <2>1 DEF Writers
      <3>4. CASE q = p
        BY <1>2, <2>1, <2>2, <2>3, <2>4, <3>1, <3>2, <3>4
      <3>5. CASE q # p
        <4>1. Writing(q) /\ pc'[q] = pc[q]
          BY <2>1, <3>1, <3>5 DEF Procs
        <4>2. \A r \in Producers : Writing(r)' /\ pos[r] = pos[q] => r = q
          BY <1>2, <2>2, <3>1, <3>2, <3>5, <4>1 DEF RingInv, Writers
        <4> QED BY <2>2, <2>4, <3>2, <4>1, <4>2 DEF RingInv, Writers, Procs
      <3> QED BY <3>4, <3>5
    <2>10. Readers'
      <3>1. \A c \in Consumers : pc'[c] = pc[c] /\ (Reading(c)' <=> Reading(c))
        BY <2>1, ProcessAssumption DEF Reading, Procs
      <3>2. ASSUME NEW c \in Consumers, Reading(c)
            PROVE  tail + 1 <= pos[c] + Capacity /\ pos[c] + 1 \in 1 .. tail
        <4>1. /\ pos[c] \in Nat /\ pos[c] < head
              /\ tail <= pos[c] + Capacity
              /\ seq[Idx(pos[c])] = pos[c] + 1
          BY <2>2, <3>2 DEF RingInv, Readers, Procs
        <4>2. tail # pos[c] + Capacity
          BY <2>3, <4>1, IdxLap, CapacityAssumption
        <4>3. Capacity \in Nat /\ head \in Nat /\ tail \in Nat /\ head <= tail
          BY <2>2, CapacityAssumption
        <4> QED BY ONLY <4>1, <4>2, <4>3
      <3> QED BY <2>1, <2>4, <3>1, <3>2, ZenonT(60) DEF RingInv, Readers
    <2>11. Loaded'
      <3>1. /\ \A q \in Producers : q # p => pc'[q] = pc[q]
            /\ \A c \in Consumers : pc'[c] = pc[c]
            /\ \A x \in Producers \cup Consumers : pos[x] \in Nat
        BY <2>1, <2>2, ProcessAssumption DEF Procs
      <3>2. ASSUME NEW q \in Producers, pc'[q] \in {"e_seq", "e_cas"}
            PROVE  /\ pos[q] <= tail + 1 /\ pos[q] # tail + 1
        <4>1. q # p /\ pos[q] <= tail
          BY <2>1, <3>1, <3>2 DEF RingInv, Loaded
        <4> QED BY <2>2, <3>1, <4>1
      <3> QED BY <2>1, <3>1, <3>2 DEF RingInv, Loaded
    <2>12. Passed'
      <3>1. \A t \in 0 .. tail : t = tail \/ t \in 0 .. tail - 1
        BY <2>2
      <3>2. \A t \in 0 .. tail : seq[Idx(t)] >= t
        BY <2>2, <2>3, <3>1 DEF RingInv, Passed
      <3> QED BY <2>1, <2>2, <3>2 DEF RingInv, Passed
    <2> QED BY <2>6, <2>7, <2>8, <2>9, <2>10, <2>11, <2>12 DEF RingInv
  <1> QED BY <1>1, <1>2

LEMMA DeqCASInv ==
    ASSUME TypeOK, RingInv, NEW c \in Consumers, DeqCAS(c)
    PROVE  RingInv'
  <1>1. CASE head # pos[c]
    <2>1. /\ pc[c] = "d_cas" /\ pc'[c] = "d_head"
          /\ \A x \in Procs \ {c} : pc'[x] = pc[x]
          /\ UNCHANGED <<head, tail, seq, val, pos, arg, got, log>>
      BY <1>1 DEF TypeOK, DeqCAS, Procs
    <2>2. Loaded'
      BY <2>1, ProcessAssumption DEF RingInv, Loaded, Procs
    <2> QED
      BY <2>1, <2>2, LocalStep, ProcessAssumption DEF Writing, Reading, Procs
  <1>2. CASE head = pos[c]
    <2>1. /\ pc[c] = "d_cas" /\ pc'[c] = "d_load"
          /\ \A x \in Procs \ {c} : pc'[x] = pc[x]
          /\ head' = head + 1
          /\ UNCHANGED <<tail, seq, val, pos, arg, got, log>>
      BY <1>2 DEF TypeOK, DeqCAS, Procs
    <2>2. /\ head \in Nat /\ tail \in Nat
          /\ seq \in [Slots -> Nat]
          /\ pos \in [Procs -> Nat]
          /\ Len(log) = tail /\ head <= tail /\ tail <= head + Capacity
      BY DEF TypeOK, RingInv, Window
    <2>3. seq[Idx(head)] = head + 1
      BY <1>2, <2>1 DEF RingInv, Loaded
    \* The compare-and-swap cannot succeed on an empty ring.
    <2>4. head < tail
      <3> SUFFICES ASSUME head = tail PROVE FALSE
        BY <2>2
      <3>1. head \in tail .. head + Capacity - 1
        BY <2>2, CapacityAssumption
      <3>2. seq[Idx(head)] \in {head, head - Capacity + 1}
        BY <3>1 DEF RingInv, FreeCells
      <3> QED BY <2>2, <2>3, <3>2, CapacityAssumption
    <2>5. val[Idx(head)] = log[head + 1]
      <3>1. head \in head .. tail - 1
        BY <2>2, <2>4
      <3> QED BY <2>2, <2>3, <3>1 DEF RingInv, QueuedCells
    <2>6. Window'
      BY <2>1, <2>2, <2>4, CapacityAssumption DEF RingInv, Window
    <2>7. QueuedCells'
      <3>1. \A q \in Producers : Writing(q)' <=> Writing(q)
        BY <2>1, ProcessAssumption DEF Writing, Procs
      <3>2. head' .. tail' - 1 \subseteq head .. tail - 1
        BY <2>1, <2>2
      <3> QED BY <2>1, <3>1, <3>2 DEF RingInv, QueuedCells
    <2>8. FreeCells'
      <3>1. \A d \in Consumers : Reading(d) => Reading(d)'
        BY <2>1 DEF Reading, Procs
      <3>2. Reading(c)'
        BY <2>1 DEF Reading
      <3> SUFFICES ASSUME NEW t \in tail .. head + Capacity
                   PROVE  \/ seq[Idx(t)] = t
                          \/ /\ seq[Idx(t)] = t - Capacity + 1
                             /\ \E d \in Consumers :
                                  Reading(d)' /\ pos[d] = t - Capacity
        BY <2>1, <2>2, CapacityAssumption, SMTT(40) DEF FreeCells
      <3>3. CASE t = head + Capacity
        <4>1. Idx(t) = Idx(head) /\ t - Capacity = head
          BY <2>2, <3>3, IdxLap, CapacityAssumption
        <4> QED BY <1>2, <2>3, <3>2, <4>1
      <3>4. CASE t # head + Capacity
        <4>1. t \in tail .. head + Capacity - 1
          BY <2>2, <3>4, CapacityAssumption
        <4> QED BY <3>1, <4>1 DEF RingInv, FreeCells
      <3> QED BY <3>3, <3>4
    <2>9. Writers'
      <3>1. \A q \in Producers : pc'[q] = pc[q] /\ (Writing(q)' <=> Writing(q))
        BY <2>1, ProcessAssumption DEF Writing, Procs
      <3>2. \A q \in Producers : Writing(q) => head + 1 <= pos[q]
        <4> SUFFICES ASSUME NEW q \in Producers, Writing(q) PROVE head + 1 <= pos[q]
          OBVIOUS
        <4>1. pos[q] \in Nat /\ head <= pos[q] /\ seq[Idx(pos[q])] = pos[q]
          BY <2>2 DEF RingInv, Writers, Procs
        <4> QED BY <2>2, <2>3, <4>1
      <3> QED BY <2>1, <3>1, <3>2 DEF RingInv, Writers
    <2>10. Readers'
      <3>1. \A d \in Consumers \ {c} :
              pc'[d] = pc[d] /\ (Reading(d)' <=> Reading(d))
        BY <2>1 DEF Reading, Procs
      <3>2. \A d \in Consumers : Reading(d) => pos[d] < head
        BY DEF RingInv, Readers
      <3> SUFFICES ASSUME NEW d \in Consumers, Reading(d)'
                   PROVE  /\ pos[d] < head + 1 /\ tail <= pos[d] + Capacity
                          /\ seq[Idx(pos[d])] = pos[d] + 1
                          /\ pc'[d] = "d_load" => val[Idx(pos[d])] = log[pos[d] + 1]
                          /\ pc'[d] # "d_load" => got[d] = log[pos[d] + 1]
                          /\ \A e \in Consumers :
                               Reading(e)' /\ pos[e] = pos[d] => e = d
        BY <2>1 DEF Readers
      <3>3. CASE d = c
        BY <1>2, <2>1, <2>2, <2>3, <2>5, <3>1, <3>2, <3>3
      <3>4. CASE d # c
        <4>1. Reading(d) /\ pc'[d] = pc[d]
          BY <3>1, <3>4
        <4>2. \A e \in Consumers : Reading(e)' /\ pos[e] = pos[d] => e = d
          BY <1>2, <2>2, <3>1, <3>2, <3>4, <4>1 DEF RingInv, Readers
        <4> QED BY <2>2, <4>1, <4>2 DEF RingInv, Readers, Procs
      <3> QED BY <3>3, <3>4
    <2>11. Loaded'
      BY <2>1, <2>2, ProcessAssumption DEF RingInv, Loaded, Procs
    <2>12. Passed'
      <3>1. \A t \in 0 .. head : t = head \/ t \in 0 .. head - 1
        BY <2>2
      <3>2. \A t \in 0 .. head : seq[Idx(t)] >= t + 1
        BY <2>2, <2>3, <3>1 DEF RingInv, Passed
      <3> QED BY <2>1, <2>2, <3>2 DEF RingInv, Passed
    <2> QED BY <2>6, <2>7, <2>8, <2>9, <2>10, <2>11, <2>12 DEF RingInv
  <1> QED BY <1>1, <1>2

LEMMA EnqStoreValInv ==
    ASSUME TypeOK, RingInv, NEW p \in Producers, EnqStoreVal(p)
    PROVE  RingInv'
  <1>1. /\ pc[p] = "e_val" /\ pc'[p] = "e_pub"
        /\ \A x \in Procs \ {p} : pc'[x] = pc[x]
        /\ UNCHANGED <<head, tail, seq, pos, arg, got, log>>
    BY DEF TypeOK, EnqStoreVal, Procs
  <1>2. /\ head \in Nat /\ tail \in Nat
        /\ pos \in [Procs -> Nat]
        /\ head <= tail /\ tail <= head + Capacity
    BY DEF TypeOK, RingInv, Window
  <1>3. /\ val'[Idx(pos[p])] = arg[p]
        /\ \A t \in Nat : Idx(t) # Idx(pos[p]) => val'[Idx(t)] = val[Idx(t)]
    BY IdxType DEF TypeOK, EnqStoreVal, Procs
  <1>4. /\ pos[p] \in Nat /\ head <= pos[p] /\ pos[p] < tail
        /\ seq[Idx(pos[p])] = pos[p]
        /\ Writing(p) /\ Writing(p)'
    BY <1>1, <1>2 DEF RingInv, Writers, Writing, Procs
  <1>5. /\ \A q \in Producers : Writing(q)' <=> Writing(q)
        /\ \A c \in Consumers : pc'[c] = pc[c] /\ (Reading(c)' <=> Reading(c))
    BY <1>1, ProcessAssumption DEF Writing, Reading, Procs
  <1>6. \A t \in head .. tail - 1 : t # pos[p] => val'[Idx(t)] = val[Idx(t)]
    BY <1>2, <1>3, <1>4, IdxDistinct, CapacityAssumption
  <1>7. Window' /\ FreeCells' /\ Passed'
    BY <1>1, <1>5 DEF RingInv, Window, FreeCells, Passed
  <1>8. QueuedCells'
    <2> SUFFICES ASSUME NEW t \in head .. tail - 1
                 PROVE  \/ /\ seq[Idx(t)] = t
                           /\ \E q \in Producers : Writing(q)' /\ pos[q] = t
                        \/ /\ seq[Idx(t)] = t + 1
                           /\ val'[Idx(t)] = log[t + 1]
      BY <1>1 DEF QueuedCells
    <2>1. CASE t = pos[p]
      BY <1>4, <2>1
    <2>2. CASE t # pos[p]
      BY <1>5, <1>6, <2>2 DEF RingInv, QueuedCells
    <2> QED BY <2>1, <2>2
  <1>9. Writers'
    <2>1. \A q \in Producers \ {p} : Writing(q) => val'[Idx(pos[q])] = val[Idx(pos[q])]
      <3> SUFFICES ASSUME NEW q \in Producers \ {p}, Writing(q)
                   PROVE  val'[Idx(pos[q])] = val[Idx(pos[q])]
        OBVIOUS
      <3>1. pos[q] \in head .. tail - 1 /\ pos[q] # pos[p]
        BY <1>2, <1>4 DEF RingInv, Writers, Procs
      <3> QED BY <1>6, <3>1
    <2> QED BY <1>1, <1>3, <1>5, <2>1 DEF RingInv, Writers, Procs
  <1>10. Readers'
    <2>1. \A c \in Consumers : Reading(c) => val'[Idx(pos[c])] = val[Idx(pos[c])]
      <3> SUFFICES ASSUME NEW c \in Consumers, Reading(c)
                   PROVE  val'[Idx(pos[c])] = val[Idx(pos[c])]
        OBVIOUS
      <3>1. pos[c] \in Nat /\ pos[c] < head /\ tail <= pos[c] + Capacity
        BY <1>2 DEF RingInv, Readers, Procs
      <3>2. Idx(pos[c]) # Idx(pos[p])
        <4>1. Capacity \in Nat /\ head \in Nat /\ tail \in Nat
          BY <1>2, CapacityAssumption
        <4>2. /\ pos[p] \in Nat /\ pos[c] # pos[p]
              /\ pos[c] - pos[p] < Capacity /\ pos[p] - pos[c] < Capacity
          BY ONLY <1>4, <3>1, <4>1
        <4> QED BY <3>1, <4>2, IdxDistinct
      <3> QED BY <1>3, <3>1, <3>2
    <2> QED BY <1>1, <1>5, <2>1 DEF RingInv, Readers
  <1>11. Loaded'
    BY <1>1, ProcessAssumption DEF RingInv, Loaded, Procs
  <1> QED BY <1>7, <1>8, <1>9, <1>10, <1>11 DEF RingInv

LEMMA EnqPublishInv ==
    ASSUME TypeOK, RingInv, NEW p \in Producers, EnqPublish(p)
    PROVE  RingInv'
  <1>1. /\ pc[p] = "e_pub" /\ pc'[p] = "idle"
        /\ \A x \in Procs \ {p} : pc'[x] = pc[x]
        /\ UNCHANGED <<head, tail, val, pos, arg, got, log>>
    BY DEF TypeOK, EnqPublish, Procs
  <1>2. /\ head \in Nat /\ tail \in Nat
        /\ seq \in [Slots -> Nat]
        /\ pos \in [Procs -> Nat]
        /\ head <= tail /\ tail <= head + Capacity
    BY DEF TypeOK, RingInv, Window
  <1>3. /\ seq'[Idx(pos[p])] = pos[p] + 1
        /\ \A t \in Nat : Idx(t) # Idx(pos[p]) => seq'[Idx(t)] = seq[Idx(t)]
    BY IdxType DEF TypeOK, EnqPublish, Procs
  <1>4. /\ pos[p] \in Nat /\ head <= pos[p] /\ pos[p] < tail
        /\ seq[Idx(pos[p])] = pos[p]
        /\ val[Idx(pos[p])] = log[pos[p] + 1]
    BY <1>1, <1>2 DEF RingInv, Writers, Writing, Procs
  <1>5. /\ \A q \in Producers \ {p} : pc'[q] = pc[q] /\ (Writing(q)' <=> Writing(q))
        /\ Writing(p) /\ ~Writing(p)'
        /\ \A c \in Consumers : pc'[c] = pc[c] /\ (Reading(c)' <=> Reading(c))
    BY <1>1, ProcessAssumption DEF Writing, Reading, Procs
  <1>6. \A t \in head .. head + Capacity - 1 :
          t # pos[p] => seq'[Idx(t)] = seq[Idx(t)]
    BY <1>2, <1>3, <1>4, IdxDistinct, CapacityAssumption
  <1>7. Window'
    BY <1>1 DEF RingInv, Window
  <1>8. QueuedCells'
    <2> SUFFICES ASSUME NEW t \in head .. tail - 1
                 PROVE  \/ /\ seq'[Idx(t)] = t
                           /\ \E q \in Producers : Writing(q)' /\ pos[q] = t
                        \/ /\ seq'[Idx(t)] = t + 1
                           /\ val[Idx(t)] = log[t + 1]
      BY <1>1 DEF QueuedCells
    <2>1. CASE t = pos[p]
      BY <1>3, <1>4, <2>1
    <2>2. CASE t # pos[p]
      <3>1. seq'[Idx(t)] = seq[Idx(t)]
        BY <1>2, <1>6, <2>2, CapacityAssumption
      <3> QED BY <1>5, <2>2, <3>1 DEF RingInv, QueuedCells
    <2> QED BY <2>1, <2>2
  <1>9. FreeCells'
    <2>1. \A t \in tail .. head + Capacity - 1 : seq'[Idx(t)] = seq[Idx(t)]
      BY <1>2, <1>4, <1>6, CapacityAssumption
    <2> QED BY <1>1, <1>5, <2>1 DEF RingInv, FreeCells
  <1>10. Writers'
    <2>1. \A q \in Producers \ {p} : Writing(q) => seq'[Idx(pos[q])] = seq[Idx(pos[q])]
      <3> SUFFICES ASSUME NEW q \in Producers \ {p}, Writing(q)
                   PROVE  seq'[Idx(pos[q])] = seq[Idx(pos[q])]
        OBVIOUS
      <3>1. pos[q] \in head .. head + Capacity - 1 /\ pos[q] # pos[p]
        BY <1>2, <1>4, <1>5, CapacityAssumption DEF RingInv, Writers, Procs
      <3> QED BY <1>6, <3>1
    <2> QED BY <1>1, <1>5, <2>1 DEF RingInv, Writers
  <1>11. Readers'
    <2>1. \A c \in Consumers : Reading(c) => seq'[Idx(pos[c])] = seq[Idx(pos[c])]
      <3> SUFFICES ASSUME NEW c \in Consumers, Reading(c)
                   PROVE  seq'[Idx(pos[c])] = seq[Idx(pos[c])]
        OBVIOUS
      <3>1. pos[c] \in Nat /\ pos[c] < head /\ tail <= pos[c] + Capacity
        BY <1>2 DEF RingInv, Readers, Procs
      <3>2. Idx(pos[c]) # Idx(pos[p])
        <4>1. Capacity \in Nat /\ head \in Nat /\ tail \in Nat
          BY <1>2, CapacityAssumption
        <4>2. /\ pos[p] \in Nat /\ pos[c] # pos[p]
              /\ pos[c] - pos[p] < Capacity /\ pos[p] - pos[c] < Capacity
          BY ONLY <1>4, <3>1, <4>1
        <4> QED BY <3>1, <4>2, IdxDistinct
      <3> QED BY <1>3, <3>1, <3>2
    <2> QED BY <1>1, <1>5, <2>1 DEF RingInv, Readers
  <1>12. Loaded'
    <2>1. seq[Idx(tail)] = tail => seq'[Idx(tail)] = tail
      <3> SUFFICES ASSUME seq[Idx(tail)] = tail PROVE seq'[Idx(tail)] = tail
        OBVIOUS
      <3>1. tail # pos[p] + Capacity
        BY <1>2, <1>4, IdxLap, CapacityAssumption
      <3>2. Idx(tail) # Idx(pos[p])
        BY <1>2, <1>4, <3>1, IdxDistinct, CapacityAssumption, SMTT(40)
      <3> QED BY <1>2, <1>3, <3>2
    <2>2. seq[Idx(head)] = head + 1 => seq'[Idx(head)] = head + 1
      <3>1. head \in head .. head + Capacity - 1
        BY <1>2, CapacityAssumption
      <3> QED BY <1>2, <1>4, <1>6, <3>1
    <2> QED BY <1>1, <2>1, <2>2, ProcessAssumption DEF RingInv, Loaded, Procs
  <1>13. Passed'
    <2>1. \A t \in Nat : seq'[Idx(t)] >= seq[Idx(t)]
      BY <1>2, <1>3, <1>4, IdxType
    <2>2. \A t \in Nat : seq[Idx(t)] \in Nat /\ seq'[Idx(t)] \in Nat
      BY <1>2, <1>3, <1>4, IdxType
    <2>3. \A t \in 0 .. tail - 1 : seq'[Idx(t)] >= t
      BY <1>2, <2>1, <2>2 DEF RingInv, Passed
    <2>4. \A t \in 0 .. head - 1 : seq'[Idx(t)] >= t + 1
      BY <1>2, <2>1, <2>2 DEF RingInv, Passed
    <2> QED BY <1>1, <2>3, <2>4 DEF Passed
  <1> QED BY <1>7, <1>8, <1>9, <1>10, <1>11, <1>12, <1>13 DEF RingInv

LEMMA DeqLoadValInv ==
    ASSUME TypeOK, RingInv, NEW c \in Consumers, DeqLoadVal(c)
    PROVE  RingInv'
  <1>1. /\ pc[c] = "d_load" /\ pc'[c] = "d_clear"
        /\ \A x \in Procs \ {c} : pc'[x] = pc[x]
        /\ UNCHANGED <<head, tail, seq, val, pos, arg, log>>
    BY DEF TypeOK, DeqLoadVal, Procs
  <1>2. /\ got'[c] = val[Idx(pos[c])]
        /\ \A d \in Consumers \ {c} : got'[d] = got[d]
    BY DEF TypeOK, DeqLoadVal, Procs
  <1>3. /\ \A q \in Producers : pc'[q] = pc[q] /\ (Writing(q)' <=> Writing(q))
        /\ \A d \in Consumers : Reading(d)' <=> Reading(d)
    BY <1>1, ProcessAssumption DEF Writing, Reading, Procs
  <1>4. Window' /\ QueuedCells' /\ FreeCells' /\ Passed'
    BY <1>1, <1>3 DEF RingInv, Window, QueuedCells, FreeCells, Passed
  <1>5. Writers'
    BY <1>1, <1>3 DEF RingInv, Writers
  <1>6. Readers'
    BY <1>1, <1>2, <1>3 DEF RingInv, Readers, Procs
  <1>7. Loaded'
    BY <1>1, ProcessAssumption DEF RingInv, Loaded, Procs
  <1> QED BY <1>4, <1>5, <1>6, <1>7 DEF RingInv

LEMMA DeqClearInv ==
    ASSUME TypeOK, RingInv, NEW c \in Consumers, DeqClear(c)
    PROVE  RingInv'
  <1>1. /\ pc[c] = "d_clear" /\ pc'[c] = "d_rel"
        /\ \A x \in Procs \ {c} : pc'[x] = pc[x]
        /\ UNCHANGED <<head, tail, seq, pos, arg, got, log>>
    BY DEF TypeOK, DeqClear, Procs
  <1>2. /\ head \in Nat /\ tail \in Nat
        /\ pos \in [Procs -> Nat]
        /\ head <= tail /\ tail <= head + Capacity
    BY DEF TypeOK, RingInv, Window
  <1>3. \A t \in Nat : Idx(t) # Idx(pos[c]) => val'[Idx(t)] = val[Idx(t)]
    BY IdxType DEF TypeOK, DeqClear, Procs
  <1>4. pos[c] \in Nat /\ pos[c] < head /\ tail <= pos[c] + Capacity
    BY <1>1, <1>2 DEF RingInv, Readers, Reading, Procs
  <1>5. /\ \A q \in Producers : pc'[q] = pc[q] /\ (Writing(q)' <=> Writing(q))
        /\ \A d \in Consumers : Reading(d)' <=> Reading(d)
    BY <1>1, ProcessAssumption DEF Writing, Reading, Procs
  <1>6. \A t \in head .. tail - 1 : val'[Idx(t)] = val[Idx(t)]
    BY <1>2, <1>3, <1>4, IdxDistinct, CapacityAssumption
  <1>7. Window' /\ FreeCells' /\ Passed'
    BY <1>1, <1>5 DEF RingInv, Window, FreeCells, Passed
  <1>8. QueuedCells'
    BY <1>1, <1>5, <1>6 DEF RingInv, QueuedCells
  <1>9. Writers'
    <2>1. \A q \in Producers : Writing(q) => val'[Idx(pos[q])] = val[Idx(pos[q])]
      BY <1>2, <1>6 DEF RingInv, Writers, Procs
    <2> QED BY <1>1, <1>5, <2>1 DEF RingInv, Writers
  <1>10. Readers'
    <2>1. \A d \in Consumers \ {c} :
            Reading(d) => val'[Idx(pos[d])] = val[Idx(pos[d])]
      <3> SUFFICES ASSUME NEW d \in Consumers \ {c}, Reading(d)
                   PROVE  val'[Idx(pos[d])] = val[Idx(pos[d])]
        OBVIOUS
      <3>1. Reading(c)
        BY <1>1 DEF Reading
      <3>2. /\ pos[d] \in Nat /\ pos[d] < head /\ tail <= pos[d] + Capacity
            /\ pos[d] # pos[c]
        BY <1>2, <3>1 DEF RingInv, Readers, Procs
      <3>3. Idx(pos[d]) # Idx(pos[c])
        BY <1>2, <1>4, <3>2, IdxDistinct, CapacityAssumption
      <3> QED BY <1>3, <3>2, <3>3
    <2> QED BY <1>1, <1>5, <2>1 DEF RingInv, Readers, Procs
  <1>11. Loaded'
    BY <1>1, ProcessAssumption DEF RingInv, Loaded, Procs
  <1> QED BY <1>7, <1>8, <1>9, <1>10, <1>11 DEF RingInv

LEMMA DeqReleaseInv ==
    ASSUME TypeOK, RingInv, NEW c \in Consumers, DeqRelease(c)
    PROVE  RingInv'
  <1>1. /\ pc[c] = "d_rel" /\ pc'[c] = "idle"
        /\ \A x \in Procs \ {c} : pc'[x] = pc[x]
        /\ UNCHANGED <<head, tail, val, pos, arg, got, log>>
    BY DEF TypeOK, DeqRelease, ReleaseTo, Procs
  <1>2. /\ head \in Nat /\ tail \in Nat
        /\ seq \in [Slots -> Nat]
        /\ pos \in [Procs -> Nat]
        /\ head <= tail /\ tail <= head + Capacity
    BY DEF TypeOK, RingInv, Window
  <1>3. /\ seq'[Idx(pos[c])] = pos[c] + Capacity
        /\ \A t \in Nat : Idx(t) # Idx(pos[c]) => seq'[Idx(t)] = seq[Idx(t)]
    BY IdxType DEF TypeOK, DeqRelease, ReleaseTo, Procs
  <1>4. /\ pos[c] \in Nat /\ pos[c] < head /\ tail <= pos[c] + Capacity
        /\ seq[Idx(pos[c])] = pos[c] + 1
    BY <1>1, <1>2 DEF RingInv, Readers, Reading, Procs
  <1>5. /\ \A q \in Producers : pc'[q] = pc[q] /\ (Writing(q)' <=> Writing(q))
        /\ \A d \in Consumers \ {c} : pc'[d] = pc[d] /\ (Reading(d)' <=> Reading(d))
        /\ Reading(c) /\ ~Reading(c)'
    BY <1>1, ProcessAssumption DEF Writing, Reading, Procs
  <1>6. \A t \in head .. tail - 1 : seq'[Idx(t)] = seq[Idx(t)]
    BY <1>2, <1>3, <1>4, IdxDistinct, CapacityAssumption
  <1>7. Window'
    BY <1>1 DEF RingInv, Window
  <1>8. QueuedCells'
    BY <1>1, <1>5, <1>6 DEF RingInv, QueuedCells
  <1>9. FreeCells'
    <2> SUFFICES ASSUME NEW t \in tail .. head + Capacity - 1
                 PROVE  \/ seq'[Idx(t)] = t
                        \/ /\ seq'[Idx(t)] = t - Capacity + 1
                           /\ \E d \in Consumers :
                                Reading(d)' /\ pos[d] = t - Capacity
      BY <1>1 DEF FreeCells
    <2>1. t \in Nat /\ pos[c] + Capacity \in Nat
      BY <1>2, <1>4, CapacityAssumption
    <2>2. CASE t = pos[c] + Capacity
      BY <1>3, <1>4, <2>2, IdxLap
    <2>3. CASE t # pos[c] + Capacity
      <3>1. Idx(t) # Idx(pos[c] + Capacity)
        BY <1>2, <1>4, <2>1, <2>3, IdxDistinct, CapacityAssumption
      <3>2. seq'[Idx(t)] = seq[Idx(t)]
        BY <1>3, <1>4, <2>1, <3>1, IdxLap
      <3>3. \A d \in Consumers :
              Reading(d) /\ pos[d] = t - Capacity => Reading(d)'
        BY <1>2, <1>4, <1>5, <2>1, <2>3, CapacityAssumption
      <3> QED BY <3>2, <3>3 DEF RingInv, FreeCells
    <2> QED BY <2>2, <2>3
  <1>10. Writers'
    <2>1. \A q \in Producers : Writing(q) => seq'[Idx(pos[q])] = seq[Idx(pos[q])]
      BY <1>2, <1>6 DEF RingInv, Writers, Procs
    <2> QED BY <1>1, <1>5, <2>1 DEF RingInv, Writers
  <1>11. Readers'
    <2>1. \A d \in Consumers \ {c} :
            Reading(d) => seq'[Idx(pos[d])] = seq[Idx(pos[d])]
      <3> SUFFICES ASSUME NEW d \in Consumers \ {c}, Reading(d)
                   PROVE  seq'[Idx(pos[d])] = seq[Idx(pos[d])]
        OBVIOUS
      <3>1. /\ pos[d] \in Nat /\ pos[d] < head /\ tail <= pos[d] + Capacity
            /\ pos[d] # pos[c]
        BY <1>2, <1>5 DEF RingInv, Readers, Procs
      <3>2. Idx(pos[d]) # Idx(pos[c])
        <4>1. Capacity \in Nat /\ head \in Nat /\ tail \in Nat /\ head <= tail
          BY <1>2, CapacityAssumption
        <4>2. /\ pos[c] \in Nat /\ pos[d] # pos[c]
              /\ pos[d] - pos[c] < Capacity /\ pos[c] - pos[d] < Capacity
          BY ONLY <1>4, <3>1, <4>1
        <4> QED BY <3>1, <4>2, IdxDistinct
      <3> QED BY <1>3, <3>1, <3>2
    <2> QED BY <1>1, <1>5, <2>1 DEF RingInv, Readers
  <1>12. Loaded'
    <2>1. seq[Idx(tail)] = tail => seq'[Idx(tail)] = tail
      <3> SUFFICES ASSUME seq[Idx(tail)] = tail PROVE seq'[Idx(tail)] = tail
        OBVIOUS
      <3>1. tail # pos[c] + Capacity
        BY <1>2, <1>4, IdxLap, CapacityAssumption
      <3>2. Idx(tail) # Idx(pos[c])
        BY <1>2, <1>4, <3>1, IdxDistinct, CapacityAssumption, SMTT(40)
      <3> QED BY <1>2, <1>3, <3>2
    <2>2. seq[Idx(head)] = head + 1 => seq'[Idx(head)] = head + 1
      <3> SUFFICES ASSUME seq[Idx(head)] = head + 1
                   PROVE  seq'[Idx(head)] = head + 1
        OBVIOUS
      <3>1. head # pos[c] + Capacity
        BY <1>2, <1>4, IdxLap, CapacityAssumption
      <3>2. Idx(head) # Idx(pos[c])
        BY <1>2, <1>4, <3>1, IdxDistinct, CapacityAssumption, SMTT(40)
      <3> QED BY <1>2, <1>3, <3>2
    <2> QED BY <1>1, <2>1, <2>2, ProcessAssumption DEF RingInv, Loaded, Procs
  <1>13. Passed'
    <2>1. \A t \in Nat : seq[Idx(t)] \in Nat /\ seq'[Idx(t)] \in Nat
      BY <1>2, <1>3, <1>4, IdxType, CapacityAssumption
    <2>2. \A t \in Nat : seq'[Idx(t)] >= seq[Idx(t)]
      BY <1>2, <1>3, <1>4, <2>1, CapacityAssumption
    <2>3. \A t \in 0 .. tail - 1 : seq'[Idx(t)] >= t
      BY <1>2, <2>1, <2>2 DEF RingInv, Passed
    <2>4. \A t \in 0 .. head - 1 : seq'[Idx(t)] >= t + 1
      BY <1>2, <2>1, <2>2 DEF RingInv, Passed
    <2> QED BY <1>1, <2>3, <2>4 DEF Passed
  <1> QED BY <1>7, <1>8, <1>9, <1>10, <1>11, <1>12, <1>13 DEF RingInv

(***************************************************************************)
(* The ring never holds more tickets than cells, every queued ticket's     *)
(* cell is being written by its one producer or carries its value, every   *)
(* cell of the next lap is free or being read by the one consumer of the   *)
(* previous lap, and a compare-and-swap that succeeds does so on a cell    *)
(* that is still in the state seen (ring.go:68-111).                       *)
(***************************************************************************)
THEOREM RingInvariant == Spec => []RingInv
  <1>1. Init => RingInv
    <2> SUFFICES ASSUME Init PROVE RingInv
      OBVIOUS
    <2>1. Window
      BY CapacityAssumption DEF Init, Window
    <2>2. QueuedCells /\ Passed
      BY DEF Init, QueuedCells, Passed
    <2>3. FreeCells
      <3>1. head = 0 /\ tail = 0 /\ seq = [i \in Slots |-> i]
        BY DEF Init
      <3>2. \A t \in 0 .. Capacity - 1 : Idx(t) = t /\ t \in Slots
        BY CapacityAssumption DEF Idx, Slots
      <3>3. tail .. head + Capacity - 1 = 0 .. Capacity - 1
        BY <3>1, CapacityAssumption
      <3>4. \A t \in tail .. head + Capacity - 1 : seq[Idx(t)] = t
        BY <3>1, <3>2, <3>3
      <3> QED BY <3>4 DEF FreeCells
    <2>4. Writers /\ Readers /\ Loaded
      BY DEF Init, Writers, Readers, Loaded, Writing, Reading, Procs
    <2> QED BY <2>1, <2>2, <2>3, <2>4 DEF RingInv
  <1>2. TypeOK /\ RingInv /\ [Next]_vars => RingInv'
    <2> SUFFICES ASSUME TypeOK, RingInv, [Next]_vars PROVE RingInv'
      OBVIOUS
    <2>1. CASE UNCHANGED vars
      <3>1. Loaded'
        BY <2>1 DEF vars, RingInv, Loaded
      <3> QED BY <2>1, <3>1, LocalStep DEF vars, Writing, Reading
    <2> QED
      BY <2>1, EnqCallInv, EnqLoadTailInv, EnqLoadSeqInv, EnqCASInv,
         EnqStoreValInv, EnqPublishInv, DeqCallInv, DeqLoadHeadInv,
         DeqLoadSeqInv, DeqCASInv, DeqLoadValInv, DeqClearInv, DeqReleaseInv
      DEF Next, EnqStep, DeqStep
  <1> QED BY <1>1, <1>2, TypeCorrect, PTL DEF Spec

(***************************************************************************)
(* No two goroutines are inside the same cell at the same time, whatever   *)
(* their number, so the plain stores to cell.val between the               *)
(* compare-and-swap and the final seq.Store do not race.                   *)
(***************************************************************************)
THEOREM ExclusiveCells == Spec => []CellExclusive
  <1>1. TypeOK /\ RingInv => CellExclusive
    <2> SUFFICES ASSUME TypeOK, RingInv,
                        NEW x \in Procs, NEW y \in Procs,
                        pc[x] \in {"e_val", "e_pub", "d_load", "d_clear", "d_rel"},
                        pc[y] \in {"e_val", "e_pub", "d_load", "d_clear", "d_rel"},
                        Idx(pos[x]) = Idx(pos[y])
                 PROVE  x = y
      BY DEF CellExclusive
    <2>1. /\ head \in Nat /\ tail \in Nat
          /\ pos[x] \in Nat /\ pos[y] \in Nat
          /\ head <= tail /\ tail <= head + Capacity
      BY DEF TypeOK, RingInv, Window
    <2>2. /\ (x \in Producers /\ Writing(x)) \/ (x \in Consumers /\ Reading(x))
          /\ (y \in Producers /\ Writing(y)) \/ (y \in Consumers /\ Reading(y))
      BY DEF TypeOK, Procs, Writing, Reading, EnqLabels, DeqLabels
    <2>3. /\ \A p \in Producers : Writing(p) =>
               /\ head <= pos[p] /\ pos[p] < tail
               /\ \A q \in Producers : Writing(q) /\ pos[q] = pos[p] => q = p
          /\ \A c \in Consumers : Reading(c) =>
               /\ pos[c] < head /\ tail <= pos[c] + Capacity
               /\ \A d \in Consumers : Reading(d) /\ pos[d] = pos[c] => d = c
      BY DEF RingInv, Writers, Readers
    <2>4. pos[x] - pos[y] < Capacity /\ pos[y] - pos[x] < Capacity
      BY <2>1, <2>2, <2>3, CapacityAssumption
    <2>5. pos[x] = pos[y]
      BY <2>1, <2>4, IdxInjective
    <2> QED BY <2>1, <2>2, <2>3, <2>5
  <1> QED BY <1>1, TypeCorrect, RingInvariant, PTL

(***************************************************************************)
(* Dequeue returns, for the ticket it took, the value whose Enqueue drew   *)
(* that ticket, and never nil.                                             *)
(***************************************************************************)
THEOREM Fifo == Spec => []FifoDelivery
  <1>1. TypeOK /\ RingInv => FifoDelivery
    <2> SUFFICES ASSUME TypeOK, RingInv, NEW c \in Consumers,
                        pc[c] \in {"d_clear", "d_rel"}
                 PROVE  got[c] = log[pos[c] + 1] /\ got[c] # Nil
      BY DEF FifoDelivery
    <2>1. got[c] = log[pos[c] + 1] /\ pos[c] < head
      BY DEF RingInv, Readers, Reading
    <2>2. pos[c] + 1 \in 1 .. Len(log)
      BY <2>1 DEF TypeOK, RingInv, Window, Procs
    <2>3. log[pos[c] + 1] \in Values
      BY <2>2 DEF TypeOK
    <2> QED BY <2>1, <2>3, ValueAssumption
  <1> QED BY <1>1, TypeCorrect, RingInvariant, PTL

-----------------------------------------------------------------------------
(* The ring implements TicketQueue *)

\* The abstract variables, as the mapping of Ring!Abstract gives them.
OpenMap == [p \in Producers |-> IF Writing(p) THEN pos[p] ELSE -1]
TakenMap == [c \in Consumers |-> IF Reading(c) THEN pos[c] ELSE -1]
ResultMap == [c \in Consumers |->
                IF Reading(c) THEN log[pos[c] + 1] ELSE got[c]]
ReplyMap == [x \in Procs |-> IF pc[x] = "idle" THEN ret[x] ELSE "pending"]

MappedVars == <<log, head, OpenMap, TakenMap, ResultMap, ReplyMap>>

LEMMA StutterMaps ==
    ASSUME UNCHANGED MappedVars
    PROVE  UNCHANGED Abstract!avars
  BY DEF MappedVars, Abstract!avars, OpenMap, TakenMap, ResultMap, ReplyMap

LEMMA CallMaps ==
    ASSUME NEW x \in Procs, ReplyMap[x] # "pending",
           ReplyMap' = [ReplyMap EXCEPT ![x] = "pending"],
           UNCHANGED <<log, head, OpenMap, TakenMap, ResultMap>>
    PROVE  Abstract!Next
  <1>1. Abstract!Call(x)
    BY DEF Abstract!Call, OpenMap, TakenMap, ResultMap, ReplyMap
  <1> QED BY <1>1 DEF Abstract!Next, Abstract!Procs, Procs

LEMMA ClaimMaps ==
    ASSUME NEW p \in Producers, NEW v \in Values,
           ReplyMap[p] = "pending", OpenMap[p] = -1,
           ~(Len(log) - head >= Capacity),
           \A c \in Consumers : TakenMap[c] # -1 => TakenMap[c] # Len(log) - Capacity,
           log' = Append(log, v),
           OpenMap' = [OpenMap EXCEPT ![p] = Len(log)],
           UNCHANGED <<head, TakenMap, ResultMap, ReplyMap>>
    PROVE  Abstract!Next
  <1>1. ~Abstract!Occupied(Len(log))
    BY DEF Abstract!Occupied, Abstract!NoTicket, TakenMap
  <1>2. Abstract!Claim(p, v)
    BY <1>1 DEF Abstract!Claim, Abstract!NextTicket, Abstract!NoTicket,
                OpenMap, TakenMap, ResultMap, ReplyMap
  <1> QED BY <1>2 DEF Abstract!Next

LEMMA PublishMaps ==
    ASSUME NEW p \in Producers, OpenMap[p] # -1,
           OpenMap' = [OpenMap EXCEPT ![p] = -1],
           ReplyMap' = [ReplyMap EXCEPT ![p] = "ok"],
           UNCHANGED <<log, head, TakenMap, ResultMap>>
    PROVE  Abstract!Next
  <1>1. Abstract!Publish(p)
    BY DEF Abstract!Publish, Abstract!NoTicket,
           OpenMap, TakenMap, ResultMap, ReplyMap
  <1> QED BY <1>1 DEF Abstract!Next

LEMMA AnswerFullMaps ==
    ASSUME NEW p \in Producers, ReplyMap[p] = "pending", OpenMap[p] = -1,
           \/ Len(log) - head >= Capacity
           \/ \E c \in Consumers : /\ TakenMap[c] # -1
                                   /\ TakenMap[c] = Len(log) - Capacity,
           ReplyMap' = [ReplyMap EXCEPT ![p] = "full"],
           UNCHANGED <<log, head, OpenMap, TakenMap, ResultMap>>
    PROVE  Abstract!Next
  <1>1. Abstract!Occupied(Len(log))
    BY DEF Abstract!Occupied, Abstract!NoTicket, TakenMap
  <1>2. Abstract!AnswerFull(p)
    BY <1>1 DEF Abstract!AnswerFull, Abstract!NextTicket, Abstract!NoTicket,
                OpenMap, TakenMap, ResultMap, ReplyMap
  <1> QED BY <1>2 DEF Abstract!Next

LEMMA TakeMaps ==
    ASSUME NEW c \in Consumers, ReplyMap[c] = "pending", TakenMap[c] = -1,
           head < Len(log), \A p \in Producers : OpenMap[p] # head,
           TakenMap' = [TakenMap EXCEPT ![c] = head],
           head' = head + 1,
           ResultMap' = [ResultMap EXCEPT ![c] = log[head + 1]],
           UNCHANGED <<log, OpenMap, ReplyMap>>
    PROVE  Abstract!Next
  <1>1. Abstract!Published(head)
    BY DEF Abstract!Published, Abstract!NextTicket, OpenMap
  <1>2. Abstract!Take(c)
    BY <1>1 DEF Abstract!Take, Abstract!NoTicket,
                OpenMap, TakenMap, ResultMap, ReplyMap
  <1> QED BY <1>2 DEF Abstract!Next

LEMMA ReturnMaps ==
    ASSUME NEW c \in Consumers, TakenMap[c] # -1,
           TakenMap' = [TakenMap EXCEPT ![c] = -1],
           ReplyMap' = [ReplyMap EXCEPT ![c] = "ok"],
           UNCHANGED <<log, head, OpenMap, ResultMap>>
    PROVE  Abstract!Next
  <1>1. Abstract!Return(c)
    BY DEF Abstract!Return, Abstract!NoTicket,
           OpenMap, TakenMap, ResultMap, ReplyMap
  <1> QED BY <1>1 DEF Abstract!Next

LEMMA AnswerEmptyMaps ==
    ASSUME NEW c \in Consumers, ReplyMap[c] = "pending", TakenMap[c] = -1,
           ~(head < Len(log)) \/ \E p \in Producers : OpenMap[p] = head,
           ReplyMap' = [ReplyMap EXCEPT ![c] = "empty"],
           UNCHANGED <<log, head, OpenMap, TakenMap, ResultMap>>
    PROVE  Abstract!Next
  <1>1. ~Abstract!Published(head)
    BY DEF Abstract!Published, Abstract!NextTicket, OpenMap
  <1>2. Abstract!AnswerEmpty(c)
    BY <1>1 DEF Abstract!AnswerEmpty, Abstract!NoTicket,
                OpenMap, TakenMap, ResultMap, ReplyMap
  <1> QED BY <1>2 DEF Abstract!Next

\* Steps that touch only locals outside the cells are not visible.
LEMMA LocalStepStutters ==
    ASSUME TypeOK, NEW x \in Procs, NEW l \in EnqLabels \cup DeqLabels,
           pc[x] \in {"e_tail", "e_seq", "e_cas", "d_head", "d_seq", "d_cas"},
           l \in {"e_tail", "e_seq", "e_cas", "d_head", "d_seq", "d_cas"},
           pc' = [pc EXCEPT ![x] = l],
           \A y \in Procs : y # x => pos'[y] = pos[y],
           UNCHANGED <<head, got, ret, log>>
    PROVE  UNCHANGED MappedVars
  <1>1. /\ pc'[x] = l
        /\ \A y \in Procs : y # x => pc'[y] = pc[y]
    BY DEF TypeOK
  <1>2. OpenMap' = OpenMap
    BY <1>1 DEF OpenMap, Writing, Procs
  <1>3. TakenMap' = TakenMap
    BY <1>1 DEF TakenMap, Reading, Procs
  <1>4. ResultMap' = ResultMap
    BY <1>1 DEF ResultMap, Reading, Procs
  <1>5. ReplyMap' = ReplyMap
    BY <1>1 DEF ReplyMap
  <1> QED BY <1>2, <1>3, <1>4, <1>5 DEF MappedVars

LEMMA EnqCallMaps ==
    ASSUME TypeOK, NEW p \in Producers, NEW v \in Values, EnqCall(p, v)
    PROVE  Abstract!Next
  <1>1. /\ p \in Procs /\ pc[p] = "idle" /\ pc'[p] = "e_tail"
        /\ \A y \in Procs : y # p => pc'[y] = pc[y]
        /\ ret[p] # "pending"
        /\ UNCHANGED <<head, pos, got, ret, log>>
    BY DEF EnqCall, TypeOK, Procs
  <1>2. ReplyMap[p] # "pending" /\ ReplyMap' = [ReplyMap EXCEPT ![p] = "pending"]
    BY <1>1 DEF ReplyMap
  <1>3. UNCHANGED <<OpenMap, TakenMap, ResultMap>>
    BY <1>1, ProcessAssumption
    DEF OpenMap, TakenMap, ResultMap, Writing, Reading, Procs
  <1> QED BY <1>1, <1>2, <1>3, CallMaps

LEMMA DeqCallMaps ==
    ASSUME TypeOK, NEW c \in Consumers, DeqCall(c)
    PROVE  Abstract!Next
  <1>1. /\ c \in Procs /\ pc[c] = "idle" /\ pc'[c] = "d_head"
        /\ \A y \in Procs : y # c => pc'[y] = pc[y]
        /\ ret[c] # "pending"
        /\ UNCHANGED <<head, pos, got, ret, log>>
    BY DEF DeqCall, TypeOK, Procs
  <1>2. ReplyMap[c] # "pending" /\ ReplyMap' = [ReplyMap EXCEPT ![c] = "pending"]
    BY <1>1 DEF ReplyMap
  <1>3. UNCHANGED <<OpenMap, TakenMap, ResultMap>>
    BY <1>1, ProcessAssumption
    DEF OpenMap, TakenMap, ResultMap, Writing, Reading, Procs
  <1> QED BY <1>1, <1>2, <1>3, CallMaps

LEMMA EnqLoadSeqMaps ==
    ASSUME TypeOK, RingInv, NEW p \in Producers, EnqLoadSeq(p)
    PROVE  Abstract!Next \/ UNCHANGED Abstract!avars
  <1>1. /\ p \in Procs /\ pc[p] = "e_seq"
        /\ UNCHANGED <<head, tail, seq, val, pos, arg, got, log>>
        /\ pos[p] \in Nat /\ head \in Nat /\ tail \in Nat
        /\ seq[Idx(pos[p])] \in Nat
    BY IdxType DEF EnqLoadSeq, TypeOK, Procs
  <1>2. CASE seq[Idx(pos[p])] - pos[p] >= 0
    <2>1. /\ ret' = ret
          /\ \E l \in {"e_cas", "e_tail"} : pc' = [pc EXCEPT ![p] = l]
      BY <1>1, <1>2 DEF EnqLoadSeq
    <2>2. PICK l \in {"e_cas", "e_tail"} : pc' = [pc EXCEPT ![p] = l]
      BY <2>1
    <2>3. UNCHANGED MappedVars
      BY <1>1, <2>1, <2>2, LocalStepStutters DEF EnqLabels, DeqLabels
    <2> QED BY <2>3, StutterMaps
  <1>3. CASE seq[Idx(pos[p])] - pos[p] < 0
    <2>1. /\ ret' = [ret EXCEPT ![p] = "full"]
          /\ pc' = [pc EXCEPT ![p] = "idle"]
      BY <1>1, <1>3 DEF EnqLoadSeq
    <2>2. /\ ret'[p] = "full" /\ pc'[p] = "idle"
          /\ \A y \in Procs : y # p => pc'[y] = pc[y] /\ ret'[y] = ret[y]
      BY <1>1, <2>1 DEF TypeOK
    <2>3. ReplyMap[p] = "pending" /\ ReplyMap' = [ReplyMap EXCEPT ![p] = "full"]
      BY <1>1, <2>2 DEF ReplyMap
    <2>4. OpenMap[p] = -1
      BY <1>1 DEF OpenMap, Writing
    <2>5. UNCHANGED <<OpenMap, TakenMap, ResultMap>>
      BY <1>1, <2>2, ProcessAssumption
      DEF OpenMap, TakenMap, ResultMap, Writing, Reading, Procs
    <2>6. pos[p] = tail /\ Len(log) = tail
      BY <1>1, <1>3 DEF RingInv, Loaded, Passed, Window
    <2>7. CASE tail = head + Capacity
      <3>1. Len(log) - head >= Capacity
        BY <1>1, <2>6, <2>7, CapacityAssumption
      <3> QED BY <1>1, <2>3, <2>4, <2>5, <3>1, AnswerFullMaps
    <2>8. CASE tail # head + Capacity
      <3>1. tail \in tail .. head + Capacity - 1
        BY <1>1, <2>8, CapacityAssumption DEF RingInv, Window
      <3>2. \E c \in Consumers : Reading(c) /\ pos[c] = tail - Capacity
        BY <1>1, <1>3, <2>6, <3>1 DEF RingInv, FreeCells
      <3>3. \E c \in Consumers : TakenMap[c] # -1 /\ TakenMap[c] = Len(log) - Capacity
        BY <2>6, <3>2, SMTT(40) DEF TakenMap, TypeOK, Procs
      <3> QED BY <1>1, <2>3, <2>4, <2>5, <3>3, AnswerFullMaps
    <2> QED BY <2>7, <2>8
  <1> QED BY <1>1, <1>2, <1>3

LEMMA EnqCASMaps ==
    ASSUME TypeOK, RingInv, NEW p \in Producers, EnqCAS(p)
    PROVE  Abstract!Next \/ UNCHANGED Abstract!avars
  <1>1. /\ p \in Procs /\ pc[p] = "e_cas"
        /\ UNCHANGED <<head, seq, val, pos, arg, got, ret>>
        /\ pos[p] \in Nat /\ head \in Nat /\ tail \in Nat
        /\ arg[p] \in Values /\ log \in Seq(Values)
        /\ Len(log) = tail /\ head <= tail /\ tail <= head + Capacity
    BY DEF EnqCAS, TypeOK, Procs, EnqLabels, RingInv, Window
  <1>2. CASE tail # pos[p]
    <2>1. pc' = [pc EXCEPT ![p] = "e_tail"] /\ log' = log
      BY <1>2 DEF EnqCAS
    <2>2. UNCHANGED MappedVars
      BY <1>1, <2>1, LocalStepStutters DEF EnqLabels
    <2> QED BY <2>2, StutterMaps
  <1>3. CASE tail = pos[p]
    <2>1. /\ log' = Append(log, arg[p])
          /\ pc'[p] = "e_val"
          /\ \A y \in Procs : y # p => pc'[y] = pc[y]
      BY <1>1, <1>3 DEF EnqCAS, TypeOK
    <2>2. \A i \in 1 .. Len(log) : log'[i] = log[i]
      <3>1. \A i \in 1 .. Len(log) : Append(log, arg[p])[i] = log[i]
        BY ONLY <1>1, AppendType
      <3> QED BY ONLY <2>1, <3>1, Zenon
    <2>3. seq[Idx(tail)] = tail
      BY <1>1, <1>3 DEF RingInv, Loaded
    <2>4. Len(log) - head < Capacity
      <3> SUFFICES ASSUME tail = head + Capacity PROVE FALSE
        BY <1>1, CapacityAssumption
      <3>1. Idx(tail) = Idx(head) /\ head \in head .. tail - 1
        BY <1>1, IdxLap, CapacityAssumption
      <3>2. seq[Idx(head)] = head \/ seq[Idx(head)] = head + 1
        BY <3>1 DEF RingInv, QueuedCells
      <3> QED BY <1>1, <2>3, <3>1, <3>2, CapacityAssumption
    <2>5. \A c \in Consumers : TakenMap[c] # -1 => TakenMap[c] # Len(log) - Capacity
      <3> SUFFICES ASSUME NEW c \in Consumers, Reading(c),
                          pos[c] = tail - Capacity
                   PROVE  FALSE
        BY <1>1 DEF TakenMap
      <3>1. pos[c] \in Nat /\ tail = pos[c] + Capacity
        BY <1>1, CapacityAssumption DEF TypeOK, Procs
      <3>2. Idx(tail) = Idx(pos[c])
        BY <3>1, IdxLap
      <3>3. seq[Idx(pos[c])] = pos[c] + 1
        BY DEF RingInv, Readers
      <3> QED BY <2>3, <3>1, <3>2, <3>3, CapacityAssumption
    <2>6. ReplyMap[p] = "pending" /\ OpenMap[p] = -1
      BY <1>1 DEF ReplyMap, OpenMap, Writing
    <2>7. OpenMap' = [OpenMap EXCEPT ![p] = Len(log)]
      BY <1>1, <1>3, <2>1 DEF OpenMap, Writing, Procs
    <2>8. TakenMap' = TakenMap /\ ReplyMap' = ReplyMap
      BY <1>1, <2>1, ProcessAssumption DEF TakenMap, ReplyMap, Reading, Procs
    <2>9. ResultMap' = ResultMap
      <3>1. \A c \in Consumers : Reading(c)' = Reading(c)
        BY <1>1, <2>1, ProcessAssumption DEF Reading, Procs
      <3>2. \A c \in Consumers : Reading(c) => log'[pos[c] + 1] = log[pos[c] + 1]
        <4> SUFFICES ASSUME NEW c \in Consumers, Reading(c)
                     PROVE  pos[c] + 1 \in 1 .. Len(log)
          BY <2>2
        <4>1. pos[c] \in Nat /\ pos[c] < head
          BY DEF TypeOK, Procs, RingInv, Readers
        <4> QED BY <1>1, <4>1
      <3> QED BY <1>1, <3>1, <3>2 DEF ResultMap
    <2>10. ~(Len(log) - head >= Capacity)
      BY <1>1, <2>4, CapacityAssumption
    <2>11. Abstract!Next
      BY <1>1, <2>1, <2>5, <2>6, <2>7, <2>8, <2>9, <2>10, ClaimMaps, Zenon
    <2> QED BY <2>11
  <1> QED BY <1>2, <1>3

LEMMA EnqPublishMaps ==
    ASSUME TypeOK, RingInv, NEW p \in Producers, EnqPublish(p)
    PROVE  Abstract!Next
  <1>1. /\ p \in Procs /\ pc[p] = "e_pub" /\ pc'[p] = "idle"
        /\ \A y \in Procs : y # p => pc'[y] = pc[y] /\ ret'[y] = ret[y]
        /\ ret'[p] = "ok" /\ pos[p] \in Nat
        /\ UNCHANGED <<head, pos, got, log>>
    BY DEF EnqPublish, TypeOK, Procs
  <1>2. OpenMap' = [OpenMap EXCEPT ![p] = -1]
    BY <1>1 DEF OpenMap, Writing, Procs
  <1>3. ReplyMap' = [ReplyMap EXCEPT ![p] = "ok"]
    BY <1>1 DEF ReplyMap
  <1>4. UNCHANGED <<TakenMap, ResultMap>>
    BY <1>1, ProcessAssumption DEF TakenMap, ResultMap, Reading, Procs
  <1>5. OpenMap[p] # -1
    BY <1>1 DEF OpenMap, Writing
  <1> QED BY <1>1, <1>2, <1>3, <1>4, <1>5, PublishMaps

\* The stores and loads inside a cell are not visible either.
LEMMA CellStepStutters ==
    ASSUME TypeOK, NEW x \in Procs, NEW l,
           \/ pc[x] = "e_val" /\ l = "e_pub"
           \/ pc[x] = "d_load" /\ l = "d_clear"
           \/ pc[x] = "d_clear" /\ l = "d_rel",
           pc' = [pc EXCEPT ![x] = l],
           \A c \in Consumers : c # x => got'[c] = got[c],
           UNCHANGED <<head, pos, ret, log>>
    PROVE  UNCHANGED Abstract!avars
  <1>1. /\ pc'[x] = l
        /\ \A y \in Procs : y # x => pc'[y] = pc[y]
    BY DEF TypeOK
  <1>2. OpenMap' = OpenMap
    BY <1>1 DEF OpenMap, Writing, Procs
  <1>3. TakenMap' = TakenMap
    BY <1>1 DEF TakenMap, Reading, Procs
  <1>4. ResultMap' = ResultMap
    <2>1. \A c \in Consumers : Reading(c)' = Reading(c)
      BY <1>1 DEF Reading, Procs
    <2>2. \A c \in Consumers : ~Reading(c) => got'[c] = got[c]
      BY ProcessAssumption DEF Reading, TypeOK, DeqLabels
    <2> QED BY <2>1, <2>2 DEF ResultMap
  <1>5. ReplyMap' = ReplyMap
    BY <1>1 DEF ReplyMap
  <1> QED BY <1>2, <1>3, <1>4, <1>5, StutterMaps DEF MappedVars

LEMMA DeqLoadSeqMaps ==
    ASSUME TypeOK, RingInv, NEW c \in Consumers, DeqLoadSeq(c)
    PROVE  Abstract!Next \/ UNCHANGED Abstract!avars
  <1>1. /\ c \in Procs /\ pc[c] = "d_seq"
        /\ UNCHANGED <<head, tail, seq, val, pos, arg, got, log>>
        /\ pos[c] \in Nat /\ head \in Nat /\ tail \in Nat
        /\ seq[Idx(pos[c])] \in Nat
    BY IdxType DEF DeqLoadSeq, TypeOK, Procs
  <1>2. CASE seq[Idx(pos[c])] - (pos[c] + 1) >= 0
    <2>1. /\ ret' = ret
          /\ \E l \in {"d_cas", "d_head"} : pc' = [pc EXCEPT ![c] = l]
      BY <1>1, <1>2 DEF DeqLoadSeq
    <2>2. PICK l \in {"d_cas", "d_head"} : pc' = [pc EXCEPT ![c] = l]
      BY <2>1
    <2>3. UNCHANGED MappedVars
      BY <1>1, <2>1, <2>2, LocalStepStutters DEF EnqLabels, DeqLabels
    <2> QED BY <2>3, StutterMaps
  <1>3. CASE seq[Idx(pos[c])] - (pos[c] + 1) < 0
    <2>1. /\ ret' = [ret EXCEPT ![c] = "empty"]
          /\ pc' = [pc EXCEPT ![c] = "idle"]
      BY <1>1, <1>3 DEF DeqLoadSeq
    <2>2. /\ ret'[c] = "empty" /\ pc'[c] = "idle"
          /\ \A y \in Procs : y # c => pc'[y] = pc[y] /\ ret'[y] = ret[y]
      BY <1>1, <2>1 DEF TypeOK
    <2>3. ReplyMap[c] = "pending" /\ ReplyMap' = [ReplyMap EXCEPT ![c] = "empty"]
      BY <1>1, <2>2 DEF ReplyMap
    <2>4. TakenMap[c] = -1
      BY <1>1 DEF TakenMap, Reading
    <2>5. UNCHANGED <<OpenMap, TakenMap, ResultMap>>
      BY <1>1, <2>2, ProcessAssumption
      DEF OpenMap, TakenMap, ResultMap, Writing, Reading, Procs
    <2>6. pos[c] = head /\ Len(log) = tail
      BY <1>1, <1>3 DEF RingInv, Loaded, Passed, Window
    <2>7. ~(head < Len(log)) \/ \E p \in Producers : OpenMap[p] = head
      <3> SUFFICES ASSUME head < tail
                   PROVE  \E p \in Producers : OpenMap[p] = head
        BY <2>6
      <3>1. head \in head .. tail - 1
        BY <1>1
      <3>2. \E p \in Producers : Writing(p) /\ pos[p] = head
        BY <1>1, <1>3, <2>6, <3>1 DEF RingInv, QueuedCells
      <3> QED BY <3>2 DEF OpenMap
    <2> QED BY <1>1, <2>3, <2>4, <2>5, <2>7, AnswerEmptyMaps
  <1> QED BY <1>1, <1>2, <1>3

LEMMA DeqCASMaps ==
    ASSUME TypeOK, RingInv, NEW c \in Consumers, DeqCAS(c)
    PROVE  Abstract!Next \/ UNCHANGED Abstract!avars
  <1>1. /\ c \in Procs /\ pc[c] = "d_cas"
        /\ UNCHANGED <<tail, seq, val, pos, arg, got, ret, log>>
        /\ pos[c] \in Nat /\ head \in Nat /\ tail \in Nat
        /\ Len(log) = tail /\ head <= tail /\ tail <= head + Capacity
    BY DEF DeqCAS, TypeOK, Procs, RingInv, Window
  <1>2. CASE head # pos[c]
    <2>1. pc' = [pc EXCEPT ![c] = "d_head"] /\ head' = head
      BY <1>2 DEF DeqCAS
    <2>2. UNCHANGED MappedVars
      BY <1>1, <2>1, LocalStepStutters DEF DeqLabels
    <2> QED BY <2>2, StutterMaps
  <1>3. CASE head = pos[c]
    <2>1. /\ head' = head + 1
          /\ pc'[c] = "d_load"
          /\ \A y \in Procs : y # c => pc'[y] = pc[y]
      BY <1>1, <1>3 DEF DeqCAS, TypeOK
    <2>2. seq[Idx(head)] = head + 1
      BY <1>1, <1>3 DEF RingInv, Loaded
    <2>3. head < Len(log)
      <3> SUFFICES ASSUME head = tail PROVE FALSE
        BY <1>1
      <3>1. head \in tail .. head + Capacity - 1
        BY <1>1, CapacityAssumption
      <3> QED BY <1>1, <2>2, <3>1, CapacityAssumption DEF RingInv, FreeCells
    <2>4. \A p \in Producers : OpenMap[p] # head
      BY <1>1, <2>2 DEF OpenMap, RingInv, Writers
    <2>5. ReplyMap[c] = "pending" /\ TakenMap[c] = -1
      BY <1>1 DEF ReplyMap, TakenMap, Reading
    <2>6. TakenMap' = [TakenMap EXCEPT ![c] = head]
      BY <1>1, <1>3, <2>1 DEF TakenMap, Reading, Procs
    <2>7. ResultMap' = [ResultMap EXCEPT ![c] = log[head + 1]]
      BY <1>1, <1>3, <2>1 DEF ResultMap, Reading, Procs
    <2>8. OpenMap' = OpenMap /\ ReplyMap' = ReplyMap
      BY <1>1, <2>1, ProcessAssumption DEF OpenMap, ReplyMap, Writing, Procs
    <2> QED BY <1>1, <2>1, <2>3, <2>4, <2>5, <2>6, <2>7, <2>8, TakeMaps
  <1> QED BY <1>2, <1>3

LEMMA DeqReleaseMaps ==
    ASSUME TypeOK, RingInv, NEW c \in Consumers, DeqRelease(c)
    PROVE  Abstract!Next
  <1>1. /\ c \in Procs /\ pc[c] = "d_rel" /\ pc'[c] = "idle"
        /\ \A y \in Procs : y # c => pc'[y] = pc[y] /\ ret'[y] = ret[y]
        /\ ret'[c] = "ok" /\ pos[c] \in Nat
        /\ UNCHANGED <<head, pos, got, log>>
    BY DEF DeqRelease, ReleaseTo, TypeOK, Procs
  <1>2. TakenMap' = [TakenMap EXCEPT ![c] = -1]
    BY <1>1 DEF TakenMap, Reading, Procs
  <1>3. ReplyMap' = [ReplyMap EXCEPT ![c] = "ok"]
    BY <1>1 DEF ReplyMap
  <1>4. OpenMap' = OpenMap
    BY <1>1, ProcessAssumption DEF OpenMap, Writing, Procs
  <1>5. ResultMap' = ResultMap
    <2>1. got[c] = log[pos[c] + 1]
      BY <1>1 DEF RingInv, Readers, Reading
    <2> QED BY <1>1, <2>1 DEF ResultMap, Reading, Procs
  <1>6. TakenMap[c] # -1
    BY <1>1 DEF TakenMap, Reading
  <1> QED BY <1>1, <1>2, <1>3, <1>4, <1>5, <1>6, ReturnMaps

(***************************************************************************)
(* The ring implements TicketQueue, for every number of goroutines and     *)
(* every capacity: each atomic operation of Enqueue and Dequeue            *)
(* (ring.go:68-111) is one step of the abstract queue or invisible, and    *)
(* the answers "full" and "empty" are given only when the abstract queue   *)
(* would give them.                                                        *)
(***************************************************************************)
THEOREM Refinement == Spec => RefinesTicketQueue
  <1>1. Init => Abstract!Init
    BY DEF Init, Abstract!Init, Abstract!NoTicket, Abstract!Procs, Procs,
           Writing, Reading
  <1>2. TypeOK /\ RingInv /\ [Next]_vars => [Abstract!Next]_Abstract!avars
    <2> SUFFICES ASSUME TypeOK, RingInv, [Next]_vars
                 PROVE  Abstract!Next \/ UNCHANGED Abstract!avars
      OBVIOUS
    <2>1. ASSUME NEW p \in Producers, EnqLoadTail(p)
          PROVE  UNCHANGED Abstract!avars
      <3>1. /\ p \in Procs /\ pc[p] = "e_tail"
            /\ pc' = [pc EXCEPT ![p] = "e_seq"]
            /\ \A y \in Procs : y # p => pos'[y] = pos[y]
            /\ UNCHANGED <<head, got, ret, log>>
        BY <2>1 DEF EnqLoadTail, TypeOK, Procs
      <3>2. UNCHANGED MappedVars
        BY <3>1, LocalStepStutters DEF EnqLabels
      <3> QED BY <3>2, StutterMaps
    <2>2. ASSUME NEW c \in Consumers, DeqLoadHead(c)
          PROVE  UNCHANGED Abstract!avars
      <3>1. /\ c \in Procs /\ pc[c] = "d_head"
            /\ pc' = [pc EXCEPT ![c] = "d_seq"]
            /\ \A y \in Procs : y # c => pos'[y] = pos[y]
            /\ UNCHANGED <<head, got, ret, log>>
        BY <2>2 DEF DeqLoadHead, TypeOK, Procs
      <3>2. UNCHANGED MappedVars
        BY <3>1, LocalStepStutters DEF DeqLabels
      <3> QED BY <3>2, StutterMaps
    <2>3. ASSUME NEW p \in Producers, EnqStoreVal(p)
          PROVE  UNCHANGED Abstract!avars
      BY <2>3, CellStepStutters DEF EnqStoreVal, Procs
    <2>4. ASSUME NEW c \in Consumers, DeqLoadVal(c)
          PROVE  UNCHANGED Abstract!avars
      <3>1. \A d \in Consumers : d # c => got'[d] = got[d]
        BY <2>4 DEF DeqLoadVal, TypeOK
      <3> QED BY <2>4, <3>1, CellStepStutters DEF DeqLoadVal, Procs
    <2>5. ASSUME NEW c \in Consumers, DeqClear(c)
          PROVE  UNCHANGED Abstract!avars
      BY <2>5, CellStepStutters DEF DeqClear, Procs
    <2>6. CASE UNCHANGED vars
      <3>1. UNCHANGED MappedVars
        BY <2>6 DEF vars, MappedVars, OpenMap, TakenMap, ResultMap, ReplyMap,
                    Writing, Reading
      <3> QED BY <3>1, StutterMaps
    <2> QED
      BY <2>1, <2>2, <2>3, <2>4, <2>5, <2>6, EnqCallMaps, EnqLoadSeqMaps,
         EnqCASMaps, EnqPublishMaps, DeqCallMaps, DeqLoadSeqMaps, DeqCASMaps,
         DeqReleaseMaps
      DEF Next, EnqStep, DeqStep
  <1> QED
    BY <1>1, <1>2, TypeCorrect, RingInvariant, PTL
    DEF Spec, RefinesTicketQueue, Abstract!Spec
=============================================================================
