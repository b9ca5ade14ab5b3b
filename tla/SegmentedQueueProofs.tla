------------------------ MODULE SegmentedQueueProofs ------------------------
(***************************************************************************)
(* Proofs about SegmentedQueue, for any number of producers, any segment   *)
(* size and limit, and one consumer: Mailbox is the only user of the queue *)
(* and only the loop of its actor pops.                                    *)
(***************************************************************************)
EXTENDS SegmentedQueue, FiniteSetTheorems, TLAPS

SingleConsumer == \E c \in Consumers : Consumers = {c}

-----------------------------------------------------------------------------
(* The chain: what a step does to one segment *)

LEMMA AppendFacts ==
    ASSUME NEW S, NEW s \in Seq(S), NEW e \in S
    PROVE  /\ Append(s, e) \in Seq(S)
           /\ Len(Append(s, e)) = Len(s) + 1
           /\ DOMAIN Append(s, e) = 1 .. Len(s) + 1
           /\ DOMAIN s = 1 .. Len(s) /\ Len(s) \in Nat
           /\ \A k \in DOMAIN s : Append(s, e)[k] = s[k]
           /\ Append(s, e)[Len(s) + 1] = e
  OBVIOUS

LEMMA OneMore ==
    ASSUME NEW f \in Nat, NEW n \in Nat, NEW k \in Int, f <= n, n - f < k
    PROVE  f <= n + 1 /\ (n + 1) - f <= k
  OBVIOUS

LEMMA OneLess ==
    ASSUME NEW f \in Nat, NEW n \in Nat, NEW g, NEW k \in Nat,
           f < n, n - f <= k, g = f + 1
    PROVE  g <= n /\ n - g <= k
  OBVIOUS

LEMMA ChainFacts ==
    ASSUME NEW ch \in Seq(Segments)
    PROVE  /\ Len(ch) \in Nat /\ DOMAIN ch = 1 .. Len(ch)
           /\ \A i \in DOMAIN ch :
                /\ ch[i] \in Segments
                /\ ch[i].items \in Seq(Items)
                /\ ch[i].published \subseteq Nat
                /\ ch[i].first \in Nat
                /\ ch[i].held \subseteq Nat
                /\ Len(ch[i].items) \in Nat
                /\ DOMAIN ch[i].items = 1 .. Len(ch[i].items)
  <1>1. \A i \in DOMAIN ch : ch[i] \in Segments
    OBVIOUS
  <1>2. \A i \in DOMAIN ch : ch[i].items \in Seq(Items)
    BY <1>1 DEF Segments
  <1> QED BY <1>1, <1>2 DEF Segments

\* Segment i becomes t.
LEMMA SegmentUpdate ==
    ASSUME chain \in Seq(Segments), NEW i \in DOMAIN chain, NEW t \in Segments,
           chain' = [chain EXCEPT ![i] = t]
    PROVE  /\ chain' \in Seq(Segments) /\ Len(chain') = Len(chain)
           /\ DOMAIN chain' = DOMAIN chain /\ chain'[i] = t
           /\ \A j \in DOMAIN chain : j # i => chain'[j] = chain[j]
  OBVIOUS

\* A ticket is drawn in segment i.
LEMMA DrawFacts ==
    ASSUME chain \in Seq(Segments), NEW i \in DOMAIN chain, NEW e \in Items,
           chain' = [chain EXCEPT ![i].items = Append(@, e)]
    PROVE  /\ chain' \in Seq(Segments) /\ Len(chain') = Len(chain)
           /\ DOMAIN chain' = DOMAIN chain
           /\ \A j \in DOMAIN chain : j # i => chain'[j] = chain[j]
           /\ chain'[i].items = Append(chain[i].items, e)
           /\ chain'[i].published = chain[i].published
           /\ chain'[i].first = chain[i].first /\ chain'[i].held = chain[i].held
  <1> DEFINE t == [chain[i] EXCEPT !.items = Append(@, e)]
  <1>1. Append(chain[i].items, e) \in Seq(Items)
    BY ChainFacts, AppendFacts
  <1>2. t \in Segments
    BY <1>1, ChainFacts, ZenonT(60) DEF Segments
  <1>3. chain' = [chain EXCEPT ![i] = t]
    OBVIOUS
  <1>4. /\ t.items = Append(chain[i].items, e)
        /\ t.published = chain[i].published
        /\ t.first = chain[i].first /\ t.held = chain[i].held
    BY ChainFacts DEF Segments
  <1> HIDE DEF t
  <1> QED BY <1>2, <1>3, <1>4, SegmentUpdate

\* Its value is published.
LEMMA PublishFacts ==
    ASSUME chain \in Seq(Segments), NEW i \in DOMAIN chain, NEW k \in Nat,
           chain' = [chain EXCEPT ![i].published = @ \cup {k}]
    PROVE  /\ chain' \in Seq(Segments) /\ Len(chain') = Len(chain)
           /\ DOMAIN chain' = DOMAIN chain
           /\ \A j \in DOMAIN chain : j # i => chain'[j] = chain[j]
           /\ chain'[i].items = chain[i].items
           /\ chain'[i].published = chain[i].published \cup {k}
           /\ chain'[i].first = chain[i].first /\ chain'[i].held = chain[i].held
  <1> DEFINE t == [chain[i] EXCEPT !.published = @ \cup {k}]
  <1>1. chain[i].published \cup {k} \in SUBSET Nat
    BY ChainFacts
  <1>2. t \in Segments
    BY <1>1, ChainFacts, ZenonT(60) DEF Segments
  <1>3. chain' = [chain EXCEPT ![i] = t]
    OBVIOUS
  <1>4. /\ t.items = chain[i].items
        /\ t.published = chain[i].published \cup {k}
        /\ t.first = chain[i].first /\ t.held = chain[i].held
    BY ChainFacts DEF Segments
  <1> HIDE DEF t
  <1> QED BY <1>2, <1>3, <1>4, SegmentUpdate

\* The front ticket of segment i is taken.
LEMMA TakeFacts ==
    ASSUME chain \in Seq(Segments), NEW i \in DOMAIN chain,
           chain' = [chain EXCEPT ![i] = TakeFront(chain[i])]
    PROVE  /\ chain' \in Seq(Segments) /\ Len(chain') = Len(chain)
           /\ DOMAIN chain' = DOMAIN chain
           /\ \A j \in DOMAIN chain : j # i => chain'[j] = chain[j]
           /\ chain'[i].items = chain[i].items
           /\ chain'[i].published = chain[i].published
           /\ chain'[i].first = chain[i].first + 1
           /\ chain'[i].held = chain[i].held \cup {chain[i].first}
  <1>1. TakeFront(chain[i]) \in Segments
    <2>1. /\ chain[i].items \in Seq(Items) /\ chain[i].published \subseteq Nat
          /\ chain[i].first + 1 \in Nat
          /\ chain[i].held \cup {chain[i].first} \subseteq Nat
      BY ChainFacts
    <2> QED BY <2>1 DEF Segments, TakeFront
  <1>2. /\ TakeFront(chain[i]).items = chain[i].items
        /\ TakeFront(chain[i]).published = chain[i].published
        /\ TakeFront(chain[i]).first = chain[i].first + 1
        /\ TakeFront(chain[i]).held = chain[i].held \cup {chain[i].first}
    BY DEF TakeFront
  <1> QED BY <1>1, <1>2, SegmentUpdate

\* Its slot is released.
LEMMA ReleaseFacts ==
    ASSUME chain \in Seq(Segments), NEW i \in DOMAIN chain, NEW k,
           chain' = [chain EXCEPT ![i].held = @ \ {k}]
    PROVE  /\ chain' \in Seq(Segments) /\ Len(chain') = Len(chain)
           /\ DOMAIN chain' = DOMAIN chain
           /\ \A j \in DOMAIN chain : j # i => chain'[j] = chain[j]
           /\ chain'[i].items = chain[i].items
           /\ chain'[i].published = chain[i].published
           /\ chain'[i].first = chain[i].first
           /\ chain'[i].held = chain[i].held \ {k}
  <1> DEFINE t == [chain[i] EXCEPT !.held = @ \ {k}]
  <1>1. chain[i].held \ {k} \in SUBSET Nat
    BY ChainFacts
  <1>2. t \in Segments
    BY <1>1, ChainFacts, ZenonT(60) DEF Segments
  <1>3. chain' = [chain EXCEPT ![i] = t]
    OBVIOUS
  <1>4. /\ t.items = chain[i].items
        /\ t.published = chain[i].published
        /\ t.first = chain[i].first /\ t.held = chain[i].held \ {k}
    BY ChainFacts DEF Segments
  <1> HIDE DEF t
  <1> QED BY <1>2, <1>3, <1>4, SegmentUpdate

\* A segment is linked.
LEMMA LinkFacts ==
    ASSUME chain \in Seq(Segments), chain' = Append(chain, NewSegment)
    PROVE  /\ chain' \in Seq(Segments) /\ Len(chain') = Len(chain) + 1
           /\ DOMAIN chain' = 1 .. Len(chain) + 1
           /\ \A j \in DOMAIN chain : chain'[j] = chain[j]
           /\ chain'[Len(chain) + 1].items = <<>>
           /\ chain'[Len(chain) + 1].published = {}
           /\ chain'[Len(chain) + 1].first = 0
           /\ chain'[Len(chain) + 1].held = {}
  <1>1. <<>> \in Seq(Items)
    OBVIOUS
  <1>2. NewSegment \in Segments
    BY <1>1 DEF NewSegment, Segments
  <1>3. /\ NewSegment.items = <<>> /\ NewSegment.published = {}
        /\ NewSegment.first = 0 /\ NewSegment.held = {}
    BY DEF NewSegment
  <1> QED BY <1>2, <1>3, AppendFacts

-----------------------------------------------------------------------------
(* Type correctness *)

PcLabels == {"idle"} \cup EnqLabels \cup DeqLabels

\* A step that leaves the chain alone.
LEMMA TypeQuiet ==
    ASSUME TypeOK, chain' = chain,
           head' \in DOMAIN chain, tail' \in DOMAIN chain,
           segs' \in 0 .. CountModulus - 1,
           pc' \in [Procs -> PcLabels], at' \in [Procs -> DOMAIN chain],
           sent' \in [Producers -> 0 .. MaxSends],
           ret' \in [Procs -> {"none", "ok", "full", "empty"}],
           UNCHANGED <<ticket, out>>
    PROVE  TypeOK'
  BY DEF TypeOK, PcLabels

LEMMA TypeEnqTry ==
    ASSUME TypeOK, LocalInv, NEW p \in Producers, EnqTry(p)
    PROVE  TypeOK'
  <1>0. p \in Procs /\ at[p] \in DOMAIN chain /\ chain \in Seq(Segments)
    BY DEF TypeOK, Procs
  <1> USE SizeAssumption, SegmentAssumption
  <1>1. pc' \in [Procs -> PcLabels]
    BY DEF TypeOK, EnqTry, Goto, PcLabels, EnqLabels
  <1>2. CASE SlotTaken(chain[at[p]])
    BY <1>1, <1>2, TypeQuiet DEF TypeOK, EnqTry
  <1>3. CASE ~SlotTaken(chain[at[p]])
    <2> DEFINE i == at[p]
    <2>1. <<p, sent[p]>> \in Items
      BY SMTT(40) DEF TypeOK, Items, LocalInv, ProducerInv, ConsumerInv, EnqTry
    <2>2. chain' = [chain EXCEPT ![i].items = Append(@, <<p, sent[p]>>)]
      BY <1>3, SMTT(40) DEF EnqTry
    <2>3. /\ chain' \in Seq(Segments) /\ DOMAIN chain' = DOMAIN chain
          /\ \A j \in DOMAIN chain : j # i => chain'[j] = chain[j]
          /\ chain'[i].items = Append(chain[i].items, <<p, sent[p]>>)
          /\ chain'[i].published = chain[i].published
          /\ chain'[i].first = chain[i].first /\ chain'[i].held = chain[i].held
      BY <1>0, <2>1, <2>2, DrawFacts
    <2>4. /\ Len(chain'[i].items) = Len(chain[i].items) + 1
          /\ Len(chain[i].items) \in Nat /\ chain[i].first \in Nat
      BY <1>0, <2>1, <2>3, AppendFacts, ChainFacts
    <2>5. Len(chain[i].items) - chain[i].first < Size
      BY <1>3, <2>4, SMTT(40) DEF SlotTaken, NextTicket
    <2>6. OwnTickets(chain'[i])
      <3>1. OwnTickets(chain[i])
        BY <1>0 DEF TypeOK
      <3>2. 0 .. Len(chain[i].items) - 1 \subseteq 0 .. Len(chain'[i].items) - 1
        BY <2>4, SMTT(40)
      <3>3. /\ chain'[i].first <= Len(chain'[i].items)
            /\ Len(chain'[i].items) - chain'[i].first <= Size
        <4>1. chain[i].first <= Len(chain[i].items)
          BY <3>1 DEF OwnTickets
        <4>2. Size \in Int
          BY SizeAssumption
        <4>3. chain'[i].first = chain[i].first
          BY <2>3, Zenon
        <4>4. /\ chain[i].first <= Len(chain[i].items) + 1
              /\ (Len(chain[i].items) + 1) - chain[i].first <= Size
          BY ONLY <2>4, <2>5, <4>1, <4>2, OneMore, Zenon
        <4> QED BY <2>4, <4>3, <4>4, Zenon
      <3> QED BY <2>3, <3>1, <3>2, <3>3 DEF OwnTickets
    <2>7. \A j \in DOMAIN chain' : OwnTickets(chain'[j])
      BY <2>3, <2>6 DEF TypeOK
    <2>8. ticket' \in [Procs -> Nat]
      BY <1>3, <2>4 DEF EnqTry, TypeOK, NextTicket
    <2> QED BY <1>1, <2>3, <2>7, <2>8 DEF TypeOK, EnqTry, PcLabels
  <1> QED BY <1>2, <1>3

LEMMA TypeEnqPublish ==
    ASSUME TypeOK, LocalInv, NEW p \in Producers, EnqPublish(p)
    PROVE  TypeOK'
  <1> DEFINE i == at[p]
  <1>0. p \in Procs /\ i \in DOMAIN chain /\ chain \in Seq(Segments) /\ ticket[p] \in Nat
    BY DEF TypeOK, Procs
  <1>1. /\ chain' \in Seq(Segments) /\ DOMAIN chain' = DOMAIN chain
        /\ \A j \in DOMAIN chain : j # i => chain'[j] = chain[j]
        /\ chain'[i].items = chain[i].items
        /\ chain'[i].published = chain[i].published \cup {ticket[p]}
        /\ chain'[i].first = chain[i].first /\ chain'[i].held = chain[i].held
    BY <1>0, PublishFacts DEF EnqPublish
  <1>2. ticket[p] < Len(chain[i].items) /\ Len(chain[i].items) \in Nat
    BY <1>0, ChainFacts DEF LocalInv, ProducerInv, ConsumerInv, EnqPublish
  <1>3. OwnTickets(chain'[i])
    <2>1. OwnTickets(chain[i])
      BY <1>0 DEF TypeOK
    <2> QED BY <1>0, <1>1, <1>2, <2>1 DEF OwnTickets
  <1>4. \A j \in DOMAIN chain' : OwnTickets(chain'[j])
    BY <1>1, <1>3 DEF TypeOK
  <1>5. /\ pc' \in [Procs -> PcLabels]
        /\ ret' \in [Procs -> {"none", "ok", "full", "empty"}]
    BY DEF TypeOK, EnqPublish, Return, Goto, PcLabels
  <1> QED BY <1>1, <1>4, <1>5 DEF TypeOK, EnqPublish, PcLabels

LEMMA TypeEnqLink ==
    ASSUME TypeOK, NEW p \in Producers, EnqLink(p)
    PROVE  TypeOK'
  <1>1. pc' \in [Procs -> PcLabels] /\ chain \in Seq(Segments)
    BY DEF TypeOK, EnqLink, Goto, PcLabels, EnqLabels
  <1>2. CASE chain' = chain
    BY <1>1, <1>2, TypeQuiet DEF TypeOK, EnqLink
  <1>3. CASE chain' = Append(chain, NewSegment)
    <2>1. /\ chain' \in Seq(Segments) /\ DOMAIN chain' = 1 .. Len(chain) + 1
          /\ \A j \in DOMAIN chain : chain'[j] = chain[j]
          /\ chain'[Len(chain) + 1].items = <<>>
          /\ chain'[Len(chain) + 1].published = {}
          /\ chain'[Len(chain) + 1].first = 0
          /\ chain'[Len(chain) + 1].held = {}
      BY <1>1, <1>3, LinkFacts
    <2>2. OwnTickets(chain'[Len(chain) + 1])
      BY <2>1, SizeAssumption DEF OwnTickets
    <2>3. DOMAIN chain = 1 .. Len(chain) /\ Len(chain) \in Nat
      BY <1>1, ChainFacts
    <2>4. DOMAIN chain \subseteq DOMAIN chain'
      BY <2>1, <2>3
    <2>5. \A j \in DOMAIN chain' : OwnTickets(chain'[j])
      <3> SUFFICES ASSUME NEW j \in DOMAIN chain' PROVE OwnTickets(chain'[j])
        OBVIOUS
      <3>1. j = Len(chain) + 1 \/ j \in DOMAIN chain
        BY <2>1, <2>3
      <3> QED BY <2>1, <2>2, <3>1 DEF TypeOK
    <2>6. /\ head' \in DOMAIN chain' /\ tail' \in DOMAIN chain'
          /\ at' \in [Procs -> DOMAIN chain']
      BY <2>4 DEF TypeOK, EnqLink
    <2> QED BY <1>1, <2>1, <2>5, <2>6 DEF TypeOK, EnqLink, PcLabels
  <1> QED BY <1>2, <1>3 DEF EnqLink

LEMMA TypeDeqTry ==
    ASSUME TypeOK, NEW c \in Consumers, DeqTry(c)
    PROVE  TypeOK'
  <1> DEFINE i == at[c]
  <1>0. c \in Procs /\ i \in DOMAIN chain /\ chain \in Seq(Segments)
    BY DEF TypeOK, Procs
  <1>1. pc' \in [Procs -> PcLabels]
    BY DEF TypeOK, DeqTry, Goto, PcLabels, DeqLabels
  <1>2. CASE ~FrontReady(chain[i])
    BY <1>1, <1>2, TypeQuiet DEF TypeOK, DeqTry
  <1>3. CASE FrontReady(chain[i])
    <2>1. /\ chain' \in Seq(Segments) /\ DOMAIN chain' = DOMAIN chain
          /\ \A j \in DOMAIN chain : j # i => chain'[j] = chain[j]
          /\ chain'[i].items = chain[i].items
          /\ chain'[i].published = chain[i].published
          /\ chain'[i].first = chain[i].first + 1
          /\ chain'[i].held = chain[i].held \cup {chain[i].first}
      BY <1>0, <1>3, TakeFacts DEF DeqTry
    <2>2. /\ Len(chain[i].items) \in Nat /\ chain[i].first \in Nat
          /\ DOMAIN chain[i].items = 1 .. Len(chain[i].items)
          /\ chain[i].items \in Seq(Items)
      BY <1>0, ChainFacts
    <2>3. OwnTickets(chain[i])
      BY <1>0 DEF TypeOK
    <2>4. chain[i].first < Len(chain[i].items)
      BY <1>3, <2>2, <2>3 DEF OwnTickets, FrontReady
    <2>5. OwnTickets(chain'[i])
      <3>1. /\ chain[i].published \subseteq 0 .. Len(chain[i].items) - 1
            /\ chain[i].held \subseteq 0 .. chain[i].first - 1
            /\ Len(chain[i].items) - chain[i].first <= Size /\ Size \in Nat
        BY <2>3, SizeAssumption DEF OwnTickets
      <3>2. chain'[i].held \subseteq 0 .. chain'[i].first - 1
        BY <2>1, <2>2, <3>1, SMTT(40)
      <3>3. /\ chain'[i].first <= Len(chain'[i].items)
            /\ Len(chain'[i].items) - chain'[i].first <= Size
        BY ONLY <2>1, <2>2, <2>4, <3>1, OneLess, Zenon
      <3> QED BY <2>1, <3>1, <3>2, <3>3, Zenon DEF OwnTickets
    <2>6. \A j \in DOMAIN chain' : OwnTickets(chain'[j])
      BY <2>1, <2>5 DEF TypeOK
    <2>7. chain[i].items[chain[i].first + 1] \in Items
      BY <2>2, <2>4
    <2>8. out' \in Seq(Items) /\ ticket' \in [Procs -> Nat]
      <3>1. Append(out, chain[i].items[chain[i].first + 1]) \in Seq(Items)
        BY <2>7, AppendFacts DEF TypeOK
      <3> QED BY <1>3, <2>2, <3>1 DEF TypeOK, DeqTry
    <2> QED BY <1>1, <2>1, <2>6, <2>8 DEF TypeOK, DeqTry, PcLabels
  <1> QED BY <1>2, <1>3

LEMMA TypeDeqRelease ==
    ASSUME TypeOK, NEW c \in Consumers, DeqRelease(c)
    PROVE  TypeOK'
  <1> DEFINE i == at[c]
  <1>0. c \in Procs /\ i \in DOMAIN chain /\ chain \in Seq(Segments)
    BY DEF TypeOK, Procs
  <1>1. /\ chain' \in Seq(Segments) /\ DOMAIN chain' = DOMAIN chain
        /\ \A j \in DOMAIN chain : j # i => chain'[j] = chain[j]
        /\ chain'[i].items = chain[i].items
        /\ chain'[i].published = chain[i].published
        /\ chain'[i].first = chain[i].first
        /\ chain'[i].held = chain[i].held \ {ticket[c]}
    BY <1>0, ReleaseFacts DEF DeqRelease
  <1>2. \A j \in DOMAIN chain' : OwnTickets(chain'[j])
    <2>1. OwnTickets(chain'[i])
      BY <1>0, <1>1 DEF OwnTickets, TypeOK
    <2> QED BY <1>1, <2>1 DEF TypeOK
  <1>3. /\ pc' \in [Procs -> PcLabels]
        /\ ret' \in [Procs -> {"none", "ok", "full", "empty"}]
    BY DEF TypeOK, DeqRelease, Return, Goto, PcLabels
  <1> QED BY <1>1, <1>2, <1>3 DEF TypeOK, DeqRelease, PcLabels

LEMMA TypeStep == TypeOK /\ LocalInv /\ [Next]_vars => TypeOK'
  <1> SUFFICES ASSUME TypeOK, LocalInv, [Next]_vars PROVE TypeOK'
    OBVIOUS
  <1> USE SegmentAssumption
  <1>0. /\ Len(chain) \in Nat /\ DOMAIN chain = 1 .. Len(chain)
        /\ Producers \subseteq Procs /\ Consumers \subseteq Procs
        /\ pc \in [Procs -> PcLabels] /\ at \in [Procs -> DOMAIN chain]
        /\ \A n \in Int : n % CountModulus \in 0 .. CountModulus - 1
    BY ChainFacts DEF TypeOK, Procs, PcLabels
  <1>1. ASSUME NEW p \in Producers,
               EnqCall(p) \/ EnqLoadTail(p) \/ EnqLoadSegs(p) \/ EnqLoadNext(p)
        PROVE  TypeOK'
    <2>1. /\ pc' \in [Procs -> PcLabels] /\ at' \in [Procs -> DOMAIN chain]
          /\ sent' \in [Producers -> 0 .. MaxSends]
          /\ ret' \in [Procs -> {"none", "ok", "full", "empty"}]
      <3>1. pc' \in [Procs -> PcLabels]
        BY <1>0, <1>1 DEF EnqCall, EnqLoadTail, EnqLoadSegs, EnqLoadNext, Return,
                          Goto, PcLabels, EnqLabels
      <3>2. at' \in [Procs -> DOMAIN chain]
        BY <1>0, <1>1 DEF TypeOK, EnqCall, EnqLoadTail, EnqLoadSegs, EnqLoadNext
      <3>3. sent' \in [Producers -> 0 .. MaxSends]
        <4>1. sent[p] < MaxSends => sent[p] + 1 \in 0 .. MaxSends
          BY DEF TypeOK
        <4> QED BY <1>1, <4>1 DEF TypeOK, EnqCall, EnqLoadTail, EnqLoadSegs,
                                  EnqLoadNext
      <3>4. ret' \in [Procs -> {"none", "ok", "full", "empty"}]
        BY <1>1 DEF TypeOK, EnqCall, EnqLoadTail, EnqLoadSegs, EnqLoadNext, Return
      <3> QED BY <3>1, <3>2, <3>3, <3>4
    <2>2. UNCHANGED <<chain, head, tail, segs, ticket, out>>
      BY <1>1 DEF EnqCall, EnqLoadTail, EnqLoadSegs, EnqLoadNext
    <2> QED BY <2>1, <2>2, TypeQuiet DEF TypeOK
  <1>2. ASSUME NEW p \in Producers,
               EnqSwingNew(p) \/ EnqCount(p) \/ EnqSwingOld(p)
        PROVE  TypeOK'
    <2>1. pc' \in [Procs -> PcLabels]
      BY <1>0, <1>2 DEF EnqSwingNew, EnqCount, EnqSwingOld, Goto, PcLabels,
                        EnqLabels
    <2>2. tail' \in DOMAIN chain
      <3>1. pc[p] \in {"e_swing", "e_adv"} => at[p] + 1 \in DOMAIN chain
        BY <1>0 DEF LocalInv, ProducerInv, ConsumerInv
      <3> QED BY <1>2, <3>1 DEF TypeOK, EnqSwingNew, EnqCount, EnqSwingOld,
                                SwingTail
    <2>3. segs' \in 0 .. CountModulus - 1
      <3>1. segs \in 0 .. CountModulus - 1 /\ segs + 1 \in Int
        BY DEF TypeOK
      <3>2. (segs + 1) % CountModulus \in 0 .. CountModulus - 1
        BY <1>0, <3>1
      <3> QED BY <1>2, <3>1, <3>2 DEF EnqSwingNew, EnqCount, EnqSwingOld
    <2>4. UNCHANGED <<chain, head, at, ticket, sent, ret, out>>
      BY <1>2 DEF EnqSwingNew, EnqCount, EnqSwingOld
    <2> QED BY <2>1, <2>2, <2>3, <2>4, TypeQuiet DEF TypeOK
  <1>3. ASSUME NEW c \in Consumers,
               \/ DeqCall(c) \/ DeqLoadHead(c) \/ DeqLoadNext(c)
               \/ DeqStoreHead(c) \/ DeqCount(c)
        PROVE  TypeOK'
    <2>1. /\ pc' \in [Procs -> PcLabels] /\ at' \in [Procs -> DOMAIN chain]
          /\ ret' \in [Procs -> {"none", "ok", "full", "empty"}]
      BY <1>0, <1>3 DEF TypeOK, DeqCall, DeqLoadHead, DeqLoadNext, DeqStoreHead,
                        DeqCount, Return, Goto, PcLabels, DeqLabels
    <2>2. head' \in DOMAIN chain
      <3>1. pc[c] = "d_store" => at[c] + 1 \in DOMAIN chain
        BY <1>0 DEF LocalInv, ProducerInv, ConsumerInv
      <3> QED BY <1>3, <3>1 DEF TypeOK, DeqCall, DeqLoadHead, DeqLoadNext,
                                DeqStoreHead, DeqCount
    <2>3. segs' \in 0 .. CountModulus - 1
      <3>1. segs \in 0 .. CountModulus - 1 /\ segs - 1 \in Int
        BY DEF TypeOK
      <3>2. (segs - 1) % CountModulus \in 0 .. CountModulus - 1
        BY <1>0, <3>1
      <3> QED BY <1>3, <3>1, <3>2 DEF DeqCall, DeqLoadHead, DeqLoadNext,
                                      DeqStoreHead, DeqCount
    <2>4. UNCHANGED <<chain, tail, ticket, sent, out>>
      BY <1>3 DEF DeqCall, DeqLoadHead, DeqLoadNext, DeqStoreHead, DeqCount
    <2> QED BY <2>1, <2>2, <2>3, <2>4, TypeQuiet DEF TypeOK
  <1>4. CASE UNCHANGED vars
    BY <1>4 DEF vars, TypeOK
  <1> QED
    BY <1>1, <1>2, <1>3, <1>4, TypeEnqTry, TypeEnqPublish, TypeEnqLink,
       TypeDeqTry, TypeDeqRelease
    DEF Next, EnqStep, DeqStep

-----------------------------------------------------------------------------
(* Where the calls in progress are *)

\* Nothing shrinks: the tail, the chain, the tickets drawn in a segment.
Grown ==
    /\ tail <= tail' /\ Len(chain) <= Len(chain')
    /\ \A i \in DOMAIN chain : Len(chain[i].items) <= Len(chain'[i].items)

LEMMA GrowStep == TypeOK /\ LocalInv /\ [Next]_vars => Grown
  <1> SUFFICES ASSUME TypeOK, LocalInv, [Next]_vars PROVE Grown
    OBVIOUS
  <1>0. /\ Len(chain) \in Nat /\ DOMAIN chain = 1 .. Len(chain)
        /\ chain \in Seq(Segments) /\ tail \in Nat
        /\ \A i \in DOMAIN chain : Len(chain[i].items) \in Nat
        /\ \A p \in Procs : at[p] \in DOMAIN chain /\ ticket[p] \in Nat
        /\ Producers \subseteq Procs /\ Consumers \subseteq Procs
    BY ChainFacts, SMTT(40) DEF TypeOK, Procs
  <1>1. CASE UNCHANGED <<chain, tail>>
    BY <1>0, <1>1, SMTT(40) DEF Grown
  <1>2. ASSUME NEW p \in Producers, EnqTry(p), ~SlotTaken(chain[at[p]])
        PROVE  Grown
    <2>1. <<p, sent[p]>> \in Items
      BY <1>2 DEF TypeOK, Items, LocalInv, ProducerInv, EnqTry
    <2>2. /\ Len(chain') = Len(chain) /\ tail' = tail
          /\ \A j \in DOMAIN chain : j # at[p] => chain'[j] = chain[j]
          /\ chain'[at[p]].items = Append(chain[at[p]].items, <<p, sent[p]>>)
      <3>1. /\ chain' = [chain EXCEPT ![at[p]].items = Append(@, <<p, sent[p]>>)]
            /\ tail' = tail /\ at[p] \in DOMAIN chain
        BY <1>0, <1>2 DEF EnqTry
      <3> QED BY ONLY <1>0, <2>1, <3>1, DrawFacts
    <2>3. Len(chain'[at[p]].items) = Len(chain[at[p]].items) + 1
      <3>1. chain[at[p]].items \in Seq(Items)
        BY <1>0, <1>2, ChainFacts
      <3> QED BY ONLY <2>1, <2>2, <3>1, AppendFacts
    <2> QED BY <1>0, <2>2, <2>3, SMTT(40) DEF Grown
  <1>3. ASSUME NEW p \in Producers, EnqPublish(p) PROVE Grown
    BY <1>0, <1>3, PublishFacts DEF EnqPublish, Grown
  <1>4. ASSUME NEW p \in Producers, EnqLink(p), chain' # chain PROVE Grown
    BY <1>0, <1>4, LinkFacts DEF EnqLink, Grown
  <1>5. ASSUME NEW p \in Producers, EnqSwingNew(p) \/ EnqSwingOld(p)
        PROVE  Grown
    BY <1>0, <1>5 DEF EnqSwingNew, EnqSwingOld, SwingTail, Grown
  <1>6. ASSUME NEW c \in Consumers, DeqTry(c), FrontReady(chain[at[c]])
        PROVE  Grown
    <2>1. /\ chain' = [chain EXCEPT ![at[c]] = TakeFront(chain[at[c]])]
          /\ tail' = tail /\ at[c] \in DOMAIN chain
      BY <1>0, <1>6 DEF DeqTry
    <2>2. /\ Len(chain') = Len(chain)
          /\ \A j \in DOMAIN chain : chain'[j].items = chain[j].items
      BY <1>0, <2>1, TakeFacts
    <2> QED BY <1>0, <2>1, <2>2 DEF Grown
  <1>7. ASSUME NEW c \in Consumers, DeqRelease(c) PROVE Grown
    BY <1>0, <1>7, ReleaseFacts DEF DeqRelease, Grown
  <1>8. ASSUME NEW p \in Producers, EnqStep(p) \/ EnqCall(p) PROVE Grown
    BY <1>1, <1>2, <1>3, <1>4, <1>5, <1>8
    DEF EnqStep, EnqCall, EnqLoadTail, EnqTry, EnqLoadSegs, EnqLoadNext, EnqLink,
        EnqCount
  <1>9. ASSUME NEW c \in Consumers, DeqStep(c) \/ DeqCall(c) PROVE Grown
    BY <1>1, <1>6, <1>7, <1>9
    DEF DeqStep, DeqCall, DeqLoadHead, DeqTry, DeqLoadNext, DeqStoreHead, DeqCount
  <1> QED BY <1>1, <1>8, <1>9 DEF Next, vars

\* The locals of everyone but x stay as they are.
OnlyMoves(x) ==
    /\ \A y \in Procs \ {x} : pc'[y] = pc[y] /\ at'[y] = at[y] /\ ticket'[y] = ticket[y]
    /\ \A q \in Producers \ {x} : sent'[q] = sent[q]

LEMMA EnqMoves ==
    ASSUME TypeOK, NEW p \in Producers, EnqCall(p) \/ EnqStep(p)
    PROVE  OnlyMoves(p) /\ head' = head /\ out' = out
  BY DEF TypeOK, OnlyMoves, EnqStep, EnqCall, EnqLoadTail, EnqTry, EnqPublish,
         EnqLoadSegs, EnqLoadNext, EnqLink, EnqSwingNew, EnqCount, EnqSwingOld,
         Return, Goto

LEMMA DeqMoves ==
    ASSUME TypeOK, NEW c \in Consumers, DeqCall(c) \/ DeqStep(c)
    PROVE  OnlyMoves(c) /\ tail' = tail /\ sent' = sent
  BY DEF TypeOK, OnlyMoves, DeqStep, DeqCall, DeqLoadHead, DeqTry, DeqRelease,
         DeqLoadNext, DeqStoreHead, DeqCount, Return, Goto

LEMMA LocalEnq ==
    ASSUME TypeOK, LocalInv, Grown, NEW p \in Producers, EnqCall(p) \/ EnqStep(p)
    PROVE  ProducerInv(p)'
  <1>0. /\ Len(chain) \in Nat /\ DOMAIN chain = 1 .. Len(chain)
        /\ chain \in Seq(Segments) /\ tail \in Nat
        /\ p \in Procs /\ at[p] \in DOMAIN chain
        /\ \A i \in DOMAIN chain : Len(chain[i].items) \in Nat
        /\ pc \in [Procs -> PcLabels] /\ at \in [Procs -> DOMAIN chain]
        /\ ticket \in [Procs -> Nat] /\ sent \in [Producers -> 0 .. MaxSends]
        /\ ProducerInv(p)
    BY ChainFacts DEF TypeOK, Procs, PcLabels, LocalInv
  <1> USE SegmentAssumption DEF ProducerInv, Goto, Return
  <1>1. CASE EnqCall(p)
    <2>1. pc'[p] = "e_tail" /\ sent'[p] = sent[p] + 1
      BY <1>0, <1>1 DEF EnqCall
    <2> QED BY <1>0, <2>1
  <1>2. CASE EnqLoadTail(p)
    BY <1>0, <1>2 DEF EnqLoadTail
  <1>3. CASE EnqTry(p)
    <2>1. CASE SlotTaken(chain[at[p]])
      BY <1>0, <1>3, <2>1 DEF EnqTry
    <2>2. CASE ~SlotTaken(chain[at[p]])
      <3>1. <<p, sent[p]>> \in Items
        BY <1>0, <1>3 DEF EnqTry, Items
      <3>2. /\ chain' = [chain EXCEPT ![at[p]].items = Append(@, <<p, sent[p]>>)]
            /\ ticket'[p] = Len(chain[at[p]].items) /\ pc'[p] = "e_pub"
            /\ at'[p] = at[p] /\ sent'[p] = sent[p] /\ sent[p] # 0
        BY <1>0, <1>3, <2>2 DEF EnqTry, NextTicket
      <3>3. chain'[at[p]].items = Append(chain[at[p]].items, <<p, sent[p]>>)
        BY <1>0, <3>1, <3>2, DrawFacts
      <3>4. Len(chain'[at[p]].items) = Len(chain[at[p]].items) + 1
        BY <1>0, <3>1, <3>3, AppendFacts, ChainFacts
      <3> QED BY <1>0, <3>2, <3>4
    <2> QED BY <2>1, <2>2
  <1>4. CASE EnqPublish(p)
    BY <1>0, <1>4 DEF EnqPublish
  <1>5. CASE EnqLoadSegs(p)
    BY <1>0, <1>5 DEF EnqLoadSegs
  <1>6. CASE EnqLoadNext(p)
    BY <1>0, <1>6 DEF EnqLoadNext
  <1>7. CASE EnqLink(p)
    <2>1. chain' # chain => Len(chain') = Len(chain) + 1
      BY <1>0, <1>7, LinkFacts DEF EnqLink
    <2> QED BY <1>0, <1>7, <2>1 DEF EnqLink
  <1>8. CASE EnqSwingNew(p) \/ EnqCount(p) \/ EnqSwingOld(p)
    BY <1>0, <1>8 DEF EnqSwingNew, EnqCount, EnqSwingOld
  <1> QED BY <1>1, <1>2, <1>3, <1>4, <1>5, <1>6, <1>7, <1>8 DEF EnqStep

LEMMA LocalDeq ==
    ASSUME TypeOK, LocalInv, NEW c \in Consumers, DeqCall(c) \/ DeqStep(c)
    PROVE  ConsumerInv(c)'
  <1>0. /\ Len(chain) \in Nat /\ DOMAIN chain = 1 .. Len(chain)
        /\ c \in Procs /\ at[c] \in DOMAIN chain /\ chain \in Seq(Segments)
        /\ pc \in [Procs -> PcLabels] /\ at \in [Procs -> DOMAIN chain]
        /\ ConsumerInv(c)
    BY ChainFacts DEF TypeOK, Procs, PcLabels, LocalInv
  <1> USE DEF ConsumerInv, Goto, Return
  <1>1. CASE DeqCall(c) \/ DeqLoadHead(c)
    BY <1>0, <1>1 DEF DeqCall, DeqLoadHead
  <1>2. CASE DeqTry(c)
    BY <1>0, <1>2 DEF DeqTry
  <1>3. CASE DeqRelease(c)
    BY <1>0, <1>3 DEF DeqRelease
  <1>4. CASE DeqLoadNext(c)
    BY <1>0, <1>4 DEF DeqLoadNext
  <1>5. CASE DeqStoreHead(c) \/ DeqCount(c)
    BY <1>0, <1>5 DEF DeqStoreHead, DeqCount
  <1> QED BY <1>1, <1>2, <1>3, <1>4, <1>5 DEF DeqStep

LEMMA LocalStep ==
    SingleConsumer /\ TypeOK /\ LocalInv /\ [Next]_vars => LocalInv'
  <1> SUFFICES ASSUME SingleConsumer, TypeOK, LocalInv, [Next]_vars
               PROVE  LocalInv'
    OBVIOUS
  <1>0. /\ Len(chain) \in Nat /\ DOMAIN chain = 1 .. Len(chain)
        /\ TypeOK' /\ Grown /\ tail \in Nat
        /\ \A i \in DOMAIN chain : Len(chain[i].items) \in Nat
        /\ \A x \in Procs : at[x] \in DOMAIN chain /\ ticket[x] \in Nat
        /\ Producers \subseteq Procs /\ Consumers \subseteq Procs
        /\ Producers \cap Consumers = {}
    <2>1. TypeOK' /\ Grown
      BY TypeStep, GrowStep
    <2>2. /\ chain \in Seq(Segments) /\ tail \in DOMAIN chain
          /\ at \in [Procs -> DOMAIN chain] /\ ticket \in [Procs -> Nat]
      BY DEF TypeOK
    <2>3. /\ Len(chain) \in Nat /\ DOMAIN chain = 1 .. Len(chain)
          /\ \A i \in DOMAIN chain : Len(chain[i].items) \in Nat
      BY <2>2, ChainFacts
    <2>4. /\ Producers \subseteq Procs /\ Consumers \subseteq Procs
          /\ Producers \cap Consumers = {}
      BY SegmentAssumption DEF Procs
    <2> QED BY <2>1, <2>2, <2>3, <2>4
  <1>1. /\ tail' \in Nat /\ Len(chain') \in Nat
        /\ \A i \in DOMAIN chain : Len(chain'[i].items) \in Nat
    <2>1. chain' \in Seq(Segments) /\ tail' \in DOMAIN chain'
      BY <1>0 DEF TypeOK
    <2>2. /\ Len(chain') \in Nat /\ DOMAIN chain' = 1 .. Len(chain')
          /\ \A i \in DOMAIN chain' : Len(chain'[i].items) \in Nat
      BY <2>1, ChainFacts
    <2>3. DOMAIN chain \subseteq DOMAIN chain'
      BY <1>0, <2>2 DEF Grown
    <2> QED BY <2>1, <2>2, <2>3
  \* Those that do not move.
  <1>2. ASSUME NEW q \in Producers, pc'[q] = pc[q], at'[q] = at[q],
               ticket'[q] = ticket[q], sent'[q] = sent[q]
        PROVE  ProducerInv(q)'
    <2>1. ProducerInv(q) /\ q \in Procs
      BY <1>0 DEF LocalInv
    <2> QED BY <1>0, <1>1, <1>2, <2>1, SMTT(40) DEF ProducerInv, Grown
  <1>3. ASSUME NEW c \in Consumers, pc'[c] = pc[c], at'[c] = at[c], head' = head
        PROVE  ConsumerInv(c)'
    <2>1. ConsumerInv(c) /\ c \in Procs
      BY <1>0 DEF LocalInv
    <2> QED BY <1>0, <1>1, <1>3, <2>1 DEF ConsumerInv, Grown
  <1>4. ASSUME NEW p \in Producers, EnqCall(p) \/ EnqStep(p) PROVE LocalInv'
    <2>1. OnlyMoves(p) /\ head' = head
      BY <1>4, EnqMoves
    <2>2. ProducerInv(p)'
      BY <1>0, <1>4, LocalEnq
    <2>3. \A q \in Producers : q # p => ProducerInv(q)'
      BY <1>0, <1>2, <2>1 DEF OnlyMoves
    <2>4. \A c \in Consumers : ConsumerInv(c)'
      BY <1>0, <1>3, <2>1 DEF OnlyMoves
    <2> QED BY <2>2, <2>3, <2>4 DEF LocalInv
  <1>5. ASSUME NEW c \in Consumers, DeqCall(c) \/ DeqStep(c) PROVE LocalInv'
    <2>1. OnlyMoves(c) /\ sent' = sent
      BY <1>5, DeqMoves
    <2>2. ConsumerInv(c)' /\ Consumers = {c}
      BY <1>5, LocalDeq DEF SingleConsumer
    <2>3. \A q \in Producers : ProducerInv(q)'
      BY <1>0, <1>2, <2>1 DEF OnlyMoves
    <2> QED BY <2>2, <2>3 DEF LocalInv
  <1>6. CASE UNCHANGED vars
    BY <1>2, <1>3, <1>6 DEF vars, LocalInv
  <1> QED BY <1>4, <1>5, <1>6 DEF Next

-----------------------------------------------------------------------------
(* The counter of segments, modulo its width *)

LEMMA Euclid ==
    ASSUME NEW x \in Int, NEW M \in Nat \ {0}
    PROVE  /\ x % M \in 0 .. M - 1 /\ x \div M \in Int
           /\ x = M * (x \div M) + (x % M)
  OBVIOUS

LEMMA Remainder ==
    ASSUME NEW M \in Nat \ {0}, NEW q \in Int, NEW r \in 0 .. M - 1
    PROVE  (M * q + r) % M = r
  OBVIOUS

LEMMA CountWraps ==
    ASSUME NEW x \in Int, NEW M \in Nat \ {0}, NEW d \in {1, -1}
    PROVE  ((x % M) + d) % M = (x + d) % M
  <1>1. PICK q \in Int, r \in 0 .. M - 1 : x = M * q + r /\ r = x % M
    BY Euclid
  <1>2. CASE r + d \in 0 .. M - 1
    <2>1. (M * q + (r + d)) % M = r + d /\ (M * 0 + (r + d)) % M = r + d
      BY <1>2, Remainder
    <2>2. x + d = M * q + (r + d) /\ r + d = M * 0 + (r + d)
      BY <1>1
    <2> QED BY <1>1, <2>1, <2>2
  <1>3. CASE r + d = M
    <2>1. (M * (q + 1) + 0) % M = 0 /\ (M * 1 + 0) % M = 0
      BY Remainder
    <2>2. M * (q + 1) = M * q + M
      OBVIOUS
    <2>3. x + d = M * (q + 1) + 0 /\ r + d = M * 1 + 0
      BY <1>1, <1>3, <2>2
    <2> QED BY <1>1, <2>1, <2>3
  <1>4. CASE r + d = -1
    <2>1. /\ (M * (q - 1) + (M - 1)) % M = M - 1
          /\ (M * (-1) + (M - 1)) % M = M - 1
      BY Remainder
    <2>2. M * (q - 1) = M * q - M
      OBVIOUS
    <2>3. x + d = M * (q - 1) + (M - 1) /\ r + d = M * (-1) + (M - 1)
      BY <1>1, <1>4, <2>2
    <2> QED BY <1>1, <2>1, <2>3
  <1> QED BY <1>1, <1>2, <1>3, <1>4

LEMMA LinkingFinite ==
    ASSUME SingleConsumer
    PROVE  /\ IsFiniteSet(Linking) /\ IsFiniteSet(Unlinking)
           /\ Cardinality(Linking) \in Nat /\ Cardinality(Unlinking) \in {0, 1}
           /\ Cardinality(Linking) <= Cardinality(Producers)
           /\ Cardinality(Producers) \in Nat \ {0}
           /\ \A p \in Producers : p \notin Linking =>
                Cardinality(Linking) <= Cardinality(Producers) - 1
  <1>1. PICK c \in Consumers : Consumers = {c}
    BY DEF SingleConsumer
  <1>2. IsFiniteSet(Producers) /\ Linking \subseteq Producers
    BY SegmentAssumption DEF Linking
  <1>3. /\ IsFiniteSet(Linking) /\ Cardinality(Linking) <= Cardinality(Producers)
        /\ Cardinality(Linking) \in Nat /\ Cardinality(Producers) \in Nat
    BY <1>2, FS_Subset, FS_CardinalityType
  <1>4. Cardinality(Producers) # 0
    BY <1>2, FS_EmptySet, SegmentAssumption
  <1>5. ASSUME NEW p \in Producers, p \notin Linking
        PROVE  Cardinality(Linking) <= Cardinality(Producers) - 1
    <2>1. Linking \subseteq Producers \ {p}
      BY <1>2, <1>5
    <2>2. /\ IsFiniteSet(Producers \ {p})
          /\ Cardinality(Producers \ {p}) = Cardinality(Producers) - 1
      BY <1>2, FS_RemoveElement
    <2> QED BY <2>1, <2>2, FS_Subset
  <1>6. Unlinking = {} \/ Unlinking = {c}
    BY <1>1 DEF Unlinking
  <1>7. IsFiniteSet(Unlinking) /\ Cardinality(Unlinking) \in {0, 1}
    BY <1>6, FS_EmptySet, FS_Singleton, ZenonT(60)
  <1> QED BY <1>3, <1>4, <1>5, <1>7

\* A step that neither links nor unlinks nor counts.
LEMMA CountQuiet ==
    ASSUME SegAccounting, UNCHANGED <<head, segs>>, Len(chain') = Len(chain),
           Linking' = Linking, Unlinking' = Unlinking
    PROVE  SegAccounting'
  BY DEF SegAccounting, LiveSegments

LEMMA CountStep ==
    SingleConsumer /\ TypeOK /\ LocalInv /\ SegAccounting /\ [Next]_vars
      => SegAccounting'
  <1> SUFFICES ASSUME SingleConsumer, TypeOK, LocalInv, SegAccounting, [Next]_vars
               PROVE  SegAccounting'
    OBVIOUS
  <1>0. /\ Len(chain) \in Nat /\ head \in Nat /\ chain \in Seq(Segments)
        /\ LiveSegments \in Int /\ CountModulus \in Nat \ {0}
        /\ Producers \cap Consumers = {}
        /\ Producers \subseteq Procs /\ Consumers \subseteq Procs
        /\ pc \in [Procs -> PcLabels] /\ at \in [Procs -> DOMAIN chain]
        /\ IsFiniteSet(Linking) /\ Cardinality(Linking) \in Nat
        /\ Cardinality(Unlinking) \in {0, 1}
    <2>1. chain \in Seq(Segments) /\ head \in DOMAIN chain
      BY DEF TypeOK
    <2>2. Len(chain) \in Nat /\ head \in Nat
      BY <2>1, ChainFacts
    <2>3. CountModulus \in Nat \ {0}
      BY SegmentAssumption, LinkingFinite
    <2> QED BY <2>1, <2>2, <2>3, LinkingFinite, SegmentAssumption, SMTT(40)
            DEF TypeOK, Procs, PcLabels, LiveSegments
  <1>1. ASSUME NEW p \in Producers, EnqLink(p), chain' # chain
        PROVE  SegAccounting'
    <2>1. Len(chain') = Len(chain) + 1 /\ UNCHANGED <<head, segs>>
      BY <1>0, <1>1, LinkFacts DEF EnqLink
    <2>2. /\ Linking' = Linking \cup {p} /\ p \notin Linking
          /\ Unlinking' = Unlinking
      BY <1>0, <1>1 DEF EnqLink, Goto, Linking, Unlinking
    <2>3. Cardinality(Linking') = Cardinality(Linking) + 1
      BY <1>0, <2>2, FS_AddElement
    <2>4. LiveSegments' = LiveSegments + 1
      BY <1>0, <2>1 DEF LiveSegments
    <2>5. LiveSegments' - Cardinality(Linking') + Cardinality(Unlinking')
            = LiveSegments - Cardinality(Linking) + Cardinality(Unlinking)
      BY <1>0, <2>2, <2>3, <2>4
    <2> QED BY <2>1, <2>5 DEF SegAccounting
  <1>2. ASSUME NEW p \in Producers, EnqCount(p) PROVE SegAccounting'
    <2>1. UNCHANGED <<head, chain>> /\ segs' = (segs + 1) % CountModulus
      BY <1>2 DEF EnqCount
    <2>2. /\ Linking' = Linking \ {p} /\ p \in Linking
          /\ Unlinking' = Unlinking
      BY <1>0, <1>2 DEF EnqCount, Goto, Linking, Unlinking
    <2>3. Cardinality(Linking') = Cardinality(Linking) - 1
      BY <1>0, <2>2, FS_RemoveElement
    <2>4. PICK n \in Int :
            n = LiveSegments - Cardinality(Linking) + Cardinality(Unlinking)
      BY <1>0
    <2>5. LiveSegments' - Cardinality(Linking') + Cardinality(Unlinking') = n + 1
      BY <1>0, <2>1, <2>2, <2>3, <2>4 DEF LiveSegments
    <2>6. ((n % CountModulus) + 1) % CountModulus = (n + 1) % CountModulus
      BY <1>0, CountWraps
    <2> QED BY <2>1, <2>4, <2>5, <2>6 DEF SegAccounting
  <1>3. ASSUME NEW c \in Consumers, DeqStoreHead(c) PROVE SegAccounting'
    <2>1. UNCHANGED <<chain, segs>> /\ head' = head + 1
      BY <1>3 DEF DeqStoreHead, LocalInv, ConsumerInv
    <2>2. Consumers = {c}
      BY DEF SingleConsumer
    <2>3. Linking' = Linking /\ Unlinking = {} /\ Unlinking' = {c}
      BY <1>0, <1>3, <2>2 DEF DeqStoreHead, Goto, Linking, Unlinking
    <2>4. Cardinality(Unlinking) = 0 /\ Cardinality(Unlinking') = 1
      BY <2>3, FS_EmptySet, FS_Singleton
    <2>5. LiveSegments' = LiveSegments - 1
      BY <1>0, <2>1 DEF LiveSegments
    <2>6. LiveSegments' - Cardinality(Linking') + Cardinality(Unlinking')
            = LiveSegments - Cardinality(Linking) + Cardinality(Unlinking)
      BY <1>0, <2>3, <2>4, <2>5
    <2> QED BY <2>1, <2>6 DEF SegAccounting
  <1>4. ASSUME NEW c \in Consumers, DeqCount(c) PROVE SegAccounting'
    <2>1. UNCHANGED <<head, chain>> /\ segs' = (segs - 1) % CountModulus
      BY <1>4 DEF DeqCount
    <2>2. Consumers = {c}
      BY DEF SingleConsumer
    <2>3. Linking' = Linking /\ Unlinking = {c} /\ Unlinking' = {}
      BY <1>0, <1>4, <2>2 DEF DeqCount, Goto, Linking, Unlinking
    <2>4. Cardinality(Unlinking) = 1 /\ Cardinality(Unlinking') = 0
      BY <2>3, FS_EmptySet, FS_Singleton
    <2>5. PICK n \in Int :
            n = LiveSegments - Cardinality(Linking) + Cardinality(Unlinking)
      BY <1>0
    <2>6. LiveSegments' - Cardinality(Linking') + Cardinality(Unlinking') = n - 1
      BY <1>0, <2>1, <2>3, <2>4, <2>5 DEF LiveSegments
    <2>7. ((n % CountModulus) + (-1)) % CountModulus = (n + (-1)) % CountModulus
      BY <1>0, CountWraps
    <2>8. n % CountModulus \in Int
      BY <1>0, Euclid
    <2>9. (n % CountModulus) + (-1) = (n % CountModulus) - 1 /\ n + (-1) = n - 1
      BY <2>8
    <2> QED BY <2>1, <2>5, <2>6, <2>7, <2>9 DEF SegAccounting
  <1>5. ASSUME NEW p \in Producers,
               \/ EnqCall(p) \/ EnqLoadTail(p) \/ EnqTry(p) \/ EnqPublish(p)
               \/ EnqLoadSegs(p) \/ EnqLoadNext(p) \/ (EnqLink(p) /\ chain' = chain)
               \/ EnqSwingNew(p) \/ EnqSwingOld(p)
        PROVE  SegAccounting'
    <2>1. Linking' = Linking /\ Unlinking' = Unlinking /\ UNCHANGED <<head, segs>>
      <3>1. \A x \in Procs :
              /\ x # p => pc'[x] = pc[x]
              /\ pc'[x] \in {"e_swing", "e_add"} <=> pc[x] \in {"e_swing", "e_add"}
        BY <1>0, <1>5, LinkFacts, SMTT(40)
        DEF EnqCall, EnqLoadTail, EnqTry, EnqPublish, EnqLoadSegs, EnqLoadNext,
            EnqLink, EnqSwingNew, EnqSwingOld, Goto, Return
      <3>2. UNCHANGED <<head, segs>>
        BY <1>5 DEF EnqCall, EnqLoadTail, EnqTry, EnqPublish, EnqLoadSegs,
                    EnqLoadNext, EnqLink, EnqSwingNew, EnqSwingOld
      <3>3. Linking' = Linking
        <4>1. \A q \in Producers : pc'[q] \in {"e_swing", "e_add"}
                                     <=> pc[q] \in {"e_swing", "e_add"}
          BY <1>0, <3>1
        <4> QED BY <4>1, Zenon DEF Linking
      <3>4. Unlinking' = Unlinking
        <4>1. \A d \in Consumers : pc'[d] = "d_dec" <=> pc[d] = "d_dec"
          BY <1>0, <3>1
        <4> QED BY <4>1, Zenon DEF Unlinking
      <3> QED BY <3>2, <3>3, <3>4
    <2>2. Len(chain') = Len(chain)
      <3>1. CASE chain' = chain
        BY <3>1
      <3>2. CASE EnqTry(p) /\ chain' # chain
        <4>1. <<p, sent[p]>> \in Items
          BY <3>2 DEF TypeOK, Items, LocalInv, ProducerInv, EnqTry
        <4> QED BY <1>0, <3>2, <4>1, DrawFacts DEF EnqTry
      <3>3. CASE EnqPublish(p)
        BY <1>0, <3>3, PublishFacts DEF EnqPublish, TypeOK
      <3> QED BY <1>5, <3>1, <3>2, <3>3
              DEF EnqCall, EnqLoadTail, EnqLoadSegs, EnqLoadNext, EnqSwingNew,
                  EnqSwingOld
    <2> QED BY <2>1, <2>2, CountQuiet
  <1>6. ASSUME NEW c \in Consumers,
               \/ DeqCall(c) \/ DeqLoadHead(c) \/ DeqTry(c) \/ DeqRelease(c)
               \/ DeqLoadNext(c)
        PROVE  SegAccounting'
    <2>1. Linking' = Linking /\ Unlinking' = Unlinking /\ UNCHANGED <<head, segs>>
      <3>1. \A x \in Procs :
              /\ x # c => pc'[x] = pc[x]
              /\ pc'[x] = "d_dec" <=> pc[x] = "d_dec"
        BY <1>0, <1>6 DEF DeqCall, DeqLoadHead, DeqTry, DeqRelease, DeqLoadNext,
                          Goto, Return
      <3>2. UNCHANGED <<head, segs>>
        BY <1>6 DEF DeqCall, DeqLoadHead, DeqTry, DeqRelease, DeqLoadNext
      <3>3. Linking' = Linking
        <4>1. \A q \in Producers : pc'[q] \in {"e_swing", "e_add"}
                                     <=> pc[q] \in {"e_swing", "e_add"}
          BY <1>0, <3>1
        <4> QED BY <4>1, Zenon DEF Linking
      <3>4. Unlinking' = Unlinking
        <4>1. \A d \in Consumers : pc'[d] = "d_dec" <=> pc[d] = "d_dec"
          BY <1>0, <3>1
        <4> QED BY <4>1, Zenon DEF Unlinking
      <3> QED BY <3>2, <3>3, <3>4
    <2>2. Len(chain') = Len(chain)
      <3>1. CASE chain' = chain
        BY <3>1
      <3>2. CASE DeqTry(c) /\ chain' # chain
        <4>1. chain' = [chain EXCEPT ![at[c]] = TakeFront(chain[at[c]])]
          BY <3>2 DEF DeqTry
        <4> QED BY <1>0, <4>1, TakeFacts
      <3>3. CASE DeqRelease(c)
        BY <1>0, <3>3, ReleaseFacts DEF DeqRelease
      <3> QED BY <1>6, <3>1, <3>2, <3>3 DEF DeqCall, DeqLoadHead, DeqLoadNext
    <2> QED BY <2>1, <2>2, CountQuiet
  <1>7. CASE UNCHANGED vars
    BY <1>7, CountQuiet DEF vars, Linking, Unlinking
  <1>8. ASSUME NEW p \in Producers, EnqCall(p) \/ EnqStep(p) PROVE SegAccounting'
    <2>1. EnqLink(p) /\ chain' # chain => SegAccounting'
      BY <1>1
    <2>2. EnqLink(p) /\ chain' = chain => SegAccounting'
      BY <1>5
    <2> QED BY <1>2, <1>5, <1>8, <2>1, <2>2 DEF EnqStep
  <1>9. ASSUME NEW c \in Consumers, DeqCall(c) \/ DeqStep(c) PROVE SegAccounting'
    BY <1>3, <1>4, <1>6, <1>9 DEF DeqStep
  <1> QED BY <1>7, <1>8, <1>9 DEF Next

-----------------------------------------------------------------------------
(* The limit on segments *)

\* A step that links nothing and lets no producer in.
LEMMA BoundQuiet ==
    ASSUME TypeOK, SegmentBound, RoomInv, Len(chain') = Len(chain),
           head' \in Nat, head' >= head,
           \A p \in Producers : pc'[p] \in {"e_next", "e_link"} =>
             pc[p] \in {"e_next", "e_link"} /\ at'[p] = at[p]
    PROVE  SegmentBound' /\ RoomInv'
  <1>1. Len(chain) \in Nat /\ head \in Nat
    BY ChainFacts DEF TypeOK
  <1>2. Cardinality(Producers) \in Nat /\ MaxSeg \in Nat
    BY FS_CardinalityType, SegmentAssumption
  <1>3. LiveSegments' <= LiveSegments /\ LiveSegments \in Int /\ LiveSegments' \in Int
    BY <1>1 DEF LiveSegments
  <1>4. SegmentBound'
    BY <1>2, <1>3 DEF SegmentBound
  <1>5. RoomInv'
    BY <1>2, <1>3 DEF RoomInv
  <1> QED BY <1>4, <1>5

LEMMA BoundLoadSegs ==
    ASSUME SingleConsumer, TypeOK, SegAccounting, SegmentBound, RoomInv,
           NEW p \in Producers, EnqLoadSegs(p)
    PROVE  SegmentBound' /\ RoomInv'
  <1>0. /\ pc \in [Procs -> PcLabels] /\ p \in Procs /\ head \in Nat
        /\ LiveSegments \in Int /\ Producers \subseteq Procs
    BY ChainFacts DEF TypeOK, Procs, PcLabels, LiveSegments
  <1>1. CASE segs >= MaxSeg
    <2>1. /\ UNCHANGED <<chain, head, at>>
          /\ \A q \in Producers : pc'[q] \in {"e_next", "e_link"} => pc'[q] = pc[q]
      BY <1>0, <1>1, SegmentAssumption, SMTT(40) DEF EnqLoadSegs, Return, Goto, TypeOK
    <2> QED BY <1>0, <2>1, BoundQuiet
  <1>2. CASE segs < MaxSeg
    <2>1. PICK L \in Nat, U \in {0, 1}, P \in Nat \ {0} :
            L = Cardinality(Linking) /\ U = Cardinality(Unlinking)
            /\ P = Cardinality(Producers)
      BY LinkingFinite
    <2>2. L <= P - 1
      <3>1. p \notin Linking
        BY DEF EnqLoadSegs, Linking
      <3> QED BY <2>1, <3>1, LinkingFinite
    <2>3. LiveSegments <= MaxSeg + P - 1 /\ CountModulus > MaxSeg + P
          /\ MaxSeg \in Nat /\ CountModulus \in Nat \ {0}
      BY <2>1, SegmentAssumption DEF SegmentBound
    <2>4. segs = (LiveSegments - L + U) % CountModulus
      BY <2>1 DEF SegAccounting
    <2>5. LiveSegments < MaxSeg + P - 1
      <3>1. PICK n \in Int : n = LiveSegments - L + U
        BY <1>0, <2>1
      <3>2. CASE n < 0
        BY <1>0, <2>1, <2>2, <2>3, <3>1, <3>2
      <3>3. CASE n >= 0
        <4>1. n \in 0 .. CountModulus - 1
          BY <1>0, <2>1, <2>2, <2>3, <3>1, <3>3
        <4>2. (CountModulus * 0 + n) % CountModulus = n /\ CountModulus * 0 + n = n
          BY <2>3, <4>1, Remainder
        <4>3. n < MaxSeg
          BY <1>2, <2>4, <3>1, <4>2
        <4> QED BY <1>0, <2>1, <2>2, <2>3, <3>1, <4>3
      <3> QED BY <3>2, <3>3
    <2>6. UNCHANGED <<chain, head>>
      BY DEF EnqLoadSegs
    <2>7. LiveSegments' = LiveSegments
      BY <2>6 DEF LiveSegments
    <2> QED BY <2>1, <2>5, <2>7 DEF SegmentBound, RoomInv
  <1> QED BY <1>1, <1>2, SegmentAssumption DEF TypeOK

LEMMA BoundLink ==
    ASSUME TypeOK, SegmentBound, RoomInv, NEW p \in Producers, EnqLink(p)
    PROVE  SegmentBound' /\ RoomInv'
  <1>0. /\ pc \in [Procs -> PcLabels] /\ p \in Procs /\ head \in Nat
        /\ chain \in Seq(Segments) /\ Len(chain) \in Nat
        /\ DOMAIN chain = 1 .. Len(chain)
        /\ LiveSegments \in Int /\ Producers \subseteq Procs
        /\ \A q \in Procs : at[q] \in DOMAIN chain
        /\ Cardinality(Producers) \in Nat /\ MaxSeg \in Nat
    <2>1. /\ pc \in [Procs -> PcLabels] /\ p \in Procs /\ chain \in Seq(Segments)
          /\ head \in DOMAIN chain /\ Producers \subseteq Procs
          /\ \A q \in Procs : at[q] \in DOMAIN chain
      BY DEF TypeOK, Procs, PcLabels
    <2>2. Len(chain) \in Nat /\ DOMAIN chain = 1 .. Len(chain)
      BY <2>1, ChainFacts
    <2>3. Cardinality(Producers) \in Nat /\ MaxSeg \in Nat
      BY FS_CardinalityType, SegmentAssumption
    <2>4. head \in Nat
      BY ONLY <2>1, <2>2
    <2>5. LiveSegments \in Int
      BY ONLY <2>2, <2>4 DEF LiveSegments
    <2> QED BY <2>1, <2>2, <2>3, <2>4, <2>5
  <1>1. CASE chain' = chain
    <2>1. /\ UNCHANGED <<chain, head, at>>
          /\ \A q \in Producers : pc'[q] \in {"e_next", "e_link"} => pc'[q] = pc[q]
      BY <1>0, <1>1, Zenon DEF EnqLink, Goto
    <2>2. /\ Len(chain') = Len(chain) /\ head' \in Nat /\ head' >= head
          /\ \A q \in Producers : pc'[q] \in {"e_next", "e_link"} =>
               pc[q] \in {"e_next", "e_link"} /\ at'[q] = at[q]
      BY <1>0, <2>1
    <2> QED BY <2>2, BoundQuiet
  <1>2. CASE chain' # chain
    <2>1. /\ Len(chain') = Len(chain) + 1 /\ UNCHANGED <<head, at>>
          /\ at[p] = Len(chain)
      BY <1>0, <1>2, LinkFacts DEF EnqLink
    <2>2. LiveSegments' = LiveSegments + 1
      BY <1>0, <2>1 DEF LiveSegments
    <2>3. LiveSegments < MaxSeg + Cardinality(Producers) - 1
      BY <2>1 DEF RoomInv, EnqLink
    <2>4. SegmentBound'
      BY <1>0, <2>2, <2>3 DEF SegmentBound
    <2>5. \A q \in Producers : at'[q] # Len(chain')
      BY <1>0, <2>1
    <2> QED BY <2>4, <2>5 DEF RoomInv
  <1> QED BY <1>1, <1>2

LEMMA LengthKept ==
    ASSUME TypeOK, LocalInv, [Next]_vars,
           \A p \in Producers : ~EnqLink(p)
    PROVE  Len(chain') = Len(chain)
  <1>0. /\ chain \in Seq(Segments) /\ ticket \in [Procs -> Nat]
        /\ \A x \in Procs : at[x] \in DOMAIN chain
        /\ Producers \subseteq Procs /\ Consumers \subseteq Procs
    BY DEF TypeOK, Procs
  <1>1. CASE chain' = chain
    BY <1>1
  <1>2. ASSUME NEW p \in Producers, EnqTry(p), chain' # chain
        PROVE  Len(chain') = Len(chain)
    <2>1. <<p, sent[p]>> \in Items
      BY <1>2 DEF TypeOK, Items, LocalInv, ProducerInv, EnqTry
    <2> QED BY <1>0, <1>2, <2>1, DrawFacts DEF EnqTry
  <1>3. ASSUME NEW p \in Producers, EnqPublish(p) PROVE Len(chain') = Len(chain)
    BY <1>0, <1>3, PublishFacts DEF EnqPublish
  <1>4. ASSUME NEW c \in Consumers, DeqTry(c), chain' # chain
        PROVE  Len(chain') = Len(chain)
    <2>1. chain' = [chain EXCEPT ![at[c]] = TakeFront(chain[at[c]])]
      BY <1>4 DEF DeqTry
    <2> QED BY <1>0, <2>1, TakeFacts
  <1>5. ASSUME NEW c \in Consumers, DeqRelease(c) PROVE Len(chain') = Len(chain)
    BY <1>0, <1>5, ReleaseFacts DEF DeqRelease
  <1>6. ASSUME NEW p \in Producers, EnqCall(p) \/ EnqStep(p)
        PROVE  Len(chain') = Len(chain)
    BY <1>1, <1>2, <1>3, <1>6
    DEF EnqStep, EnqCall, EnqLoadTail, EnqLoadSegs, EnqLoadNext, EnqSwingNew,
        EnqCount, EnqSwingOld
  <1>7. ASSUME NEW c \in Consumers, DeqCall(c) \/ DeqStep(c)
        PROVE  Len(chain') = Len(chain)
    BY <1>1, <1>4, <1>5, <1>7
    DEF DeqStep, DeqCall, DeqLoadHead, DeqLoadNext, DeqStoreHead, DeqCount
  <1> QED BY <1>1, <1>6, <1>7 DEF Next, vars

LEMMA HeadAdvances ==
    ASSUME TypeOK, LocalInv, [Next]_vars
    PROVE  head' \in Nat /\ head' >= head
  <1>1. head \in Nat
    BY ChainFacts DEF TypeOK
  <1>2. \A c \in Consumers : DeqStoreHead(c) => head' = head + 1
    BY DEF DeqStoreHead, LocalInv, ConsumerInv
  <1>3. (\A c \in Consumers : ~DeqStoreHead(c)) => head' = head
    BY EnqMoves DEF Next, DeqStep, DeqCall, DeqLoadHead, DeqTry, DeqRelease,
                    DeqLoadNext, DeqCount, vars
  <1> QED BY <1>1, <1>2, <1>3

LEMMA BoundStep ==
    /\ SingleConsumer /\ TypeOK /\ LocalInv /\ SegAccounting
    /\ SegmentBound /\ RoomInv /\ [Next]_vars
    => SegmentBound' /\ RoomInv'
  <1> SUFFICES ASSUME SingleConsumer, TypeOK, LocalInv, SegAccounting,
                      SegmentBound, RoomInv, [Next]_vars
               PROVE  SegmentBound' /\ RoomInv'
    OBVIOUS
  <1>1. CASE \E p \in Producers : EnqLink(p) \/ EnqLoadSegs(p)
    BY <1>1, BoundLink, BoundLoadSegs
  <1>2. CASE ~\E p \in Producers : EnqLink(p) \/ EnqLoadSegs(p)
    <2>0. /\ pc \in [Procs -> PcLabels] /\ at \in [Procs -> DOMAIN chain]
          /\ Producers \subseteq Procs /\ Consumers \subseteq Procs
          /\ Producers \cap Consumers = {} /\ head \in Nat
      BY ChainFacts, SegmentAssumption DEF TypeOK, Procs, PcLabels
    <2>1. Len(chain') = Len(chain)
      BY <1>2, LengthKept
    <2>2. head' \in Nat /\ head' >= head
      BY HeadAdvances
    <2>3. \A q \in Producers : pc'[q] \in {"e_next", "e_link"} =>
            pc[q] \in {"e_next", "e_link"} /\ at'[q] = at[q]
      <3>1. ASSUME NEW p \in Producers, EnqCall(p) \/ EnqStep(p),
                   NEW q \in Producers, pc'[q] \in {"e_next", "e_link"}
            PROVE  pc[q] \in {"e_next", "e_link"} /\ at'[q] = at[q]
        BY <1>2, <2>0, <3>1
        DEF EnqStep, EnqCall, EnqLoadTail, EnqTry, EnqPublish, EnqLoadNext,
            EnqSwingNew, EnqCount, EnqSwingOld, Return, Goto
      <3>2. ASSUME NEW c \in Consumers, DeqCall(c) \/ DeqStep(c)
            PROVE  \A q \in Producers : pc'[q] = pc[q] /\ at'[q] = at[q]
        BY <2>0, <3>2, DeqMoves DEF OnlyMoves
      <3> QED BY <3>1, <3>2 DEF Next, vars
    <2> QED BY <2>1, <2>2, <2>3, BoundQuiet
  <1> QED BY <1>1, <1>2

LEMMA SegmentInductive ==
    ASSUME SingleConsumer
    PROVE  Spec => [](TypeOK /\ LocalInv /\ SegAccounting /\ SegmentBound /\ RoomInv)
  <1>1. Init => TypeOK /\ LocalInv /\ SegAccounting /\ SegmentBound /\ RoomInv
    <2> SUFFICES ASSUME Init
                 PROVE  TypeOK /\ LocalInv /\ SegAccounting /\ SegmentBound /\ RoomInv
      OBVIOUS
    <2>0. /\ MaxSeg \in Nat \ {0} /\ Cardinality(Producers) \in Nat \ {0}
          /\ CountModulus > MaxSeg + Cardinality(Producers)
          /\ MaxSends \in Nat /\ CountModulus \in Nat
      BY SegmentAssumption, LinkingFinite
    <2>1. NewSegment \in Segments /\ OwnTickets(NewSegment)
      <3>1. <<>> \in Seq(Items)
        OBVIOUS
      <3> QED BY <3>1, SizeAssumption DEF NewSegment, Segments, OwnTickets
    <2>2. /\ chain \in Seq(Segments) /\ Len(chain) = 1 /\ DOMAIN chain = {1}
          /\ chain[1] = NewSegment
      BY <2>1 DEF Init
    <2>3. TypeOK
      <3>1. out \in Seq(Items)
        BY DEF Init
      <3> QED BY <2>0, <2>1, <2>2, <3>1 DEF Init, TypeOK
    <2>4. LocalInv
      BY DEF Init, LocalInv, ProducerInv, ConsumerInv, Procs
    <2>5. LiveSegments = 1
      BY <2>2 DEF Init, LiveSegments
    <2>6. SegAccounting
      <3>1. Linking = {} /\ Unlinking = {}
        BY DEF Init, Linking, Unlinking, Procs
      <3>2. Cardinality(Linking) = 0 /\ Cardinality(Unlinking) = 0
        BY <3>1, FS_EmptySet
      <3>3. (CountModulus * 0 + 1) % CountModulus = 1 /\ CountModulus * 0 + 1 = 1
        BY <2>0, Remainder
      <3> QED BY <2>5, <3>2, <3>3 DEF Init, SegAccounting
    <2>7. SegmentBound
      BY <2>0, <2>5 DEF SegmentBound
    <2>8. RoomInv
      BY DEF Init, RoomInv, Procs
    <2> QED BY <2>3, <2>4, <2>6, <2>7, <2>8
  <1>2. TypeOK /\ LocalInv /\ SegAccounting /\ SegmentBound /\ RoomInv /\ [Next]_vars
          => (TypeOK /\ LocalInv /\ SegAccounting /\ SegmentBound /\ RoomInv)'
    BY TypeStep, LocalStep, CountStep, BoundStep
  <1> QED BY <1>1, <1>2, PTL DEF Spec

(***************************************************************************)
(* With one consumer the chain of segments stays well formed, q.segs is    *)
(* the number of live segments up to the calls between the link or the     *)
(* store and their Add, modulo its width, and producers that pass the      *)
(* check of q.segs at the same time exceed q.maxSeg by at most one segment *)
(* each but one (mailbox/segmented.go:64-75, 93-94).                       *)
(***************************************************************************)
THEOREM SegmentsBounded ==
    ASSUME SingleConsumer
    PROVE  Spec => []SegmentInv
  <1>1. TypeOK /\ SegAccounting /\ SegmentBound => SegmentInv
    BY DEF SegmentInv
  <1> QED BY <1>1, SegmentInductive, PTL

-----------------------------------------------------------------------------
(* The order of a producer's values *)

\* p draws a ticket for its value.
Places(p) == EnqTry(p) /\ ~SlotTaken(chain[at[p]])

LEMMA ItemFields ==
    ASSUME NEW e \in Items
    PROVE  e[1] \in Producers /\ e[1] \in Procs /\ e[2] \in Nat
  BY SegmentAssumption, SMTT(40) DEF Items, Procs

LEMMA PlacesFacts ==
    ASSUME TypeOK, LocalInv, NEW p \in Producers, Places(p)
    PROVE  /\ <<p, sent[p]>> \in Items
           /\ at[p] \in DOMAIN chain /\ DOMAIN chain' = DOMAIN chain
           /\ \A j \in DOMAIN chain : j # at[p] => chain'[j] = chain[j]
           /\ chain'[at[p]].items = Append(chain[at[p]].items, <<p, sent[p]>>)
           /\ chain'[at[p]].first = chain[at[p]].first
           /\ UNCHANGED <<head, tail, at, sent, out>>
           /\ pc[p] = "e_try" /\ pc'[p] = "e_pub"
           /\ \A x \in Procs \ {p} : pc'[x] = pc[x]
  <1>0. /\ p \in Procs /\ at[p] \in DOMAIN chain /\ chain \in Seq(Segments)
        /\ pc \in [Procs -> PcLabels]
    BY DEF TypeOK, Procs, PcLabels
  <1>1. <<p, sent[p]>> \in Items
    BY DEF TypeOK, Items, LocalInv, ProducerInv, Places, EnqTry
  <1>2. chain' = [chain EXCEPT ![at[p]].items = Append(@, <<p, sent[p]>>)]
    BY DEF Places, EnqTry
  <1>3. /\ UNCHANGED <<head, tail, at, sent, out>>
        /\ pc[p] = "e_try" /\ pc'[p] = "e_pub"
        /\ \A x \in Procs \ {p} : pc'[x] = pc[x]
    BY <1>0 DEF Places, EnqTry, Goto
  <1> QED BY <1>0, <1>1, <1>2, <1>3, DrawFacts

\* A position of the new chain: the one the value got, or one of the old.
LEMMA PlacesAt ==
    ASSUME TypeOK, LocalInv, NEW p \in Producers, Places(p),
           NEW i \in DOMAIN chain', NEW k \in DOMAIN chain'[i].items
    PROVE  /\ i \in DOMAIN chain
           /\ \/ /\ i = at[p] /\ k = Len(chain[i].items) + 1
                 /\ chain'[i].items[k] = <<p, sent[p]>>
              \/ /\ k \in DOMAIN chain[i].items
                 /\ chain'[i].items[k] = chain[i].items[k]
                 /\ chain'[i].first = chain[i].first
  <1>1. i \in DOMAIN chain /\ chain[i].items \in Seq(Items)
    BY PlacesFacts, ChainFacts DEF TypeOK
  <1>2. CASE i # at[p]
    BY <1>1, <1>2, PlacesFacts
  <1>3. CASE i = at[p]
    <2>1. /\ chain'[i].items = Append(chain[i].items, <<p, sent[p]>>)
          /\ <<p, sent[p]>> \in Items /\ chain'[i].first = chain[i].first
      BY <1>3, PlacesFacts
    <2>2. k \in DOMAIN chain[i].items \/ k = Len(chain[i].items) + 1
      BY <1>1, <2>1, AppendFacts
    <2> QED BY <1>1, <1>3, <2>1, <2>2, AppendFacts, SMTT(40)
  <1> QED BY <1>2, <1>3, SMTT(40)

\* Every other step leaves the values where they are.
LEMMA ItemsKept ==
    ASSUME TypeOK, LocalInv, [Next]_vars, \A p \in Producers : ~Places(p),
           NEW i \in DOMAIN chain', NEW k \in DOMAIN chain'[i].items
    PROVE  /\ i \in DOMAIN chain /\ k \in DOMAIN chain[i].items
           /\ chain'[i].items = chain[i].items
           /\ chain'[i].first >= chain[i].first /\ chain'[i].first \in Nat
  <1>0. /\ chain \in Seq(Segments) /\ ticket \in [Procs -> Nat]
        /\ \A x \in Procs : at[x] \in DOMAIN chain
        /\ Producers \subseteq Procs /\ Consumers \subseteq Procs
        /\ Len(chain) \in Nat /\ DOMAIN chain = 1 .. Len(chain)
        /\ \A j \in DOMAIN chain : chain[j].first \in Nat
    BY ChainFacts DEF TypeOK, Procs
  <1> DEFINE Kept == /\ i \in DOMAIN chain /\ chain'[i].items = chain[i].items
                     /\ chain'[i].first >= chain[i].first /\ chain'[i].first \in Nat
  <1>1. CASE chain' = chain
    BY <1>0, <1>1
  <1>2. ASSUME NEW p \in Producers, EnqPublish(p) PROVE Kept
    <2>1. /\ DOMAIN chain' = DOMAIN chain
          /\ \A j \in DOMAIN chain : /\ chain'[j].items = chain[j].items
                                     /\ chain'[j].first = chain[j].first
      BY <1>0, <1>2, PublishFacts DEF EnqPublish
    <2> QED BY <1>0, <2>1
  <1>3. ASSUME NEW p \in Producers, EnqLink(p), chain' # chain PROVE Kept
    <2>1. /\ DOMAIN chain' = 1 .. Len(chain) + 1
          /\ \A j \in DOMAIN chain : chain'[j] = chain[j]
          /\ chain'[Len(chain) + 1].items = <<>>
      BY <1>0, <1>3, LinkFacts DEF EnqLink
    <2>2. i # Len(chain) + 1
      BY <2>1
    <2>3. i \in DOMAIN chain
      BY <1>0, <2>1, <2>2
    <2> QED BY <1>0, <2>1, <2>3
  <1>4. ASSUME NEW c \in Consumers, DeqTry(c), chain' # chain PROVE Kept
    <2>1. chain' = [chain EXCEPT ![at[c]] = TakeFront(chain[at[c]])]
      BY <1>4 DEF DeqTry
    <2>2. /\ DOMAIN chain' = DOMAIN chain
          /\ \A j \in DOMAIN chain : j # at[c] => chain'[j] = chain[j]
          /\ chain'[at[c]].items = chain[at[c]].items
          /\ chain'[at[c]].first = chain[at[c]].first + 1
      BY <1>0, <2>1, TakeFacts
    <2> QED BY <1>0, <2>2, SMTT(40)
  <1>5. ASSUME NEW c \in Consumers, DeqRelease(c) PROVE Kept
    <2>1. /\ DOMAIN chain' = DOMAIN chain
          /\ \A j \in DOMAIN chain : /\ chain'[j].items = chain[j].items
                                     /\ chain'[j].first = chain[j].first
      BY <1>0, <1>5, ReleaseFacts DEF DeqRelease
    <2> QED BY <1>0, <2>1
  <1>6. ASSUME NEW p \in Producers, EnqTry(p) PROVE chain' = chain
    BY <1>6 DEF Places, EnqTry
  <1>7. ASSUME NEW p \in Producers, EnqCall(p) \/ EnqStep(p) PROVE Kept
    BY <1>1, <1>2, <1>3, <1>6, <1>7
    DEF EnqStep, EnqCall, EnqLoadTail, EnqLoadSegs, EnqLoadNext, EnqSwingNew,
        EnqCount, EnqSwingOld
  <1>8. ASSUME NEW c \in Consumers, DeqCall(c) \/ DeqStep(c) PROVE Kept
    BY <1>1, <1>4, <1>5, <1>8
    DEF DeqStep, DeqCall, DeqLoadHead, DeqLoadNext, DeqStoreHead, DeqCount
  <1>9. Kept
    BY <1>1, <1>7, <1>8 DEF Next, vars
  <1> QED BY <1>9

LEMMA NumberedStep ==
    ASSUME TypeOK, [Next]_vars, NEW e \in Items, Numbered(e)
    PROVE  Numbered(e)'
  <1>0. /\ e[1] \in Producers /\ e[1] \in Procs /\ e[2] \in Nat
        /\ sent[e[1]] \in Nat /\ sent \in [Producers -> 0 .. MaxSends]
        /\ pc \in [Procs -> PcLabels]
        /\ Producers \subseteq Procs /\ Producers \cap Consumers = {}
    BY ItemFields, SegmentAssumption, SMTT(40) DEF TypeOK, Procs, PcLabels
  <1>1. CASE UNCHANGED <<sent, pc>>
    BY <1>1 DEF Numbered, Unplaced
  <1>2. ASSUME NEW c \in Consumers, DeqCall(c) \/ DeqStep(c)
        PROVE  Numbered(e)'
    <2>1. OnlyMoves(c) /\ sent' = sent
      BY <1>2, DeqMoves
    <2>2. pc'[e[1]] = pc[e[1]]
      BY <1>0, <2>1 DEF OnlyMoves
    <2> QED BY <2>1, <2>2 DEF Numbered, Unplaced
  <1>3. ASSUME NEW p \in Producers, EnqCall(p) \/ EnqStep(p)
        PROVE  Numbered(e)'
    <2>1. CASE p # e[1]
      <3>1. OnlyMoves(p)
        BY <1>3, EnqMoves
      <3>2. pc'[e[1]] = pc[e[1]] /\ sent'[e[1]] = sent[e[1]]
        BY <1>0, <2>1, <3>1 DEF OnlyMoves
      <3> QED BY <3>2 DEF Numbered, Unplaced
    <2>2. CASE p = e[1] /\ EnqCall(p)
      <3>1. sent'[p] = sent[p] + 1
        BY <1>0, <2>2 DEF EnqCall
      <3> QED BY <1>0, <2>2, <3>1 DEF Numbered
    <2>3. CASE p = e[1] /\ EnqStep(p)
      <3>1. sent' = sent
        BY <2>3, SMTT(40) DEF EnqStep, EnqLoadTail, EnqTry, EnqPublish, EnqLoadSegs,
                    EnqLoadNext, EnqLink, EnqSwingNew, EnqCount, EnqSwingOld
      <3>2. Unplaced(p)' => Unplaced(p)
        BY <1>0, <2>3 DEF EnqStep, EnqLoadTail, EnqTry, EnqPublish, EnqLoadSegs,
                    EnqLoadNext, EnqLink, EnqSwingNew, EnqCount, EnqSwingOld,
                    Goto, Return, Unplaced, EnqLabels
      <3> QED BY <2>3, <3>1, <3>2, SMTT(40) DEF Numbered
    <2> QED BY <1>3, <2>1, <2>2, <2>3
  <1> QED BY <1>1, <1>2, <1>3 DEF Next, vars

\* The segment a producer tries is never before one it tried.
LEMMA TryMoves ==
    ASSUME TypeOK, LocalInv, [Next]_vars, NEW q \in Producers, pc'[q] = "e_try"
    PROVE  \/ at'[q] = tail
           \/ pc[q] = "e_try" /\ at'[q] = at[q]
  <1>0. /\ pc \in [Procs -> PcLabels] /\ at \in [Procs -> DOMAIN chain]
        /\ Producers \subseteq Procs /\ Producers \cap Consumers = {}
    BY SegmentAssumption DEF TypeOK, Procs, PcLabels
  <1>1. ASSUME NEW c \in Consumers, DeqCall(c) \/ DeqStep(c)
        PROVE  pc[q] = "e_try" /\ at'[q] = at[q]
    BY <1>0, <1>1, DeqMoves DEF OnlyMoves
  <1>2. ASSUME NEW p \in Producers, EnqCall(p) \/ EnqStep(p), p # q
        PROVE  pc[q] = "e_try" /\ at'[q] = at[q]
    BY <1>0, <1>2, EnqMoves DEF OnlyMoves
  <1>3. ASSUME EnqCall(q) \/ EnqStep(q)
        PROVE  at'[q] = tail
    BY <1>0, <1>3
    DEF EnqCall, EnqStep, EnqLoadTail, EnqTry, EnqPublish, EnqLoadSegs,
        EnqLoadNext, EnqLink, EnqSwingNew, EnqCount, EnqSwingOld, Goto, Return
  <1> QED BY <1>1, <1>2, <1>3 DEF Next, vars

LEMMA PlacedStep ==
    ASSUME TypeOK, LocalInv, PlacedInv, [Next]_vars
    PROVE  PlacedInv'
  <1> SUFFICES ASSUME NEW i \in DOMAIN chain', NEW k \in DOMAIN chain'[i].items
               PROVE  /\ Numbered(chain[i].items[k])'
                      /\ i <= tail'
                      /\ pc'[chain'[i].items[k][1]] = "e_try"
                           => i <= at'[chain'[i].items[k][1]]
    BY DEF PlacedInv
  <1>0. /\ Grown /\ tail \in Nat /\ tail' \in Nat
        /\ \A j \in DOMAIN chain : j \in Nat
        /\ \A j \in DOMAIN chain : \A l \in DOMAIN chain[j].items :
             chain[j].items[l] \in Items
        /\ at \in [Procs -> DOMAIN chain] /\ Producers \subseteq Procs
    <2>1. TypeOK' /\ Grown
      BY TypeStep, GrowStep
    <2>2. tail' \in DOMAIN chain' /\ chain' \in Seq(Segments)
      BY <2>1 DEF TypeOK
    <2>3. tail' \in Nat
      BY <2>2, ChainFacts
    <2> QED BY <2>1, <2>3, ChainFacts, SMTT(40) DEF TypeOK, Procs
  \* A value that was there.
  <1>1. ASSUME i \in DOMAIN chain, k \in DOMAIN chain[i].items,
               chain'[i].items[k] = chain[i].items[k]
        PROVE  /\ Numbered(chain[i].items[k])'
               /\ i <= tail'
               /\ pc'[chain'[i].items[k][1]] = "e_try"
                    => i <= at'[chain'[i].items[k][1]]
    <2>1. PICK e \in Items : e = chain[i].items[k]
      BY <1>0, <1>1
    <2>2. Numbered(e) /\ i <= tail /\ (pc[e[1]] = "e_try" => i <= at[e[1]])
      BY <1>1, <2>1 DEF PlacedInv
    <2>3. Numbered(e)'
      BY <2>2, NumberedStep
    <2>4. e[1] \in Producers
      BY ItemFields
    <2>5. pc'[e[1]] = "e_try" => i <= at'[e[1]]
      BY <2>2, <2>4, TryMoves
    <2>6. i <= tail'
      BY <1>0, <1>1, <2>2 DEF Grown
    <2>7. Numbered(chain[i].items[k])'
      BY <1>1, <2>1, <2>3 DEF Numbered, Unplaced
    <2> QED BY <1>1, <2>1, <2>5, <2>6, <2>7
  <1>2. ASSUME NEW p \in Producers, Places(p)
        PROVE  /\ Numbered(chain[i].items[k])'
               /\ i <= tail'
               /\ pc'[chain'[i].items[k][1]] = "e_try"
                    => i <= at'[chain'[i].items[k][1]]
    <2>1. CASE i = at[p] /\ chain'[i].items[k] = <<p, sent[p]>>
      <3>1. /\ pc'[p] = "e_pub" /\ sent' = sent /\ tail' = tail
            /\ pc[p] = "e_try" /\ sent[p] \in Nat
        <4>1. sent[p] \in Nat
          BY SegmentAssumption DEF TypeOK
        <4> QED BY <1>2, <4>1, PlacesFacts
      <3>2. at[p] <= tail
        BY <3>1 DEF LocalInv, ProducerInv
      <3>3. chain'[i].items[k][1] = p /\ chain'[i].items[k][2] = sent[p]
        BY <2>1
      <3>4. Numbered(chain[i].items[k])'
        BY <3>1, <3>3 DEF Numbered, Unplaced
      <3> QED BY <2>1, <3>1, <3>2, <3>3, <3>4
    <2> QED BY <1>1, <1>2, <2>1, PlacesAt
  <1>3. CASE \A p \in Producers : ~Places(p)
    BY <1>1, <1>3, ItemsKept
  <1> QED BY <1>2, <1>3

LEMMA ChainOrderStep ==
    ASSUME TypeOK, LocalInv, PlacedInv, ChainOrder, [Next]_vars
    PROVE  ChainOrder'
  <1> SUFFICES ASSUME NEW i \in DOMAIN chain', NEW j \in DOMAIN chain',
                      NEW k \in DOMAIN chain'[i].items,
                      NEW l \in DOMAIN chain'[j].items,
                      Before(i, k, j, l),
                      chain'[i].items[k][1] = chain'[j].items[l][1]
               PROVE  chain'[i].items[k][2] < chain'[j].items[l][2]
    BY DEF ChainOrder, Before
  <1>1. ASSUME i \in DOMAIN chain, k \in DOMAIN chain[i].items,
               j \in DOMAIN chain, l \in DOMAIN chain[j].items,
               chain'[i].items[k] = chain[i].items[k],
               chain'[j].items[l] = chain[j].items[l]
        PROVE  chain'[i].items[k][2] < chain'[j].items[l][2]
    BY <1>1 DEF ChainOrder
  <1>2. ASSUME NEW p \in Producers, Places(p)
        PROVE  chain'[i].items[k][2] < chain'[j].items[l][2]
    <2>0. /\ i \in DOMAIN chain /\ j \in DOMAIN chain
          /\ i \in Nat /\ j \in Nat /\ at[p] \in Nat
          /\ Len(chain[i].items) \in Nat /\ Len(chain[j].items) \in Nat
          /\ DOMAIN chain[i].items = 1 .. Len(chain[i].items)
          /\ DOMAIN chain[j].items = 1 .. Len(chain[j].items)
          /\ pc[p] = "e_try" /\ sent[p] \in Nat
      <3>1. chain \in Seq(Segments) /\ sent[p] \in Nat
        BY SegmentAssumption DEF TypeOK
      <3>2. i \in DOMAIN chain /\ j \in DOMAIN chain /\ at[p] \in DOMAIN chain
        BY <1>2, PlacesFacts
      <3>3. pc[p] = "e_try"
        BY <1>2, PlacesFacts
      <3> QED BY <3>1, <3>2, <3>3, ChainFacts, SMTT(40)
    \* Its values so far have smaller numbers and are not behind it.
    <2>1. ASSUME NEW a \in DOMAIN chain, NEW m \in DOMAIN chain[a].items,
                 chain[a].items[m][1] = p
          PROVE  chain[a].items[m][2] < sent[p] /\ a <= at[p]
      <3>1. Numbered(chain[a].items[m])
        BY DEF PlacedInv
      <3>2. Unplaced(p)
        BY <2>0 DEF Unplaced, EnqLabels
      <3>3. a <= at[p]
        BY <2>0, <2>1 DEF PlacedInv
      <3> QED BY <2>1, <3>1, <3>2, <3>3 DEF Numbered
    <2>2. CASE j = at[p] /\ l = Len(chain[j].items) + 1
               /\ chain'[j].items[l] = <<p, sent[p]>>
      <3>1. chain'[j].items[l][1] = p /\ chain'[j].items[l][2] = sent[p]
        BY <2>2
      <3>2. k \in DOMAIN chain[i].items /\ chain'[i].items[k] = chain[i].items[k]
        BY <1>2, <2>0, <2>2, PlacesAt, SMTT(40) DEF Before
      <3> QED BY <2>0, <2>1, <3>1, <3>2
    <2>3. CASE /\ l \in DOMAIN chain[j].items
               /\ chain'[j].items[l] = chain[j].items[l]
      <3>1. CASE i = at[p] /\ k = Len(chain[i].items) + 1
                 /\ chain'[i].items[k] = <<p, sent[p]>>
        <4>1. chain[j].items[l][1] = p
          BY <2>3, <3>1
        <4>2. j <= at[p]
          BY <2>0, <2>1, <2>3, <4>1
        <4> QED BY <2>0, <2>3, <3>1, <4>2 DEF Before
      <3>2. CASE /\ k \in DOMAIN chain[i].items
                 /\ chain'[i].items[k] = chain[i].items[k]
        BY <1>1, <2>0, <2>3, <3>2
      <3> QED BY <1>2, <3>1, <3>2, PlacesAt
    <2> QED BY <1>2, <2>2, <2>3, PlacesAt
  <1>3. CASE \A p \in Producers : ~Places(p)
    <2>1. /\ i \in DOMAIN chain /\ k \in DOMAIN chain[i].items
          /\ chain'[i].items = chain[i].items
      BY <1>3, ItemsKept
    <2>2. /\ j \in DOMAIN chain /\ l \in DOMAIN chain[j].items
          /\ chain'[j].items = chain[j].items
      BY <1>3, ItemsKept
    <2> QED BY <1>1, <2>1, <2>2
  <1> QED BY <1>2, <1>3

\* The consumer takes e, the front value of the head segment.
LEMMA TakeValue ==
    ASSUME TypeOK, LocalInv, NEW c \in Consumers, DeqTry(c), out' # out
    PROVE  /\ head \in DOMAIN chain /\ head' = head
           /\ chain[head].first + 1 \in DOMAIN chain[head].items
           /\ out' = Append(out, chain[head].items[chain[head].first + 1])
           /\ chain'[head].first = chain[head].first + 1
  <1>0. /\ chain \in Seq(Segments) /\ head \in DOMAIN chain /\ at[c] = head
    BY DEF TypeOK, LocalInv, ConsumerInv, DeqTry
  <1>1. /\ FrontReady(chain[head]) /\ head' = head
        /\ out' = Append(out, chain[head].items[chain[head].first + 1])
        /\ chain' = [chain EXCEPT ![head] = TakeFront(chain[head])]
    BY <1>0 DEF DeqTry
  <1>2. chain'[head].first = chain[head].first + 1
    BY <1>0, <1>1, TakeFacts
  <1>3. /\ chain[head].first \in Nat /\ Len(chain[head].items) \in Nat
        /\ DOMAIN chain[head].items = 1 .. Len(chain[head].items)
    BY <1>0, ChainFacts
  <1>4. chain[head].first <= Len(chain[head].items) - 1
    BY <1>0, <1>1, <1>3 DEF TypeOK, OwnTickets, FrontReady
  <1> QED BY <1>0, <1>1, <1>2, <1>3, <1>4

LEMMA OutChanges ==
    ASSUME TypeOK, [Next]_vars, out' # out
    PROVE  \E c \in Consumers : DeqTry(c)
  <1>1. \A p \in Producers : ~(EnqCall(p) \/ EnqStep(p))
    BY EnqMoves
  <1>2. \A c \in Consumers : DeqCall(c) \/ DeqStep(c) => DeqTry(c)
    BY DEF DeqCall, DeqStep, DeqLoadHead, DeqRelease, DeqLoadNext, DeqStoreHead,
           DeqCount
  <1> QED BY <1>1, <1>2 DEF Next, vars

LEMMA TakenStep ==
    ASSUME TypeOK, LocalInv, PlacedInv, ChainOrder, TakenInv, [Next]_vars
    PROVE  TakenInv'
  <1>0. /\ chain \in Seq(Segments) /\ out \in Seq(Items) /\ head \in Nat
        /\ head' \in Nat /\ head' >= head
        /\ \A i \in DOMAIN chain : /\ i \in Nat /\ chain[i].first \in Nat
                                   /\ chain[i].items \in Seq(Items)
                                   /\ DOMAIN chain[i].items = 1 .. Len(chain[i].items)
    BY ChainFacts, HeadAdvances DEF TypeOK
  <1> DEFINE Later(e) ==
        \A i \in DOMAIN chain' : \A k \in DOMAIN chain'[i].items :
          i >= head' /\ k > chain'[i].first /\ chain'[i].items[k][1] = e[1]
            => e[2] < chain'[i].items[k][2]
  \* A value that was taken before.
  <1>1. ASSUME NEW n \in DOMAIN out, NEW e \in Items, e = out[n]
        PROVE  Numbered(e)' /\ Later(e)
    <2>2. Numbered(e)
      BY <1>1 DEF TakenInv
    <2>3. Numbered(e)'
      BY <2>2, NumberedStep
    <2>4. ASSUME NEW i \in DOMAIN chain', NEW k \in DOMAIN chain'[i].items,
                 i >= head', k > chain'[i].first, chain'[i].items[k][1] = e[1]
          PROVE  e[2] < chain'[i].items[k][2]
      <3>1. ASSUME i \in DOMAIN chain, k \in DOMAIN chain[i].items,
                   chain'[i].items[k] = chain[i].items[k],
                   chain'[i].first >= chain[i].first, chain'[i].first \in Nat
            PROVE  e[2] < chain'[i].items[k][2]
        <4>1. i >= head /\ k > chain[i].first
          BY <1>0, <2>4, <3>1, SMTT(40)
        <4> QED BY <1>1, <2>4, <3>1, <4>1 DEF TakenInv
      <3>2. ASSUME NEW p \in Producers, Places(p)
            PROVE  e[2] < chain'[i].items[k][2]
        <4>1. CASE chain'[i].items[k] = <<p, sent[p]>>
          <5>1. chain'[i].items[k][2] = sent[p] /\ e[1] = p
            BY <2>4, <4>1
          <5>2. Unplaced(p)
            BY <3>2, PlacesFacts DEF Unplaced, EnqLabels
          <5> QED BY <2>2, <5>1, <5>2 DEF Numbered
        <4>2. CASE /\ i \in DOMAIN chain /\ k \in DOMAIN chain[i].items
                   /\ chain'[i].items[k] = chain[i].items[k]
                   /\ chain'[i].first = chain[i].first
          <5>1. chain[i].first \in Nat
            BY <1>0, <4>2
          <5>2. chain'[i].first >= chain[i].first /\ chain'[i].first \in Nat
            BY <4>2, <5>1
          <5> QED BY <3>1, <4>2, <5>2
        <4> QED BY <3>2, <4>1, <4>2, PlacesAt
      <3>3. CASE \A p \in Producers : ~Places(p)
        <4>1. /\ i \in DOMAIN chain /\ k \in DOMAIN chain[i].items
              /\ chain'[i].items = chain[i].items
              /\ chain'[i].first >= chain[i].first /\ chain'[i].first \in Nat
          BY <3>3, ItemsKept
        <4> QED BY <3>1, <4>1
      <3> QED BY <3>2, <3>3
    <2>5. Later(e)
      BY <2>4
    <2> QED BY <2>3, <2>5
  \* The value that is taken now.
  <1>2. ASSUME NEW c \in Consumers, DeqTry(c), out' # out, NEW e \in Items,
               e = chain[head].items[chain[head].first + 1]
        PROVE  Numbered(e)' /\ Later(e)
    <2>1. /\ head \in DOMAIN chain /\ head' = head
          /\ chain[head].first + 1 \in DOMAIN chain[head].items
          /\ chain'[head].first = chain[head].first + 1
      BY <1>2, TakeValue
    <2>2. Numbered(e)
      BY <1>2, <2>1 DEF PlacedInv
    <2>3. Numbered(e)'
      BY <2>2, NumberedStep
    <2>4. ASSUME NEW i \in DOMAIN chain', NEW k \in DOMAIN chain'[i].items,
                 i >= head', k > chain'[i].first, chain'[i].items[k][1] = e[1]
          PROVE  e[2] < chain'[i].items[k][2]
      <3>1. \A p \in Producers : ~Places(p)
        BY <1>2, PlacesFacts
      <3>2. /\ i \in DOMAIN chain /\ k \in DOMAIN chain[i].items
            /\ chain'[i].items = chain[i].items
        BY <3>1, ItemsKept
      <3>3. i \in Nat /\ k \in Nat
        BY <1>0, <3>2
      <3>4. Before(head, chain[head].first + 1, i, k)
        BY <1>0, <2>1, <2>4, <3>3 DEF Before
      <3> QED BY <1>2, <2>1, <2>4, <3>2, <3>4 DEF ChainOrder
    <2>5. Later(e)
      BY <2>4
    <2> QED BY <2>3, <2>5
  <1>3. SUFFICES ASSUME NEW n \in DOMAIN out'
                 PROVE  \E e \in Items : e = out'[n] /\ Numbered(e)' /\ Later(e)
    BY DEF TakenInv, Numbered, Unplaced
  <1>4. CASE n \in DOMAIN out /\ out'[n] = out[n]
    <2>1. out[n] \in Items
      BY <1>0, <1>4
    <2>2. PICK e \in Items : e = out[n]
      BY <2>1
    <2> QED BY <1>1, <1>4, <2>2
  <1>5. ASSUME NEW c \in Consumers, DeqTry(c), out' # out
        PROVE  \E e \in Items : e = out'[n] /\ Numbered(e)' /\ Later(e)
    <2>1. /\ head \in DOMAIN chain
          /\ chain[head].first + 1 \in DOMAIN chain[head].items
          /\ out' = Append(out, chain[head].items[chain[head].first + 1])
      BY <1>5, TakeValue
    <2>2. PICK e \in Items : e = chain[head].items[chain[head].first + 1]
      BY <1>0, <2>1
    <2>3. \/ n \in DOMAIN out /\ out'[n] = out[n]
          \/ out'[n] = e
      BY <1>0, <2>1, <2>2, AppendFacts
    <2> QED BY <1>2, <1>4, <1>5, <2>2, <2>3
  <1> QED BY <1>4, <1>5, OutChanges

LEMMA OrderStep ==
    ASSUME TypeOK, LocalInv, TakenInv, ProducerOrder, [Next]_vars
    PROVE  ProducerOrder'
  <1>0. out \in Seq(Items) /\ Len(out) \in Nat /\ DOMAIN out = 1 .. Len(out)
    BY DEF TypeOK
  <1>1. CASE out' = out
    BY <1>1 DEF ProducerOrder
  <1>2. ASSUME NEW c \in Consumers, DeqTry(c), out' # out
        PROVE  ProducerOrder'
    <2>1. /\ head \in DOMAIN chain
          /\ chain[head].first + 1 \in DOMAIN chain[head].items
          /\ out' = Append(out, chain[head].items[chain[head].first + 1])
      BY <1>2, TakeValue
    <2>2. head \in Nat /\ chain[head].first \in Nat
      BY <2>1, ChainFacts DEF TypeOK
    <2>3. PICK e \in Items : e = chain[head].items[chain[head].first + 1]
      BY <2>1, ChainFacts DEF TypeOK
    <2>4. /\ DOMAIN out' = 1 .. Len(out) + 1
          /\ \A n \in DOMAIN out : out'[n] = out[n]
          /\ out'[Len(out) + 1] = e
      BY <1>0, <2>1, <2>3, AppendFacts
    <2>5. \A n \in DOMAIN out : out[n][1] = e[1] => out[n][2] < e[2]
      BY <2>1, <2>2, <2>3 DEF TakenInv
    <2> SUFFICES ASSUME NEW i \in DOMAIN out', NEW j \in DOMAIN out', i < j,
                        out'[i][1] = out'[j][1]
                 PROVE  out'[i][2] < out'[j][2]
      BY DEF ProducerOrder
    <2>6. i \in DOMAIN out
      BY <1>0, <2>4
    <2>7. CASE j \in DOMAIN out
      BY <2>4, <2>6, <2>7 DEF ProducerOrder
    <2>8. CASE j = Len(out) + 1
      BY <2>4, <2>5, <2>6, <2>8
    <2> QED BY <1>0, <2>4, <2>7, <2>8
  <1> QED BY <1>1, <1>2, OutChanges

(***************************************************************************)
(* With one consumer, what a producer enqueued leaves the queue in the     *)
(* order of its calls and at most once, although the chain grows at one    *)
(* end and is released at the other by goroutines that do not wait for     *)
(* each other (mailbox/segmented.go:58-96).                                *)
(***************************************************************************)
THEOREM ProducersInOrder ==
    ASSUME SingleConsumer
    PROVE  Spec => []ProducerOrder
  <1> DEFINE OrderInv == PlacedInv /\ ChainOrder /\ TakenInv /\ ProducerOrder
  <1>1. Init => OrderInv
    <2> SUFFICES ASSUME Init PROVE OrderInv
      OBVIOUS
    <2>1. out = <<>> /\ DOMAIN out = {}
      BY DEF Init
    <2>2. \A i \in DOMAIN chain : DOMAIN chain[i].items = {}
      BY DEF Init, NewSegment
    <2> QED BY <2>1, <2>2 DEF PlacedInv, ChainOrder, TakenInv, ProducerOrder
  <1>2. TypeOK /\ LocalInv /\ OrderInv /\ [Next]_vars => OrderInv'
    BY PlacedStep, ChainOrderStep, TakenStep, OrderStep
  <1>3. OrderInv => ProducerOrder
    OBVIOUS
  <1> HIDE DEF OrderInv
  <1> QED BY <1>1, <1>2, <1>3, SegmentInductive, PTL DEF Spec
=============================================================================
