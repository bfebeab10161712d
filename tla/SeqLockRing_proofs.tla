------------------------- MODULE SeqLockRing_proofs -------------------------
(***************************************************************************)
(* Proofs about the ring of shm/ring_buffer.hpp for every ring size, every *)
(* set of consumers, every division of a message into words and every      *)
(* number of pushes.                                                       *)
(***************************************************************************)
EXTENDS SeqLockRing, TLAPS

-----------------------------------------------------------------------------
(* The index computation h & RING_MASK of shm/ring_buffer.hpp, that is     *)
(* h % N for a ring of N slots, for every N > 0.                           *)

(* An index is never greater than the position it is the index of.         *)
LEMMA IndexAtMostPosition ==
  ASSUME NEW N \in Nat \ {0}, NEW a \in Nat
  PROVE  a % N <= a
  OBVIOUS

(* On the first lap the index is the position itself.                      *)
LEMMA IndexOnFirstLap ==
  ASSUME NEW N \in Nat \ {0}, NEW a \in 0 .. N - 1
  PROVE  a % N = a
  OBVIOUS

(* One more lap is at least N more positions.                              *)
LEMMA LapIsWholeRing ==
  ASSUME NEW N \in Nat \ {0}, NEW k \in Int, NEW l \in Int, k < l
  PROVE  N * k + N <= N * l
<1>1. N * (k + 1) = N * k + N
  OBVIOUS
<1>2. N * (l - (k + 1)) >= 0
  OBVIOUS
<1>3. N * (l - (k + 1)) = N * l - N * (k + 1)
  OBVIOUS
<1>4. N * k \in Int /\ N * l \in Int /\ N * (k + 1) \in Int
  OBVIOUS
<1> QED
  BY <1>1, <1>2, <1>3, <1>4

(* Two positions that share a slot are at least a ring apart.              *)
LEMMA SameSlotIsRingApart ==
  ASSUME NEW N \in Nat \ {0}, NEW a \in Nat, NEW b \in Nat,
         a % N = b % N, a < b
  PROVE  a + N <= b
<1> DEFINE qa == a \div N
           qb == b \div N
           m  == a % N
<1>1. /\ qa \in Nat /\ qb \in Nat /\ m \in Int
      /\ a = N * qa + m /\ b = N * qb + m
  <2>1. qa \in Nat /\ m \in Int /\ a = N * qa + m
    OBVIOUS
  <2>2. qb \in Nat /\ b = N * qb + (b % N)
    OBVIOUS
  <2> QED
    BY <2>1, <2>2
<1>2. N * qa \in Int /\ N * qb \in Int
  BY <1>1
<1> HIDE DEF qa, qb, m
<1>3. N * qa < N * qb
  BY <1>1, <1>2
<1>4. qa < qb
  <2> SUFFICES ASSUME qb <= qa PROVE FALSE
    BY <1>1
  <2>1. CASE qb = qa
    BY <2>1, <1>2, <1>3
  <2>2. CASE qb < qa
    BY <2>2, <1>1, <1>2, <1>3, LapIsWholeRing
  <2> QED
    BY <2>1, <2>2, <1>1
<1>5. N * qa + N <= N * qb
  BY <1>1, <1>4, LapIsWholeRing
<1> QED
  BY <1>1, <1>2, <1>5

(* A ring later the same slot comes round again.                           *)
LEMMA SlotComesRound ==
  ASSUME NEW N \in Nat \ {0}, NEW a \in Nat
  PROVE  (a + N) % N = a % N
<1> DEFINE b  == a + N
           qa == a \div N
           qb == b \div N
           ma == a % N
           mb == b % N
<1>1. b \in Nat /\ b = a + N
  OBVIOUS
<1>2. /\ qa \in Nat /\ qb \in Nat /\ ma \in 0 .. N - 1 /\ mb \in 0 .. N - 1
      /\ a = N * qa + ma /\ b = N * qb + mb
  <2>1. qa \in Nat /\ ma \in 0 .. N - 1 /\ a = N * qa + ma
    OBVIOUS
  <2>2. qb \in Nat /\ mb \in 0 .. N - 1 /\ b = N * qb + mb
    BY <1>1
  <2> QED
    BY <2>1, <2>2
<1>3. N * qa \in Int /\ N * qb \in Int /\ N * (qa + 1) \in Int
  BY <1>2
<1>4. N * (qa + 1) = N * qa + N
  BY <1>2
<1> HIDE DEF qa, qb, ma, mb, b
<1>5. N * qb + mb = N * (qa + 1) + ma
  BY <1>1, <1>2, <1>3, <1>4
<1>6. ~(qb < qa + 1)
  BY <1>2, <1>3, <1>5, LapIsWholeRing
<1>7. ~(qa + 1 < qb)
  BY <1>2, <1>3, <1>5, LapIsWholeRing
<1>8. qb = qa + 1
  BY <1>2, <1>6, <1>7
<1>9. ma = mb
  BY <1>2, <1>3, <1>5, <1>8
<1> QED
  BY <1>9 DEF ma, mb, b

-----------------------------------------------------------------------------
(* The same of the ring of the model.                                      *)

(* Every position has a slot, and its index is at most the position.       *)
LEMMA IdxInSlots ==
  ASSUME NEW h \in Nat
  PROVE  Idx(h) \in Slots /\ Idx(h) <= h
BY RingAssumption, IndexAtMostPosition DEF Idx, Slots

(* Different positions of one slot are at least a ring apart.              *)
LEMMA IdxEqual ==
  ASSUME NEW h \in Nat, NEW k \in Nat, Idx(h) = Idx(k), h < k
  PROVE  h + RING_SIZE <= k
BY RingAssumption, SameSlotIsRingApart DEF Idx

(* The position a ring later uses the same slot.                           *)
LEMMA IdxComesRound ==
  ASSUME NEW h \in Nat
  PROVE  Idx(h + RING_SIZE) = Idx(h)
BY RingAssumption, SlotComesRound DEF Idx

(* A position of the first lap is its own index.                           *)
LEMMA IdxOnFirstLap ==
  ASSUME NEW i \in Slots
  PROVE  Idx(i) = i
BY RingAssumption, IndexOnFirstLap DEF Idx, Slots

(* A re-sync computes a natural number, never an underflowed one.          *)
LEMMA OldestIsNat ==
  ASSUME NEW h \in Nat
  PROVE  OldestFor(h) \in Nat
BY RingAssumption DEF OldestFor

(* An odd mark is never taken for a completed slot.                        *)
LEMMA MarkIsNoStamp ==
  ASSUME NEW h \in Nat, NEW k \in Nat
  PROVE  InFlight(h) # Stable(k)
BY DEF InFlight, Stable

(* The stamp of a completed slot names the position it holds.              *)
LEMMA StampNamesPosition ==
  ASSUME NEW h \in Nat, NEW k \in Nat, Stable(h) = Stable(k)
  PROVE  h = k
BY DEF Stable

-----------------------------------------------------------------------------
(* Every step of the producer or of a consumer preserves the types.        *)
LEMMA TypeStep ==
  ASSUME TypeOK, [Next]_vars
  PROVE  TypeOK'
<1> USE RingAssumption DEF TypeOK, producerVars, consumerVars
<1>1. ASSUME rb_push PROVE TypeOK'
  <2>1. CASE PushMark
    BY <1>1, <2>1, IdxInSlots DEF rb_push, PushMark, InFlight
  <2>2. ASSUME NEW f \in Fields, PushCopy(f) PROVE TypeOK'
    BY <1>1, <2>2, IdxInSlots DEF rb_push, PushCopy
  <2>3. CASE PushStable
    BY <1>1, <2>3, IdxInSlots DEF rb_push, PushStable, Stable
  <2>4. CASE PushPublish
    BY <1>1, <2>4 DEF rb_push, PushPublish
  <2> QED
    BY <1>1, <2>1, <2>2, <2>3, <2>4 DEF rb_push
<1>2. ASSUME NEW c \in Consumers, rb_pop(c) PROVE TypeOK'
  <2>1. CASE PopEmpty(c)
    BY <1>2, <2>1 DEF rb_pop, PopEmpty
  <2>2. CASE PopLapped(c)
    BY <1>2, <2>2 DEF rb_pop, PopLapped
  <2>3. CASE PopSample(c)
    BY <1>2, <2>3, IdxInSlots DEF rb_pop, PopSample, SampledSeq, Reads
  <2>4. ASSUME NEW f \in Reads[c], PopCopy(c, f) PROVE TypeOK'
    BY <1>2, <2>4, IdxInSlots DEF rb_pop, PopCopy, Reads
  <2>5. CASE PopReturn(c)
    BY <1>2, <2>5 DEF rb_pop, PopReturn
  <2>6. CASE PopTorn(c)
    BY <1>2, <2>6 DEF rb_pop, PopTorn
  <2>7. CASE Resync(c)
    BY <1>2, <2>7, OldestIsNat DEF rb_pop, Resync
  <2> QED
    BY <1>2, <2>1, <2>2, <2>3, <2>4, <2>5, <2>6, <2>7 DEF rb_pop
<1>3. CASE UNCHANGED vars
  BY <1>3 DEF vars
<1> QED
  BY <1>1, <1>2, <1>3 DEF Next

(* The ring's state always has its type: in particular the unsigned tail   *)
(* of a consumer is never moved below zero by a re-sync.                   *)
THEOREM TypeCorrect == Spec => []TypeOK
<1>1. Init => TypeOK
  BY RingAssumption DEF Init, TypeOK, Reads, Zeroed
<1>2. TypeOK /\ [Next]_vars => TypeOK'
  BY TypeStep
<1> QED
  BY <1>1, <1>2, PTL DEF Spec

-----------------------------------------------------------------------------
(* What RingInv says a stamp tells a consumer.                             *)

(* A stamp below the expected one: position t has not been completed.      *)
LEMMA LowStampMeansUnsent ==
  ASSUME TypeOK, InFlightInv, SlotInv, NEW t \in Nat, seq[Idx(t)] < Stable(t)
  PROVE  t >= Sent
<1> USE DEF TypeOK
<1>1. Idx(t) \in Slots /\ Idx(t) <= t
  BY IdxInSlots
<1>2. CASE ppc = "copy" /\ Idx(t) = Idx(head)
  <2>1. seq[Idx(t)] = InFlight(head) /\ Sent = head
    BY <1>2 DEF InFlightInv, Sent
  <2> QED
    BY <2>1 DEF InFlight, Stable
<1>3. CASE Untouched(Idx(t))
  BY <1>1, <1>3 DEF Untouched, Slots, Sent
<1>4. ASSUME NEW k \in 0 .. head, HoldsPosition(Idx(t), k)
      PROVE  t >= Sent
  <2>0. k \in Nat /\ seq[Idx(t)] = Stable(k) /\ Idx(k) = Idx(t) /\ Sent <= k + RING_SIZE
    BY <1>4 DEF HoldsPosition
  <2>1. k < t
    BY <2>0 DEF Stable
  <2>2. k + RING_SIZE <= t
    BY <2>0, <2>1, IdxEqual
  <2>3. Sent \in Nat /\ RING_SIZE \in Nat
    BY RingAssumption DEF Sent
  <2> QED
    BY <2>0, <2>2, <2>3
<1> QED
  BY <1>1, <1>2, <1>3, <1>4 DEF SlotInv

(* The expected stamp: the slot holds the whole message of position t,     *)
(* and that position is among the latest RING_SIZE.                        *)
LEMMA RightStampMeansThere ==
  ASSUME TypeOK, InFlightInv, SlotInv, NEW t \in Nat, seq[Idx(t)] = Stable(t)
  PROVE  HoldsPosition(Idx(t), t)
<1> USE DEF TypeOK
<1>1. Idx(t) \in Slots
  BY IdxInSlots
<1>2. CASE ppc = "copy" /\ Idx(t) = Idx(head)
  <2>1. InFlight(head) = Stable(t) /\ head \in Nat
    BY <1>2 DEF InFlightInv
  <2> QED
    BY ONLY <2>1, MarkIsNoStamp
<1>3. CASE Untouched(Idx(t))
  BY <1>1, <1>3 DEF Untouched, Stable
<1>4. ASSUME NEW k \in 0 .. head, HoldsPosition(Idx(t), k)
      PROVE  HoldsPosition(Idx(t), t)
  <2>1. Stable(k) = Stable(t)
    BY <1>4 DEF HoldsPosition
  <2>2. k = t
    BY <2>1, StampNamesPosition
  <2> QED
    BY <1>4, <2>2
<1> QED
  BY <1>1, <1>2, <1>3, <1>4 DEF SlotInv

(* A stamp above the expected one: the producer is a whole ring past t.    *)
LEMMA HighStampMeansLapped ==
  ASSUME TypeOK, InFlightInv, SlotInv, NEW t \in Nat, seq[Idx(t)] > Stable(t)
  PROVE  head >= t + RING_SIZE
<1> USE DEF TypeOK
<1>1. Idx(t) \in Slots
  BY IdxInSlots
<1>2. CASE ppc = "copy" /\ Idx(t) = Idx(head)
  <2>1. t < head
    BY <1>1, <1>2 DEF InFlightInv, InFlight, Stable
  <2> QED
    BY <1>2, <2>1, IdxEqual
<1>3. CASE Untouched(Idx(t))
  BY <1>1, <1>3 DEF Untouched, Stable
<1>4. ASSUME NEW k \in 0 .. head, HoldsPosition(Idx(t), k)
      PROVE  head >= t + RING_SIZE
  <2>1. k \in Nat /\ k > t /\ Idx(k) = Idx(t)
    BY <1>4 DEF HoldsPosition, Stable
  <2>2. t + RING_SIZE <= k
    BY <2>1, IdxEqual
  <2> QED
    BY <2>2, RingAssumption
<1> QED
  BY <1>1, <1>2, <1>3, <1>4 DEF SlotInv

(* The slot the producer is about to stamp carries a lower stamp.          *)
LEMMA StampsGrow ==
  ASSUME TypeOK, SlotInv, ppc = "idle"
  PROVE  seq[Idx(head)] < InFlight(head)
<1> USE DEF TypeOK
<1>1. Idx(head) \in Slots
  BY IdxInSlots
<1>2. CASE Untouched(Idx(head))
  BY <1>2 DEF Untouched, InFlight
<1>3. ASSUME NEW k \in 0 .. head, HoldsPosition(Idx(head), k)
      PROVE  seq[Idx(head)] < InFlight(head)
  BY <1>3 DEF HoldsPosition, Stable, InFlight, Sent
<1> QED
  BY <1>1, <1>2, <1>3 DEF SlotInv

-----------------------------------------------------------------------------
(* RingInv is inductive: the producer's steps.                             *)

(* As long as stamps do not decrease and messages are not taken back, what *)
(* RingInv says of the consumers outlives a step of the producer.          *)
LEMMA ConsumersKeep ==
  ASSUME RingInv, TypeOK', UNCHANGED consumerVars,
         Sent' \in Nat, Sent' >= Sent,
         \A c \in Consumers : \/ SampledSeq(c)' = SampledSeq(c)
                              \/ SampledSeq(c)' > SampledSeq(c)
  PROVE  ConsumerInv' /\ CursorWithinLog' /\ NoTornDelivery'
<1> USE DEF RingInv, TypeOK, consumerVars
<1>0. Sent \in Nat
  BY DEF Sent
<1>1. CursorWithinLog'
  BY <1>0 DEF CursorWithinLog
<1>2. NoTornDelivery'
  BY DEF NoTornDelivery, View, Reads
<1>3. ASSUME NEW c \in Consumers
      PROVE  CopyInv(c)' /\ LapInv(c)'
  <2>1. /\ SampledSeq(c) \in Nat /\ SampledSeq(c)' \in Nat
        /\ SampledSeq(c)' >= SampledSeq(c)
    <3>1. Idx(tail[c]) \in Slots /\ Idx(tail[c])' = Idx(tail[c])
      BY IdxInSlots DEF Idx
    <3>2. SampledSeq(c) \in Nat /\ SampledSeq(c)' \in Nat
      BY <3>1 DEF SampledSeq, Slots
    <3> QED
      BY <3>2
  <2>2. Expected(c)' = Expected(c) /\ Expected(c) \in Nat
    BY DEF Expected, Stable
  <2>3. CopyInv(c) /\ LapInv(c)
    BY DEF ConsumerInv
  <2>4. LapInv(c)'
    BY <2>1, <2>2, <2>3 DEF LapInv
  <2>5. CopyInv(c)'
    BY <1>0, <2>1, <2>2, <2>3 DEF CopyInv, Reads
  <2> QED
    BY <2>4, <2>5
<1> QED
  BY <1>1, <1>2, <1>3 DEF ConsumerInv

LEMMA PushMarkStep ==
  ASSUME RingInv, TypeOK', PushMark, UNCHANGED consumerVars
  PROVE  RingInv'
<1> USE DEF RingInv, TypeOK, consumerVars
<1>1. /\ Sent' = Sent /\ head' = head /\ msg' = msg /\ unsent' = Fields /\ ppc' = "copy"
      /\ seq' = [seq EXCEPT ![Idx(head)] = InFlight(head)]
  BY DEF PushMark, Sent
<1>2. Idx(head) \in Slots /\ Idx(head)' = Idx(head)
  BY <1>1, IdxInSlots DEF Idx
<1>3. InFlightInv'
  BY <1>1, <1>2 DEF InFlightInv, InFlight
<1>4. SlotInv'
  <2> SUFFICES ASSUME NEW i \in Slots, i # Idx(head)
               PROVE  \/ Untouched(i)'
                      \/ \E k \in 0 .. head : HoldsPosition(i, k)'
    BY <1>1, <1>2 DEF SlotInv
  <2>1. seq'[i] = seq[i]
    BY <1>1
  <2>2. CASE Untouched(i)
    BY <1>1, <2>1, <2>2 DEF Untouched
  <2>3. ASSUME NEW k \in 0 .. head, HoldsPosition(i, k)
        PROVE  HoldsPosition(i, k)'
    BY <1>1, <2>1, <2>3 DEF HoldsPosition, Idx, Stable
  <2> QED
    BY <2>2, <2>3 DEF SlotInv
<1>5. ASSUME NEW c \in Consumers
      PROVE  \/ SampledSeq(c)' = SampledSeq(c)
             \/ SampledSeq(c)' > SampledSeq(c)
  <2>1. Idx(tail[c])' = Idx(tail[c]) /\ Idx(tail[c]) \in Slots
    BY IdxInSlots DEF Idx
  <2>2. CASE Idx(tail[c]) = Idx(head)
    <3>1. seq[Idx(head)] < InFlight(head)
      BY StampsGrow DEF PushMark
    <3>2. SampledSeq(c)' = InFlight(head) /\ SampledSeq(c) = seq[Idx(head)]
      BY <1>1, <1>2, <2>1, <2>2 DEF SampledSeq
    <3> QED
      BY ONLY <3>1, <3>2
  <2>3. CASE Idx(tail[c]) # Idx(head)
    BY <1>1, <2>1, <2>3 DEF SampledSeq
  <2> QED
    BY <2>2, <2>3
<1>6. Sent' \in Nat /\ Sent' >= Sent
  BY <1>1 DEF Sent
<1>7. ConsumerInv' /\ CursorWithinLog' /\ NoTornDelivery'
  BY <1>5, <1>6, ConsumersKeep
<1> QED
  BY <1>3, <1>4, <1>7

LEMMA PushCopyStep ==
  ASSUME RingInv, TypeOK', NEW f \in Fields, PushCopy(f), UNCHANGED consumerVars
  PROVE  RingInv'
<1> USE DEF RingInv, TypeOK, consumerVars
<1>1. /\ Sent' = Sent /\ head' = head /\ seq' = seq /\ ppc = "copy" /\ ppc' = ppc
      /\ unsent' = unsent \ {f}
      /\ msg' = [msg EXCEPT ![Idx(head)][f] = head]
  BY DEF PushCopy, Sent
<1>2. Idx(head) \in Slots /\ Idx(head)' = Idx(head)
  BY <1>1, IdxInSlots DEF Idx
<1>3. InFlightInv'
  BY <1>1, <1>2 DEF InFlightInv, InFlight
<1>4. SlotInv'
  <2> SUFFICES ASSUME NEW i \in Slots, i # Idx(head)
               PROVE  \/ Untouched(i)'
                      \/ \E k \in 0 .. head : HoldsPosition(i, k)'
    BY <1>1, <1>2 DEF SlotInv
  <2>1. msg'[i] = msg[i]
    BY <1>1
  <2>2. CASE Untouched(i)
    BY <1>1, <2>2 DEF Untouched
  <2>3. ASSUME NEW k \in 0 .. head, HoldsPosition(i, k)
        PROVE  HoldsPosition(i, k)'
    BY <1>1, <2>1, <2>3 DEF HoldsPosition, Idx, Stable
  <2> QED
    BY <2>2, <2>3 DEF SlotInv
<1>5. ASSUME NEW c \in Consumers
      PROVE  SampledSeq(c)' = SampledSeq(c)
  BY <1>1 DEF SampledSeq, Idx
<1>6. Sent' \in Nat /\ Sent' >= Sent
  BY <1>1 DEF Sent
<1>7. ConsumerInv' /\ CursorWithinLog' /\ NoTornDelivery'
  BY <1>5, <1>6, ConsumersKeep
<1> QED
  BY <1>3, <1>4, <1>7

(* The step that turns the slot over to its new message.  Every other slot *)
(* stays among the latest RING_SIZE: the message that drops out of them is *)
(* the one this push has overwritten.                                      *)
LEMMA PushStableStep ==
  ASSUME RingInv, TypeOK', PushStable, UNCHANGED consumerVars
  PROVE  RingInv'
<1> USE DEF RingInv, TypeOK, consumerVars
<1>1. /\ Sent = head /\ Sent' = head + 1 /\ head' = head /\ msg' = msg
      /\ ppc = "copy" /\ ppc' = "publish" /\ unsent = {}
      /\ seq' = [seq EXCEPT ![Idx(head)] = Stable(head)]
  BY DEF PushStable, Sent
<1>2. Idx(head) \in Slots /\ Idx(head)' = Idx(head)
  BY <1>1, IdxInSlots DEF Idx
<1>3. InFlightInv'
  BY <1>1 DEF InFlightInv
<1>4. HoldsPosition(Idx(head), head)'
  <2>1. \A f \in Fields : msg[Idx(head)][f] = head
    BY <1>1 DEF InFlightInv
  <2>2. msg[Idx(head)] \in [Fields -> Nat \cup {Zeroed}]
    BY <1>2
  <2>3. msg[Idx(head)] = [f \in Fields |-> head]
    BY <2>1, <2>2
  <2>4. msg'[Idx(head)'] = [f \in Fields |-> head']
    BY <1>1, <1>2, <2>3
  <2>5. seq'[Idx(head)'] = Stable(head')
    BY <1>1, <1>2
  <2>6. head' < Sent' /\ Sent' <= head' + RING_SIZE
    BY <1>1, RingAssumption
  <2> QED
    BY <2>4, <2>5, <2>6 DEF HoldsPosition, Idx, Stable
<1>5. ASSUME NEW i \in Slots, i # Idx(head)
      PROVE  \/ Untouched(i)'
             \/ \E k \in 0 .. head : HoldsPosition(i, k)'
  <2>1. seq'[i] = seq[i]
    BY <1>1, <1>5
  <2>2. CASE Untouched(i)
    <3>1. i # head
      BY <1>5, IdxOnFirstLap
    <3>2. head \in Nat /\ i \in Int /\ head <= i
      BY <1>1, <2>2 DEF Untouched, Slots
    <3>3. head + 1 <= i
      BY ONLY <3>1, <3>2
    <3> QED
      BY <1>1, <2>1, <2>2, <3>3 DEF Untouched
  <2>3. ASSUME NEW k \in 0 .. head, HoldsPosition(i, k)
        PROVE  HoldsPosition(i, k)'
    <3>1. k \in Nat /\ k + RING_SIZE \in Nat /\ head \in Nat
      BY RingAssumption
    <3>2. Idx(k) = i /\ k < head /\ head <= k + RING_SIZE
      BY <1>1, <2>3 DEF HoldsPosition
    <3>3. Idx(k + RING_SIZE) = Idx(k)
      BY <3>1, IdxComesRound
    <3>4. head # k + RING_SIZE
      BY <1>5, <3>2, <3>3
    <3>5. head + 1 <= k + RING_SIZE
      BY ONLY <3>1, <3>2, <3>4
    <3> QED
      BY <1>1, <2>1, <2>3, <3>2, <3>5 DEF HoldsPosition, Idx, Stable
  <2> QED
    BY <1>1, <1>5, <2>2, <2>3 DEF SlotInv
<1>6. SlotInv'
  BY <1>1, <1>2, <1>4, <1>5 DEF SlotInv
<1>7. ASSUME NEW c \in Consumers
      PROVE  \/ SampledSeq(c)' = SampledSeq(c)
             \/ SampledSeq(c)' > SampledSeq(c)
  <2>1. Idx(tail[c])' = Idx(tail[c]) /\ Idx(tail[c]) \in Slots
    BY IdxInSlots DEF Idx
  <2>2. CASE Idx(tail[c]) = Idx(head)
    <3>1. SampledSeq(c)' = Stable(head) /\ SampledSeq(c) = InFlight(head)
      BY <1>1, <1>2, <2>1, <2>2 DEF SampledSeq, InFlightInv
    <3>2. Stable(head) > InFlight(head)
      BY DEF Stable, InFlight
    <3> QED
      BY ONLY <3>1, <3>2
  <2>3. CASE Idx(tail[c]) # Idx(head)
    BY <1>1, <2>1, <2>3 DEF SampledSeq
  <2> QED
    BY <2>2, <2>3
<1>8. Sent' \in Nat /\ Sent' >= Sent
  BY <1>1
<1>9. ConsumerInv' /\ CursorWithinLog' /\ NoTornDelivery'
  BY <1>7, <1>8, ConsumersKeep
<1> QED
  BY <1>3, <1>6, <1>9

LEMMA PushPublishStep ==
  ASSUME RingInv, TypeOK', PushPublish, UNCHANGED consumerVars
  PROVE  RingInv'
<1> USE DEF RingInv, TypeOK, consumerVars
<1>1. /\ Sent' = Sent /\ head' = head + 1 /\ seq' = seq /\ msg' = msg
      /\ ppc = "publish" /\ ppc' = "idle"
  BY DEF PushPublish, Sent
<1>2. InFlightInv'
  BY <1>1 DEF InFlightInv
<1>3. SlotInv'
  <2> SUFFICES ASSUME NEW i \in Slots
               PROVE  \/ Untouched(i)'
                      \/ \E k \in 0 .. head' : HoldsPosition(i, k)'
    BY DEF SlotInv
  <2>1. CASE Untouched(i)
    BY <1>1, <2>1 DEF Untouched
  <2>2. ASSUME NEW k \in 0 .. head, HoldsPosition(i, k)
        PROVE  k \in 0 .. head' /\ HoldsPosition(i, k)'
    BY <1>1, <2>2 DEF HoldsPosition, Idx, Stable
  <2> QED
    BY <1>1, <2>1, <2>2 DEF SlotInv
<1>4. ASSUME NEW c \in Consumers
      PROVE  SampledSeq(c)' = SampledSeq(c)
  BY <1>1 DEF SampledSeq, Idx
<1>5. Sent' \in Nat /\ Sent' >= Sent
  BY <1>1 DEF Sent
<1>6. ConsumerInv' /\ CursorWithinLog' /\ NoTornDelivery'
  BY <1>4, <1>5, ConsumersKeep
<1> QED
  BY <1>2, <1>3, <1>6

-----------------------------------------------------------------------------
(* RingInv is inductive: the steps of a consumer.                          *)

(* A consumer writes nothing but its own state, so its step preserves      *)
(* RingInv once what RingInv says of that one consumer holds after it.     *)
LEMMA OwnStateOnly ==
  ASSUME RingInv, TypeOK', UNCHANGED producerVars, NEW c \in Consumers,
         \A d \in Consumers \ {c} :
           /\ tail'[d] = tail[d] /\ cpc'[d] = cpc[d] /\ before'[d] = before[d]
           /\ unread'[d] = unread[d] /\ out'[d] = out[d] /\ last'[d] = last[d],
         CopyInv(c)', LapInv(c)', tail'[c] <= Sent,
         \E k \in -1 .. tail'[c] - 1 : last'[c] = View(c, k)
  PROVE  RingInv'
<1> USE DEF RingInv, producerVars
<1>1. Sent' = Sent
  BY DEF Sent
<1>2. InFlightInv'
  BY DEF InFlightInv, InFlight, Idx
<1>3. SlotInv'
  BY <1>1 DEF SlotInv, Untouched, HoldsPosition, Stable, Idx
<1>4. ASSUME NEW d \in Consumers
      PROVE  CopyInv(d)' /\ LapInv(d)'
  <2>1. CASE d = c
    BY <2>1
  <2>2. CASE d # c
    <3>1. SampledSeq(d)' = SampledSeq(d) /\ Expected(d)' = Expected(d)
      BY <2>2 DEF SampledSeq, Expected, Stable, Idx
    <3>2. CopyInv(d) /\ LapInv(d)
      BY DEF ConsumerInv
    <3> QED
      BY <1>1, <2>2, <3>1, <3>2 DEF CopyInv, LapInv, Reads
  <2> QED
    BY <2>1, <2>2
<1>5. CursorWithinLog'
  BY <1>1 DEF CursorWithinLog
<1>6. NoTornDelivery'
  <2> SUFFICES ASSUME NEW d \in Consumers
               PROVE  \E k \in -1 .. tail'[d] - 1 : last'[d] = View(d, k)
    BY DEF NoTornDelivery, View, Reads
  <2>1. \E k \in -1 .. tail[d] - 1 : last[d] = View(d, k)
    BY DEF NoTornDelivery
  <2> QED
    BY <2>1
<1> QED
  BY <1>2, <1>3, <1>4, <1>5, <1>6 DEF ConsumerInv

(* What RingInv says of the consumer that takes the step.                  *)
LEMMA AboutOne ==
  ASSUME RingInv, NEW c \in Consumers
  PROVE  /\ CopyInv(c) /\ LapInv(c) /\ tail[c] \in Nat /\ tail[c] <= Sent
         /\ Sent \in Nat /\ Expected(c) \in Nat /\ SampledSeq(c) \in Nat
         /\ \E k \in -1 .. tail[c] - 1 : last[c] = View(c, k)
<1> USE DEF RingInv, TypeOK
<1>1. tail[c] \in Nat /\ Sent \in Nat
  BY DEF Sent
<1>2. Expected(c) \in Nat /\ SampledSeq(c) \in Nat
  BY <1>1, IdxInSlots DEF Expected, SampledSeq, Stable
<1>3. tail[c] <= Sent
  BY DEF CursorWithinLog
<1> QED
  BY <1>1, <1>2, <1>3 DEF ConsumerInv, NoTornDelivery

LEMMA PopLookStep ==
  ASSUME RingInv, TypeOK', UNCHANGED producerVars, NEW c \in Consumers,
         PopEmpty(c) \/ PopLapped(c) \/ PopSample(c) \/ PopTorn(c)
  PROVE  RingInv'
<1> USE AboutOne
<1>1. /\ tail' = tail /\ out' = out /\ last' = last
      /\ SampledSeq(c)' = SampledSeq(c) /\ Expected(c)' = Expected(c) /\ Sent' = Sent
  BY DEF PopEmpty, PopLapped, PopSample, PopTorn, SampledSeq, Expected, Stable, Sent,
         Idx, producerVars
<1>2. TypeOK /\ SlotInv /\ InFlightInv
  BY DEF RingInv
<1>3. CASE PopEmpty(c)
  <2>1. CopyInv(c)' /\ LapInv(c)'
    BY <1>1, <1>3 DEF PopEmpty, CopyInv, LapInv, Reads
  <2> QED
    BY <1>1, <1>3, <2>1, OwnStateOnly DEF PopEmpty
<1>4. CASE PopLapped(c)
  <2>1. cpc'[c] = "lapped"
    BY <1>2, <1>4 DEF PopLapped, TypeOK
  <2>2. CopyInv(c)' /\ LapInv(c)'
    BY <1>1, <1>4, <2>1 DEF PopLapped, CopyInv, LapInv
  <2> QED
    BY <1>1, <1>2, <1>4, <2>2, OwnStateOnly DEF PopLapped, TypeOK
<1>5. CASE PopSample(c)
  <2>1. /\ cpc'[c] = "copy" /\ before'[c] = SampledSeq(c) /\ unread'[c] = Reads[c]
        /\ SampledSeq(c) = Expected(c)
    BY <1>2, <1>5 DEF PopSample, TypeOK
  <2>2. tail[c] < Sent
    BY <1>2, <2>1, RightStampMeansThere DEF SampledSeq, Expected, HoldsPosition
  <2>3. CopyInv(c)' /\ LapInv(c)'
    BY <1>1, <2>1, <2>2 DEF CopyInv, LapInv, Reads
  <2> QED
    BY <1>1, <1>2, <1>5, <2>3, OwnStateOnly DEF PopSample, TypeOK
<1>6. CASE PopTorn(c)
  <2>1. cpc'[c] = "torn" /\ cpc[c] = "copy" /\ SampledSeq(c) # before[c]
    BY <1>2, <1>6 DEF PopTorn, TypeOK
  <2>2. SampledSeq(c) > Expected(c)
    BY <2>1 DEF CopyInv
  <2>3. CopyInv(c)' /\ LapInv(c)'
    BY <1>1, <2>1, <2>2 DEF CopyInv, LapInv
  <2> QED
    BY <1>1, <1>2, <1>6, <2>3, OwnStateOnly DEF PopTorn, TypeOK
<1> QED
  BY <1>3, <1>4, <1>5, <1>6

LEMMA PopCopyStep ==
  ASSUME RingInv, TypeOK', UNCHANGED producerVars, NEW c \in Consumers,
         NEW f \in Reads[c], PopCopy(c, f)
  PROVE  RingInv'
<1> USE AboutOne
<1>1. /\ tail' = tail /\ last' = last /\ before' = before /\ cpc' = cpc
      /\ SampledSeq(c)' = SampledSeq(c) /\ Expected(c)' = Expected(c) /\ Sent' = Sent
  BY DEF PopCopy, SampledSeq, Expected, Stable, Sent, Idx, producerVars
<1>2. TypeOK /\ SlotInv /\ InFlightInv
  BY DEF RingInv
<1>3. /\ out' = [out EXCEPT ![c][f] = msg[Idx(tail[c])][f]]
      /\ unread' = [unread EXCEPT ![c] = unread[c] \ {f}]
      /\ cpc[c] = "copy" /\ f \in unread[c]
  BY DEF PopCopy
<1>4. DOMAIN out = Consumers /\ out[c] \in [Reads[c] -> Nat \cup {Zeroed}]
  BY <1>2 DEF TypeOK
<1>5. /\ unread'[c] = unread[c] \ {f}
      /\ \A g \in Reads[c] \ {f} : out'[c][g] = out[c][g]
      /\ out'[c][f] = msg[Idx(tail[c])][f]
  BY <1>2, <1>3, <1>4 DEF TypeOK
<1>6. f \in Fields
  BY RingAssumption DEF Reads
<1>7. SampledSeq(c) = before[c] => out'[c][f] = tail[c]
  <2> HAVE SampledSeq(c) = before[c]
  <2>1. SampledSeq(c) = Expected(c)
    BY <1>3 DEF CopyInv
  <2>2. msg[Idx(tail[c])] = [g \in Fields |-> tail[c]]
    BY <1>2, <2>1, RightStampMeansThere DEF SampledSeq, Expected, HoldsPosition
  <2> QED
    BY <1>5, <1>6, <2>2
<1>8. CopyInv(c)'
  BY <1>1, <1>3, <1>5, <1>7 DEF CopyInv, Reads
<1>9. LapInv(c)'
  BY <1>1, <1>3 DEF LapInv
<1> QED
  BY <1>1, <1>2, <1>3, <1>8, <1>9, OwnStateOnly DEF TypeOK

(* The step that returns a message: the second look at the stamp makes it  *)
(* the whole message of the cursor.                                        *)
LEMMA PopReturnStep ==
  ASSUME RingInv, TypeOK', UNCHANGED producerVars, NEW c \in Consumers, PopReturn(c)
  PROVE  /\ RingInv'
         /\ HoldsPosition(Idx(tail[c]), tail[c])
         /\ last'[c] = View(c, tail[c]) /\ tail'[c] = tail[c] + 1
<1> USE AboutOne
<1>1. TypeOK /\ SlotInv /\ InFlightInv
  BY DEF RingInv
<1>2. /\ tail'[c] = tail[c] + 1 /\ last'[c] = out[c] /\ cpc'[c] = "idle"
      /\ cpc[c] = "copy" /\ unread[c] = {} /\ SampledSeq(c) = before[c]
  BY <1>1 DEF PopReturn, TypeOK
<1>3. \A d \in Consumers \ {c} : tail'[d] = tail[d] /\ last'[d] = last[d] /\ cpc'[d] = cpc[d]
  BY <1>1 DEF PopReturn, TypeOK
<1>4. before' = before /\ unread' = unread /\ out' = out
  BY DEF PopReturn
<1>5. out[c] = View(c, tail[c])
  <2>1. \A f \in Reads[c] : out[c][f] = tail[c]
    BY <1>2 DEF CopyInv
  <2>2. out[c] \in [Reads[c] -> Nat \cup {Zeroed}]
    BY <1>1 DEF TypeOK
  <2> QED
    BY <2>1, <2>2 DEF View
<1>6. SampledSeq(c) = Expected(c) /\ tail[c] < Sent
  BY <1>2 DEF CopyInv
<1>7. HoldsPosition(Idx(tail[c]), tail[c])
  BY <1>1, <1>6, RightStampMeansThere DEF SampledSeq, Expected
<1>8. CopyInv(c)' /\ LapInv(c)'
  BY <1>2 DEF CopyInv, LapInv
<1>9. tail'[c] <= Sent /\ \E k \in -1 .. tail'[c] - 1 : last'[c] = View(c, k)
  <2>1. tail[c] \in -1 .. tail'[c] - 1
    BY <1>2
  <2> QED
    BY <1>2, <1>5, <1>6, <2>1
<1> QED
  BY <1>2, <1>3, <1>4, <1>5, <1>7, <1>8, <1>9, OwnStateOnly

(* A re-sync moves the cursor forward, to at most RING_SIZE behind head.   *)
LEMMA ResyncStep ==
  ASSUME RingInv, TypeOK', UNCHANGED producerVars, NEW c \in Consumers, Resync(c)
  PROVE  /\ RingInv'
         /\ tail[c] <= tail'[c] /\ tail'[c] = head - RING_SIZE
<1> USE AboutOne
<1>1. TypeOK /\ SlotInv /\ InFlightInv
  BY DEF RingInv
<1>2. tail'[c] = OldestFor(head) /\ cpc'[c] = "idle" /\ cpc[c] \in {"lapped", "torn"}
  BY <1>1 DEF Resync, TypeOK
<1>3. \A d \in Consumers \ {c} : tail'[d] = tail[d] /\ cpc'[d] = cpc[d]
  BY <1>1 DEF Resync, TypeOK
<1>4. before' = before /\ unread' = unread /\ out' = out /\ last' = last
  BY DEF Resync
<1>5. head \in Nat /\ RING_SIZE \in Nat /\ head <= Sent
  BY <1>1, RingAssumption DEF TypeOK, Sent
<1>6. head >= tail[c] + RING_SIZE
  BY <1>1, <1>2, HighStampMeansLapped DEF LapInv, SampledSeq, Expected
<1>7. tail'[c] = head - RING_SIZE
  BY <1>2, <1>5, <1>6 DEF OldestFor
<1>8. CopyInv(c)' /\ LapInv(c)'
  BY <1>2 DEF CopyInv, LapInv
<1>9. tail[c] <= tail'[c] /\ tail'[c] <= Sent /\ tail'[c] \in Int
  <2>1. tail[c] \in Nat /\ Sent \in Nat
    OBVIOUS
  <2> QED
    BY ONLY <1>5, <1>6, <1>7, <2>1
<1>10. \E k \in -1 .. tail'[c] - 1 : last'[c] = View(c, k)
  <2>1. PICK k \in -1 .. tail[c] - 1 : last[c] = View(c, k)
    OBVIOUS
  <2>2. k \in -1 .. tail'[c] - 1
    BY <1>9
  <2> QED
    BY <1>4, <2>1, <2>2
<1> QED
  BY <1>3, <1>4, <1>7, <1>8, <1>9, <1>10, OwnStateOnly

-----------------------------------------------------------------------------
(* The invariant, and what follows from it.                                *)

LEMMA RingInvInit ==
  ASSUME Init
  PROVE  RingInv
<1>1. TypeOK
  BY RingAssumption DEF Init, TypeOK, Reads, Zeroed
<1>2. SlotInv
  BY DEF Init, SlotInv, Untouched, Sent, Slots
<1>3. InFlightInv /\ ConsumerInv /\ CursorWithinLog
  BY DEF Init, InFlightInv, ConsumerInv, CopyInv, LapInv, CursorWithinLog, Sent
<1>4. NoTornDelivery
  <2> SUFFICES ASSUME NEW c \in Consumers
               PROVE  last[c] = View(c, -1) /\ tail[c] = 0
    BY DEF NoTornDelivery
  <2> QED
    BY DEF Init, View, Zeroed
<1> QED
  BY <1>1, <1>2, <1>3, <1>4 DEF RingInv

LEMMA RingInvStep ==
  ASSUME RingInv, [Next]_vars
  PROVE  RingInv'
<1>1. TypeOK'
  BY TypeStep DEF RingInv
<1>2. CASE rb_push
  BY <1>1, <1>2, PushMarkStep, PushCopyStep, PushStableStep, PushPublishStep DEF rb_push
<1>3. ASSUME NEW c \in Consumers, rb_pop(c)
      PROVE  RingInv'
  BY <1>1, <1>3, PopLookStep, PopCopyStep, PopReturnStep, ResyncStep DEF rb_pop
<1>4. CASE UNCHANGED vars
  <2> USE <1>4 DEF vars, RingInv
  <2>1. Sent' = Sent /\ InFlightInv' /\ CursorWithinLog' /\ NoTornDelivery'
    BY DEF Sent, InFlightInv, InFlight, Idx, CursorWithinLog, NoTornDelivery, View, Reads
  <2>2. SlotInv'
    BY <2>1 DEF SlotInv, Untouched, HoldsPosition, Stable, Idx
  <2>3. ConsumerInv'
    BY <2>1 DEF ConsumerInv, CopyInv, LapInv, SampledSeq, Expected, Stable, Idx, Reads
  <2> QED
    BY <1>1, <2>1, <2>2, <2>3
<1> QED
  BY <1>2, <1>3, <1>4 DEF Next

(* In every reachable state the stamps tell the truth about the slots.     *)
THEOREM RingInvariant == Spec => []RingInv
<1>1. Init => RingInv
  BY RingInvInit
<1>2. RingInv /\ [Next]_vars => RingInv'
  BY RingInvStep
<1> QED
  BY <1>1, <1>2, PTL DEF Spec

(* rb_pop and rb_pop_meta return true only with a whole message that was   *)
(* published, whatever rb_push does during the copy.                       *)
THEOREM WholeMessagesOnly == Spec => []NoTornDelivery
<1>1. RingInv => NoTornDelivery
  BY DEF RingInv
<1> QED
  BY <1>1, RingInvariant, PTL

(* No lap, torn copy or re-sync puts a cursor ahead of the producer.       *)
THEOREM CursorsStayWithin == Spec => []CursorWithinLog
<1>1. RingInv => CursorWithinLog
  BY DEF RingInv
<1> QED
  BY <1>1, RingInvariant, PTL

(* A pop that reports "empty" has missed nothing.                          *)
THEOREM EmptyMeansNotSent == Spec => []EmptyIsHonest
<1>1. RingInv => EmptyIsHonest
  <2> SUFFICES ASSUME RingInv, NEW c \in Consumers, SampledSeq(c) < Expected(c)
               PROVE  tail[c] >= Sent
    BY DEF EmptyIsHonest
  <2> QED
    BY AboutOne, LowStampMeansUnsent DEF RingInv, SampledSeq, Expected
<1> QED
  BY <1>1, RingInvariant, PTL

(* A pop re-syncs only when the producer is a whole ring past the cursor.  *)
THEOREM ResyncMeansLapped == Spec => []ResyncOnlyWhenLapped
<1>1. RingInv => ResyncOnlyWhenLapped
  <2> SUFFICES ASSUME RingInv, NEW c \in Consumers, cpc[c] \in {"lapped", "torn"}
               PROVE  head >= tail[c] + RING_SIZE
    BY DEF ResyncOnlyWhenLapped
  <2>1. SampledSeq(c) > Expected(c)
    BY AboutOne DEF LapInv
  <2> QED
    BY <2>1, AboutOne, HighStampMeansLapped DEF RingInv, SampledSeq, Expected
<1> QED
  BY <1>1, RingInvariant, PTL

-----------------------------------------------------------------------------
(* The ring implements the lossy log.                                      *)

(* What a step of the ring is for the log: nothing, or one of its actions. *)
LEMMA StepSimulation ==
  ASSUME RingInv, [Next]_vars
  PROVE  /\ [Log!Next]_(Log!vars)
         /\ \A c \in Consumers : tail'[c] >= tail[c]
<1> USE DEF Log!Next, Log!vars
<1>1. TypeOK /\ TypeOK' /\ RingInv'
  BY TypeStep, RingInvStep DEF RingInv
<1>2. ASSUME UNCHANGED <<Sent, tail, last>>
      PROVE  [Log!Next]_(Log!vars) /\ \A c \in Consumers : tail'[c] >= tail[c]
  BY <1>1, <1>2 DEF TypeOK
<1>3. CASE rb_push
  <2>1. UNCHANGED <<tail, last>>
    BY <1>3 DEF rb_push, consumerVars
  <2>2. CASE PushStable
    <3>1. Sent' = Sent + 1
      BY <2>2 DEF PushStable, Sent
    <3>2. Log!Publish
      BY <2>1, <3>1 DEF Log!Publish
    <3> QED
      BY <1>1, <2>1, <3>2 DEF TypeOK
  <2>3. CASE PushMark \/ PushPublish \/ \E f \in Fields : PushCopy(f)
    <3>1. Sent' = Sent
      BY <2>3 DEF PushMark, PushPublish, PushCopy, Sent
    <3> QED
      BY <1>2, <2>1, <3>1
  <2> QED
    BY <1>3, <2>2, <2>3 DEF rb_push
<1>4. ASSUME NEW c \in Consumers, rb_pop(c)
      PROVE  [Log!Next]_(Log!vars) /\ \A d \in Consumers : tail'[d] >= tail[d]
  <2>1. Sent' = Sent /\ UNCHANGED producerVars
    BY <1>4 DEF rb_pop, producerVars, Sent
  <2>2. CASE PopReturn(c)
    <3>1. /\ HoldsPosition(Idx(tail[c]), tail[c])
          /\ last'[c] = View(c, tail[c]) /\ tail'[c] = tail[c] + 1
      BY <1>1, <2>1, <2>2, PopReturnStep
    <3>2. /\ tail' = [tail EXCEPT ![c] = tail[c] + 1]
          /\ last' = [last EXCEPT ![c] = View(c, tail[c])]
      BY <1>1, <2>2, <3>1 DEF PopReturn, TypeOK
    <3>3. Log!Remembered(tail[c])
      <4>1. tail[c] < Sent /\ Sent <= tail[c] + RING_SIZE
        BY <3>1 DEF HoldsPosition
      <4>2. tail[c] \in Nat /\ Sent \in Nat /\ RING_SIZE \in Nat
        BY AboutOne, RingAssumption
      <4> QED
        BY ONLY <4>1, <4>2 DEF Log!Remembered
    <3>4. Log!Deliver(c)
      BY <2>1, <3>2, <3>3 DEF Log!Deliver, Log!View, View
    <3> QED
      BY <1>1, <3>2, <3>4 DEF TypeOK
  <2>3. CASE Resync(c)
    <3>1. tail[c] <= tail'[c] /\ tail'[c] = head - RING_SIZE
      BY <1>1, <2>1, <2>3, ResyncStep
    <3>2. tail' = [tail EXCEPT ![c] = tail'[c]] /\ last' = last
      BY <1>1, <2>3 DEF Resync, TypeOK
    <3>3. CASE tail'[c] = tail[c]
      BY <1>1, <1>2, <2>1, <3>2, <3>3 DEF TypeOK
    <3>4. CASE tail'[c] # tail[c]
      <4>1. tail'[c] \in (tail[c] + 1) .. (Sent - RING_SIZE)
        BY <1>1, <3>1, <3>4, RingAssumption DEF TypeOK, Sent
      <4>2. Log!Skip(c)
        BY <2>1, <3>2, <4>1 DEF Log!Skip
      <4> QED
        BY <1>1, <3>1, <3>2, <4>2 DEF TypeOK
    <3> QED
      BY <3>3, <3>4
  <2>4. CASE PopEmpty(c) \/ PopLapped(c) \/ PopSample(c) \/ PopTorn(c)
             \/ \E f \in Reads[c] : PopCopy(c, f)
    BY <1>2, <2>1, <2>4 DEF PopEmpty, PopLapped, PopSample, PopTorn, PopCopy
  <2> QED
    BY <1>4, <2>2, <2>3, <2>4 DEF rb_pop
<1>5. CASE UNCHANGED vars
  BY <1>2, <1>5 DEF vars, Sent
<1> QED
  BY <1>3, <1>4, <1>5 DEF Next

(* A pop never moves its consumer back.                                    *)
THEOREM CursorsOnlyAdvance == Spec => TailNeverRegresses
<1>1. RingInv /\ [Next]_vars => [\A c \in Consumers : tail'[c] >= tail[c]]_tail
  BY StepSimulation
<1> QED
  BY <1>1, RingInvariant, PTL DEF Spec, TailNeverRegresses

(* The ring of sequence locks implements the lossy broadcast log: every    *)
(* consumer receives whole messages in order, and loses only messages that *)
(* the last RING_SIZE pushes have displaced.                               *)
THEOREM RingImplementsLog == Spec => ImplementsLog
<1>1. Init => Log!Init
  BY DEF Init, Log!Init, Sent, Log!View, Zeroed
<1>2. RingInv /\ [Next]_vars => [Log!Next]_(Log!vars)
  BY StepSimulation
<1> QED
  BY <1>1, <1>2, RingInvariant, PTL DEF Spec, ImplementsLog, Log!Spec

=============================================================================
