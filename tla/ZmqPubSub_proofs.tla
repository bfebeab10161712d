-------------------------- MODULE ZmqPubSub_proofs --------------------------
(***************************************************************************)
(* Proofs about the ZeroMQ benchmark, for any consumers, any high-water    *)
(* marks and any number of messages, with late subscriptions, drops, kills *)
(* and stalls.                                                             *)
(***************************************************************************)
EXTENDS ZmqPubSub, FiniteSetTheorems, TLAPS

PipesType ==
  /\ outbox \in [Consumers -> Seq(1 .. Total)]
  /\ inbox \in [Consumers -> Seq(1 .. Total)]
  /\ missed \in [Consumers -> SUBSET (1 .. Total)]
  /\ ppc = "killed" => \A c \in Consumers : outbox[c] = <<>>

Increasing(s) == \A j, k \in 1 .. Len(s) : j < k => s[j] < s[k]

(* The pipes keep the order, and what is in them has been neither dropped  *)
(* nor received.                                                           *)
PipeInv(c) ==
  /\ Increasing(inbox[c]) /\ Increasing(outbox[c])
  /\ \A x \in Numbers(inbox[c]), y \in Numbers(outbox[c]) : x < y
  /\ \A x \in Waiting(c) :
       x \notin missed[c] /\ (x > N_WARMUP => x > N_WARMUP + seen[c])

(* A message behind the last one received was dropped, is on its way, or   *)
(* was lost with the producer.                                             *)
GapInv(c) ==
  \A x \in N_WARMUP + seen[c] + 1 .. next - 1 : x \in missed[c] \cup Waiting(c)

(* Up to the last one received each was received or dropped.               *)
CountInv(c) ==
  /\ N_WARMUP + seen[c] <= next - 1 \/ seen[c] = 0
  /\ seen[c] = n_recv[c] + Cardinality(missed[c] \cap (N_WARMUP + 1 .. N_WARMUP + seen[c]))

EndInv(c) ==
  /\ cpc[c] = "finished" => seen[c] = N_MESSAGES
  /\ cpc[c] \in {"start", "recv"} => seen[c] < N_MESSAGES

ConsumerInv(c) == PipeInv(c) /\ GapInv(c) /\ CountInv(c) /\ EndInv(c)

ZmqInv == TypeOK /\ PipesType /\ \A c \in Consumers : ConsumerInv(c)

-----------------------------------------------------------------------------
(* Sequences of numbers.                                                   *)

LEMMA NumbersAppend ==
  ASSUME NEW S, NEW s \in Seq(S), NEW x \in S
  PROVE  Numbers(Append(s, x)) = Numbers(s) \cup {x}
<1>1. /\ Len(Append(s, x)) = Len(s) + 1 /\ Len(s) \in Nat
      /\ \A k \in 1 .. Len(s) : Append(s, x)[k] = s[k]
      /\ Append(s, x)[Len(s) + 1] = x
  OBVIOUS
<1> QED
  BY <1>1 DEF Numbers

LEMMA PositiveSeq ==
  ASSUME NEW n \in Nat, NEW s \in Seq(1 .. n)
  PROVE  s \in Seq(Nat)
OBVIOUS

LEMMA NumbersTail ==
  ASSUME NEW S, NEW s \in Seq(S), s # <<>>
  PROVE  /\ Head(s) \in S
         /\ Tail(s) \in Seq(S) /\ Len(Tail(s)) = Len(s) - 1
         /\ Numbers(s) = {Head(s)} \cup Numbers(Tail(s))
<1>1. /\ Len(s) \in Nat /\ Len(s) > 0 /\ Head(s) = s[1] /\ s[1] \in S
      /\ Tail(s) \in Seq(S) /\ Len(Tail(s)) = Len(s) - 1
      /\ \A k \in 1 .. Len(s) - 1 : Tail(s)[k] = s[k + 1]
  OBVIOUS
<1>2. ASSUME NEW x \in Numbers(s) PROVE x \in {Head(s)} \cup Numbers(Tail(s))
  <2>1. PICK k \in 1 .. Len(s) : x = s[k]
    BY DEF Numbers
  <2>2. CASE k = 1
    BY <1>1, <2>1, <2>2
  <2>3. CASE k > 1
    <3>1. k - 1 \in 1 .. Len(Tail(s)) /\ Tail(s)[k - 1] = x
      BY <1>1, <2>1, <2>3
    <3> QED
      BY <3>1 DEF Numbers
  <2> QED
    BY <2>2, <2>3
<1>3. ASSUME NEW x \in Numbers(Tail(s)) PROVE x \in Numbers(s)
  <2>1. PICK k \in 1 .. Len(Tail(s)) : x = Tail(s)[k]
    BY DEF Numbers
  <2>2. k + 1 \in 1 .. Len(s) /\ s[k + 1] = x
    BY <1>1, <2>1
  <2> QED
    BY <2>2 DEF Numbers
<1>4. Head(s) \in Numbers(s)
  BY <1>1 DEF Numbers
<1> QED
  BY <1>1, <1>2, <1>3, <1>4

LEMMA IncreasingAppend ==
  ASSUME NEW s \in Seq(Nat), NEW x \in Nat, Increasing(s), \A y \in Numbers(s) : y < x
  PROVE  Increasing(Append(s, x))
<1>1. /\ Len(Append(s, x)) = Len(s) + 1 /\ Len(s) \in Nat
      /\ \A k \in 1 .. Len(s) : Append(s, x)[k] = s[k]
      /\ Append(s, x)[Len(s) + 1] = x
  OBVIOUS
<1>2. \A k \in 1 .. Len(s) : s[k] < x
  BY DEF Numbers
<1> QED
  BY <1>1, <1>2 DEF Increasing

LEMMA IncreasingTail ==
  ASSUME NEW s \in Seq(Nat), s # <<>>, Increasing(s)
  PROVE  Increasing(Tail(s)) /\ \A y \in Numbers(Tail(s)) : Head(s) < y
<1>1. /\ Len(s) \in Nat /\ Len(s) > 0 /\ Head(s) = s[1]
      /\ Len(Tail(s)) = Len(s) - 1
      /\ \A k \in 1 .. Len(s) - 1 : Tail(s)[k] = s[k + 1]
  OBVIOUS
<1>2. Increasing(Tail(s))
  BY <1>1 DEF Increasing
<1>3. \A k \in 1 .. Len(s) - 1 : s[1] < s[k + 1]
  BY <1>1 DEF Increasing
<1> QED
  BY <1>1, <1>2, <1>3 DEF Numbers

(* A set that has all the numbers between a and b, but not b, has b - a - 1*)
(* more of those up to b than of those up to a.                            *)
LEMMA CountGap ==
  ASSUME NEW M, NEW l \in Nat, NEW a \in Nat, NEW b \in Nat, l <= a + 1, a < b,
         \A x \in a + 1 .. b - 1 : x \in M, b \notin M
  PROVE  Cardinality(M \cap (l .. b)) = Cardinality(M \cap (l .. a)) + (b - a - 1)
<1> DEFINE A == M \cap (l .. a)
           B == a + 1 .. b - 1
<1>1. M \cap (l .. b) = A \cup B /\ A \cap B = {}
  OBVIOUS
<1>2. IsFiniteSet(B) /\ Cardinality(B) = b - a - 1
  <2>1. a + 1 \in Int /\ b - 1 \in Int
    OBVIOUS
  <2>2. /\ IsFiniteSet(a + 1 .. b - 1)
        /\ Cardinality(a + 1 .. b - 1) =
             IF a + 1 > b - 1 THEN 0 ELSE (b - 1) - (a + 1) + 1
    BY ONLY <2>1, FS_Interval
  <2>3. (IF a + 1 > b - 1 THEN 0 ELSE (b - 1) - (a + 1) + 1) = b - a - 1
    OBVIOUS
  <2> QED
    BY <2>2, <2>3
<1>3. IsFiniteSet(l .. a)
  BY FS_Interval
<1>4. IsFiniteSet(A)
  BY <1>3, FS_Subset
<1>5. Cardinality({}) = 0
  BY FS_EmptySet
<1>6. Cardinality(A) \in Nat
  BY <1>4, FS_CardinalityType
<1> HIDE DEF A, B
<1>7. Cardinality(A \cup B) = Cardinality(A) + Cardinality(B) - Cardinality(A \cap B)
  BY <1>2, <1>4, FS_Union
<1>8. Cardinality(A \cup B) = Cardinality(A) + (b - a - 1)
  <2>1. A \cap B = {}
    BY <1>1
  <2>2. Cardinality(A \cap B) = 0
    BY <2>1, <1>5, Zenon
  <2>3. Cardinality(A \cup B) = Cardinality(A) + (b - a - 1) - 0
    BY <1>2, <1>7, <2>2, Zenon
  <2>4. Cardinality(A) + (b - a - 1) - 0 = Cardinality(A) + (b - a - 1)
    BY <1>6
  <2> QED
    BY <2>3, <2>4, Zenon
<1>9. M \cap (l .. b) = A \cup B
  BY <1>1
<1> QED
  BY <1>8, <1>9, Zenon DEF A

-----------------------------------------------------------------------------
(* The steps.                                                              *)

LEMMA InitHolds == Init => ZmqInv
<1> SUFFICES ASSUME Init PROVE ZmqInv
  OBVIOUS
<1> USE ZmqAssumption DEF Init, Total
<1>1. Numbers(<<>>) = {}
  BY DEF Numbers
<1>2. TypeOK
  BY <1>1 DEF TypeOK
<1>3. PipesType
  BY DEF PipesType
<1>4. Cardinality({}) = 0
  BY FS_EmptySet
<1>5. ASSUME NEW c \in Consumers PROVE ConsumerInv(c)
  <2>1. PipeInv(c)
    BY <1>1 DEF PipeInv, Increasing, Waiting
  <2>2. GapInv(c)
    BY DEF GapInv
  <2>3. missed[c] \cap (N_WARMUP + 1 .. N_WARMUP + seen[c]) = {}
    OBVIOUS
  <2>4. CountInv(c)
    <3>1. Cardinality(missed[c] \cap (N_WARMUP + 1 .. N_WARMUP + seen[c])) = 0
      BY <1>4, <2>3, Zenon
    <3> QED
      BY <3>1 DEF CountInv
  <2>5. EndInv(c)
    BY DEF EndInv
  <2> QED
    BY <2>1, <2>2, <2>4, <2>5 DEF ConsumerInv
<1> QED
  BY <1>2, <1>3, <1>5 DEF ZmqInv

(* What the invariant says of the types of consumer c.                     *)
LEMMA ConsumerTypes ==
  ASSUME ZmqInv, NEW c \in Consumers
  PROVE  /\ inbox[c] \in Seq(1 .. Total) /\ outbox[c] \in Seq(1 .. Total)
         /\ Waiting(c) \cup missed[c] \subseteq 1 .. next - 1
         /\ next \in 1 .. Total + 1 /\ Total \in Nat
         /\ seen[c] \in 0 .. N_MESSAGES /\ n_recv[c] \in 0 .. N_MESSAGES
         /\ ConsumerInv(c)
BY ZmqAssumption DEF ZmqInv, TypeOK, PipesType, Waiting, Total

(* Nothing happens to the pipes of consumer c, nor does it receive: it goes*)
(* on, or ends without having finished.                                    *)
LEMMA SameKeeps ==
  ASSUME ZmqInv, NEW c \in Consumers,
         inbox'[c] = inbox[c], outbox'[c] = outbox[c], missed'[c] = missed[c],
         seen'[c] = seen[c], n_recv'[c] = n_recv[c], next' = next,
         ppc = "killed" => ppc' = "killed",
         cpc'[c] = cpc[c] \/ (cpc[c] \in {"start", "recv"} /\ cpc'[c] # "finished")
  PROVE  ConsumerInv(c)'
<1>1. ConsumerInv(c)
  BY DEF ZmqInv
<1>2. PipeInv(c)'
  BY <1>1 DEF ConsumerInv, PipeInv, Waiting
<1>3. GapInv(c)'
  BY <1>1 DEF ConsumerInv, GapInv, Waiting
<1>4. CountInv(c)'
  BY <1>1 DEF ConsumerInv, CountInv
<1>5. EndInv(c)'
  BY <1>1 DEF ConsumerInv, EndInv
<1> QED
  BY <1>2, <1>3, <1>4, <1>5 DEF ConsumerInv

(* The steps that leave all pipes alone, and receive nothing.              *)
LEMMA QuietKeeps ==
  ASSUME ZmqInv, UNCHANGED <<next, outbox, inbox, n_recv, seen, missed>>,
         ppc = "killed" => ppc' = "killed",
         ppc' \in {"start", "bound", "send", "done", "killed"},
         ppc' = "killed" => ppc = "killed",
         subscribers' \subseteq Consumers,
         s2' \in [Consumers -> BOOLEAN],
         \/ cpc' = cpc
         \/ \E c \in Consumers, v \in {"recv", "stalled", "failed"} :
              cpc[c] \in {"start", "recv"} /\ cpc' = [cpc EXCEPT ![c] = v]
  PROVE  ZmqInv'
<1>1. TypeOK /\ PipesType
  BY DEF ZmqInv
<1>2. cpc' \in [Consumers -> {"start", "recv", "finished", "stalled", "failed"}]
  BY <1>1 DEF TypeOK
<1>3. TypeOK'
  BY <1>1, <1>2 DEF TypeOK
<1>4. PipesType'
  BY <1>1 DEF PipesType
<1>5. ASSUME NEW c \in Consumers PROVE ConsumerInv(c)'
  <2>1. cpc'[c] = cpc[c] \/ (cpc[c] \in {"start", "recv"} /\ cpc'[c] # "finished")
    BY <1>1 DEF TypeOK
  <2> QED
    BY <2>1, SameKeeps
<1> QED
  BY <1>3, <1>4, <1>5 DEF ZmqInv

(* A message is sent: behind all others, or among those missed.            *)
LEMMA SendKeeps == ZmqInv /\ Send => ZmqInv'
<1> SUFFICES ASSUME ZmqInv, Send PROVE ZmqInv'
  OBVIOUS
<1> USE ZmqAssumption
<1>1. /\ TypeOK /\ PipesType
      /\ next \in 1 .. Total /\ next' = next + 1 /\ Publish(next)
      /\ ppc = "send" /\ UNCHANGED <<ppc, subscribers, inbox, cpc, n_recv, s2, seen>>
      /\ N_WARMUP \in Nat /\ Total \in Nat
  BY DEF ZmqInv, Send, TypeOK, MoreToSend, consumerVars, Total
<1>2. ASSUME NEW c \in Consumers
      PROVE  /\ outbox'[c] \in Seq(1 .. Total) /\ missed'[c] \subseteq 1 .. next
             /\ Numbers(outbox'[c]) \subseteq 1 .. next /\ Len(outbox'[c]) <= SNDHWM
             /\ ConsumerInv(c)'
  <2>1. /\ outbox[c] \in Seq(1 .. Total) /\ inbox[c] \in Seq(1 .. Total)
        /\ Numbers(inbox[c]) \subseteq 1 .. next - 1
        /\ Numbers(outbox[c]) \subseteq 1 .. next - 1
        /\ missed[c] \subseteq 1 .. next - 1
        /\ Len(outbox[c]) <= SNDHWM /\ seen[c] \in 0 .. N_MESSAGES
        /\ ConsumerInv(c)
    BY <1>1 DEF ZmqInv, TypeOK, PipesType
  <2>2. CASE Delivered(c)
    <3>1. outbox'[c] = Append(outbox[c], next) /\ missed'[c] = missed[c]
      BY <1>1, <2>2 DEF Publish
    <3>2. Numbers(outbox'[c]) = Numbers(outbox[c]) \cup {next}
      BY <1>1, <2>1, <3>1, NumbersAppend
    <3>3. outbox'[c] \in Seq(1 .. Total) /\ Len(outbox'[c]) <= SNDHWM
      BY <1>1, <2>1, <2>2, <3>1 DEF Delivered
    <3>4. Increasing(outbox'[c])
      <4>1. outbox[c] \in Seq(Nat)
        BY <1>1, <2>1, PositiveSeq
      <4>2. \A y \in Numbers(outbox[c]) : y < next
        BY <1>1, <2>1
      <4>3. Increasing(outbox[c])
        BY <2>1 DEF ConsumerInv, PipeInv
      <4> QED
        BY <1>1, <3>1, <4>1, <4>2, <4>3, IncreasingAppend
    <3>5. PipeInv(c)'
      <4>1. Waiting(c)' = Waiting(c) \cup {next} /\ inbox'[c] = inbox[c]
        BY <1>1, <3>2 DEF Waiting
      <4>2. \A x \in Numbers(inbox[c]), y \in Numbers(outbox[c]) \cup {next} : x < y
        BY <1>1, <2>1 DEF ConsumerInv, PipeInv
      <4>3. next > N_WARMUP => next > N_WARMUP + seen[c]
        BY <1>1, <2>1 DEF ConsumerInv, CountInv
      <4>4. next \notin missed[c]
        BY <1>1, <2>1
      <4>5. \A x \in Waiting(c) : x \notin missed[c] /\ (x > N_WARMUP => x > N_WARMUP + seen[c])
        BY <2>1 DEF ConsumerInv, PipeInv
      <4>6. Increasing(inbox[c])
        BY <2>1 DEF ConsumerInv, PipeInv
      <4> QED
        BY <1>1, <3>1, <3>2, <3>4, <4>1, <4>2, <4>3, <4>4, <4>5, <4>6 DEF PipeInv
    <3>6. GapInv(c)'
      <4>1. Waiting(c)' = Waiting(c) \cup {next}
        BY <1>1, <3>2 DEF Waiting
      <4> QED
        BY <1>1, <2>1, <3>1, <4>1 DEF ConsumerInv, GapInv
    <3>7. CountInv(c)' /\ EndInv(c)'
      BY <1>1, <2>1, <3>1 DEF ConsumerInv, CountInv, EndInv
    <3> QED
      BY <1>1, <2>1, <3>1, <3>2, <3>3, <3>5, <3>6, <3>7 DEF ConsumerInv
  <2>3. CASE ~Delivered(c)
    <3>1. outbox'[c] = outbox[c] /\ missed'[c] = missed[c] \cup {next}
      BY <1>1, <2>3 DEF Publish
    <3>2. Waiting(c)' = Waiting(c) /\ Waiting(c) \subseteq 1 .. next - 1
      BY <1>1, <2>1, <3>1 DEF Waiting
    <3>3. PipeInv(c)'
      BY <1>1, <2>1, <3>1, <3>2 DEF ConsumerInv, PipeInv
    <3>4. GapInv(c)'
      BY <1>1, <2>1, <3>1, <3>2 DEF ConsumerInv, GapInv
    <3>5. CountInv(c)'
      <4>1. missed'[c] \cap (N_WARMUP + 1 .. N_WARMUP + seen[c])
              = missed[c] \cap (N_WARMUP + 1 .. N_WARMUP + seen[c])
        BY <1>1, <2>1, <3>1 DEF ConsumerInv, CountInv
      <4>2. /\ seen' = seen /\ n_recv' = n_recv
            /\ N_WARMUP + seen[c] <= next' - 1 \/ seen[c] = 0
        BY <1>1, <2>1 DEF ConsumerInv, CountInv
      <4>3. seen[c] = n_recv[c] + Cardinality(missed[c] \cap (N_WARMUP + 1 .. N_WARMUP + seen[c]))
        BY <2>1 DEF ConsumerInv, CountInv
      <4>4. seen[c] = n_recv[c] + Cardinality(missed'[c] \cap (N_WARMUP + 1 .. N_WARMUP + seen[c]))
        BY <4>1, <4>3, Zenon
      <4> QED
        BY <4>2, <4>4, Zenon DEF CountInv
    <3>6. EndInv(c)'
      BY <1>1, <2>1 DEF ConsumerInv, EndInv
    <3> QED
      BY <1>1, <2>1, <3>1, <3>3, <3>4, <3>5, <3>6 DEF ConsumerInv
  <2> QED
    BY <2>2, <2>3
<1>3. /\ outbox' \in [Consumers -> Seq(1 .. Total)]
      /\ missed' \in [Consumers -> SUBSET (1 .. Total)]
  <2>1. /\ outbox' = [c \in Consumers |-> outbox'[c]]
        /\ missed' = [c \in Consumers |-> missed'[c]]
    BY <1>1 DEF Publish
  <2>2. \A c \in Consumers : outbox'[c] \in Seq(1 .. Total) /\ missed'[c] \subseteq 1 .. Total
    BY <1>1, <1>2
  <2> QED
    BY <2>1, <2>2
<1>4. PipesType'
  BY <1>1, <1>3 DEF PipesType
<1>5. TypeOK'
  <2>1. ASSUME NEW c \in Consumers
        PROVE  Numbers(inbox[c]) \subseteq 1 .. next /\ Len(inbox[c]) <= RCVHWM
    <3>1. Numbers(inbox[c]) \subseteq 1 .. next - 1 /\ Len(inbox[c]) <= RCVHWM
      BY DEF ZmqInv, TypeOK
    <3> QED
      BY <1>1, <3>1
  <2>2. next' - 1 = next /\ next' \in 1 .. Total + 1
    BY <1>1
  <2>3. \A c \in Consumers :
          /\ Numbers(outbox'[c]) \cup Numbers(inbox'[c]) \cup missed'[c] \subseteq 1 .. next' - 1
          /\ Len(outbox'[c]) <= SNDHWM /\ Len(inbox'[c]) <= RCVHWM
    BY <1>1, <1>2, <2>1, <2>2
  <2> QED
    BY <1>1, <2>2, <2>3, Zenon DEF TypeOK
<1> QED
  BY <1>2, <1>4, <1>5 DEF ZmqInv

(* The producer is killed: the messages in its pipes are among those       *)
(* missed.                                                                 *)
LEMMA KillKeeps == ZmqInv /\ Kill => ZmqInv'
<1> SUFFICES ASSUME ZmqInv, Kill PROVE ZmqInv'
  OBVIOUS
<1>1. /\ TypeOK /\ PipesType /\ ppc' = "killed" /\ ppc # "killed"
      /\ outbox' = [c \in Consumers |-> <<>>]
      /\ missed' = [c \in Consumers |-> missed[c] \cup Numbers(outbox[c])]
      /\ UNCHANGED <<next, subscribers, inbox, cpc, n_recv, s2, seen>>
  BY DEF ZmqInv, Kill, consumerVars
<1>2. Numbers(<<>>) = {} /\ Len(<<>>) = 0
  BY DEF Numbers
<1>3. ASSUME NEW c \in Consumers
      PROVE  /\ Numbers(outbox[c]) \cup Numbers(inbox[c]) \cup missed[c] \subseteq 1 .. next - 1
             /\ next \in 1 .. Total + 1 /\ Total \in Nat
             /\ Len(inbox[c]) <= RCVHWM /\ seen[c] \in Nat /\ ConsumerInv(c)
  BY <1>1, ZmqAssumption DEF ZmqInv, TypeOK, Total
<1>4. TypeOK'
  <2>1. \A c \in Consumers :
          /\ Numbers(outbox'[c]) \cup Numbers(inbox'[c]) \cup missed'[c] \subseteq 1 .. next' - 1
          /\ Len(outbox'[c]) <= SNDHWM /\ Len(inbox'[c]) <= RCVHWM
    BY <1>1, <1>2, <1>3, ZmqAssumption
  <2> QED
    BY <1>1, <2>1 DEF TypeOK
<1>5. PipesType'
  <2>1. \A c \in Consumers : missed[c] \cup Numbers(outbox[c]) \subseteq 1 .. Total
    BY <1>3
  <2>2. missed' \in [Consumers -> SUBSET (1 .. Total)]
    BY <1>1, <2>1
  <2>3. outbox' \in [Consumers -> Seq(1 .. Total)]
    BY <1>1
  <2> QED
    BY <1>1, <2>2, <2>3 DEF PipesType
<1>6. ASSUME NEW c \in Consumers PROVE ConsumerInv(c)'
  <2>1. ConsumerInv(c)
    BY DEF ZmqInv
  <2>2. /\ outbox'[c] = <<>> /\ Numbers(outbox'[c]) = {} /\ Waiting(c)' = Numbers(inbox[c])
        /\ missed'[c] = missed[c] \cup Numbers(outbox[c])
    BY <1>1, <1>2 DEF Waiting
  <2>3. PipeInv(c)'
    <3>1. \A x \in Numbers(inbox[c]) : x \notin Numbers(outbox[c])
      BY <1>3, <2>1 DEF ConsumerInv, PipeInv
    <3> QED
      BY <1>1, <1>2, <2>1, <2>2, <3>1 DEF ConsumerInv, PipeInv, Increasing, Waiting
  <2>4. GapInv(c)'
    BY <1>1, <2>1, <2>2 DEF ConsumerInv, GapInv, Waiting
  <2>5. CountInv(c)'
    <3>1. \A x \in Numbers(outbox[c]) : x > N_WARMUP => x > N_WARMUP + seen[c]
      BY <2>1 DEF ConsumerInv, PipeInv, Waiting
    <3>2. missed'[c] \cap (N_WARMUP + 1 .. N_WARMUP + seen[c])
            = missed[c] \cap (N_WARMUP + 1 .. N_WARMUP + seen[c])
      BY <1>3, <2>2, <3>1, ZmqAssumption
    <3>3. UNCHANGED <<next, seen, n_recv>> /\ CountInv(c)
      BY <1>1, <2>1 DEF ConsumerInv
    <3> QED
      BY <3>2, <3>3, Zenon DEF CountInv
  <2>6. EndInv(c)'
    BY <1>1, <2>1 DEF ConsumerInv, EndInv
  <2> QED
    BY <2>3, <2>4, <2>5, <2>6 DEF ConsumerInv
<1> QED
  BY <1>4, <1>5, <1>6 DEF ZmqInv

(* The first message of one pipe goes to the end of the other.             *)
LEMMA TransferKeeps ==
  ASSUME ZmqInv, NEW c \in Consumers, Transfer(c)
  PROVE  ZmqInv'
<1> USE ZmqAssumption
<1> DEFINE m == Head(outbox[c])
<1>1. /\ TypeOK /\ PipesType /\ outbox[c] # <<>> /\ Len(inbox[c]) < RCVHWM
      /\ inbox' = [inbox EXCEPT ![c] = Append(inbox[c], m)]
      /\ outbox' = [outbox EXCEPT ![c] = Tail(outbox[c])]
      /\ UNCHANGED <<ppc, next, subscribers, cpc, n_recv, s2, seen, missed>>
  BY DEF ZmqInv, Transfer, producerVars, consumerVars
<1>2. /\ outbox[c] \in Seq(1 .. Total) /\ inbox[c] \in Seq(1 .. Total)
      /\ inbox'[c] = Append(inbox[c], m) /\ outbox'[c] = Tail(outbox[c])
      /\ Len(outbox[c]) <= SNDHWM /\ Total \in Nat
      /\ ConsumerInv(c)
  BY <1>1 DEF PipesType, TypeOK, ZmqInv, Total
<1>3. /\ m \in 1 .. Total /\ Tail(outbox[c]) \in Seq(1 .. Total)
      /\ Len(Tail(outbox[c])) = Len(outbox[c]) - 1
      /\ Numbers(outbox[c]) = {m} \cup Numbers(Tail(outbox[c]))
  BY <1>1, <1>2, NumbersTail
<1>4. Numbers(Append(inbox[c], m)) = Numbers(inbox[c]) \cup {m}
  BY <1>2, <1>3, NumbersAppend
<1>5. Append(inbox[c], m) \in Seq(1 .. Total) /\ Len(Append(inbox[c], m)) <= RCVHWM
      /\ Len(Tail(outbox[c])) <= SNDHWM
  BY <1>1, <1>2, <1>3
<1> HIDE DEF m
<1>6. TypeOK'
  BY <1>1, <1>2, <1>3, <1>4, <1>5 DEF TypeOK, PipesType
<1>7. PipesType'
  BY <1>1, <1>3, <1>5 DEF PipesType
<1>8. ConsumerInv(c)'
  <2>1. Waiting(c)' = Waiting(c)
    BY <1>2, <1>3, <1>4 DEF Waiting
  <2>2. Increasing(Tail(outbox[c])) /\ \A y \in Numbers(Tail(outbox[c])) : m < y
    <3>1. outbox[c] \in Seq(Nat) /\ Increasing(outbox[c])
      BY <1>2 DEF ConsumerInv, PipeInv
    <3> QED
      BY <1>1, <3>1, IncreasingTail DEF m
  <2>3. Increasing(Append(inbox[c], m))
    <3>1. inbox[c] \in Seq(Nat) /\ Increasing(inbox[c]) /\ m \in Nat
      BY <1>2, <1>3 DEF ConsumerInv, PipeInv
    <3>2. \A y \in Numbers(inbox[c]) : y < m
      BY <1>2, <1>3 DEF ConsumerInv, PipeInv
    <3> QED
      BY <3>1, <3>2, IncreasingAppend
  <2>4. \A x \in Numbers(inbox[c]) \cup {m}, y \in Numbers(Tail(outbox[c])) : x < y
    BY <1>2, <1>3, <2>2 DEF ConsumerInv, PipeInv
  <2>5. PipeInv(c)'
    BY <1>1, <1>2, <1>4, <2>1, <2>2, <2>3, <2>4 DEF ConsumerInv, PipeInv
  <2>6. GapInv(c)'
    BY <1>1, <1>2, <2>1 DEF ConsumerInv, GapInv, PipesType
  <2>7. CountInv(c)' /\ EndInv(c)'
    BY <1>1, <1>2 DEF ConsumerInv, CountInv, EndInv
  <2> QED
    BY <2>5, <2>6, <2>7 DEF ConsumerInv
<1>9. ASSUME NEW d \in Consumers, d # c PROVE ConsumerInv(d)'
  <2>1. inbox'[d] = inbox[d] /\ outbox'[d] = outbox[d]
    BY <1>1, <1>9 DEF PipesType
  <2> QED
    BY <1>1, <2>1, SameKeeps
<1> QED
  BY <1>6, <1>7, <1>8, <1>9 DEF ZmqInv

(* A message of the benchmark is received and counted.                     *)
LEMMA CountKeeps ==
  ASSUME ZmqInv, NEW c \in Consumers, Recv(c), ~Warmup(Head(inbox[c]))
  PROVE  ConsumerInv(c)' /\ n_recv'[c] \in 0 .. N_MESSAGES /\ seen'[c] \in 0 .. N_MESSAGES
<1> USE ZmqAssumption
<1>1. PICK m : m = Head(inbox[c])
  OBVIOUS
<1>2. /\ TypeOK /\ PipesType /\ cpc[c] = "recv" /\ inbox[c] # <<>> /\ m > N_WARMUP
      /\ inbox'[c] = Tail(inbox[c]) /\ seen'[c] = m - N_WARMUP
      /\ n_recv'[c] = n_recv[c] + 1
      /\ cpc'[c] = IF IsLast(c, m) THEN "finished" ELSE "recv"
      /\ UNCHANGED <<ppc, next, outbox, missed>>
  <2>1. TypeOK /\ PipesType /\ inbox[c] # <<>> /\ Head(inbox[c]) \in 1 .. Total
    BY NumbersTail DEF ZmqInv, PipesType, Recv
  <2>2. m > N_WARMUP
    BY <1>1, <2>1 DEF Warmup, Total
  <2>3. /\ seen' = [seen EXCEPT ![c] = m - N_WARMUP]
        /\ n_recv' = [n_recv EXCEPT ![c] = n_recv[c] + 1]
        /\ cpc' = [cpc EXCEPT ![c] = IF IsLast(c, m) THEN "finished" ELSE "recv"]
        /\ inbox' = [inbox EXCEPT ![c] = Tail(inbox[c])]
        /\ cpc[c] = "recv" /\ UNCHANGED <<ppc, next, outbox, missed>>
    BY <1>1 DEF Recv, producerVars
  <2> QED
    BY <2>1, <2>2, <2>3 DEF TypeOK, PipesType
<1>3. /\ inbox[c] \in Seq(1 .. Total) /\ Waiting(c) \cup missed[c] \subseteq 1 .. next - 1
      /\ next \in 1 .. Total + 1 /\ Total \in Nat /\ Total = N_WARMUP + N_MESSAGES
      /\ seen[c] \in 0 .. N_MESSAGES /\ n_recv[c] \in 0 .. N_MESSAGES
      /\ ConsumerInv(c)
  BY ConsumerTypes DEF Total
<1>4. /\ m \in 1 .. Total
      /\ Numbers(inbox[c]) = {m} \cup Numbers(Tail(inbox[c]))
  BY <1>1, <1>2, <1>3, NumbersTail
<1>5. Increasing(Tail(inbox[c])) /\ \A y \in Numbers(Tail(inbox[c])) : m < y
  <2>1. inbox[c] \in Seq(Nat) /\ Increasing(inbox[c])
    BY <1>3, PositiveSeq DEF ConsumerInv, PipeInv
  <2> QED
    BY <1>1, <1>2, <2>1, IncreasingTail
<1>6. \A y \in Numbers(outbox[c]) : m < y
  BY <1>3, <1>4 DEF ConsumerInv, PipeInv
<1>7. m \in Waiting(c) /\ m <= next - 1 /\ m \notin missed[c] /\ m > N_WARMUP + seen[c]
  <2>1. m \in Waiting(c)
    BY <1>4 DEF Waiting
  <2> QED
    BY <1>2, <1>3, <2>1 DEF ConsumerInv, PipeInv
<1>8. PipeInv(c)'
  <2>1. Waiting(c)' = Numbers(Tail(inbox[c])) \cup Numbers(outbox[c])
    BY <1>2 DEF Waiting
  <2>2. Waiting(c)' \subseteq Waiting(c) /\ \A y \in Waiting(c)' : m < y
    BY <1>4, <1>5, <1>6, <2>1 DEF Waiting
  <2>3. \A x \in Waiting(c)' : x \notin missed[c] /\ (x > N_WARMUP => x > N_WARMUP + seen'[c])
    BY <1>2, <1>3, <1>4, <2>2 DEF ConsumerInv, PipeInv
  <2>4. \A x \in Numbers(Tail(inbox[c])), y \in Numbers(outbox[c]) : x < y
    BY <1>3, <1>4 DEF ConsumerInv, PipeInv
  <2> QED
    BY <1>2, <1>3, <1>5, <2>3, <2>4 DEF ConsumerInv, PipeInv
<1>9. GapInv(c)'
  <2> SUFFICES ASSUME NEW x \in m + 1 .. next - 1
               PROVE  x \in missed[c] \cup Numbers(Tail(inbox[c])) \cup Numbers(outbox[c])
    BY <1>2, <1>4 DEF GapInv, Waiting
  <2>1. x \in N_WARMUP + seen[c] + 1 .. next - 1 /\ x # m
    BY <1>3, <1>4, <1>7
  <2> QED
    BY <1>3, <1>4, <2>1 DEF ConsumerInv, GapInv, Waiting
<1>10. \A x \in N_WARMUP + seen[c] + 1 .. m - 1 : x \in missed[c]
  <2> SUFFICES ASSUME NEW x \in N_WARMUP + seen[c] + 1 .. m - 1 PROVE x \in missed[c]
    OBVIOUS
  <2>1. x \in N_WARMUP + seen[c] + 1 .. next - 1 /\ x < m
    <3>1. /\ N_WARMUP \in Nat /\ seen[c] \in Nat /\ next \in Nat /\ m \in Nat
          /\ m <= next - 1
      BY <1>3, <1>4, <1>7
    <3> QED
      BY <3>1
  <2>2. x \notin Waiting(c)
    BY <1>4, <1>5, <1>6, <2>1 DEF Waiting
  <2> QED
    BY <1>3, <2>1, <2>2 DEF ConsumerInv, GapInv
<1>11. PICK a \in Nat : a = N_WARMUP + seen[c]
  BY <1>3
<1>12. /\ m \in Nat /\ seen[c] \in Nat /\ n_recv[c] \in Nat /\ N_WARMUP \in Nat
       /\ N_MESSAGES \in Nat /\ a < m /\ m <= N_WARMUP + N_MESSAGES
       /\ Total = N_WARMUP + N_MESSAGES
  BY <1>3, <1>4, <1>7, <1>11
<1>13. Cardinality(missed[c] \cap (N_WARMUP + 1 .. m))
         = Cardinality(missed[c] \cap (N_WARMUP + 1 .. a)) + (m - a - 1)
  <2>1. /\ N_WARMUP + 1 \in Nat /\ m \in Nat /\ N_WARMUP + 1 <= a + 1 /\ a < m
        /\ \A x \in a + 1 .. m - 1 : x \in missed[c]
    BY <1>10, <1>11, <1>12
  <2> QED
    BY <1>7, <1>11, <2>1, CountGap
<1>14. seen[c] = n_recv[c] + Cardinality(missed[c] \cap (N_WARMUP + 1 .. a))
  BY <1>3, <1>11, Zenon DEF ConsumerInv, CountInv
<1>15. PICK k : k = Cardinality(missed[c] \cap (N_WARMUP + 1 .. a))
  OBVIOUS
<1>16. k \in Nat
  <2>1. IsFiniteSet(N_WARMUP + 1 .. a)
    BY FS_Interval
  <2>2. IsFiniteSet(missed[c] \cap (N_WARMUP + 1 .. a))
    BY <2>1, FS_Subset
  <2>3. Cardinality(missed[c] \cap (N_WARMUP + 1 .. a)) \in Nat
    BY <2>2, FS_CardinalityType
  <2> QED
    BY <1>15, <2>3, Zenon
<1>17. Cardinality(missed[c] \cap (N_WARMUP + 1 .. m)) = k + (m - a - 1) /\ seen[c] = n_recv[c] + k
  BY <1>13, <1>14, <1>15, Zenon
<1>18. seen[c] = n_recv[c] + k /\ seen'[c] = m - N_WARMUP /\ n_recv'[c] = n_recv[c] + 1
  BY <1>2, <1>17
<1>19. CountInv(c)'
  <2>1. N_WARMUP + seen'[c] = m
    BY <1>2, <1>4
  <2>2. PICK n \in Nat, l \in Nat : n = n_recv[c] /\ l = seen[c]
    BY <1>12
  <2>3. m - N_WARMUP = (n + 1) + (k + (m - a - 1))
    BY <1>11, <1>12, <1>16, <1>18, <2>2
  <2>4. seen'[c] = n_recv'[c] + (k + (m - a - 1))
    BY <1>18, <2>2, <2>3, Zenon
  <2>5. seen'[c] = n_recv'[c] + Cardinality(missed'[c] \cap (N_WARMUP + 1 .. N_WARMUP + seen'[c]))
    BY <1>2, <1>17, <2>1, <2>4, Zenon
  <2>6. N_WARMUP + seen'[c] <= next' - 1
    BY <1>2, <1>7, <2>1
  <2> QED
    BY <2>5, <2>6, Zenon DEF CountInv
<1>20. IsLast(c, m) <=> m = Total
  BY <1>11, <1>12, <1>16, <1>18 DEF IsLast
<1>21. EndInv(c)'
  <2>1. seen'[c] = m - N_WARMUP /\ cpc'[c] = IF m = Total THEN "finished" ELSE "recv"
    BY <1>2, <1>20, Zenon
  <2>2. m <= Total /\ m \in Int /\ N_WARMUP \in Int /\ Total = N_WARMUP + N_MESSAGES
    BY <1>12
  <2>3. CASE m = Total
    <3>1. seen'[c] = N_MESSAGES /\ cpc'[c] = "finished"
      BY <1>12, <2>1, <2>3
    <3> QED
      BY <3>1 DEF EndInv
  <2>4. CASE m # Total
    <3>1. seen'[c] < N_MESSAGES /\ cpc'[c] = "recv"
      BY <1>12, <2>1, <2>2, <2>4
    <3> QED
      BY <3>1 DEF EndInv
  <2> QED
    BY <2>3, <2>4
<1>22. n_recv'[c] \in 0 .. N_MESSAGES /\ seen'[c] \in 0 .. N_MESSAGES
  BY <1>11, <1>12, <1>16, <1>18
<1> QED
  BY <1>8, <1>9, <1>19, <1>21, <1>22 DEF ConsumerInv

(* A warm-up message is skipped.                                           *)
LEMMA SkipKeeps ==
  ASSUME ZmqInv, NEW c \in Consumers, Recv(c), Warmup(Head(inbox[c]))
  PROVE  ConsumerInv(c)'
<1> USE ZmqAssumption
<1>1. PICK m : m = Head(inbox[c])
  OBVIOUS
<1>2. /\ inbox[c] # <<>> /\ m <= N_WARMUP /\ inbox'[c] = Tail(inbox[c])
      /\ UNCHANGED <<ppc, next, outbox, missed, cpc, n_recv, seen>>
  BY <1>1 DEF Recv, Warmup, ZmqInv, PipesType, producerVars, consumerVars
<1>3. inbox[c] \in Seq(1 .. Total) /\ Total \in Nat /\ ConsumerInv(c) /\ seen[c] \in Nat
      /\ Waiting(c) \subseteq 1 .. next - 1 /\ next \in 1 .. Total + 1
  BY ConsumerTypes
<1>4. /\ m \in 1 .. Total
      /\ Numbers(inbox[c]) = {m} \cup Numbers(Tail(inbox[c]))
  BY <1>1, <1>2, <1>3, NumbersTail
<1>5. Increasing(Tail(inbox[c]))
  <2>1. inbox[c] \in Seq(Nat) /\ Increasing(inbox[c])
    BY <1>3, PositiveSeq DEF ConsumerInv, PipeInv
  <2> QED
    BY <1>1, <1>2, <2>1, IncreasingTail
<1>6. Waiting(c)' = Numbers(Tail(inbox[c])) \cup Numbers(outbox[c])
      /\ Waiting(c) = {m} \cup Waiting(c)'
  BY <1>2, <1>4 DEF Waiting
<1>7. PipeInv(c)'
  BY <1>2, <1>3, <1>4, <1>5, <1>6 DEF ConsumerInv, PipeInv
<1>8. GapInv(c)'
  <2> SUFFICES ASSUME NEW x \in N_WARMUP + seen[c] + 1 .. next - 1
               PROVE  x \in missed[c] \cup Waiting(c)'
    BY <1>2 DEF GapInv
  <2>1. x # m
    BY <1>2, <1>3, <1>4
  <2> QED
    BY <1>3, <1>4, <1>6, <2>1 DEF ConsumerInv, GapInv
<1>9. CountInv(c)' /\ EndInv(c)'
  BY <1>2, <1>3 DEF ConsumerInv, CountInv, EndInv
<1> QED
  BY <1>7, <1>8, <1>9 DEF ConsumerInv

LEMMA RecvKeeps ==
  ASSUME ZmqInv, NEW c \in Consumers, Recv(c)
  PROVE  ZmqInv'
<1> USE ZmqAssumption
<1>1. /\ TypeOK /\ PipesType /\ inbox[c] # <<>> /\ cpc[c] = "recv"
      /\ inbox' = [inbox EXCEPT ![c] = Tail(inbox[c])]
      /\ UNCHANGED <<ppc, next, subscribers, outbox, missed>>
  BY DEF ZmqInv, Recv, producerVars
<1>2. inbox[c] \in Seq(1 .. Total) /\ Len(inbox[c]) <= RCVHWM
  BY <1>1 DEF PipesType, TypeOK
<1>3. /\ Tail(inbox[c]) \in Seq(1 .. Total) /\ Len(Tail(inbox[c])) <= RCVHWM
      /\ Numbers(Tail(inbox[c])) \subseteq Numbers(inbox[c])
  <2>1. /\ Tail(inbox[c]) \in Seq(1 .. Total) /\ Len(Tail(inbox[c])) = Len(inbox[c]) - 1
        /\ Numbers(inbox[c]) = {Head(inbox[c])} \cup Numbers(Tail(inbox[c]))
    BY <1>1, <1>2, NumbersTail
  <2>2. Len(inbox[c]) \in Nat
    BY <1>2
  <2> QED
    BY <1>2, <2>1, <2>2
<1>4. PipesType'
  BY <1>1, <1>3 DEF PipesType
<1>5. ConsumerInv(c)' /\ n_recv'[c] \in 0 .. N_MESSAGES /\ seen'[c] \in 0 .. N_MESSAGES
  <2>1. CASE Warmup(Head(inbox[c]))
    BY <1>1, <2>1, SkipKeeps DEF Recv, consumerVars, TypeOK
  <2>2. CASE ~Warmup(Head(inbox[c]))
    BY <2>2, CountKeeps
  <2> QED
    BY <2>1, <2>2
<1>6. /\ cpc' \in [Consumers -> {"start", "recv", "finished", "stalled", "failed"}]
      /\ n_recv' \in [Consumers -> 0 .. N_MESSAGES]
      /\ s2' \in [Consumers -> BOOLEAN]
      /\ seen' \in [Consumers -> 0 .. N_MESSAGES]
      /\ \A d \in Consumers \ {c} :
           cpc'[d] = cpc[d] /\ n_recv'[d] = n_recv[d] /\ seen'[d] = seen[d]
  BY <1>1, <1>5 DEF Recv, IsLast, consumerVars, TypeOK
<1>7. TypeOK'
  BY <1>1, <1>3, <1>6 DEF TypeOK, PipesType
<1>8. ASSUME NEW d \in Consumers, d # c PROVE ConsumerInv(d)'
  <2>1. inbox'[d] = inbox[d] /\ outbox'[d] = outbox[d]
    BY <1>1, <1>8 DEF PipesType
  <2> QED
    BY <1>1, <1>6, <1>8, <2>1, SameKeeps
<1> QED
  BY <1>4, <1>5, <1>7, <1>8 DEF ZmqInv

LEMMA StepKeeps == ZmqInv /\ [Next]_vars => ZmqInv'
<1> SUFFICES ASSUME ZmqInv, [Next]_vars PROVE ZmqInv'
  OBVIOUS
<1> USE DEF producerVars, libraryVars, consumerVars
<1>1. TypeOK
  BY DEF ZmqInv
<1>2. CASE Bind \/ StartSending \/ Exit \/ UNCHANGED vars
  BY <1>1, <1>2, QuietKeeps DEF Bind, StartSending, Exit, vars, TypeOK
<1>3. CASE Send
  BY <1>3, SendKeeps
<1>4. CASE Kill
  BY <1>4, KillKeeps
<1>5. ASSUME NEW c \in Consumers, SubscriptionSeen(c) PROVE ZmqInv'
  BY <1>1, <1>5, QuietKeeps DEF SubscriptionSeen, TypeOK
<1>6. ASSUME NEW c \in Consumers, Transfer(c) PROVE ZmqInv'
  BY <1>6, TransferKeeps
<1>7. ASSUME NEW c \in Consumers, Subscribe(c) \/ Stalled(c) \/ Fail(c) PROVE ZmqInv'
  <2>1. \E v \in {"recv", "stalled", "failed"} :
          cpc[c] \in {"start", "recv"} /\ cpc' = [cpc EXCEPT ![c] = v]
    BY <1>7 DEF Subscribe, Stalled, Fail
  <2>2. s2' \in [Consumers -> BOOLEAN]
    BY <1>1, <1>7 DEF Subscribe, Stalled, Fail, TypeOK
  <2>3. UNCHANGED <<ppc, next, subscribers, outbox, inbox, n_recv, seen, missed>>
    BY <1>7 DEF Subscribe, Stalled, Fail
  <2> QED
    BY <1>1, <2>1, <2>2, <2>3, QuietKeeps DEF TypeOK
<1>8. ASSUME NEW c \in Consumers, Recv(c) PROVE ZmqInv'
  BY <1>8, RecvKeeps
<1> QED
  BY <1>2, <1>3, <1>4, <1>5, <1>6, <1>7, <1>8 DEF Next, Producer, Library, Consumer

-----------------------------------------------------------------------------
(* The inductive invariant.                                                *)
THEOREM ZmqInvariant == Spec => []ZmqInv
BY InitHolds, StepKeeps, PTL DEF Spec

(* The state keeps its type; no pipe holds more than its high-water mark   *)
(* (main_producer.cpp and main_consumer.cpp, sndhwm and rcvhwm).           *)
THEOREM ZmqTypeCorrect == Spec => []TypeOK
<1>1. ZmqInv => TypeOK
  BY DEF ZmqInv
<1> QED
  BY <1>1, ZmqInvariant, PTL

(* Of the messages of the benchmark those received, those missed, those on *)
(* their way and those not sent yet are all there are.                     *)
LEMMA Accounting ==
  ASSUME ZmqInv, NEW c \in Consumers
  PROVE  N_MESSAGES - n_recv[c] =
           Cardinality((missed[c] \cup Waiting(c) \cup (next .. Total)) \cap Benchmark)
<1> DEFINE p == N_WARMUP + seen[c]
           A == missed[c] \cap (N_WARMUP + 1 .. p)
           B == p + 1 .. Total
<1>1. /\ N_WARMUP \in Nat /\ N_MESSAGES \in Nat /\ Total = N_WARMUP + N_MESSAGES
      /\ seen[c] \in 0 .. N_MESSAGES /\ n_recv[c] \in Nat /\ next \in 1 .. Total + 1
      /\ Waiting(c) \cup missed[c] \subseteq 1 .. next - 1
      /\ PipeInv(c) /\ GapInv(c) /\ CountInv(c)
  BY ConsumerTypes, ZmqAssumption DEF ConsumerInv, Total
<1>2. (missed[c] \cup Waiting(c) \cup (next .. Total)) \cap Benchmark = A \cup B
  <2>1. ASSUME NEW x \in Benchmark PROVE x \in 1 .. Total /\ x > N_WARMUP
    BY <1>1 DEF Benchmark
  <2>2. ASSUME NEW x \in Waiting(c) \cap Benchmark PROVE x \in B
    BY <1>1, <2>1 DEF PipeInv
  <2>3. ASSUME NEW x \in (next .. Total) \cap Benchmark PROVE x \in B
    BY <1>1, <2>1 DEF CountInv
  <2>4. ASSUME NEW x \in missed[c] \cap Benchmark PROVE x \in A \cup B
    BY <1>1, <2>1
  <2>5. ASSUME NEW x \in B PROVE x \in missed[c] \cup Waiting(c) \cup (next .. Total)
    BY <1>1 DEF GapInv
  <2>6. A \subseteq missed[c] \cap Benchmark /\ B \subseteq Benchmark
    BY <1>1 DEF Benchmark
  <2> QED
    BY <2>2, <2>3, <2>4, <2>5, <2>6
<1>3. IsFiniteSet(B) /\ Cardinality(B) = N_MESSAGES - seen[c]
  <2>1. p + 1 \in Int /\ Total \in Int
    BY <1>1
  <2>2. /\ IsFiniteSet(p + 1 .. Total)
        /\ Cardinality(p + 1 .. Total) = IF p + 1 > Total THEN 0 ELSE Total - (p + 1) + 1
    BY ONLY <2>1, FS_Interval
  <2>3. (IF p + 1 > Total THEN 0 ELSE Total - (p + 1) + 1) = N_MESSAGES - seen[c]
    BY <1>1
  <2> QED
    BY <2>2, <2>3
<1>4. IsFiniteSet(A) /\ Cardinality(A) \in Nat
  <2>0. N_WARMUP + 1 \in Int /\ p \in Int
    BY <1>1
  <2>1. IsFiniteSet(N_WARMUP + 1 .. p)
    BY ONLY <2>0, FS_Interval
  <2>2. IsFiniteSet(A)
    BY <2>1, FS_Subset
  <2> QED
    BY <2>2, FS_CardinalityType
<1>5. Cardinality(A \cap B) = 0
  <2>1. A \cap B = {}
    BY <1>1
  <2> QED
    BY <2>1, FS_EmptySet, Zenon
<1>6. seen[c] = n_recv[c] + Cardinality(A)
  BY <1>1, Zenon DEF CountInv
<1> HIDE DEF A, B
<1>7. Cardinality(A \cup B) = Cardinality(A) + Cardinality(B) - Cardinality(A \cap B)
  BY <1>3, <1>4, FS_Union
<1>8. PICK k \in Nat : k = Cardinality(A)
  BY <1>4
<1>9. Cardinality(A \cup B) = k + (N_MESSAGES - seen[c]) - 0
  BY <1>3, <1>5, <1>7, <1>8, Zenon
<1>10. seen[c] = n_recv[c] + k
  BY <1>6, <1>8, Zenon
<1>11. N_MESSAGES - n_recv[c] = k + (N_MESSAGES - seen[c]) - 0
  BY <1>1, <1>8, <1>10
<1> QED
  BY <1>2, <1>9, <1>11, Zenon

(* N_MESSAGES - n_recv, which main_consumer.cpp:108-110 reports as lost, is*)
(* what was dropped of the benchmark for that consumer, what is on its way *)
(* and what is not sent; on a regular end it is the first alone.           *)
THEOREM LossReportedIsLossSuffered == Spec => []LossIsWhatWasDropped
<1>1. ASSUME ZmqInv, NEW c \in Consumers, cpc[c] = "finished"
      PROVE  N_MESSAGES - n_recv[c] = Cardinality(missed[c] \cap Benchmark)
  <2>1. /\ seen[c] = N_MESSAGES /\ PipeInv(c) /\ CountInv(c)
        /\ next \in 1 .. Total + 1 /\ N_WARMUP \in Nat /\ N_MESSAGES \in Nat \ {0}
        /\ Total = N_WARMUP + N_MESSAGES
    BY <1>1, ConsumerTypes, ZmqAssumption DEF ConsumerInv, EndInv, Total
  <2>2. ASSUME NEW x \in Benchmark PROVE x \notin Waiting(c) /\ x \notin next .. Total
    BY <2>1 DEF PipeInv, CountInv, Benchmark
  <2>3. (missed[c] \cup Waiting(c) \cup (next .. Total)) \cap Benchmark
          = missed[c] \cap Benchmark
    BY <2>2
  <2> QED
    BY <1>1, <2>3, Accounting, Zenon
<1>2. ZmqInv => LossIsWhatWasDropped
  BY <1>1, Accounting DEF LossIsWhatWasDropped
<1> QED
  BY <1>2, ZmqInvariant, PTL

-----------------------------------------------------------------------------
(* What Broadcast sees of a run.                                           *)
Published == IF next <= N_WARMUP THEN 0 ELSE next - 1 - N_WARMUP

Outcome == [c \in Consumers |-> Stage(c)]

StreamVars == <<Published, ppc = "killed", seen, n_recv, Outcome>>

(* Broadcast sees nothing of a step that keeps these.                      *)
LEMMA Unseen == UNCHANGED StreamVars => UNCHANGED Streams!vars
BY Zenon DEF Streams!vars, StreamVars, Published, Outcome

LEMMA StreamInit == Init => Streams!Init
<1> SUFFICES ASSUME Init PROVE Streams!Init
  OBVIOUS
<1>1. Published = 0 /\ (ppc = "killed") = FALSE
  BY ZmqAssumption DEF Published, Init
<1>2. Outcome = [c \in Consumers |-> "receiving"]
  BY DEF Outcome, Stage, Init
<1> QED
  BY <1>1, <1>2, Zenon DEF Streams!Init, Init, Published, Outcome

(* A step that leaves the consumers alone, and kills nobody.               *)
LEMMA ConsumersUnseen ==
  ASSUME UNCHANGED <<cpc, n_recv, seen, Published>>, ppc # "killed" \/ ppc' = ppc,
         ppc' # "killed" \/ ppc' = ppc
  PROVE  UNCHANGED Streams!vars
<1>1. UNCHANGED Outcome
  BY DEF Outcome, Stage
<1>2. UNCHANGED (ppc = "killed")
  OBVIOUS
<1> QED
  BY <1>1, <1>2, Unseen DEF StreamVars

LEMMA SendStreams == ZmqInv /\ Send => [Streams!Next]_Streams!vars
<1> SUFFICES ASSUME ZmqInv, Send PROVE [Streams!Next]_Streams!vars
  OBVIOUS
<1>1. /\ next \in 1 .. Total /\ next' = next + 1 /\ ppc = "send"
      /\ N_WARMUP \in Nat /\ N_MESSAGES \in Nat
      /\ UNCHANGED <<ppc, cpc, n_recv, seen>>
  BY ZmqAssumption DEF ZmqInv, Send, TypeOK, MoreToSend, consumerVars, Total
<1>2. CASE next <= N_WARMUP
  <2>1. UNCHANGED Published
    BY <1>1, <1>2 DEF Published
  <2> QED
    BY <1>1, <2>1, ConsumersUnseen
<1>3. CASE next > N_WARMUP
  <2>1. Published < N_MESSAGES /\ Published' = Published + 1
    BY <1>1, <1>3 DEF Published, Total
  <2>2. UNCHANGED Outcome
    BY <1>1 DEF Outcome, Stage
  <2>3. ~(ppc = "killed") /\ UNCHANGED (ppc = "killed")
    BY <1>1
  <2>4. Streams!Publish
    BY <1>1, <2>1, <2>2, <2>3, Zenon DEF Streams!Publish, Published, Outcome
  <2> QED
    BY <2>4 DEF Streams!Next
<1> QED
  BY <1>1, <1>2, <1>3

LEMMA KillStreams == Kill => Streams!Next
<1> SUFFICES ASSUME Kill PROVE Streams!Next
  OBVIOUS
<1>1. ~(ppc = "killed") /\ (ppc = "killed")' = TRUE
  BY DEF Kill
<1>2. UNCHANGED <<Published, seen, n_recv, Outcome>>
  BY DEF Kill, Published, Outcome, Stage, consumerVars
<1>3. Streams!Abort
  BY <1>1, <1>2, Zenon DEF Streams!Abort, Published, Outcome
<1> QED
  BY <1>3 DEF Streams!Next

(* A message of the benchmark is received; the warm-up does not show.      *)
LEMMA RecvStreams ==
  ASSUME ZmqInv, NEW c \in Consumers, Recv(c)
  PROVE  [Streams!Next]_Streams!vars
<1>1. PICK m : m = Head(inbox[c])
  OBVIOUS
<1>2. CASE Warmup(m)
  <2>1. UNCHANGED <<ppc, cpc, n_recv, seen, Published>>
    BY <1>1, <1>2 DEF Recv, producerVars, consumerVars, Published
  <2> QED
    BY <2>1, ConsumersUnseen
<1>3. CASE ~Warmup(m)
  <2>1. /\ cpc[c] = "recv" /\ inbox[c] # <<>>
        /\ seen' = [seen EXCEPT ![c] = m - N_WARMUP]
        /\ n_recv' = [n_recv EXCEPT ![c] = n_recv[c] + 1]
        /\ cpc' = [cpc EXCEPT ![c] = IF IsLast(c, m) THEN "finished" ELSE "recv"]
        /\ UNCHANGED <<ppc, next>>
    BY <1>1, <1>3 DEF Recv, producerVars
  <2>2. /\ m \in 1 .. Total /\ m \in Waiting(c) /\ m <= next - 1
        /\ m > N_WARMUP + seen[c] /\ m > N_WARMUP
    <3>1. /\ inbox[c] \in Seq(1 .. Total) /\ Waiting(c) \subseteq 1 .. next - 1
          /\ seen[c] \in Nat /\ Total \in Nat /\ PipeInv(c)
      BY ConsumerTypes DEF ConsumerInv
    <3>2. m \in 1 .. Total /\ m \in Waiting(c)
      BY <1>1, <2>1, <3>1, NumbersTail DEF Waiting
    <3>3. m > N_WARMUP
      BY <1>3, <3>2, ZmqAssumption DEF Warmup
    <3> QED
      BY <3>1, <3>2, <3>3, ZmqAssumption DEF PipeInv
  <2>3. /\ next \in 1 .. Total + 1 /\ seen[c] \in Nat
        /\ N_WARMUP \in Nat /\ N_MESSAGES \in Nat
        /\ cpc \in [Consumers -> {"start", "recv", "finished", "stalled", "failed"}]
    BY ZmqAssumption DEF ZmqInv, TypeOK
  <2>4. IsLast(c, m) <=> m = Total
    <3>1. ConsumerInv(c)'
      BY <1>1, <1>3, CountKeeps
    <3>2. IsLast(c, m) => seen'[c] = N_MESSAGES
      BY <2>1, <2>3, <3>1 DEF ConsumerInv, EndInv
    <3>3. seen'[c] = m - N_WARMUP
      BY <2>1 DEF ZmqInv, TypeOK
    <3>4. IsLast(c, m) => m = Total
      BY <2>2, <2>3, <3>2, <3>3 DEF Total
    <3> QED
      BY <3>4 DEF IsLast
  <2>5. PICK n \in 1 .. N_MESSAGES : n = m - N_WARMUP /\ (n = N_MESSAGES <=> IsLast(c, m))
    BY <2>2, <2>3, <2>4 DEF Total
  <2>6. seen[c] < n /\ n <= Published
    BY <2>2, <2>3, <2>5 DEF Published, Total
  <2>7. UNCHANGED <<Published, ppc = "killed">>
    BY <2>1 DEF Published
  <2>8. Outcome[c] = "receiving"
    BY <2>1 DEF Outcome, Stage
  <2>9. Outcome' = [Outcome EXCEPT ![c] = IF n = N_MESSAGES THEN "complete" ELSE Outcome[c]]
    <3>1. CASE IsLast(c, m)
      BY <2>1, <2>3, <2>5, <3>1 DEF Outcome, Stage
    <3>2. CASE ~IsLast(c, m)
      BY <2>1, <2>3, <2>5, <2>8, <3>2 DEF Outcome, Stage
    <3> QED
      BY <3>1, <3>2
  <2>10. Streams!Receive(c, n)
    <3>1. seen' = [seen EXCEPT ![c] = n]
      BY <2>1, <2>5
    <3> QED
      BY <2>1, <2>6, <2>7, <2>8, <2>9, <3>1, Zenon
      DEF Streams!Receive, Streams!MayFollow, Published, Outcome
  <2> QED
    BY <2>10 DEF Streams!Next
<1> QED
  BY <1>2, <1>3

(* A consumer that stalls or fails has received no end of the stream.      *)
LEMMA EndStreams ==
  ASSUME ZmqInv, NEW c \in Consumers, Stalled(c) \/ Fail(c)
  PROVE  Streams!Next
<1>1. /\ cpc[c] = "recv" /\ UNCHANGED <<ppc, next, n_recv, seen>>
      /\ cpc \in [Consumers -> {"start", "recv", "finished", "stalled", "failed"}]
  BY DEF Stalled, Fail, producerVars, ZmqInv, TypeOK
<1>2. UNCHANGED <<Published, ppc = "killed", seen, n_recv>> /\ Outcome[c] = "receiving"
  BY <1>1 DEF Published, Outcome, Stage
<1>3. CASE Stalled(c)
  <2>1. Outcome' = [Outcome EXCEPT ![c] = "cut"]
    BY <1>1, <1>3 DEF Stalled, Outcome, Stage
  <2>2. Streams!Cut(c)
    BY <1>2, <2>1, Zenon DEF Streams!Cut, Published, Outcome
  <2> QED
    BY <2>2 DEF Streams!Next
<1>4. CASE Fail(c)
  <2>1. Outcome' = [Outcome EXCEPT ![c] = "dead"]
    BY <1>1, <1>4 DEF Fail, Outcome, Stage
  <2>2. Streams!Die(c)
    BY <1>2, <2>1, Zenon DEF Streams!Die, Published, Outcome
  <2> QED
    BY <2>2 DEF Streams!Next
<1> QED
  BY <1>3, <1>4

LEMMA StepStreams == ZmqInv /\ [Next]_vars => [Streams!Next]_Streams!vars
<1> SUFFICES ASSUME ZmqInv, [Next]_vars PROVE [Streams!Next]_Streams!vars
  OBVIOUS
<1> USE DEF producerVars, libraryVars, consumerVars
<1>1. cpc \in [Consumers -> {"start", "recv", "finished", "stalled", "failed"}]
  BY DEF ZmqInv, TypeOK
<1>2. CASE Bind \/ StartSending \/ Exit \/ UNCHANGED vars
  BY <1>2, ConsumersUnseen DEF Bind, StartSending, Exit, vars, Published
<1>3. CASE Send
  BY <1>3, SendStreams
<1>4. CASE Kill
  BY <1>4, KillStreams
<1>5. ASSUME NEW c \in Consumers, SubscriptionSeen(c) \/ Transfer(c)
      PROVE  [Streams!Next]_Streams!vars
  BY <1>5, ConsumersUnseen DEF SubscriptionSeen, Transfer, Published
<1>6. ASSUME NEW c \in Consumers, Subscribe(c) PROVE [Streams!Next]_Streams!vars
  <2>1. UNCHANGED Outcome
    BY <1>1, <1>6 DEF Subscribe, Outcome, Stage
  <2>2. UNCHANGED <<Published, ppc = "killed", seen, n_recv>>
    BY <1>6 DEF Subscribe, Published
  <2> QED
    BY <2>1, <2>2, Unseen DEF StreamVars
<1>7. ASSUME NEW c \in Consumers, Stalled(c) \/ Fail(c) PROVE Streams!Next
  BY <1>7, EndStreams
<1>8. ASSUME NEW c \in Consumers, Recv(c) PROVE [Streams!Next]_Streams!vars
  BY <1>8, RecvStreams
<1> QED
  BY <1>2, <1>3, <1>4, <1>5, <1>6, <1>7, <1>8 DEF Next, Producer, Library, Consumer

(* Whatever ZeroMQ drops, what a consumer counts are messages of the       *)
(* benchmark, as they were published, in order and none twice, and it ends *)
(* regularly exactly with the last (main_consumer.cpp, 88-104).            *)
THEOREM ZmqImplementsBroadcast == Spec => ImplementsBroadcast
<1>1. Init => Streams!Init
  BY StreamInit
<1>2. ZmqInv /\ [Next]_vars => [Streams!Next]_Streams!vars
  BY StepStreams
<1> QED
  BY <1>1, <1>2, ZmqInvariant, PTL DEF Spec, ImplementsBroadcast, Streams!Spec

=============================================================================
