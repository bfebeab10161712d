-------------------------- MODULE ShmBench_proofs --------------------------
(***************************************************************************)
(* Proofs about a shm run, for every ring size, every number of messages   *)
(* and any consumers, and about the promise it keeps, as every transport.  *)
(***************************************************************************)
EXTENDS ShmBench, TLAPS

(* The stages of the producer: how far the log is, whether the consumers   *)
(* have been let go, and where the cursors it has set stand.               *)
StageInv ==
  /\ ppc \in {"warmup", "tails"} => ~start_flag /\ \A c \in Consumers : cpc[c] = "wait"
  /\ ppc = "warmup" => sent <= N_WARMUP
  /\ ppc = "tails" =>
       sent = N_WARMUP /\ \A c \in Consumers : c \in todo \/ cursor[c] = N_WARMUP
  /\ ppc \notin {"warmup", "tails"} => start_flag /\ sent >= N_WARMUP

(* What consumer c has counted when the next position it expects is        *)
(* N_WARMUP + last_seq_seen[c] + 1: its cursor stands there, or was moved  *)
(* past messages the ring has forgotten.                                   *)
CursorInv(c) ==
  /\ cursor[c] <= sent
  /\ start_flag =>
       /\ N_WARMUP + last_seq_seen[c] + 1 <= cursor[c]
       /\ \/ cursor[c] = N_WARMUP + last_seq_seen[c] + 1
          \/ cursor[c] + RING_SIZE <= sent

(* The numbers of consumer c before and after its first message.           *)
NumbersInv(c) ==
  /\ cpc[c] = "wait" => n_recv[c] = 0
  /\ n_recv[c] = 0 => last_seq_seen[c] = None /\ first[c] = None /\ n_dropped[c] = 0
  /\ n_recv[c] > 0 =>
       /\ first[c] # None /\ last_seq_seen[c] # None
       /\ first[c] + n_recv[c] + n_dropped[c] = last_seq_seen[c] + 1

LossInv(c) ==
  n_recv[c] > 0 /\ first[c] + n_dropped[c] > 0 =>
    first[c] + n_dropped[c] <= sent - N_WARMUP - RING_SIZE

ConsumerInv(c) ==
  /\ CursorInv(c)
  /\ NumbersInv(c)
  /\ LossInv(c)
  /\ s2[c] => cpc[c] = "exited"

BenchInv == TypeOK /\ StageInv /\ \A c \in Consumers : ConsumerInv(c)

-----------------------------------------------------------------------------
LEMMA InitHolds == Init => BenchInv
<1> SUFFICES ASSUME Init PROVE BenchInv
  OBVIOUS
<1> USE BenchAssumption DEF Init, Log!Init, N_WARMUP, None
<1>1. sent = 0 /\ cursor = [c \in Consumers |-> 0]
  BY DEF Log!Init
<1>2. TypeOK
  <2>1. 0 \in 0 .. N_WARMUP + N_MESSAGES /\ 0 \in 0 .. N_MESSAGES
    OBVIOUS
  <2>2. /\ sent \in 0 .. N_WARMUP + N_MESSAGES
        /\ cursor \in [Consumers -> 0 .. N_WARMUP + N_MESSAGES]
    BY <1>1, <2>1
  <2>3. /\ last_seq_seen \in [Consumers -> {None} \cup 0 .. N_MESSAGES - 1]
        /\ first \in [Consumers -> {None} \cup 0 .. N_MESSAGES - 1]
    OBVIOUS
  <2>4. /\ n_recv \in [Consumers -> 0 .. N_MESSAGES]
        /\ n_dropped \in [Consumers -> 0 .. N_MESSAGES]
    BY <2>1
  <2>5. /\ cpc \in [Consumers -> {"wait", "poll", "exited"}]
        /\ s2 \in [Consumers -> BOOLEAN]
        /\ ppc \in {"warmup", "tails", "send", "done", "crashed"}
        /\ todo \subseteq Consumers /\ start_flag \in BOOLEAN
    OBVIOUS
  <2> QED
    BY <2>2, <2>3, <2>4, <2>5 DEF TypeOK
<1>3. StageInv
  BY <1>1 DEF StageInv
<1>4. ASSUME NEW c \in Consumers PROVE ConsumerInv(c)
  BY <1>1 DEF ConsumerInv, CursorInv, NumbersInv, LossInv
<1> QED
  BY <1>2, <1>3, <1>4 DEF BenchInv

(* A step that leaves the numbers of consumer c alone, and its cursor, or  *)
(* moves that past forgotten messages, keeps what is said of c.            *)
LEMMA UncountedStep ==
  ASSUME BenchInv, NEW c \in Consumers, sent' \in Nat, sent <= sent',
         start_flag' = start_flag, n_recv'[c] = n_recv[c], n_dropped'[c] = n_dropped[c],
         last_seq_seen'[c] = last_seq_seen[c], first'[c] = first[c], s2'[c] = s2[c],
         cpc'[c] = cpc[c] \/ (cpc[c] # "exited" /\ cpc'[c] # "wait"),
         \/ cursor'[c] = cursor[c]
         \/ /\ cursor'[c] \in Nat /\ cursor[c] <= cursor'[c]
            /\ cursor'[c] + RING_SIZE <= sent'
  PROVE  ConsumerInv(c)'
<1> USE BenchAssumption DEF N_WARMUP, None
<1>1. /\ sent \in Nat /\ cursor[c] \in Nat /\ n_recv[c] \in Nat /\ n_dropped[c] \in Nat
      /\ last_seq_seen[c] \in Int /\ first[c] \in Int
  BY DEF BenchInv, TypeOK
<1>2. CursorInv(c)'
  BY <1>1 DEF BenchInv, ConsumerInv, CursorInv
<1>3. NumbersInv(c)'
  BY <1>1 DEF BenchInv, ConsumerInv, NumbersInv
<1>4. LossInv(c)'
  BY <1>1 DEF BenchInv, ConsumerInv, LossInv
<1>5. s2'[c] => cpc'[c] = "exited"
  BY DEF BenchInv, ConsumerInv
<1> QED
  BY <1>2, <1>3, <1>4, <1>5 DEF ConsumerInv

(* The producer, once it has stopped to move cursors, only appends.        *)
LEMMA ProducerKeeps == BenchInv /\ Producer => BenchInv'
<1> SUFFICES ASSUME BenchInv, Producer PROVE BenchInv'
  OBVIOUS
<1> USE BenchAssumption DEF N_WARMUP, producerVars, consumerVars, ring
<1>0. /\ TypeOK /\ StageInv /\ UNCHANGED consumerVars
  BY DEF BenchInv, Producer
<1>1. CASE PushWarmup \/ PushMessage
  <2>1. /\ sent' = sent + 1 /\ UNCHANGED <<cursor, last, producerVars>>
        /\ sent < N_WARMUP + N_MESSAGES
        /\ ppc = "warmup" => sent < N_WARMUP
        /\ ppc \in {"warmup", "send"}
    BY <1>0, <1>1 DEF PushWarmup, PushMessage, Log!Publish, MoreToSend, TypeOK
  <2>2. TypeOK'
    BY <1>0, <2>1 DEF TypeOK
  <2>3. StageInv'
    BY <1>0, <2>1 DEF TypeOK, StageInv
  <2>4. ASSUME NEW c \in Consumers PROVE ConsumerInv(c)'
    BY <1>0, <2>1, UncountedStep DEF TypeOK
  <2> QED
    BY <2>2, <2>3, <2>4 DEF BenchInv
<1>2. CASE WarmupDone \/ Finish
  <2>1. /\ UNCHANGED <<ring, start_flag>>
        /\ \/ ppc = "warmup" /\ sent = N_WARMUP /\ ppc' = "tails" /\ todo' = Consumers
           \/ ppc = "send" /\ ppc' = "done" /\ UNCHANGED todo
    BY <1>2 DEF WarmupDone, Finish
  <2>2. TypeOK'
    BY <1>0, <2>1 DEF TypeOK
  <2>3. StageInv'
    BY <1>0, <2>1 DEF TypeOK, StageInv
  <2>4. ASSUME NEW c \in Consumers PROVE ConsumerInv(c)'
    BY <1>0, <2>1, UncountedStep DEF TypeOK
  <2> QED
    BY <2>2, <2>3, <2>4 DEF BenchInv
<1>3. ASSUME NEW d \in Consumers, SetTail(d) PROVE BenchInv'
  <2>1. /\ ppc = "tails" /\ UNCHANGED <<sent, ppc, start_flag>> /\ todo' = todo \ {d}
        /\ cursor' = [cursor EXCEPT ![d] = sent]
    BY <1>3 DEF SetTail
  <2>2. TypeOK'
    BY <1>0, <2>1 DEF TypeOK
  <2>3. StageInv'
    BY <1>0, <2>1 DEF TypeOK, StageInv
  <2>4. ASSUME NEW c \in Consumers PROVE ConsumerInv(c)'
    BY <1>0, <2>1
    DEF BenchInv, TypeOK, StageInv, ConsumerInv, CursorInv, NumbersInv, LossInv
  <2> QED
    BY <2>2, <2>3, <2>4 DEF BenchInv
<1>4. CASE Start
  <2>1. /\ ppc = "tails" /\ todo = {} /\ start_flag' = TRUE /\ ppc' = "send"
        /\ UNCHANGED <<ring, todo>>
    BY <1>4 DEF Start
  <2>2. TypeOK'
    BY <1>0, <2>1 DEF TypeOK
  <2>3. StageInv'
    BY <1>0, <2>1 DEF TypeOK, StageInv
  <2>4. ASSUME NEW c \in Consumers PROVE ConsumerInv(c)'
    BY <1>0, <2>1
    DEF BenchInv, TypeOK, StageInv, ConsumerInv, CursorInv, NumbersInv, LossInv, None
  <2> QED
    BY <2>2, <2>3, <2>4 DEF BenchInv
<1> QED
  BY <1>1, <1>2, <1>3, <1>4 DEF Producer

(* What is told of a message that rb_pop_meta returns: it is one of the    *)
(* benchmark, later than the last one counted, and if messages were        *)
(* dropped before it the ring has been lapped.                             *)
LEMMA NextMessage ==
  ASSUME BenchInv, NEW c \in Consumers, cpc[c] = "poll", cursor[c] < sent
  PROVE  LET id == cursor[c] - N_WARMUP
         IN  /\ SeqId(cursor[c]) = id
             /\ id \in 0 .. N_MESSAGES - 1
             /\ last_seq_seen[c] < id
             /\ last_seq_seen[c] + 1 = id \/ id <= sent - N_WARMUP - RING_SIZE
             /\ n_recv[c] + n_dropped[c] <= last_seq_seen[c] + 1
             /\ IsLast(c, id) <=> id = N_MESSAGES - 1
<1> USE BenchAssumption DEF N_WARMUP, None
<1>1. /\ sent \in 0 .. N_WARMUP + N_MESSAGES /\ cursor[c] \in Nat /\ n_recv[c] \in Nat
      /\ n_dropped[c] \in Nat /\ last_seq_seen[c] \in Int /\ last_seq_seen[c] >= -1
      /\ first[c] \in Int /\ first[c] >= -1
  BY DEF BenchInv, TypeOK
<1>2. start_flag
  BY DEF BenchInv, TypeOK, StageInv
<1>3. /\ N_WARMUP + last_seq_seen[c] + 1 <= cursor[c]
      /\ cursor[c] = N_WARMUP + last_seq_seen[c] + 1 \/ cursor[c] + RING_SIZE <= sent
  BY <1>2 DEF BenchInv, ConsumerInv, CursorInv
<1>4. n_recv[c] + n_dropped[c] <= last_seq_seen[c] + 1
  BY <1>1, SMTT(30) DEF BenchInv, ConsumerInv, NumbersInv
<1> DEFINE id == cursor[c] - N_WARMUP
<1>5. id \in 0 .. N_MESSAGES - 1 /\ last_seq_seen[c] < id /\ SeqId(cursor[c]) = id
  BY <1>1, <1>3 DEF SeqId
<1>6. IsLast(c, id) <=> id = N_MESSAGES - 1
  BY <1>1, <1>4, <1>5 DEF IsLast
<1>7. last_seq_seen[c] + 1 = id \/ id <= sent - N_WARMUP - RING_SIZE
  BY <1>1, <1>3
<1> QED
  BY <1>4, <1>5, <1>6, <1>7

(* A message is counted.                                                   *)
LEMMA CountKeeps ==
  ASSUME BenchInv, NEW c \in Consumers, cpc[c] = "poll", Log!Deliver(c),
         Count(c, SeqId(cursor[c])), UNCHANGED producerVars
  PROVE  BenchInv'
<1> USE BenchAssumption DEF N_WARMUP, None, producerVars
<1> DEFINE id == cursor[c] - N_WARMUP
<1>1. /\ cursor[c] < sent /\ cursor' = [cursor EXCEPT ![c] = @ + 1] /\ UNCHANGED sent
  BY DEF Log!Deliver, Log!Remembered
<1>2. /\ SeqId(cursor[c]) = id /\ id \in 0 .. N_MESSAGES - 1 /\ last_seq_seen[c] < id
      /\ last_seq_seen[c] + 1 = id \/ id <= sent - N_WARMUP - RING_SIZE
      /\ n_recv[c] + n_dropped[c] <= last_seq_seen[c] + 1
  BY <1>1, NextMessage
<1>3. TypeOK /\ StageInv
  BY DEF BenchInv
<1>4. /\ sent \in 0 .. N_WARMUP + N_MESSAGES /\ cursor[c] \in Nat /\ n_recv[c] \in Nat
      /\ n_dropped[c] \in Nat /\ last_seq_seen[c] \in Int /\ last_seq_seen[c] >= -1
      /\ first[c] \in Int /\ first[c] >= -1
  BY <1>3 DEF TypeOK
<1>5. NumbersInv(c) /\ LossInv(c) /\ start_flag
  BY <1>3 DEF BenchInv, ConsumerInv, StageInv, TypeOK
<1>6. Dropped(c, id) = IF n_recv[c] = 0 THEN 0 ELSE id - last_seq_seen[c] - 1
  BY <1>2, <1>4, <1>5 DEF Dropped, Gap, NumbersInv
<1>7. /\ last_seq_seen'[c] = id /\ n_recv'[c] = n_recv[c] + 1
      /\ n_dropped'[c] = IF n_recv[c] = 0 THEN 0 ELSE n_dropped[c] + (id - last_seq_seen[c] - 1)
      /\ first'[c] = IF n_recv[c] = 0 THEN id ELSE first[c]
      /\ s2'[c] = IsLast(c, id) /\ cpc'[c] = IF IsLast(c, id) THEN "exited" ELSE "poll"
      /\ cursor'[c] = cursor[c] + 1
  BY <1>1, <1>2, <1>3, <1>4, <1>5, <1>6 DEF Count, TypeOK, NumbersInv
<1>8. first'[c] >= 0 /\ first'[c] + n_recv'[c] + n_dropped'[c] = id + 1
  <2>1. CASE n_recv[c] = 0
    BY <1>2, <1>4, <1>7, <2>1
  <2>2. CASE n_recv[c] > 0
    <3>1. first[c] # -1 /\ first[c] + n_recv[c] + n_dropped[c] = last_seq_seen[c] + 1
      BY <1>5, <2>2 DEF NumbersInv
    <3>2. first'[c] = first[c] /\ n_recv'[c] = n_recv[c] + 1
          /\ n_dropped'[c] = n_dropped[c] + (id - last_seq_seen[c] - 1)
      BY <1>4, <1>7, <2>2
    <3> HIDE DEF id
    <3>3. id \in Int
      BY <1>2
    <3> QED
      BY <1>4, <3>1, <3>2, <3>3
  <2> QED
    BY <1>4, <2>1, <2>2
<1>9. first'[c] \in 0 .. N_MESSAGES - 1 /\ n_recv'[c] \in 0 .. N_MESSAGES
      /\ n_dropped'[c] \in 0 .. N_MESSAGES
  BY <1>2, <1>4, <1>7, <1>8
<1>10. IsLast(c, id) \in BOOLEAN
  BY DEF IsLast
<1>11. TypeOK'
  BY <1>1, <1>2, <1>3, <1>4, <1>7, <1>9, <1>10 DEF TypeOK, Count
<1>12. StageInv'
  <2>1. ppc \notin {"warmup", "tails"}
    BY <1>3 DEF StageInv
  <2> QED
    BY <1>1, <1>3, <2>1 DEF StageInv
<1>13. ConsumerInv(c)'
  <2>1. CursorInv(c)'
    BY <1>1, <1>2, <1>4, <1>7 DEF CursorInv
  <2>2. NumbersInv(c)'
    BY <1>2, <1>4, <1>7, <1>8, <1>9 DEF NumbersInv
  <2>3. LossInv(c)'
    BY <1>1, <1>2, <1>4, <1>5, <1>7, <1>8 DEF LossInv, NumbersInv
  <2>4. s2'[c] => cpc'[c] = "exited"
    BY <1>7
  <2> QED
    BY <2>1, <2>2, <2>3, <2>4 DEF ConsumerInv
<1>14. ASSUME NEW d \in Consumers, d # c PROVE ConsumerInv(d)'
  <2>1. /\ cursor'[d] = cursor[d] /\ n_recv'[d] = n_recv[d] /\ n_dropped'[d] = n_dropped[d]
        /\ last_seq_seen'[d] = last_seq_seen[d] /\ first'[d] = first[d]
        /\ s2'[d] = s2[d] /\ cpc'[d] = cpc[d]
    BY <1>1, <1>3, <1>14 DEF Count, TypeOK
  <2> QED
    BY <1>1, <1>4, <2>1, UncountedStep
<1> QED
  BY <1>11, <1>12, <1>13, <1>14 DEF BenchInv

(* A consumer that counts nothing: it starts, finds nothing or is lapped,  *)
(* and goes on or gives up.                                                *)
LEMMA IdleKeeps ==
  ASSUME BenchInv, NEW c \in Consumers, UNCHANGED producerVars,
         SeeStart(c) \/ Retry(c) \/ Stall(c)
  PROVE  BenchInv'
<1> USE BenchAssumption DEF N_WARMUP, producerVars, consumerVars, ring
<1>1. TypeOK /\ StageInv /\ CursorInv(c)
  BY DEF BenchInv, ConsumerInv
<1>2. /\ cpc[c] # "exited" /\ UNCHANGED <<sent, last_seq_seen, n_recv, n_dropped, s2, first>>
      /\ UNCHANGED cpc \/ \E v \in {"poll", "exited"} : cpc' = [cpc EXCEPT ![c] = v]
      /\ start_flag
  BY <1>1 DEF SeeStart, Retry, Stall, PopFails, Log!Skip, StageInv, TypeOK
<1>3. \/ UNCHANGED cursor
      \/ \E k \in (cursor[c] + 1) .. (sent - RING_SIZE) : cursor' = [cursor EXCEPT ![c] = k]
  BY DEF SeeStart, Retry, Stall, PopFails, Log!Skip
<1>4. cursor[c] \in Nat /\ sent \in 0 .. N_WARMUP + N_MESSAGES
  BY <1>1 DEF TypeOK
<1>5. TypeOK'
  BY <1>1, <1>2, <1>3, <1>4 DEF TypeOK
<1>6. StageInv'
  BY <1>1, <1>2, <1>3 DEF StageInv, TypeOK
<1>7. ASSUME NEW d \in Consumers PROVE ConsumerInv(d)'
  <2>1. cpc'[d] = cpc[d] \/ (cpc[d] # "exited" /\ cpc'[d] # "wait")
    BY <1>1, <1>2 DEF TypeOK
  <2>2. \/ cursor'[d] = cursor[d]
        \/ /\ cursor'[d] \in Nat /\ cursor[d] <= cursor'[d]
           /\ cursor'[d] + RING_SIZE <= sent'
    BY <1>1, <1>2, <1>3, <1>4 DEF TypeOK
  <2> QED
    BY <1>2, <1>4, <2>1, <2>2, UncountedStep
<1> QED
  BY <1>5, <1>6, <1>7 DEF BenchInv

(* A warm-up message is never popped: the cursors are behind them.         *)
LEMMA NoWarmupPopped ==
  ASSUME BenchInv, NEW c \in Consumers, Receive(c)
  PROVE  Log!Deliver(c) /\ cursor[c] < sent /\ Count(c, SeqId(cursor[c]))
<1>1. cpc[c] = "poll" /\ Log!Deliver(c) /\ cursor[c] < sent
  BY DEF Receive, Log!Deliver, Log!Remembered
<1>2. SeqId(cursor[c]) \in 0 .. N_MESSAGES - 1
  BY <1>1, NextMessage
<1>3. SeqId(cursor[c]) < WARMUP_SENTINEL
  BY <1>2, BenchAssumption DEF WARMUP_SENTINEL
<1> QED
  BY <1>1, <1>2, <1>3, BenchAssumption DEF Receive, WARMUP_SENTINEL

LEMMA StepKeeps == BenchInv /\ [Next]_vars => BenchInv'
<1> SUFFICES ASSUME BenchInv, [Next]_vars PROVE BenchInv'
  OBVIOUS
<1>1. CASE Producer
  BY <1>1, ProducerKeeps
<1>2. CASE Crash
  <2>1. /\ ppc = "send" /\ ppc' = "crashed" /\ UNCHANGED <<ring, todo, start_flag, consumerVars>>
    BY <1>2 DEF Crash
  <2>2. TypeOK' /\ StageInv'
    BY <2>1, BenchAssumption DEF BenchInv, TypeOK, StageInv, ring, consumerVars, N_WARMUP
  <2>3. ASSUME NEW c \in Consumers PROVE ConsumerInv(c)'
    BY <2>1, UncountedStep, BenchAssumption
    DEF BenchInv, TypeOK, ring, consumerVars, N_WARMUP
  <2> QED
    BY <2>2, <2>3 DEF BenchInv
<1>3. ASSUME NEW c \in Consumers, Consumer(c) \/ GiveUp(c) PROVE BenchInv'
  <2>1. UNCHANGED producerVars
    BY <1>3 DEF Consumer, GiveUp
  <2>2. CASE Receive(c)
    BY <2>1, <2>2, NoWarmupPopped, CountKeeps DEF Receive
  <2>3. CASE SeeStart(c) \/ Retry(c) \/ Stall(c)
    BY <2>1, <2>3, IdleKeeps
  <2> QED
    BY <1>3, <2>2, <2>3 DEF Consumer, GiveUp
<1>4. CASE UNCHANGED vars
  BY <1>4
  DEF vars, ring, producerVars, consumerVars, BenchInv, TypeOK, StageInv, ConsumerInv,
      CursorInv, NumbersInv, LossInv
<1> QED
  BY <1>1, <1>2, <1>3, <1>4 DEF Next

-----------------------------------------------------------------------------
(* The inductive invariant.                                                *)
THEOREM BenchInvariant == Spec => []BenchInv
BY InitHolds, StepKeeps, PTL DEF Spec

(* The state keeps its type, whatever is lost: in particular the number of *)
(* messages reported as dropped stays a count within the stream.           *)
THEOREM BenchTypeCorrect == Spec => []TypeOK
<1>1. BenchInv => TypeOK
  BY DEF BenchInv
<1> QED
  BY <1>1, BenchInvariant, PTL

(* Received plus dropped accounts for the stream (bench_consumer.cpp,      *)
(* 163-169).                                                               *)
THEOREM EveryMessageAccounted == Spec => []Accounted
<1>1. BenchInv => Accounted
  BY DEF BenchInv, ConsumerInv, NumbersInv, Accounted
<1> QED
  BY <1>1, BenchInvariant, PTL

(* No consumer loses more than the stream is longer than the ring          *)
(* (ring_buffer.hpp, 125).                                                 *)
THEOREM LossIsBeyondRing == Spec => []LossOnlyBeyondRing
<1>1. BenchInv => LossOnlyBeyondRing
  BY DEF BenchInv, ConsumerInv, LossInv, LossOnlyBeyondRing
<1> QED
  BY <1>1, BenchInvariant, PTL

-----------------------------------------------------------------------------
(* What Broadcast sees of a run.                                           *)
Published == IF sent < N_WARMUP THEN 0 ELSE sent - N_WARMUP

Last == [c \in Consumers |-> last_seq_seen[c] + 1]

Outcome == [c \in Consumers |-> IF cpc[c] # "exited" THEN "receiving"
                                  ELSE IF s2[c] THEN "complete" ELSE "cut"]

StreamVars == <<Published, ppc = "crashed", Last, n_recv, Outcome>>

(* Broadcast sees nothing of a step that keeps these.                      *)
LEMMA Unseen == UNCHANGED StreamVars => UNCHANGED Stream!vars
BY Zenon DEF Stream!vars, StreamVars, Published, Last, Outcome

LEMMA StreamInit == Init => Stream!Init
<1> SUFFICES ASSUME Init PROVE Stream!Init
  OBVIOUS
<1>1. sent = 0 /\ RING_SIZE > 0
  BY BenchAssumption DEF Init, Log!Init
<1>2. Published = 0 /\ (ppc = "crashed") = FALSE
  BY <1>1 DEF Published, N_WARMUP, Init
<1>3. Last = [c \in Consumers |-> 0]
  BY DEF Last, Init, None
<1>4. Outcome = [c \in Consumers |-> "receiving"]
  BY DEF Outcome, Init
<1> QED
  BY <1>2, <1>3, <1>4, Zenon DEF Stream!Init, Init, Published, Last, Outcome

(* The producer publishes when it has pushed a message of the benchmark;   *)
(* the warm-up and the hand-over of the cursors do not show.               *)
LEMMA ProducerStreams == BenchInv /\ Producer => [Stream!Next]_Stream!vars
<1> SUFFICES ASSUME BenchInv, Producer PROVE [Stream!Next]_Stream!vars
  OBVIOUS
<1>1. UNCHANGED <<Last, n_recv, Outcome>>
  BY DEF Producer, consumerVars, Last, Outcome
<1>2. sent \in Nat /\ RING_SIZE \in Nat /\ N_MESSAGES \in Nat
  BY BenchAssumption DEF BenchInv, TypeOK, N_WARMUP
<1>3. CASE PushMessage
  <2>1. /\ ppc = "send" /\ ppc' = "send" /\ sent' = sent + 1
        /\ sent >= N_WARMUP /\ sent < N_WARMUP + N_MESSAGES
    BY <1>3 DEF PushMessage, Log!Publish, MoreToSend, producerVars, BenchInv, StageInv
  <2>2. /\ Published < N_MESSAGES /\ Published' = Published + 1
    BY <1>2, <2>1 DEF Published, N_WARMUP
  <2>3. ~(ppc = "crashed") /\ UNCHANGED (ppc = "crashed")
    BY <2>1
  <2>4. Stream!Publish
    BY <1>1, <2>2, <2>3, Zenon DEF Stream!Publish, Published, Last, Outcome
  <2> QED
    BY <2>4 DEF Stream!Next
<1>4. CASE PushWarmup \/ WarmupDone \/ (\E c \in Consumers : SetTail(c)) \/ Start \/ Finish
  <2>1. /\ UNCHANGED (ppc = "crashed")
        /\ UNCHANGED sent \/ (sent < N_WARMUP /\ sent' = sent + 1)
    BY <1>4
    DEF PushWarmup, WarmupDone, SetTail, Start, Finish, Log!Publish, producerVars, ring
  <2>2. UNCHANGED Published
    BY <1>2, <2>1 DEF Published, N_WARMUP
  <2> QED
    BY <1>1, <2>1, <2>2, Unseen DEF StreamVars
<1> QED
  BY <1>3, <1>4 DEF Producer

(* A counted message is received, and ends the stream if it is the last.   *)
LEMMA CountStreams ==
  ASSUME BenchInv, NEW c \in Consumers, cpc[c] = "poll", Log!Deliver(c),
         Count(c, SeqId(cursor[c])), UNCHANGED producerVars
  PROVE  Stream!Next
<1> DEFINE id == cursor[c] - N_WARMUP
<1>1. cursor[c] < sent /\ UNCHANGED sent
  BY DEF Log!Deliver, Log!Remembered
<1>2. /\ SeqId(cursor[c]) = id /\ id \in 0 .. N_MESSAGES - 1
      /\ last_seq_seen[c] < id /\ (IsLast(c, id) <=> id = N_MESSAGES - 1)
  BY <1>1, NextMessage
<1>3. /\ sent \in Nat /\ cursor[c] \in Nat /\ last_seq_seen[c] \in Int
      /\ N_WARMUP \in Nat /\ N_MESSAGES \in Nat
      /\ last_seq_seen \in [Consumers -> {None} \cup 0 .. N_MESSAGES - 1]
      /\ cpc \in [Consumers -> {"wait", "poll", "exited"}]
      /\ s2 \in [Consumers -> BOOLEAN]
  BY BenchAssumption DEF BenchInv, TypeOK, N_WARMUP, None
<1>4. PICK m \in 1 .. N_MESSAGES : m = id + 1 /\ (m = N_MESSAGES <=> IsLast(c, id))
  BY <1>2, <1>3
<1>5. Last[c] < m /\ m <= Published
  BY <1>1, <1>2, <1>3, <1>4 DEF Last, Published
<1>6. Outcome[c] = "receiving"
  BY DEF Outcome
<1>7. UNCHANGED <<Published, ppc = "crashed">>
  BY <1>1 DEF Published, producerVars
<1>8. /\ last_seq_seen' = [last_seq_seen EXCEPT ![c] = id]
      /\ s2' = [s2 EXCEPT ![c] = IsLast(c, id)]
      /\ cpc' = [cpc EXCEPT ![c] = IF IsLast(c, id) THEN "exited" ELSE "poll"]
      /\ n_recv' = [n_recv EXCEPT ![c] = n_recv[c] + 1]
  BY <1>2 DEF Count
<1>9. Last' = [Last EXCEPT ![c] = m]
  BY <1>2, <1>3, <1>4, <1>8 DEF Last
<1>10. Outcome' = [Outcome EXCEPT ![c] = IF m = N_MESSAGES THEN "complete" ELSE Outcome[c]]
  <2>1. CASE IsLast(c, id)
    BY <1>3, <1>4, <1>8, <2>1 DEF Outcome
  <2>2. CASE ~IsLast(c, id)
    BY <1>3, <1>4, <1>6, <1>8, <2>2 DEF Outcome
  <2> QED
    BY <2>1, <2>2
<1>11. Stream!Receive(c, m)
  BY <1>5, <1>6, <1>7, <1>8, <1>9, <1>10, Zenon
  DEF Stream!Receive, Stream!MayFollow, Published, Last, Outcome
<1> QED
  BY <1>11 DEF Stream!Next

(* A consumer that counts nothing shows only when it gives up.             *)
LEMMA IdleStreams ==
  ASSUME BenchInv, NEW c \in Consumers, UNCHANGED producerVars,
         SeeStart(c) \/ Retry(c) \/ Stall(c)
  PROVE  [Stream!Next]_Stream!vars
<1>1. UNCHANGED <<sent, last_seq_seen, n_recv, s2>>
  BY DEF SeeStart, Retry, Stall, PopFails, Log!Skip, ring, consumerVars
<1>2. UNCHANGED <<Published, ppc = "crashed", Last, n_recv>>
  BY <1>1 DEF Published, Last, producerVars
<1>3. cpc \in [Consumers -> {"wait", "poll", "exited"}]
  BY DEF BenchInv, TypeOK
<1>4. CASE SeeStart(c) \/ Retry(c)
  <2>1. \A d \in Consumers : cpc'[d] = "exited" <=> cpc[d] = "exited"
    BY <1>3, <1>4 DEF SeeStart, Retry, consumerVars
  <2>2. UNCHANGED Outcome
    BY <1>1, <2>1 DEF Outcome
  <2> QED
    BY <1>2, <2>2, Unseen DEF StreamVars
<1>5. CASE Stall(c)
  <2>1. cpc[c] = "poll" /\ cpc' = [cpc EXCEPT ![c] = "exited"] /\ ~s2[c]
    BY <1>5 DEF Stall, PopFails, BenchInv, ConsumerInv
  <2>2. Outcome[c] = "receiving"
    BY <2>1 DEF Outcome
  <2>3. Outcome' = [Outcome EXCEPT ![c] = "cut"]
    BY <1>1, <1>3, <2>1 DEF Outcome
  <2>4. Stream!Cut(c)
    BY <1>2, <2>2, <2>3, Zenon DEF Stream!Cut, Published, Last, Outcome
  <2> QED
    BY <2>4 DEF Stream!Next
<1> QED
  BY <1>4, <1>5

LEMMA StepStreams == BenchInv /\ [Next]_vars => [Stream!Next]_Stream!vars
<1> SUFFICES ASSUME BenchInv, [Next]_vars PROVE [Stream!Next]_Stream!vars
  OBVIOUS
<1>1. CASE Producer
  BY <1>1, ProducerStreams
<1>2. CASE Crash
  <2>1. UNCHANGED <<Published, Last, n_recv, Outcome>>
    BY <1>2 DEF Crash, ring, consumerVars, Published, Last, Outcome
  <2>2. ~(ppc = "crashed") /\ (ppc = "crashed")' = TRUE
    BY <1>2 DEF Crash
  <2>3. Stream!Abort
    BY <2>1, <2>2, Zenon DEF Stream!Abort, Published, Last, Outcome
  <2> QED
    BY <2>3 DEF Stream!Next
<1>3. ASSUME NEW c \in Consumers, Consumer(c) \/ GiveUp(c)
      PROVE  [Stream!Next]_Stream!vars
  <2>1. UNCHANGED producerVars
    BY <1>3 DEF Consumer, GiveUp
  <2>2. CASE Receive(c)
    BY <2>1, <2>2, NoWarmupPopped, CountStreams DEF Receive
  <2>3. CASE SeeStart(c) \/ Retry(c) \/ Stall(c)
    BY <2>1, <2>3, IdleStreams
  <2> QED
    BY <1>3, <2>2, <2>3 DEF Consumer, GiveUp
<1>4. CASE UNCHANGED vars
  <2>1. UNCHANGED StreamVars
    BY <1>4
    DEF vars, ring, producerVars, consumerVars, StreamVars, Published, Last, Outcome
  <2> QED
    BY <2>1, Unseen
<1> QED
  BY <1>1, <1>2, <1>3, <1>4 DEF Next

(* Every consumer receives messages of the benchmark only, in order and    *)
(* none twice, and records the end of the stream with the very last one    *)
(* (bench_consumer.cpp, 160-175).                                          *)
THEOREM BenchImplementsBroadcast == Spec => ImplementsBroadcast
<1>1. Init => Stream!Init
  BY StreamInit
<1>2. BenchInv /\ [Next]_vars => [Stream!Next]_Stream!vars
  BY StepStreams
<1> QED
  BY <1>1, <1>2, BenchInvariant, PTL DEF Spec, ImplementsBroadcast, Stream!Spec

-----------------------------------------------------------------------------
(* The promise a shm run keeps, and what follows from it for a consumer of *)
(* any transport that keeps it.                                            *)

CONSTANTS Lossy, LateStart
VARIABLES published, aborted, latest, received, outcome

Promise == INSTANCE Broadcast WITH last <- latest, n_recv <- received

PromiseTypes ==
  /\ published \in Nat
  /\ latest \in [Consumers -> Nat]
  /\ received \in [Consumers -> Nat]
  /\ outcome \in [Consumers -> {"receiving", "complete", "cut", "dead"}]

(* Nothing is received twice, nor before it was published, and the stream  *)
(* is complete for a consumer exactly when it has the last message.        *)
Sound ==
  \A c \in Consumers :
    /\ received[c] <= latest[c]
    /\ latest[c] <= published
    /\ outcome[c] = "complete" <=> latest[c] = N_MESSAGES

(* Every message up to the last one received was received.                 *)
NoneLost == \A c \in Consumers : received[c] = latest[c]

PromiseInv == PromiseTypes /\ Sound

LEMMA PromiseInit ==
  ASSUME N_MESSAGES \in Nat \ {0}
  PROVE  Promise!Init => PromiseInv
BY DEF Promise!Init, PromiseInv, PromiseTypes, Sound

(* What a message does to the consumer that receives it, and to the others.*)
LEMMA PromiseReceive ==
  ASSUME N_MESSAGES \in Nat \ {0}, PromiseInv, NEW c \in Consumers,
         NEW m \in 1 .. N_MESSAGES, Promise!Receive(c, m)
  PROVE  PromiseInv'
<1>1. /\ latest[c] < m /\ m <= published /\ outcome[c] = "receiving"
      /\ UNCHANGED published
      /\ latest' = [latest EXCEPT ![c] = m]
      /\ received' = [received EXCEPT ![c] = received[c] + 1]
      /\ outcome' = [outcome EXCEPT ![c] = IF m = N_MESSAGES THEN "complete" ELSE outcome[c]]
  BY DEF Promise!Receive, Promise!MayFollow
<1>2. PromiseTypes'
  BY <1>1 DEF PromiseInv, PromiseTypes
<1>3. ASSUME NEW d \in Consumers
      PROVE  /\ received'[d] <= latest'[d]
             /\ latest'[d] <= published'
             /\ outcome'[d] = "complete" <=> latest'[d] = N_MESSAGES
  <2>1. CASE d = c
    BY <1>1, <2>1 DEF PromiseInv, PromiseTypes, Sound
  <2>2. CASE d # c
    BY <1>1, <2>2 DEF PromiseInv, PromiseTypes, Sound
  <2> QED
    BY <2>1, <2>2
<1> QED
  BY <1>2, <1>3 DEF PromiseInv, Sound

LEMMA PromiseStep ==
  ASSUME N_MESSAGES \in Nat \ {0}
  PROVE  PromiseInv /\ [Promise!Next]_(Promise!vars) => PromiseInv'
<1> SUFFICES ASSUME PromiseInv, [Promise!Next]_(Promise!vars) PROVE PromiseInv'
  OBVIOUS
<1>1. CASE Promise!Publish
  BY <1>1 DEF Promise!Publish, PromiseInv, PromiseTypes, Sound
<1>2. CASE Promise!Abort
  BY <1>2 DEF Promise!Abort, PromiseInv, PromiseTypes, Sound
<1>3. ASSUME NEW c \in Consumers, Promise!Cut(c) \/ Promise!Die(c) PROVE PromiseInv'
  <2>1. /\ outcome[c] = "receiving" /\ UNCHANGED <<published, latest, received>>
        /\ \E v \in {"cut", "dead"} : outcome' = [outcome EXCEPT ![c] = v]
    BY <1>3 DEF Promise!Cut, Promise!Die
  <2> QED
    BY <2>1 DEF PromiseInv, PromiseTypes, Sound
<1>4. ASSUME NEW c \in Consumers, NEW m \in 1 .. N_MESSAGES, Promise!Receive(c, m) PROVE PromiseInv'
  BY <1>4, PromiseReceive
<1>5. CASE UNCHANGED Promise!vars
  BY <1>5 DEF Promise!vars, PromiseInv, PromiseTypes, Sound
<1> QED
  BY <1>1, <1>2, <1>3, <1>4, <1>5 DEF Promise!Next

(* Where neither loss nor a late start is allowed a message can only       *)
(* follow the one before it.                                               *)
LEMMA NoneLostStep ==
  ASSUME Lossy = FALSE, LateStart = FALSE
  PROVE  PromiseInv /\ NoneLost /\ [Promise!Next]_(Promise!vars) => NoneLost'
<1> SUFFICES ASSUME PromiseInv, NoneLost, [Promise!Next]_(Promise!vars) PROVE NoneLost'
  OBVIOUS
<1>1. CASE UNCHANGED <<latest, received>>
  BY <1>1 DEF NoneLost
<1>2. ASSUME NEW c \in Consumers, NEW m \in 1 .. N_MESSAGES, Promise!Receive(c, m) PROVE NoneLost'
  <2>1. /\ m = latest[c] + 1
        /\ latest' = [latest EXCEPT ![c] = m]
        /\ received' = [received EXCEPT ![c] = received[c] + 1]
    BY <1>2 DEF Promise!Receive, Promise!MayFollow
  <2> QED
    BY <2>1 DEF PromiseInv, PromiseTypes, NoneLost
<1> QED
  BY <1>1, <1>2 DEF Promise!Next, Promise!Publish, Promise!Abort, Promise!Cut, Promise!Die, Promise!vars

(* Every implementation of Broadcast: what a consumer has counted was      *)
(* published and counted once, and "complete" means the last message.      *)
THEOREM BroadcastSound ==
  ASSUME N_MESSAGES \in Nat \ {0}
  PROVE  Promise!Spec => []Sound
<1>1. Promise!Init => PromiseInv
  BY PromiseInit
<1>2. PromiseInv /\ [Promise!Next]_(Promise!vars) => PromiseInv'
  BY PromiseStep
<1>3. PromiseInv => Sound
  BY DEF PromiseInv
<1> QED
  BY <1>1, <1>2, <1>3, PTL DEF Promise!Spec

(* An implementation without loss and without late start (uds): a consumer *)
(* has every message up to the last one it got, and so all of them when    *)
(* the stream is complete.                                                 *)
THEOREM LosslessLosesNothing ==
  ASSUME N_MESSAGES \in Nat \ {0}, Lossy = FALSE, LateStart = FALSE
  PROVE  Promise!Spec => []NoneLost
<1>1. Promise!Init => PromiseInv /\ NoneLost
  BY PromiseInit DEF Promise!Init, NoneLost
<1>2. PromiseInv /\ NoneLost /\ [Promise!Next]_(Promise!vars) => (PromiseInv /\ NoneLost)'
  BY PromiseStep, NoneLostStep
<1> QED
  BY <1>1, <1>2, PTL DEF Promise!Spec

=============================================================================
