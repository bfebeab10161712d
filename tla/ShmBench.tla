------------------------------ MODULE ShmBench ------------------------------
(***************************************************************************)
(* One shared-memory run from the moment the ready barrier is passed: the  *)
(* warm-up, the hand-over of the cursors, start_flag and the send loop of  *)
(* shm/bench_producer.cpp with the receive loops of shm/bench_consumer.cpp.*)
(* The ring between them is the log of LossyBroadcast, which the ring of   *)
(* SeqLockRing implements.  How the processes reach the barrier is in      *)
(* ShmStartup.                                                             *)
(*                                                                         *)
(* The two stall clocks of a consumer (3 s without a message, 45 s in all) *)
(* are not modelled: a pop that returns false may or may not find one of   *)
(* them expired.                                                           *)
(***************************************************************************)
EXTENDS Integers

CONSTANTS
  Consumers,   (* the consumer processes                                   *)
  RING_SIZE,   (* slots of the ring                                        *)
  N_MESSAGES   (* messages of the benchmark                                *)

ASSUME BenchAssumption ==
  /\ RING_SIZE \in Nat \ {0}
  /\ N_MESSAGES \in Nat \ {0}

VARIABLES
  sent, cursor, last,  (* the ring: see LossyBroadcast                     *)
  ppc,            (* where the producer is                                 *)
  todo,           (* consumers whose cursor it has still to set            *)
  start_flag,
  cpc,            (* where consumer c is                                   *)
  last_seq_seen,
  n_recv,
  n_dropped,
  s2,             (* s2_ns # 0: the end of the stream was recorded         *)
  first           (* history: the first seq_id c counted                   *)

ring == <<sent, cursor, last>>
producerVars == <<ppc, todo, start_flag>>
consumerVars == <<cpc, last_seq_seen, n_recv, n_dropped, s2, first>>
vars == <<ring, producerVars, consumerVars>>

N_WARMUP == RING_SIZE

WARMUP_SENTINEL == N_MESSAGES + 1  (* any number no message has            *)

None == -1  (* UINT64_MAX in last_seq_seen                                 *)

(* A message is known by its position in the ring.                         *)
Log == INSTANCE LossyBroadcast WITH
         Reads <- [c \in Consumers |-> {"position"}], Capacity <- RING_SIZE

(* What the producer writes into the seq_id of the message at position k.  *)
SeqId(k) == IF k < N_WARMUP THEN WARMUP_SENTINEL ELSE k - N_WARMUP

Init ==
  /\ Log!Init
  /\ ppc = "warmup"
  /\ todo = {}
  /\ start_flag = FALSE
  /\ cpc = [c \in Consumers |-> "wait"]
  /\ last_seq_seen = [c \in Consumers |-> None]
  /\ n_recv = [c \in Consumers |-> 0]
  /\ n_dropped = [c \in Consumers |-> 0]
  /\ s2 = [c \in Consumers |-> FALSE]
  /\ first = [c \in Consumers |-> None]

-----------------------------------------------------------------------------
(* The producer.                                                           *)

PushWarmup ==
  /\ ppc = "warmup"
  /\ sent < N_WARMUP
  /\ Log!Publish
  /\ UNCHANGED producerVars

WarmupDone ==
  /\ ppc = "warmup"
  /\ sent = N_WARMUP
  /\ ppc' = "tails"
  /\ todo' = Consumers
  /\ UNCHANGED <<ring, start_flag>>

(* tails[cid] = start_tail, the head after the warm-up.                    *)
SetTail(c) ==
  /\ ppc = "tails"
  /\ c \in todo
  /\ cursor' = [cursor EXCEPT ![c] = sent]
  /\ todo' = todo \ {c}
  /\ UNCHANGED <<sent, last, ppc, start_flag>>

Start ==
  /\ ppc = "tails"
  /\ todo = {}
  /\ start_flag' = TRUE
  /\ ppc' = "send"
  /\ UNCHANGED <<ring, todo>>

MoreToSendByOne == sent <= N_WARMUP + N_MESSAGES

MoreToSend == sent < N_WARMUP + N_MESSAGES

PushMessage ==
  /\ ppc = "send"
  /\ MoreToSend
  /\ Log!Publish
  /\ UNCHANGED producerVars

Finish ==
  /\ ppc = "send"
  /\ ~MoreToSend
  /\ ppc' = "done"
  /\ UNCHANGED <<ring, todo, start_flag>>

Producer ==
  /\ PushWarmup \/ WarmupDone \/ (\E c \in Consumers : SetTail(c)) \/ Start
     \/ PushMessage \/ Finish
  /\ UNCHANGED consumerVars

(* The producer is killed while it sends.                                  *)
Crash ==
  /\ ppc = "send"
  /\ ppc' = "crashed"
  /\ UNCHANGED <<ring, todo, start_flag, consumerVars>>

-----------------------------------------------------------------------------
(* A consumer.                                                             *)

SeeStart(c) ==
  /\ cpc[c] = "wait"
  /\ start_flag
  /\ cpc' = [cpc EXCEPT ![c] = "poll"]
  /\ UNCHANGED <<ring, last_seq_seen, n_recv, n_dropped, s2, first>>

GapAndMessage(c, id) == id - last_seq_seen[c]

(* The messages between the last seq_id and id.                            *)
Gap(c, id) == id - last_seq_seen[c] - 1

(* There is none to see before the first message.                          *)
Dropped(c, id) ==
  IF last_seq_seen[c] # None /\ id > last_seq_seen[c] + 1 THEN Gap(c, id) ELSE 0

LastOrOneLeft(c, id) == id >= N_MESSAGES - 2 \/ n_recv[c] + 1 >= N_MESSAGES

(* The last message, or as many as were sent, have been received.          *)
IsLast(c, id) == id = N_MESSAGES - 1 \/ n_recv[c] + 1 >= N_MESSAGES

(* rb_pop_meta returned true with a message of the benchmark.              *)
Count(c, id) ==
  /\ n_dropped' = [n_dropped EXCEPT ![c] = n_dropped[c] + Dropped(c, id)]
  /\ last_seq_seen' = [last_seq_seen EXCEPT ![c] = id]
  /\ n_recv' = [n_recv EXCEPT ![c] = n_recv[c] + 1]
  /\ first' = [first EXCEPT ![c] = IF first[c] = None THEN id ELSE first[c]]
  /\ s2' = [s2 EXCEPT ![c] = IsLast(c, id)]
  /\ cpc' = [cpc EXCEPT ![c] = IF IsLast(c, id) THEN "exited" ELSE "poll"]

(* rb_pop_meta returned true.  Warm-up messages are skipped.               *)
Receive(c) ==
  /\ cpc[c] = "poll"
  /\ Log!Deliver(c)
  /\ LET id == SeqId(cursor[c])
     IN  \/ id < WARMUP_SENTINEL /\ Count(c, id)
         \/ id >= WARMUP_SENTINEL /\ UNCHANGED consumerVars

(* What rb_pop_meta does when it returns false: nothing, if no message is  *)
(* there or the producer is about to overwrite the oldest one, or it moves *)
(* the cursor to the oldest message.                                       *)
PopFails(c) ==
  /\ cpc[c] = "poll"
  /\ \/ cursor[c] >= sent /\ UNCHANGED ring
     \/ cursor[c] + RING_SIZE <= sent /\ UNCHANGED ring
     \/ Log!Skip(c)

(* No clock has expired: continue.                                         *)
Retry(c) ==
  /\ PopFails(c)
  /\ UNCHANGED consumerVars

OnlyTheIdleClock(c) == n_recv[c] > 0

(* One of the clocks may have expired: the 3 s once something was received,*)
(* the 45 s in any case.                                                   *)
MayExpire(c) == TRUE

(* A clock has expired: break.                                             *)
Stall(c) ==
  /\ PopFails(c)
  /\ MayExpire(c)
  /\ cpc' = [cpc EXCEPT ![c] = "exited"]
  /\ UNCHANGED <<last_seq_seen, n_recv, n_dropped, s2, first>>

Consumer(c) ==
  /\ SeeStart(c) \/ Receive(c) \/ Retry(c)
  /\ UNCHANGED producerVars

GiveUp(c) ==
  /\ Stall(c)
  /\ UNCHANGED producerVars

-----------------------------------------------------------------------------
Next ==
  \/ Producer
  \/ Crash
  \/ \E c \in Consumers : Consumer(c) \/ GiveUp(c)

Spec == Init /\ [][Next]_vars

(* Every process runs.  The clocks of a consumer are relied on only when   *)
(* the producer has died: while it lives they may expire or not.           *)
FairSpec ==
  /\ Spec
  /\ WF_vars(Producer)
  /\ \A c \in Consumers : WF_vars(Consumer(c)) /\ WF_vars(ppc = "crashed" /\ GiveUp(c))

-----------------------------------------------------------------------------
(* Properties.                                                             *)

TypeOK ==
  /\ sent \in 0 .. N_WARMUP + N_MESSAGES
  /\ cursor \in [Consumers -> 0 .. N_WARMUP + N_MESSAGES]
  /\ ppc \in {"warmup", "tails", "send", "done", "crashed"}
  /\ todo \subseteq Consumers
  /\ start_flag \in BOOLEAN
  /\ cpc \in [Consumers -> {"wait", "poll", "exited"}]
  /\ last_seq_seen \in [Consumers -> {None} \cup 0 .. N_MESSAGES - 1]
  /\ n_recv \in [Consumers -> 0 .. N_MESSAGES]
  /\ n_dropped \in [Consumers -> 0 .. N_MESSAGES]
  /\ s2 \in [Consumers -> BOOLEAN]
  /\ first \in [Consumers -> {None} \cup 0 .. N_MESSAGES - 1]

(* What a consumer reports accounts for the stream from the first message  *)
(* it saw to the last: each was either received or counted as dropped,     *)
(* once (bench_consumer.cpp, 163-169), whatever laps came between.         *)
Accounted ==
  \A c \in Consumers :
    n_recv[c] > 0 => first[c] + n_recv[c] + n_dropped[c] = last_seq_seen[c] + 1

(* However slow it is, a consumer loses no more messages than the stream   *)
(* is longer than the ring: a lap costs it nothing that is still there, and*)
(* a stream no longer than the ring loses nothing (ring_buffer.hpp, 125).  *)
LossOnlyBeyondRing ==
  \A c \in Consumers :
    LET lost == first[c] + n_dropped[c]
    IN  n_recv[c] > 0 /\ lost > 0 => lost <= sent - N_WARMUP - RING_SIZE

(* Whatever is lost, a consumer gets messages of the benchmark only, those *)
(* that were sent, in order and none twice, and it records the end of the  *)
(* stream (s2_ns) with the very last message: never on a stall nor on a    *)
(* count that is reached early (bench_consumer.cpp, 160-175).              *)
Stream == INSTANCE Broadcast WITH
  Lossy <- TRUE, LateStart <- FALSE,
  published <- IF sent < N_WARMUP THEN 0 ELSE sent - N_WARMUP,
  aborted <- ppc = "crashed",
  last <- [c \in Consumers |-> last_seq_seen[c] + 1],
  outcome <- [c \in Consumers |-> IF cpc[c] # "exited" THEN "receiving"
                                  ELSE IF s2[c] THEN "complete" ELSE "cut"]

ImplementsBroadcast == Stream!Spec

(* Once started every consumer stops: with the end of the stream, however  *)
(* often it was lapped, or on a stall, which is sure to come when the      *)
(* producer is killed in the middle (bench_consumer.cpp, 133-153).         *)
ConsumersStop == \A c \in Consumers : start_flag ~> (cpc[c] = "exited")

=============================================================================
