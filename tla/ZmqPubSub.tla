------------------------------ MODULE ZmqPubSub ------------------------------
(***************************************************************************)
(* The ZeroMQ benchmark: zeroMQ/main_producer.cpp publishes, any number of *)
(* zeroMQ/main_consumer.cpp subscribe, and nothing but the 1 s pause of    *)
(* the producer sees to it that they subscribe before it starts.           *)
(*                                                                         *)
(* External: libzmq.  Per subscriber there is a pipe on the publisher's    *)
(* side and one on the subscriber's, with the high-water marks the program *)
(* sets.  PUB drops a message for a subscriber whose pipe is full, and has *)
(* none for one whose subscription it has not seen.  I/O threads move the  *)
(* messages.  A socket that is closed is flushed; that of a killed process *)
(* is not.  Messages are numbered from 1, warm-up first.                   *)
(***************************************************************************)
EXTENDS Integers, Sequences, FiniteSets

CONSTANTS
  Consumers,
  SNDHWM, RCVHWM,  (* the high-water marks; 100000 in the code             *)
  N_WARMUP,
  N_MESSAGES

ASSUME ZmqAssumption ==
  /\ SNDHWM \in Nat \ {0} /\ RCVHWM \in Nat \ {0}
  /\ N_WARMUP \in Nat
  /\ N_MESSAGES \in Nat \ {0}

VARIABLES
  ppc,         (* where the producer is                                    *)
  next,        (* the message it sends next                                *)
  subscribers, (* the consumers whose subscription PUB has seen            *)
  outbox,      (* outbox[c]: the publisher's pipe to c                     *)
  inbox,       (* inbox[c]: the pipe of subscriber c                       *)
  cpc,         (* where consumer c is                                      *)
  n_recv,
  s2,          (* s2_ns # 0                                                *)
  seen,        (* history: the last message of the benchmark c received    *)
  missed       (* history: the messages dropped for c, sent before its     *)
               (* subscription was seen, or lost with a killed producer    *)

producerVars == <<ppc, next>>
libraryVars == <<subscribers, outbox, inbox>>
consumerVars == <<cpc, n_recv, s2, seen>>
vars == <<producerVars, libraryVars, consumerVars, missed>>

Total == N_WARMUP + N_MESSAGES

Init ==
  /\ ppc = "start" /\ next = 1
  /\ subscribers = {}
  /\ outbox = [c \in Consumers |-> <<>>]
  /\ inbox = [c \in Consumers |-> <<>>]
  /\ cpc = [c \in Consumers |-> "start"]
  /\ n_recv = [c \in Consumers |-> 0]
  /\ s2 = [c \in Consumers |-> FALSE]
  /\ seen = [c \in Consumers |-> 0]
  /\ missed = [c \in Consumers |-> {}]

-----------------------------------------------------------------------------
(* libzmq.                                                                 *)

(* PUB learns of a subscription.                                           *)
SubscriptionSeen(c) ==
  /\ cpc[c] = "recv"
  /\ ppc \in {"bound", "send"}
  /\ c \notin subscribers
  /\ subscribers' = subscribers \cup {c}
  /\ UNCHANGED <<producerVars, outbox, inbox, consumerVars, missed>>

(* An I/O thread moves a message from one pipe to the other.               *)
Transfer(c) ==
  /\ outbox[c] # <<>>
  /\ Len(inbox[c]) < RCVHWM
  /\ inbox' = [inbox EXCEPT ![c] = Append(@, Head(outbox[c]))]
  /\ outbox' = [outbox EXCEPT ![c] = Tail(@)]
  /\ UNCHANGED <<producerVars, subscribers, consumerVars, missed>>

Delivered(c) == c \in subscribers /\ Len(outbox[c]) < SNDHWM

(* PUB never blocks: it drops what does not fit.                           *)
Publish(m) ==
  /\ outbox' = [c \in Consumers |->
                  IF Delivered(c) THEN Append(outbox[c], m) ELSE outbox[c]]
  /\ missed' = [c \in Consumers |->
                  IF Delivered(c) THEN missed[c] ELSE missed[c] \cup {m}]

-----------------------------------------------------------------------------
(* The producer.                                                           *)

Bind ==
  /\ ppc = "start"
  /\ ppc' = "bound"
  /\ UNCHANGED <<next, libraryVars, consumerVars, missed>>

(* The 1 s for the consumers to subscribe has passed.                      *)
StartSending ==
  /\ ppc = "bound"
  /\ ppc' = "send"
  /\ UNCHANGED <<next, libraryVars, consumerVars, missed>>

MoreToSendByOne == next <= Total + 1

MoreToSend == next <= Total

Send ==
  /\ ppc = "send"
  /\ MoreToSend
  /\ Publish(next)
  /\ next' = next + 1
  /\ UNCHANGED <<ppc, subscribers, inbox, consumerVars>>

(* The destructors of socket and context wait until the pipes are flushed. *)
Exit ==
  /\ ppc = "send"
  /\ ~MoreToSend
  /\ ppc' = "done"
  /\ UNCHANGED <<next, libraryVars, consumerVars, missed>>

Producer == Bind \/ StartSending \/ Send \/ Exit

Numbers(s) == {s[k] : k \in 1 .. Len(s)}

(* The producer is killed, and its pipes are lost.                         *)
Kill ==
  /\ ppc \in {"start", "bound", "send"}
  /\ ppc' = "killed"
  /\ outbox' = [c \in Consumers |-> <<>>]
  /\ missed' = [c \in Consumers |-> missed[c] \cup Numbers(outbox[c])]
  /\ UNCHANGED <<next, subscribers, inbox, consumerVars>>

-----------------------------------------------------------------------------
(* A consumer.                                                             *)

(* The constructor of Consumer: options, subscribe, connect.               *)
Subscribe(c) ==
  /\ cpc[c] = "start"
  /\ cpc' = [cpc EXCEPT ![c] = "recv"]
  /\ UNCHANGED <<producerVars, libraryVars, n_recv, s2, seen, missed>>

EnoughByOne(c, m) == m = Total \/ n_recv[c] + 1 >= N_MESSAGES - 1

(* seq_id is that of the last message, or enough have been received.       *)
IsLast(c, m) == m = Total \/ n_recv[c] + 1 >= N_MESSAGES

WarmupCounted(m) == FALSE

Warmup(m) == m <= N_WARMUP

(* recv returns a message; one of the warm-up is skipped.                  *)
Recv(c) ==
  /\ cpc[c] = "recv"
  /\ inbox[c] # <<>>
  /\ inbox' = [inbox EXCEPT ![c] = Tail(@)]
  /\ LET m == Head(inbox[c])
     IN  IF Warmup(m)
         THEN UNCHANGED consumerVars
         ELSE /\ seen' = [seen EXCEPT ![c] = m - N_WARMUP]
              /\ n_recv' = [n_recv EXCEPT ![c] = @ + 1]
              /\ s2' = [s2 EXCEPT ![c] = IsLast(c, m)]
              /\ cpc' = [cpc EXCEPT ![c] = IF IsLast(c, m) THEN "finished" ELSE "recv"]
  /\ UNCHANGED <<producerVars, subscribers, outbox, missed>>

Never == FALSE

(* The producer may be silent for more than STALL_SEC.                     *)
MayStall == TRUE

(* recv returned false after rcvtimeo, 5 s, without a message, and idle is *)
(* more than STALL_SEC: leave, the time counting as the end of the stream. *)
(* If idle is not more than that, which rounding allows, the loop goes on. *)
Stalled(c) ==
  /\ MayStall
  /\ cpc[c] = "recv"
  /\ inbox[c] = <<>>
  /\ cpc' = [cpc EXCEPT ![c] = "stalled"]
  /\ s2' = [s2 EXCEPT ![c] = TRUE]
  /\ UNCHANGED <<producerVars, libraryVars, n_recv, seen, missed>>

Consumer(c) == Subscribe(c) \/ Recv(c)

(* recv throws, as for a signal: main returns 1 and writes no files.       *)
Fail(c) ==
  /\ cpc[c] = "recv"
  /\ cpc' = [cpc EXCEPT ![c] = "failed"]
  /\ UNCHANGED <<producerVars, libraryVars, n_recv, s2, seen, missed>>

Library(c) == SubscriptionSeen(c) \/ Transfer(c)

-----------------------------------------------------------------------------
Next ==
  \/ Producer \/ Kill
  \/ \E c \in Consumers : Library(c) \/ Consumer(c) \/ Stalled(c) \/ Fail(c)

Spec == Init /\ [][Next]_vars

(* Everybody runs, and 5 s without a message pass if there is none.        *)
FairSpec ==
  /\ Spec
  /\ WF_vars(Producer)
  /\ \A c \in Consumers :
       WF_vars(Library(c)) /\ WF_vars(Consumer(c)) /\ WF_vars(Stalled(c))

-----------------------------------------------------------------------------
(* Properties.                                                             *)

Benchmark == N_WARMUP + 1 .. Total

(* What is on its way to consumer c.                                       *)
Waiting(c) == Numbers(inbox[c]) \cup Numbers(outbox[c])

TypeOK ==
  /\ ppc \in {"start", "bound", "send", "done", "killed"}
  /\ next \in 1 .. Total + 1
  /\ subscribers \subseteq Consumers
  /\ \A c \in Consumers :
       /\ Numbers(outbox[c]) \cup Numbers(inbox[c]) \cup missed[c] \subseteq 1 .. next - 1
       /\ Len(outbox[c]) <= SNDHWM /\ Len(inbox[c]) <= RCVHWM
  /\ cpc \in [Consumers -> {"start", "recv", "finished", "stalled", "failed"}]
  /\ n_recv \in [Consumers -> 0 .. N_MESSAGES]
  /\ s2 \in [Consumers -> BOOLEAN]
  /\ seen \in [Consumers -> 0 .. N_MESSAGES]

(* The loss a consumer reports, N_MESSAGES - n_recv (main_consumer.cpp,    *)
(* 108-110), is the number of messages of the benchmark that were dropped  *)
(* for it, that are on their way to it and that are not sent (yet); a late *)
(* start or dropped warm-up messages do not blur it.  On its regular end it*)
(* is the first of these alone, the "HWM drop" the code speaks of; after a *)
(* stall the others may be in it.                                          *)
LossIsWhatWasDropped ==
  \A c \in Consumers :
    /\ N_MESSAGES - n_recv[c] =
         Cardinality((missed[c] \cup Waiting(c) \cup (next .. Total)) \cap Benchmark)
    /\ cpc[c] = "finished" => N_MESSAGES - n_recv[c] = Cardinality(missed[c] \cap Benchmark)

(* Whatever is dropped, what a consumer counts are messages of the         *)
(* benchmark, as they were sent, in order and none twice, and it ends      *)
(* regularly exactly with the last one: the count of main_consumer.cpp:100 *)
(* never ends the stream before.                                           *)
Stage(c) ==
  CASE cpc[c] = "finished" -> "complete"
    [] cpc[c] = "stalled"  -> "cut"
    [] cpc[c] = "failed"   -> "dead"
    [] OTHER               -> "receiving"

Streams == INSTANCE Broadcast WITH
  Lossy <- TRUE, LateStart <- TRUE,
  published <- IF next <= N_WARMUP THEN 0 ELSE next - 1 - N_WARMUP,
  aborted <- ppc = "killed", last <- seen,
  outcome <- [c \in Consumers |-> Stage(c)]

ImplementsBroadcast == Streams!Spec

(* prompt.md, item 2: "If the last message is lost, the consumer will be   *)
(* stuck indefinitely", which the stall detection is to prevent, also when *)
(* the producer dies or never comes (main_consumer.cpp, 66-86).            *)
ConsumersStop == \A c \in Consumers : <>(cpc[c] \in {"finished", "stalled", "failed"})

=============================================================================
