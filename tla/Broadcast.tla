----------------------------- MODULE Broadcast -----------------------------
(***************************************************************************)
(* What a transport of the benchmark promises, whatever carries the        *)
(* messages.  One producer publishes the messages 1 .. N_MESSAGES in order *)
(* (those of the warm-up do not show).  A consumer receives messages that  *)
(* have been published, in order and none twice, and its stream is         *)
(* complete exactly with the last of them.                                 *)
(*                                                                         *)
(* If Lossy a consumer may miss any messages and give up at any time.      *)
(* Otherwise it misses none, but for those before the first it receives if *)
(* LateStart, and it is cut off only because the producer has aborted, or  *)
(* because it came when all was over.                                      *)
(*                                                                         *)
(* ShmBench, GrpcBroadcast, UdsBroadcast and ZmqPubSub implement it.       *)
(***************************************************************************)
EXTENDS Integers

CONSTANTS
  Consumers,
  N_MESSAGES,
  Lossy,      (* BOOLEAN: messages may be lost on the way                  *)
  LateStart   (* BOOLEAN: a consumer may join a stream that has begun      *)

VARIABLES
  published,  (* how many messages have been published                     *)
  aborted,    (* the producer has ended before its time                    *)
  last,       (* last[c]: the last message c received, or 0                *)
  n_recv,     (* n_recv[c]: how many it received                           *)
  outcome     (* outcome[c]: how the stream ended for c                    *)

vars == <<published, aborted, last, n_recv, outcome>>

Init ==
  /\ published = 0
  /\ aborted = FALSE
  /\ last = [c \in Consumers |-> 0]
  /\ n_recv = [c \in Consumers |-> 0]
  /\ outcome = [c \in Consumers |-> "receiving"]

Publish ==
  /\ ~aborted
  /\ published < N_MESSAGES
  /\ published' = published + 1
  /\ UNCHANGED <<aborted, last, n_recv, outcome>>

Abort ==
  /\ ~aborted
  /\ aborted' = TRUE
  /\ UNCHANGED <<published, last, n_recv, outcome>>

(* Message m may be the next that c receives.                              *)
MayFollow(c, m) ==
  /\ last[c] < m /\ m <= published
  /\ Lossy \/ m = last[c] + 1 \/ (LateStart /\ last[c] = 0)

Receive(c, m) ==
  /\ outcome[c] = "receiving"
  /\ MayFollow(c, m)
  /\ last' = [last EXCEPT ![c] = m]
  /\ n_recv' = [n_recv EXCEPT ![c] = @ + 1]
  /\ outcome' = [outcome EXCEPT ![c] = IF m = N_MESSAGES THEN "complete" ELSE @]
  /\ UNCHANGED <<published, aborted>>

(* The stream ends for c before the last message.                          *)
Cut(c) ==
  /\ outcome[c] = "receiving"
  /\ Lossy \/ aborted \/ (LateStart /\ last[c] = 0 /\ published = N_MESSAGES)
  /\ outcome' = [outcome EXCEPT ![c] = "cut"]
  /\ UNCHANGED <<published, aborted, last, n_recv>>

(* The consumer process dies.                                              *)
Die(c) ==
  /\ outcome[c] = "receiving"
  /\ outcome' = [outcome EXCEPT ![c] = "dead"]
  /\ UNCHANGED <<published, aborted, last, n_recv>>

Next ==
  \/ Publish
  \/ Abort
  \/ \E c \in Consumers :
       Cut(c) \/ Die(c) \/ \E m \in 1 .. N_MESSAGES : Receive(c, m)

Spec == Init /\ [][Next]_vars

=============================================================================
