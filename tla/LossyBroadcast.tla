--------------------------- MODULE LossyBroadcast ---------------------------
(***************************************************************************)
(* What the shared-memory ring of shm/ring_buffer.hpp promises, with no    *)
(* slots, no sequence locks and no interleaved copies: one producer        *)
(* appends messages to a log and never waits; each consumer has a cursor   *)
(* of its own and receives the log in order, whole messages only; the log  *)
(* remembers its last Capacity messages, and a consumer may be moved past  *)
(* messages it has not read, but only past messages that are already       *)
(* forgotten.                                                              *)
(*                                                                         *)
(* The message at position k of the log is represented by k in every one   *)
(* of its fields.  A consumer looks at the fields Reads[c] of a message.   *)
(***************************************************************************)
EXTENDS Integers

CONSTANTS
  Consumers,  (* the readers                                               *)
  Reads,      (* Reads[c]: the words of a message consumer c looks at      *)
  Capacity    (* how many of the latest messages the log remembers         *)

VARIABLES
  sent,    (* number of messages published so far                          *)
  cursor,  (* cursor[c]: position consumer c reads next                    *)
  last     (* last[c]: the message c received last, as c saw it            *)

vars == <<sent, cursor, last>>

(* The message at position k as consumer c sees it.  Position -1 stands    *)
(* for "nothing received yet".                                             *)
View(c, k) == [f \in Reads[c] |-> k]

(* Position k has been published and is among the Capacity latest.         *)
Remembered(k) == k < sent /\ sent - Capacity <= k

Init ==
  /\ sent = 0
  /\ cursor = [c \in Consumers |-> 0]
  /\ last = [c \in Consumers |-> View(c, -1)]

Publish ==
  /\ sent' = sent + 1
  /\ UNCHANGED <<cursor, last>>

Deliver(c) ==
  /\ Remembered(cursor[c])
  /\ last' = [last EXCEPT ![c] = View(c, cursor[c])]
  /\ cursor' = [cursor EXCEPT ![c] = cursor[c] + 1]
  /\ UNCHANGED sent

SkipOneTooMany(c) ==
  \E k \in (cursor[c] + 1) .. (sent - Capacity + 1) :
    /\ cursor' = [cursor EXCEPT ![c] = k]
    /\ UNCHANGED <<sent, last>>

(* Consumer c loses the messages cursor[c] .. k-1, all of them forgotten.  *)
Skip(c) ==
  \E k \in (cursor[c] + 1) .. (sent - Capacity) :
    /\ cursor' = [cursor EXCEPT ![c] = k]
    /\ UNCHANGED <<sent, last>>

Next ==
  \/ Publish
  \/ \E c \in Consumers : Deliver(c) \/ Skip(c)

Spec == Init /\ [][Next]_vars

=============================================================================
