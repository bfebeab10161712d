----------------------------- MODULE UdsBroadcast -----------------------------
(***************************************************************************)
(* The unix domain socket benchmark: uds/main_producer.cpp, which accepts  *)
(* n_consumers connections and sends every message over each in turn with  *)
(* send_all, and uds/main_consumer.cpp, which puts messages together again *)
(* with recv_exact.  A stream carries bytes, and either call may stop      *)
(* after any number of them.                                               *)
(*                                                                         *)
(* External: the sockets.  connect succeeds once somebody listens, and the *)
(* connection waits in the backlog to be accepted; a send blocks while the *)
(* buffer is full, and fails when the other end is closed; a recv returns  *)
(* what is there, and end of file when the other end is closed and nothing *)
(* is left.  Byte k of message m is <<m, k>>; warm-up messages come first. *)
(***************************************************************************)
EXTENDS Integers, Sequences, SequencesExt

CONSTANTS
  Consumers,    (* the n_consumers consumer processes                      *)
  MSG_BYTES,    (* sizeof(Message); 64 in the code                         *)
  BUF_BYTES,    (* what a connection buffers                               *)
  UDS_N_WARMUP,
  N_MESSAGES

ASSUME UdsAssumption ==
  /\ IsFiniteSet(Consumers)
  /\ MSG_BYTES \in Nat \ {0}
  /\ BUF_BYTES \in Nat \ {0}
  /\ UDS_N_WARMUP \in Nat
  /\ N_MESSAGES \in Nat \ {0}

VARIABLES
  ppc,          (* where the producer is                                   *)
  backlog,      (* connections not yet accepted                            *)
  client_fds,   (* the accepted connections, in order                      *)
  i,            (* the message being broadcast                             *)
  at,           (* its place in client_fds                                 *)
  sent,         (* the bytes send_all has sent of it                       *)
  buf,          (* buf[c]: bytes on the way to consumer c                  *)
  cpc,          (* where consumer c is                                     *)
  msg,          (* the bytes recv_exact has got of the current message     *)
  n_recv,       (* messages of the benchmark c has counted                 *)
  s2,           (* s2_ns # 0                                               *)
  seen          (* history: the message recv_exact put together last       *)

producerVars == <<ppc, client_fds, i, at, sent>>
consumerVars == <<cpc, msg, n_recv, s2, seen>>
vars == <<backlog, buf, producerVars, consumerVars>>

Total == UDS_N_WARMUP + N_MESSAGES

Init ==
  /\ ppc = "socket"
  /\ backlog = <<>>
  /\ client_fds = <<>>
  /\ i = 1 /\ at = 1 /\ sent = 0
  /\ buf = [c \in Consumers |-> <<>>]
  /\ cpc = [c \in Consumers |-> "connect"]
  /\ msg = [c \in Consumers |-> <<>>]
  /\ n_recv = [c \in Consumers |-> 0]
  /\ s2 = [c \in Consumers |-> FALSE]
  /\ seen = [c \in Consumers |-> 0]

(* The producer has no socket open any more.                               *)
ProducerGone == ppc \in {"done", "failed"}

(* Consumer c has closed its end, or the system did when it was killed.    *)
Closed(c) == cpc[c] \in {"finished", "killed"}

-----------------------------------------------------------------------------
(* The producer.                                                           *)

(* unlink, bind, listen: from here on consumers can connect.               *)
Listen ==
  /\ ppc = "socket"
  /\ ppc' = "accept"
  /\ UNCHANGED <<backlog, client_fds, i, at, sent, buf>>

(* accept_one, n_consumers times, in the order of the connections.         *)
Accept ==
  /\ ppc = "accept"
  /\ backlog # <<>>
  /\ client_fds' = Append(client_fds, Head(backlog))
  /\ backlog' = Tail(backlog)
  /\ ppc' = IF Len(client_fds') = Cardinality(Consumers) THEN "send" ELSE "accept"
  /\ UNCHANGED <<i, at, sent, buf>>

(* An exception before the first message: main closes what it has.         *)
SetupFails ==
  /\ ppc \in {"socket", "accept"}
  /\ ppc' = "failed"
  /\ backlog' = <<>>
  /\ UNCHANGED <<client_fds, i, at, sent, buf>>

FromTheStart(rc) == [k \in 1 .. rc |-> <<i, k>>]

(* The next rc bytes of the message.                                       *)
NextBytes(rc) == [k \in 1 .. rc |-> <<i, sent + k>>]

(* One send of send_all: some of the bytes that remain.                    *)
Send ==
  /\ ppc = "send"
  /\ at <= Len(client_fds)
  /\ LET c == client_fds[at]
     IN  /\ ~Closed(c)
         /\ \E rc \in 1 .. MSG_BYTES - sent :
              /\ Len(buf[c]) + rc <= BUF_BYTES
              /\ buf' = [buf EXCEPT ![c] = @ \o NextBytes(rc)]
              /\ sent' = sent + rc
  /\ UNCHANGED <<ppc, backlog, client_fds, i, at>>

(* send_all is through: the next connection of broadcast.                  *)
SentAll ==
  /\ ppc = "send"
  /\ at <= Len(client_fds)
  /\ sent = MSG_BYTES
  /\ at' = at + 1
  /\ sent' = 0
  /\ UNCHANGED <<ppc, backlog, client_fds, i, buf>>

GoOnWithTheNext ==
  /\ at' = at + 1
  /\ sent' = 0
  /\ UNCHANGED ppc

(* The exception ends the producer and closes the connections of all.      *)
Throw ==
  /\ ppc' = "failed"
  /\ UNCHANGED <<at, sent>>

(* The consumer has gone: send fails.                                      *)
SendError ==
  /\ ppc = "send"
  /\ at <= Len(client_fds)
  /\ sent < MSG_BYTES
  /\ Closed(client_fds[at])
  /\ Throw
  /\ UNCHANGED <<backlog, client_fds, i, buf>>

NoneLeft == i > Total

LastOne == i = Total

(* broadcast is through: the next message, or close everything.            *)
NextMessage ==
  /\ ppc = "send"
  /\ at > Len(client_fds)
  /\ i' = i + 1
  /\ at' = 1
  /\ ppc' = IF LastOne THEN "done" ELSE "send"
  /\ UNCHANGED <<backlog, client_fds, sent, buf>>

Producer ==
  /\ Listen \/ Accept \/ Send \/ SentAll \/ SendError \/ NextMessage
  /\ UNCHANGED consumerVars

Failure == SetupFails /\ UNCHANGED consumerVars

-----------------------------------------------------------------------------
(* A consumer.                                                             *)

(* connect_with_retry, for ever while nobody listens.                      *)
Connect(c) ==
  /\ cpc[c] = "connect"
  /\ ppc = "accept"
  /\ backlog' = Append(backlog, c)
  /\ cpc' = [cpc EXCEPT ![c] = "recv"]
  /\ UNCHANGED <<producerVars, buf, msg, n_recv, s2, seen>>

(* What main does with a complete message m: a warm-up message is skipped, *)
(* any other counted, and the last ends the loop.                          *)
Count(c, m) ==
  LET n == n_recv[c] + 1
      isLast == m = Total \/ n >= N_MESSAGES
  IN  IF m <= UDS_N_WARMUP
      THEN UNCHANGED <<cpc, n_recv, s2>>
      ELSE /\ n_recv' = [n_recv EXCEPT ![c] = n]
           /\ s2' = [s2 EXCEPT ![c] = isLast]
           /\ cpc' = [cpc EXCEPT ![c] = IF isLast THEN "finished" ELSE "recv"]

(* One recv of recv_exact, and what follows if it completes a message.     *)
Recv(c) ==
  /\ cpc[c] = "recv"
  /\ \E rc \in 1 .. MSG_BYTES - Len(msg[c]) :
       /\ rc <= Len(buf[c])
       /\ LET got == msg[c] \o SubSeq(buf[c], 1, rc)
          IN  /\ buf' = [buf EXCEPT ![c] = SubSeq(@, rc + 1, Len(@))]
              /\ IF Len(got) < MSG_BYTES
                 THEN /\ msg' = [msg EXCEPT ![c] = got]
                      /\ UNCHANGED <<cpc, n_recv, s2, seen>>
                 ELSE /\ msg' = [msg EXCEPT ![c] = <<>>]
                      /\ seen' = [seen EXCEPT ![c] = got[1][1]]
                      /\ Count(c, got[1][1])
  /\ UNCHANGED <<producerVars, backlog>>

AtOnce(c) == TRUE

Retried(c) == FALSE

(* Nothing is left of what was sent before the other end was closed.       *)
NothingLeft(c) == buf[c] = <<>>

(* recv returns 0: what there was of a message is lost, the time counts as *)
(* the end of the stream.                                                  *)
EndOfFile(c) ==
  /\ cpc[c] = "recv"
  /\ ProducerGone
  /\ Contains(client_fds, c)
  /\ NothingLeft(c)
  /\ cpc' = [cpc EXCEPT ![c] = "finished"]
  /\ s2' = [s2 EXCEPT ![c] = TRUE]
  /\ UNCHANGED <<producerVars, backlog, buf, msg, n_recv, seen>>

(* The producer died before it accepted this connection: recv fails, and   *)
(* the exception leaves s2_ns at 0.                                        *)
RecvError(c) ==
  /\ cpc[c] = "recv"
  /\ ProducerGone
  /\ ~Contains(client_fds, c)
  /\ cpc' = [cpc EXCEPT ![c] = "finished"]
  /\ UNCHANGED <<producerVars, backlog, buf, msg, n_recv, s2, seen>>

Consumer(c) ==
  \/ Connect(c)
  \/ Recv(c)
  \/ EndOfFile(c)
  \/ RecvError(c)

(* A consumer is killed.                                                   *)
Kill(c) ==
  /\ cpc[c] \in {"connect", "recv"}
  /\ cpc' = [cpc EXCEPT ![c] = "killed"]
  /\ UNCHANGED <<producerVars, backlog, buf, msg, n_recv, s2, seen>>

-----------------------------------------------------------------------------
Next ==
  \/ Producer
  \/ Failure
  \/ \E c \in Consumers : Consumer(c) \/ Kill(c)

Spec == Init /\ [][Next]_vars

Fairness ==
  /\ WF_vars(Producer)
  /\ \A c \in Consumers : WF_vars(Consumer(c))

FairSpec == Spec /\ Fairness

-----------------------------------------------------------------------------
(* Properties.                                                             *)

Bytes == (1 .. Total) \X (1 .. MSG_BYTES)

TypeOK ==
  /\ ppc \in {"socket", "accept", "send", "done", "failed"}
  /\ \A k \in 1 .. Len(backlog) : backlog[k] \in Consumers
  /\ \A k \in 1 .. Len(client_fds) : client_fds[k] \in Consumers
  /\ i \in 1 .. Total + 1
  /\ at \in 1 .. Cardinality(Consumers) + 1
  /\ sent \in 0 .. MSG_BYTES
  /\ \A c \in Consumers :
       /\ \A k \in 1 .. Len(buf[c]) : buf[c][k] \in Bytes
       /\ \A k \in 1 .. Len(msg[c]) : msg[c][k] \in Bytes
       /\ Len(msg[c]) < MSG_BYTES
  /\ cpc \in [Consumers -> {"connect", "recv", "finished", "killed"}]
  /\ n_recv \in [Consumers -> 0 .. N_MESSAGES]
  /\ s2 \in [Consumers -> BOOLEAN]
  /\ seen \in [Consumers -> 0 .. Total]

(* The byte at position p of the whole stream, counting from 0.            *)
ByteAt(p) == <<(p \div MSG_BYTES) + 1, (p % MSG_BYTES) + 1>>

(* The bytes consumer c has taken out of its connection.                   *)
Taken(c) == seen[c] * MSG_BYTES + Len(msg[c])

(* The bytes the producer has put into the connection at place k.          *)
Put(k) ==
  (i - 1) * MSG_BYTES
    + CASE k < at -> MSG_BYTES
        [] k = at -> sent
        [] OTHER  -> 0

(* However sends and receives are cut, message boundaries never shift: the *)
(* message being put together and the bytes on the way to it are, without  *)
(* a gap or a repetition, the stream up to the byte last sent on that      *)
(* connection (main_producer.cpp, 61-74; main_consumer.cpp, 62-78).        *)
StreamIntact ==
  \A k \in 1 .. Len(client_fds) :
    LET c == client_fds[k]
        onTheWay == msg[c] \o buf[c]
        first == seen[c] * MSG_BYTES
    IN  /\ first + Len(onTheWay) = Put(k)
        /\ \A n \in 1 .. Len(onTheWay) : onTheWay[n] = ByteAt(first + n - 1)

(* broadcast is blocking: the fastest consumer is never more than a buffer *)
(* and one message ahead of the slowest, be that one alive or not.         *)
InStep ==
  ppc = "send" =>
    \A j, k \in 1 .. Len(client_fds) :
      Taken(client_fds[j]) <= Taken(client_fds[k]) + BUF_BYTES + MSG_BYTES

(* What the consumers get: every message of the benchmark, in order and    *)
(* once, up to the last, unless the producer fails; the closing of the     *)
(* connections behind the last message (main_producer.cpp, 183-184) cuts   *)
(* nobody off.                                                             *)
Benchmark(m) == IF m < UDS_N_WARMUP THEN 0 ELSE m - UDS_N_WARMUP

Stage(c) ==
  CASE cpc[c] = "killed" -> "dead"
    [] cpc[c] = "finished" -> IF seen[c] = Total THEN "complete" ELSE "cut"
    [] OTHER -> "receiving"

Streams == INSTANCE Broadcast WITH
  Lossy <- FALSE, LateStart <- FALSE,
  published <- Benchmark(IF at > 1 \/ sent > 0 THEN i ELSE i - 1),
  aborted <- ppc = "failed",
  last <- [c \in Consumers |-> Benchmark(seen[c])],
  outcome <- [c \in Consumers |-> Stage(c)]

ImplementsBroadcast == Streams!Spec

(* What leaves somebody waiting: a consumer that is killed before it has   *)
(* connected, and a producer that fails before it has accepted everybody.  *)
Trouble ==
  \/ \E c \in Consumers :
       cpc[c] = "killed" /\ ~Contains(backlog, c) /\ ~Contains(client_fds, c)
  \/ ppc = "failed" /\ Len(client_fds) < Cardinality(Consumers)

(* Nothing else does: the death of a connected consumer hangs neither the  *)
(* producer nor the other consumers, everybody comes to an end.            *)
EverybodyEnds ==
  \/ <>Trouble
  \/ <>ProducerGone /\ \A c \in Consumers : <>Closed(c)

=============================================================================
