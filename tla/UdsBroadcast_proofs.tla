------------------------ MODULE UdsBroadcast_proofs ------------------------
(***************************************************************************)
(* Proofs about the unix domain socket benchmark, for any consumers, any   *)
(* sizes of message and buffer and any number of messages: however the     *)
(* system cuts sends and receives, and whoever is killed.                  *)
(***************************************************************************)
EXTENDS UdsBroadcast, FiniteSetTheorems, TLAPS

Members(s) == {s[k] : k \in 1 .. Len(s)}

Distinct(s) == \A j, k \in 1 .. Len(s) : s[j] = s[k] => j = k

Connected == Members(client_fds)

(* The bytes s are those of the stream from position p on.                 *)
Intact(s, p) == \A n \in 1 .. Len(s) : s[n] = ByteAt(p + n - 1)

SeqsType ==
  /\ backlog \in Seq(Consumers) /\ client_fds \in Seq(Consumers)
  /\ buf \in [Consumers -> Seq(Bytes)] /\ msg \in [Consumers -> Seq(Bytes)]

(* Where the producer is tells what it has accepted and sent.              *)
ProducerInv ==
  /\ at <= Len(client_fds) + 1
  /\ at > Len(client_fds) => sent = 0
  /\ Len(client_fds) <= Cardinality(Consumers)
  /\ ppc \in {"socket", "accept"} =>
       /\ i = 1 /\ at = 1 /\ sent = 0
       /\ Len(client_fds) < Cardinality(Consumers) \/ Consumers = {}
  /\ ppc \in {"send", "done"} => Len(client_fds) = Cardinality(Consumers)
  /\ ppc = "send" => i <= Total
  /\ ppc = "done" => i = Total + 1 /\ at = 1 /\ sent = 0

(* A consumer has one connection, accepted or not, or none.                *)
ConnectionsInv ==
  /\ Distinct(client_fds) /\ Distinct(backlog)
  /\ Members(backlog) \cap Connected = {}
  /\ \A c \in Connected \cup Members(backlog) : cpc[c] # "connect"
  /\ Cardinality(Connected) = Len(client_fds)

ConsumerInv(c) ==
  /\ c \notin Connected => seen[c] = 0 /\ msg[c] = <<>> /\ buf[c] = <<>>
  /\ Len(buf[c]) <= BUF_BYTES
  /\ Intact(msg[c], seen[c] * MSG_BYTES) /\ Intact(buf[c], Taken(c))
  /\ n_recv[c] = Benchmark(seen[c])
  /\ cpc[c] \in {"connect", "recv"} => seen[c] < Total

(* What is put into a connection has been taken out or is in its buffer.   *)
PlaceInv(k) ==
  Taken(client_fds[k]) + Len(buf[client_fds[k]]) = Put(k)

UdsInv ==
  /\ TypeOK /\ SeqsType /\ ProducerInv /\ ConnectionsInv
  /\ \A c \in Consumers : ConsumerInv(c)
  /\ \A k \in 1 .. Len(client_fds) : PlaceInv(k)

-----------------------------------------------------------------------------
(* Sequences, and the bytes of the stream.                                 *)

LEMMA MembersAppend ==
  ASSUME NEW S, NEW s \in Seq(S), NEW x \in S
  PROVE  /\ Append(s, x) \in Seq(S) /\ Len(Append(s, x)) = Len(s) + 1
         /\ \A k \in 1 .. Len(s) : Append(s, x)[k] = s[k]
         /\ Append(s, x)[Len(s) + 1] = x
         /\ Members(Append(s, x)) = Members(s) \cup {x}
         /\ Distinct(s) /\ x \notin Members(s) => Distinct(Append(s, x))
<1>1. /\ Append(s, x) \in Seq(S) /\ Len(Append(s, x)) = Len(s) + 1 /\ Len(s) \in Nat
      /\ \A k \in 1 .. Len(s) : Append(s, x)[k] = s[k]
      /\ Append(s, x)[Len(s) + 1] = x
  OBVIOUS
<1>2. Members(Append(s, x)) = Members(s) \cup {x}
  BY <1>1 DEF Members
<1>3. Distinct(s) /\ x \notin Members(s) => Distinct(Append(s, x))
  BY <1>1 DEF Members, Distinct
<1> QED
  BY <1>1, <1>2, <1>3

LEMMA MembersTail ==
  ASSUME NEW S, NEW s \in Seq(S), s # <<>>
  PROVE  /\ Head(s) \in S /\ Tail(s) \in Seq(S)
         /\ Members(s) = {Head(s)} \cup Members(Tail(s))
         /\ Distinct(s) => Distinct(Tail(s)) /\ Head(s) \notin Members(Tail(s))
<1>1. /\ Len(s) \in Nat /\ Len(s) > 0 /\ Head(s) = s[1] /\ s[1] \in S
      /\ Tail(s) \in Seq(S) /\ Len(Tail(s)) = Len(s) - 1
      /\ \A k \in 1 .. Len(s) - 1 : Tail(s)[k] = s[k + 1]
  OBVIOUS
<1>2. ASSUME NEW x \in Members(s) PROVE x \in {Head(s)} \cup Members(Tail(s))
  <2>1. PICK k \in 1 .. Len(s) : x = s[k]
    BY DEF Members
  <2>2. CASE k = 1
    BY <1>1, <2>1, <2>2
  <2>3. CASE k > 1
    <3>1. k - 1 \in 1 .. Len(Tail(s)) /\ Tail(s)[k - 1] = x
      BY <1>1, <2>1, <2>3
    <3> QED
      BY <3>1 DEF Members
  <2> QED
    BY <2>2, <2>3
<1>3. ASSUME NEW x \in Members(Tail(s)) PROVE x \in Members(s)
  <2>1. PICK k \in 1 .. Len(Tail(s)) : x = Tail(s)[k]
    BY DEF Members
  <2>2. k + 1 \in 1 .. Len(s) /\ s[k + 1] = x
    BY <1>1, <2>1
  <2> QED
    BY <2>2 DEF Members
<1>4. Head(s) \in Members(s)
  BY <1>1 DEF Members
<1>5. ASSUME Distinct(s) PROVE Distinct(Tail(s)) /\ Head(s) \notin Members(Tail(s))
  <2>1. Distinct(Tail(s))
    BY <1>1, <1>5 DEF Distinct
  <2>2. ASSUME NEW k \in 1 .. Len(s) - 1 PROVE s[1] # s[k + 1]
    <3>1. k + 1 \in 1 .. Len(s) /\ k + 1 # 1 /\ 1 \in 1 .. Len(s)
      BY <1>1
    <3> QED
      BY <1>5, <3>1 DEF Distinct
  <2> QED
    BY <1>1, <2>1, <2>2 DEF Members
<1> QED
  BY <1>1, <1>2, <1>3, <1>4, <1>5

(* Byte r + 1 of message s + 1 is at position s * MSG_BYTES + r.           *)
LEMMA ByteOf ==
  ASSUME NEW s \in Nat, NEW r \in 0 .. MSG_BYTES - 1
  PROVE  ByteAt(s * MSG_BYTES + r) = <<s + 1, r + 1>>
<1> DEFINE x == s * MSG_BYTES + r
           q == x \div MSG_BYTES
           m == x % MSG_BYTES
<1>1. MSG_BYTES \in Nat /\ MSG_BYTES > 0 /\ s * MSG_BYTES \in Nat
  BY UdsAssumption
<1>2. x \in Nat
  BY <1>1
<1> HIDE DEF x
<1>3. q \in Int /\ m \in 0 .. MSG_BYTES - 1 /\ x = MSG_BYTES * q + m
  BY <1>1, <1>2
<1> HIDE DEF q, m
<1>4. MSG_BYTES * q \in Int
  BY <1>1, <1>3
<1>5. q = s
  <2>1. CASE q < s
    <3>1. MSG_BYTES * (s - q - 1) >= 0
      BY <1>1, <1>3, <2>1
    <3>2. MSG_BYTES * (s - q - 1) = s * MSG_BYTES - MSG_BYTES * q - MSG_BYTES
      BY <1>1, <1>3
    <3> QED
      BY <1>1, <1>3, <1>4, <3>1, <3>2 DEF x
  <2>2. CASE s < q
    <3>1. MSG_BYTES * (q - s - 1) >= 0
      BY <1>1, <1>3, <2>2
    <3>2. MSG_BYTES * (q - s - 1) = MSG_BYTES * q - s * MSG_BYTES - MSG_BYTES
      BY <1>1, <1>3
    <3> QED
      BY <1>1, <1>3, <1>4, <3>1, <3>2 DEF x
  <2> QED
    BY <1>3, <2>1, <2>2
<1>6. m = r
  <2>1. s * MSG_BYTES = MSG_BYTES * q
    BY <1>1, <1>5
  <2> QED
    BY <1>1, <1>3, <2>1 DEF x
<1> QED
  BY <1>5, <1>6 DEF ByteAt, q, m, x

LEMMA IntactConcat ==
  ASSUME NEW s \in Seq(Bytes), NEW t \in Seq(Bytes), NEW p \in Nat,
         Intact(s, p), Intact(t, p + Len(s))
  PROVE  /\ s \o t \in Seq(Bytes) /\ Len(s \o t) = Len(s) + Len(t)
         /\ Intact(s \o t, p)
<1>1. /\ Len(s) \in Nat /\ Len(t) \in Nat
      /\ s \o t \in Seq(Bytes) /\ Len(s \o t) = Len(s) + Len(t)
      /\ \A n \in 1 .. Len(s) + Len(t) :
           (s \o t)[n] = IF n <= Len(s) THEN s[n] ELSE t[n - Len(s)]
  OBVIOUS
<1>2. ASSUME NEW n \in 1 .. Len(s) + Len(t) PROVE (s \o t)[n] = ByteAt(p + n - 1)
  <2>1. CASE n <= Len(s)
    BY <1>1, <2>1 DEF Intact
  <2>2. CASE n > Len(s)
    <3>1. n - Len(s) \in 1 .. Len(t) /\ (p + Len(s)) + (n - Len(s)) - 1 = p + n - 1
      BY <1>1, <2>2
    <3>2. t[n - Len(s)] = ByteAt((p + Len(s)) + (n - Len(s)) - 1)
      BY <3>1 DEF Intact
    <3>3. (s \o t)[n] = t[n - Len(s)]
      BY <1>1, <2>2
    <3> QED
      BY <3>1, <3>2, <3>3
  <2> QED
    BY <1>1, <2>1, <2>2
<1> QED
  BY <1>1, <1>2 DEF Intact

LEMMA IntactSplit ==
  ASSUME NEW s \in Seq(Bytes), NEW p \in Nat, Intact(s, p),
         NEW rc \in Nat, rc <= Len(s)
  PROVE  /\ SubSeq(s, 1, rc) \in Seq(Bytes) /\ Len(SubSeq(s, 1, rc)) = rc
         /\ SubSeq(s, rc + 1, Len(s)) \in Seq(Bytes)
         /\ Len(SubSeq(s, rc + 1, Len(s))) = Len(s) - rc
         /\ Intact(SubSeq(s, 1, rc), p)
         /\ Intact(SubSeq(s, rc + 1, Len(s)), p + rc)
<1>1. Len(s) \in Nat /\ \A n \in 1 .. Len(s) : s[n] \in Bytes
  OBVIOUS
<1>2. /\ SubSeq(s, 1, rc) \in Seq(Bytes) /\ Len(SubSeq(s, 1, rc)) = rc
      /\ \A n \in 1 .. rc : SubSeq(s, 1, rc)[n] = s[n]
  BY <1>1
<1>3. /\ SubSeq(s, rc + 1, Len(s)) \in Seq(Bytes)
      /\ Len(SubSeq(s, rc + 1, Len(s))) = Len(s) - rc
      /\ \A n \in 1 .. Len(s) - rc : SubSeq(s, rc + 1, Len(s))[n] = s[rc + n]
  BY <1>1
<1>4. Intact(SubSeq(s, 1, rc), p)
  BY <1>1, <1>2 DEF Intact
<1>5. ASSUME NEW n \in 1 .. Len(s) - rc
      PROVE  SubSeq(s, rc + 1, Len(s))[n] = ByteAt((p + rc) + n - 1)
  <2>1. rc + n \in 1 .. Len(s) /\ (p + rc) + n - 1 = p + (rc + n) - 1
    BY <1>1
  <2> QED
    BY <1>3, <2>1 DEF Intact
<1> QED
  BY <1>2, <1>3, <1>4, <1>5 DEF Intact

-----------------------------------------------------------------------------
(* The steps.                                                              *)

LEMMA PutIs ==
  ASSUME NEW k \in Nat, at \in Nat
  PROVE  Put(k) = (i - 1) * MSG_BYTES
                    + (IF k < at THEN MSG_BYTES ELSE IF k = at THEN sent ELSE 0)
<1>1. CASE k < at
  BY <1>1 DEF Put
<1>2. CASE k = at
  BY <1>2 DEF Put
<1>3. CASE k > at
  BY <1>3 DEF Put
<1> QED
  BY <1>1, <1>2, <1>3

LEMMA InitHolds == Init => UdsInv
<1> SUFFICES ASSUME Init PROVE UdsInv
  OBVIOUS
<1> USE UdsAssumption DEF Init, Total
<1>1. Cardinality(Consumers) \in Nat /\ (Cardinality(Consumers) = 0 <=> Consumers = {})
  BY FS_CardinalityType, FS_EmptySet
<1>2. TypeOK
  BY <1>1 DEF TypeOK
<1>3. SeqsType
  BY DEF SeqsType
<1>4. ProducerInv
  BY <1>1 DEF ProducerInv
<1>5. Connected = {} /\ Members(backlog) = {}
  BY DEF Connected, Members
<1>6. Cardinality({}) = 0
  BY FS_EmptySet
<1>7. Cardinality(Connected) = 0
  BY <1>5, <1>6, Zenon
<1>8. ConnectionsInv
  BY <1>5, <1>7 DEF ConnectionsInv, Distinct
<1>9. ASSUME NEW c \in Consumers PROVE ConsumerInv(c)
  BY DEF ConsumerInv, Intact, Benchmark
<1>10. ASSUME NEW k \in 1 .. Len(client_fds) PROVE PlaceInv(k)
  OBVIOUS
<1> QED
  BY <1>2, <1>3, <1>4, <1>8, <1>9, <1>10 DEF UdsInv

(* A consumer of whose state and connection nothing changes, but that it   *)
(* may have ended.                                                         *)
LEMMA SameConsumer ==
  ASSUME NEW c, ConsumerInv(c), Connected \subseteq Connected',
         seen'[c] = seen[c], msg'[c] = msg[c], buf'[c] = buf[c], n_recv'[c] = n_recv[c],
         cpc'[c] \in {"connect", "recv"} => cpc[c] \in {"connect", "recv"}
  PROVE  ConsumerInv(c)'
<1>1. Taken(c)' = Taken(c) /\ Benchmark(seen[c])' = Benchmark(seen[c])
  BY DEF Taken, Benchmark
<1>2. Intact(msg[c], seen[c] * MSG_BYTES)' = Intact(msg[c], seen[c] * MSG_BYTES)
  BY DEF Intact, ByteAt
<1>3. Intact(buf[c], Taken(c))' = Intact(buf[c], Taken(c))
  BY <1>1 DEF Intact, ByteAt
<1> QED
  BY <1>1, <1>2, <1>3 DEF ConsumerInv

(* Steps of the producer that neither accept nor send.                     *)
LEMMA ProducerQuiet ==
  ASSUME UdsInv, UNCHANGED <<client_fds, buf, consumerVars>>,
         backlog' = backlog \/ backlog' = <<>>,
         ppc' \in {"socket", "accept", "send", "done", "failed"},
         i' \in 1 .. Total + 1, at' \in 1 .. Cardinality(Consumers) + 1,
         sent' \in 0 .. MSG_BYTES, ProducerInv',
         \A k \in 1 .. Len(client_fds) : Put(k)' = Put(k)
  PROVE  UdsInv'
<1>1. TypeOK' /\ SeqsType'
  <2>1. TypeOK /\ SeqsType
    BY DEF UdsInv
  <2>2. \A k \in 1 .. Len(backlog') : backlog'[k] \in Consumers
    BY <2>1 DEF TypeOK
  <2>3. TypeOK'
    BY <2>1, <2>2 DEF TypeOK, consumerVars
  <2>4. <<>> \in Seq(Consumers)
    OBVIOUS
  <2>5. SeqsType'
    BY <2>1, <2>4 DEF SeqsType, consumerVars
  <2> QED
    BY <2>3, <2>5
<1>2. ConnectionsInv'
  <2>1. Connected' = Connected
    BY DEF Connected, Members
  <2>2. Members(backlog)' \subseteq Members(backlog) /\ (Distinct(backlog) => Distinct(backlog)')
    BY DEF Members, Distinct
  <2> QED
    BY <2>1, <2>2 DEF UdsInv, ConnectionsInv, consumerVars, Distinct
<1>3. ASSUME NEW c \in Consumers PROVE ConsumerInv(c)'
  <2>1. Connected' = Connected
    BY DEF Connected, Members
  <2> QED
    BY <2>1, SameConsumer DEF UdsInv, consumerVars
<1>4. ASSUME NEW k \in 1 .. Len(client_fds) PROVE PlaceInv(k)'
  BY DEF UdsInv, PlaceInv, Taken, consumerVars
<1> QED
  BY <1>1, <1>2, <1>3, <1>4 DEF UdsInv

LEMMA ProducerTypes ==
  UdsInv => /\ i \in 1 .. Total + 1 /\ at \in Nat \ {0} /\ sent \in 0 .. MSG_BYTES
            /\ Len(client_fds) \in Nat /\ Cardinality(Consumers) \in Nat
            /\ MSG_BYTES \in Nat \ {0} /\ Total \in Nat /\ (i - 1) * MSG_BYTES \in Nat
            /\ at \in 1 .. Cardinality(Consumers) + 1
<1> SUFFICES ASSUME UdsInv
             PROVE  /\ i \in 1 .. Total + 1 /\ at \in Nat \ {0} /\ sent \in 0 .. MSG_BYTES
                    /\ Len(client_fds) \in Nat /\ Cardinality(Consumers) \in Nat
                    /\ MSG_BYTES \in Nat \ {0} /\ Total \in Nat /\ (i - 1) * MSG_BYTES \in Nat
                    /\ at \in 1 .. Cardinality(Consumers) + 1
  OBVIOUS
<1>1. Cardinality(Consumers) \in Nat
  BY UdsAssumption, FS_CardinalityType
<1>2. /\ i \in 1 .. Total + 1 /\ at \in 1 .. Cardinality(Consumers) + 1
      /\ sent \in 0 .. MSG_BYTES /\ Len(client_fds) \in Nat
  BY DEF UdsInv, TypeOK, SeqsType
<1>3. MSG_BYTES \in Nat \ {0} /\ Total \in Nat
  BY UdsAssumption DEF Total
<1>4. i - 1 \in Nat
  BY <1>2, <1>3
<1>5. (i - 1) * MSG_BYTES \in Nat
  BY <1>3, <1>4
<1> QED
  BY <1>1, <1>2, <1>3, <1>5

LEMMA QuietSteps ==
  ASSUME UdsInv, UNCHANGED consumerVars,
         Listen \/ SetupFails \/ SentAll \/ SendError \/ NextMessage
  PROVE  UdsInv'
<1> DEFINE L == Len(client_fds)
<1>1. /\ i \in 1 .. Total + 1 /\ at \in Nat \ {0} /\ sent \in 0 .. MSG_BYTES
      /\ L \in Nat /\ Cardinality(Consumers) \in Nat /\ MSG_BYTES \in Nat \ {0}
      /\ Total \in Nat /\ at \in 1 .. Cardinality(Consumers) + 1
      /\ (i - 1) * MSG_BYTES \in Nat
  BY ProducerTypes
<1>2. ProducerInv
  BY DEF UdsInv
<1>3. CASE Listen \/ SetupFails \/ SendError
  <2>1. /\ UNCHANGED <<client_fds, i, at, sent, buf>> /\ backlog' \in {backlog, <<>>}
        /\ ppc' \in {"accept", "failed"} /\ (ppc' = "accept" => ppc = "socket")
    BY <1>3 DEF Listen, SetupFails, SendError, Throw
  <2>2. ProducerInv'
    BY <1>2, <2>1 DEF ProducerInv
  <2>3. ASSUME NEW k \in 1 .. L PROVE Put(k)' = Put(k)
    BY <2>1 DEF Put
  <2> QED
    BY <1>1, <2>1, <2>2, <2>3, ProducerQuiet
<1>4. CASE SentAll
  <2>1. /\ UNCHANGED <<ppc, backlog, client_fds, i, buf>> /\ ppc = "send"
        /\ at <= L /\ sent = MSG_BYTES /\ at' = at + 1 /\ sent' = 0
    BY <1>4 DEF SentAll
  <2>2. ProducerInv'
    BY <1>1, <1>2, <2>1 DEF ProducerInv
  <2>3. ASSUME NEW k \in 1 .. L PROVE Put(k)' = Put(k)
    <3>1. Put(k) = (i - 1) * MSG_BYTES + (IF k <= at THEN MSG_BYTES ELSE 0)
      <4>1. k \in Nat /\ at \in Nat
        BY <1>1
      <4>2. Put(k) = (i - 1) * MSG_BYTES
                       + (IF k < at THEN MSG_BYTES ELSE IF k = at THEN sent ELSE 0)
        BY <4>1, PutIs
      <4> QED
        BY <2>1, <4>1, <4>2
    <3>2. CASE k < at'
      BY <1>1, <2>1, <3>1, <3>2 DEF Put
    <3>3. CASE k = at'
      BY <1>1, <2>1, <3>1, <3>3 DEF Put
    <3>4. CASE k > at'
      BY <1>1, <2>1, <3>1, <3>4, SMTT(30) DEF Put
    <3> QED
      BY <1>1, <2>1, <3>2, <3>3, <3>4
  <2>4. at' \in 1 .. Cardinality(Consumers) + 1 /\ sent' \in 0 .. MSG_BYTES
    BY <1>1, <1>2, <2>1 DEF ProducerInv
  <2>5. ppc' \in {"socket", "accept", "send", "done", "failed"} /\ i' \in 1 .. Total + 1
    BY <1>1, <2>1
  <2> QED
    BY <2>1, <2>2, <2>3, <2>4, <2>5, ProducerQuiet
<1>5. CASE NextMessage
  <2>1. /\ UNCHANGED <<backlog, client_fds, sent, buf>> /\ ppc = "send"
        /\ at > L /\ i' = i + 1 /\ at' = 1 /\ sent = 0 /\ sent' = 0 /\ i <= Total
        /\ ppc' = IF i = Total THEN "done" ELSE "send"
    BY <1>2, <1>5 DEF NextMessage, LastOne, ProducerInv
  <2>2. ProducerInv'
    BY <1>1, <1>2, <2>1 DEF ProducerInv
  <2>3. ASSUME NEW k \in 1 .. L PROVE Put(k)' = Put(k)
    <3>1. k < at /\ k \in Nat /\ k >= 1
      BY <1>1, <2>1
    <3>2. Put(k) = (i - 1) * MSG_BYTES + MSG_BYTES
      BY <1>1, <3>1, PutIs
    <3>3. Put(k)' = (i' - 1) * MSG_BYTES + 0
      BY <2>1, <3>1 DEF Put
    <3>4. (i' - 1) * MSG_BYTES = (i - 1) * MSG_BYTES + MSG_BYTES
      BY <1>1, <2>1
    <3> QED
      BY <1>1, <3>2, <3>3, <3>4
  <2>4. i' \in 1 .. Total + 1 /\ at' \in 1 .. Cardinality(Consumers) + 1 /\ sent' \in 0 .. MSG_BYTES
    BY <1>1, <2>1
  <2> QED
    BY <2>1, <2>2, <2>3, <2>4, ProducerQuiet
<1> QED
  BY <1>3, <1>4, <1>5

(* The connection at the head of the backlog is accepted: nothing has been *)
(* sent over it.                                                           *)
LEMMA AcceptKeeps ==
  ASSUME UdsInv, UNCHANGED consumerVars, Accept
  PROVE  UdsInv'
<1>1. PICK c : c = Head(backlog)
  OBVIOUS
<1>2. PICK L : L = Len(client_fds)
  OBVIOUS
<1>3. /\ ppc = "accept" /\ backlog # <<>> /\ client_fds' = Append(client_fds, c)
      /\ backlog' = Tail(backlog)
      /\ ppc' = IF Len(client_fds') = Cardinality(Consumers) THEN "send" ELSE "accept"
      /\ UNCHANGED <<i, at, sent, buf, cpc, msg, n_recv, s2, seen>>
      /\ TypeOK /\ SeqsType /\ ProducerInv /\ ConnectionsInv
  BY <1>1 DEF Accept, consumerVars, UdsInv
<1>4. /\ L \in Nat /\ Cardinality(Consumers) \in Nat /\ Total \in Nat /\ Total > 0
      /\ i = 1 /\ at = 1 /\ sent = 0 /\ MSG_BYTES \in Nat
  BY <1>2, <1>3, ProducerTypes, UdsAssumption DEF ProducerInv, Total
<1>5. /\ c \in Consumers /\ Tail(backlog) \in Seq(Consumers)
      /\ Members(backlog) = {c} \cup Members(Tail(backlog))
      /\ Distinct(Tail(backlog)) /\ c \notin Members(Tail(backlog))
  BY <1>1, <1>3, MembersTail DEF SeqsType, ConnectionsInv
<1>6. c \notin Connected
  BY <1>3, <1>5 DEF ConnectionsInv
<1>7. /\ client_fds' \in Seq(Consumers) /\ Len(client_fds') = L + 1
      /\ \A k \in 1 .. L : client_fds'[k] = client_fds[k]
      /\ client_fds'[L + 1] = c
      /\ Members(client_fds') = Connected \cup {c}
      /\ Distinct(client_fds')
  BY <1>2, <1>3, <1>5, <1>6, MembersAppend, SMTT(30) DEF SeqsType, ConnectionsInv, Connected
<1>8. Connected' = Connected \cup {c}
  BY <1>7 DEF Connected, Members
<1>9. /\ IsFiniteSet(Connected) /\ Cardinality(Connected \cup {c}) = L + 1
  <2>1. Connected \subseteq Consumers
    BY <1>3 DEF Connected, Members, SeqsType
  <2>2. IsFiniteSet(Connected)
    BY <2>1, UdsAssumption, FS_Subset
  <2>3. Cardinality(Connected \cup {c}) = Cardinality(Connected) + 1
    BY <1>6, <2>2, FS_AddElement
  <2> QED
    BY <1>2, <1>3, <2>2, <2>3, Zenon DEF ConnectionsInv
<1>10. Consumers # {}
  BY <1>5
<1>11. TypeOK'
  <2>1. \A k \in 1 .. Len(backlog') : backlog'[k] \in Consumers
    BY <1>3, <1>5
  <2>2. \A k \in 1 .. Len(client_fds') : client_fds'[k] \in Consumers
    BY <1>7
  <2> QED
    BY <1>3, <2>1, <2>2 DEF TypeOK
<1>12. SeqsType'
  BY <1>3, <1>5, <1>7 DEF SeqsType
<1>13. ProducerInv'
  BY <1>2, <1>3, <1>4, <1>7, <1>10 DEF ProducerInv
<1>14. ConnectionsInv'
  <2>1. Cardinality(Connected') = Len(client_fds')
    BY <1>7, <1>8, <1>9, Zenon
  <2>2. /\ Distinct(client_fds') /\ Distinct(backlog')
        /\ Members(backlog') \cap Connected' = {}
    BY <1>3, <1>5, <1>7, <1>8 DEF ConnectionsInv
  <2>3. \A d \in Connected' \cup Members(backlog') : cpc'[d] # "connect"
    BY <1>3, <1>5, <1>8 DEF ConnectionsInv
  <2> QED
    BY <2>1, <2>2, <2>3 DEF ConnectionsInv, Distinct, Members
<1>15. ASSUME NEW d \in Consumers PROVE ConsumerInv(d)'
  BY <1>3, <1>8, SameConsumer DEF UdsInv
<1>16. ASSUME NEW k \in 1 .. L + 1 PROVE PlaceInv(k)'
  <2>1. CASE k <= L
    <3>1. Put(k)' = Put(k) /\ PlaceInv(k) /\ client_fds'[k] = client_fds[k]
      BY <1>2, <1>3, <1>4, <1>7, <2>1 DEF Put, UdsInv
    <3> QED
      BY <1>3, <3>1 DEF PlaceInv, Taken
  <2>2. CASE k = L + 1
    <3>1. seen[c] = 0 /\ msg[c] = <<>> /\ buf[c] = <<>>
      BY <1>5, <1>6 DEF UdsInv, ConsumerInv
    <3>2. client_fds'[k] = c
      BY <1>7, <2>2
    <3>3. Put(k)' = 0
      <4>1. CASE k = 1
        BY <1>3, <1>4, <4>1 DEF Put
      <4>2. CASE k > 1
        BY <1>3, <1>4, <4>2 DEF Put
      <4> QED
        BY <1>4, <4>1, <4>2
    <3> QED
      BY <1>3, <1>4, <3>1, <3>2, <3>3 DEF PlaceInv, Taken
  <2> QED
    BY <1>4, <2>1, <2>2
<1> QED
  BY <1>7, <1>11, <1>12, <1>13, <1>14, <1>15, <1>16 DEF UdsInv

(* The next bytes of the message go into the connection whose turn it is.  *)
LEMMA SendKeeps ==
  ASSUME UdsInv, UNCHANGED consumerVars, Send
  PROVE  UdsInv'
<1>1. PICK c : c = client_fds[at]
  OBVIOUS
<1>2. PICK rc \in 1 .. MSG_BYTES - sent :
        /\ Len(buf[c]) + rc <= BUF_BYTES
        /\ buf' = [buf EXCEPT ![c] = buf[c] \o NextBytes(rc)]
        /\ sent' = sent + rc
  BY <1>1 DEF Send
<1>3. /\ ppc = "send" /\ at <= Len(client_fds)
      /\ UNCHANGED <<ppc, backlog, client_fds, i, at, cpc, msg, n_recv, s2, seen>>
      /\ TypeOK /\ SeqsType /\ ProducerInv /\ ConnectionsInv
  BY DEF Send, consumerVars, UdsInv
<1>4. /\ i \in 1 .. Total /\ at \in Nat \ {0} /\ sent \in 0 .. MSG_BYTES
      /\ Len(client_fds) \in Nat /\ Cardinality(Consumers) \in Nat
      /\ MSG_BYTES \in Nat \ {0} /\ Total \in Nat /\ (i - 1) * MSG_BYTES \in Nat
  BY <1>3, ProducerTypes DEF ProducerInv
<1>5. c \in Consumers /\ c \in Connected /\ at \in 1 .. Len(client_fds)
  BY <1>1, <1>3, <1>4 DEF TypeOK, Connected, Members
<1>6. /\ buf[c] \in Seq(Bytes) /\ msg[c] \in Seq(Bytes) /\ seen[c] \in Nat
      /\ Len(buf[c]) \in Nat /\ Len(msg[c]) \in Nat
      /\ ConsumerInv(c) /\ PlaceInv(at)
  <2>1. ConsumerInv(c) /\ PlaceInv(at)
    BY <1>5 DEF UdsInv
  <2>2. buf[c] \in Seq(Bytes) /\ msg[c] \in Seq(Bytes) /\ seen[c] \in Nat
    BY <1>3, <1>4, <1>5 DEF SeqsType, TypeOK
  <2> QED
    BY <2>1, <2>2
<1>7. rc \in Nat \ {0} /\ sent + rc <= MSG_BYTES
  BY <1>4
<1>8. NextBytes(rc) \in Seq(Bytes) /\ Len(NextBytes(rc)) = rc
  <2>1. \A k \in 1 .. rc : <<i, sent + k>> \in Bytes
    BY <1>4, <1>7 DEF Bytes
  <2> QED
    BY <1>7, <2>1 DEF NextBytes
<1>9. Taken(c) \in Nat
  <2>1. seen[c] * MSG_BYTES \in Nat
    BY <1>4, <1>6
  <2> QED
    BY <1>6, <2>1 DEF Taken
<1>10. Taken(c) + Len(buf[c]) = (i - 1) * MSG_BYTES + sent
  <2>1. at \in Nat
    BY <1>4
  <2>2. Put(at) = (i - 1) * MSG_BYTES + (IF at < at THEN MSG_BYTES ELSE IF at = at THEN sent ELSE 0)
    BY <2>1, PutIs
  <2>3. Put(at) = (i - 1) * MSG_BYTES + sent
    BY <2>1, <2>2
  <2> QED
    BY <1>1, <1>6, <2>3 DEF PlaceInv
<1>11. Intact(NextBytes(rc), Taken(c) + Len(buf[c]))
  <2> SUFFICES ASSUME NEW n \in 1 .. rc
               PROVE  NextBytes(rc)[n] = ByteAt(Taken(c) + Len(buf[c]) + n - 1)
    BY <1>8 DEF Intact
  <2>1. sent + n - 1 \in 0 .. MSG_BYTES - 1 /\ i - 1 \in Nat
    BY <1>4, <1>7
  <2>2. ByteAt((i - 1) * MSG_BYTES + (sent + n - 1)) = <<(i - 1) + 1, (sent + n - 1) + 1>>
    BY <2>1, ByteOf
  <2>3. (i - 1) * MSG_BYTES + (sent + n - 1) = Taken(c) + Len(buf[c]) + n - 1
    BY <1>4, <1>10
  <2>4. (i - 1) + 1 = i /\ (sent + n - 1) + 1 = sent + n
    BY <1>4
  <2>5. NextBytes(rc)[n] = <<i, sent + n>>
    BY DEF NextBytes
  <2> QED
    BY <2>2, <2>3, <2>4, <2>5
<1>12. PICK b : b = buf[c] \o NextBytes(rc)
  OBVIOUS
<1>13. b \in Seq(Bytes) /\ Len(b) = Len(buf[c]) + rc /\ Intact(b, Taken(c))
  <2>1. Intact(buf[c], Taken(c)) /\ buf[c] \in Seq(Bytes)
    BY <1>6 DEF ConsumerInv
  <2> QED
    BY <1>8, <1>9, <1>11, <1>12, <2>1, IntactConcat
<1>14. buf' = [buf EXCEPT ![c] = b] /\ buf'[c] = b
       /\ \A d \in Consumers \ {c} : buf'[d] = buf[d]
  BY <1>2, <1>3, <1>5, <1>12 DEF SeqsType
<1>15. SeqsType'
  BY <1>3, <1>13, <1>14 DEF SeqsType
<1>16. TypeOK'
  <2>1. \A d \in Consumers : \A k \in 1 .. Len(buf'[d]) : buf'[d][k] \in Bytes
    BY <1>3, <1>13, <1>14 DEF SeqsType
  <2>2. sent' \in 0 .. MSG_BYTES
    BY <1>2, <1>4, <1>7
  <2> QED
    BY <1>3, <2>1, <2>2 DEF TypeOK
<1>17. ProducerInv'
  BY <1>3, <1>4 DEF ProducerInv
<1>18. Connected' = Connected
  BY <1>3 DEF Connected, Members
<1>19. ConnectionsInv'
  BY <1>3, <1>18 DEF ConnectionsInv, Distinct, Members
<1>20. ASSUME NEW d \in Consumers PROVE ConsumerInv(d)'
  <2>1. CASE d = c
    <3>1. Taken(c)' = Taken(c) /\ Len(b) <= BUF_BYTES
      BY <1>2, <1>3, <1>13 DEF Taken
    <3>2. Intact(b, Taken(c))' = Intact(b, Taken(c))
      BY <3>1 DEF Intact, ByteAt
    <3>3. Intact(msg[c], seen[c] * MSG_BYTES)' = Intact(msg[c], seen[c] * MSG_BYTES)
      BY <1>3 DEF Intact, ByteAt
    <3> QED
      BY <1>3, <1>5, <1>6, <1>13, <1>14, <1>18, <2>1, <3>1, <3>2, <3>3, SMTT(30)
      DEF ConsumerInv, Benchmark, Intact
  <2>2. CASE d # c
    BY <1>3, <1>14, <1>18, <2>2, SameConsumer DEF UdsInv
  <2> QED
    BY <2>1, <2>2
<1>21. ASSUME NEW k \in 1 .. Len(client_fds) PROVE PlaceInv(k)'
  <2>1. CASE k = at
    <3>1. Put(k)' = (i - 1) * MSG_BYTES + sent'
      BY <1>3, <2>1 DEF Put
    <3>2. Taken(c)' = Taken(c)
      BY <1>3 DEF Taken
    <3>3. Taken(c) + Len(b) = (i - 1) * MSG_BYTES + (sent + rc)
      <4>1. Len(b) = Len(buf[c]) + rc /\ Len(buf[c]) \in Nat
        BY <1>6, <1>13
      <4>2. PICK p \in Nat : p = (i - 1) * MSG_BYTES
        BY <1>4
      <4>3. Taken(c) + Len(buf[c]) = p + sent /\ sent \in Nat
        BY <1>4, <1>10, <4>2
      <4>4. Taken(c) + Len(b) = p + (sent + rc)
        BY <1>7, <1>9, <4>1, <4>3
      <4> QED
        BY <4>2, <4>4, Zenon
    <3> QED
      BY <1>1, <1>2, <1>3, <1>14, <2>1, <3>1, <3>2, <3>3 DEF PlaceInv
  <2>2. CASE k # at
    <3>1. client_fds[k] # c /\ client_fds[k] \in Consumers
      BY <1>1, <1>3, <1>5, <2>2 DEF ConnectionsInv, Distinct, TypeOK
    <3>2. Put(k)' = Put(k)
      <4>1. CASE k < at
        BY <1>3, <4>1 DEF Put
      <4>2. CASE k > at
        BY <1>3, <4>2 DEF Put
      <4> QED
        BY <1>4, <2>2, <4>1, <4>2
    <3>3. PlaceInv(k)
      BY DEF UdsInv
    <3> QED
      BY <1>3, <1>14, <3>1, <3>2, <3>3 DEF PlaceInv, Taken
  <2> QED
    BY <2>1, <2>2
<1> QED
  BY <1>3, <1>15, <1>16, <1>17, <1>19, <1>20, <1>21 DEF UdsInv

LEMMA ConsumerTypes ==
  ASSUME UdsInv, NEW c \in Consumers
  PROVE  /\ buf[c] \in Seq(Bytes) /\ msg[c] \in Seq(Bytes)
         /\ Len(buf[c]) \in Nat /\ Len(msg[c]) \in Nat /\ Len(msg[c]) < MSG_BYTES
         /\ seen[c] \in 0 .. Total /\ n_recv[c] \in 0 .. N_MESSAGES
         /\ seen[c] * MSG_BYTES \in Nat /\ Taken(c) \in Nat
         /\ MSG_BYTES \in Nat \ {0} /\ Total \in Nat
         /\ UDS_N_WARMUP \in Nat /\ N_MESSAGES \in Nat \ {0}
         /\ Total = UDS_N_WARMUP + N_MESSAGES
<1>1. /\ MSG_BYTES \in Nat \ {0} /\ Total \in Nat
      /\ UDS_N_WARMUP \in Nat /\ N_MESSAGES \in Nat \ {0}
      /\ Total = UDS_N_WARMUP + N_MESSAGES
  BY UdsAssumption DEF Total
<1>2. buf[c] \in Seq(Bytes) /\ msg[c] \in Seq(Bytes)
  BY DEF UdsInv, SeqsType
<1>3. /\ Len(msg[c]) < MSG_BYTES /\ seen[c] \in 0 .. Total /\ n_recv[c] \in 0 .. N_MESSAGES
  BY DEF UdsInv, TypeOK
<1>4. seen[c] * MSG_BYTES \in Nat
  BY <1>1, <1>3
<1>5. Taken(c) \in Nat
  BY <1>2, <1>4 DEF Taken
<1> QED
  BY <1>1, <1>2, <1>3, <1>4, <1>5

(* What recv_exact has got so far, and what is left in the buffer, when one*)
(* recv returns rc bytes; got is the whole message behind the last one if  *)
(* it is complete.                                                         *)
LEMMA Received ==
  ASSUME UdsInv, NEW c \in Consumers, NEW rc \in 1 .. MSG_BYTES - Len(msg[c]),
         rc <= Len(buf[c]),
         NEW got, got = msg[c] \o SubSeq(buf[c], 1, rc),
         NEW rest, rest = SubSeq(buf[c], rc + 1, Len(buf[c]))
  PROVE  /\ got \in Seq(Bytes) /\ Len(got) = Len(msg[c]) + rc /\ Len(got) <= MSG_BYTES
         /\ rest \in Seq(Bytes) /\ Len(rest) = Len(buf[c]) - rc
         /\ Intact(got, seen[c] * MSG_BYTES) /\ Intact(rest, Taken(c) + rc)
         /\ Len(got) = MSG_BYTES =>
              /\ got[1][1] = seen[c] + 1 /\ seen[c] + 1 <= Total
              /\ (seen[c] + 1) * MSG_BYTES = Taken(c) + rc
<1>1. /\ buf[c] \in Seq(Bytes) /\ msg[c] \in Seq(Bytes)
      /\ Len(buf[c]) \in Nat /\ Len(msg[c]) \in Nat
      /\ seen[c] \in 0 .. Total /\ seen[c] * MSG_BYTES \in Nat /\ Taken(c) \in Nat
      /\ MSG_BYTES \in Nat \ {0} /\ Total \in Nat
  BY ConsumerTypes
<1>2. Intact(msg[c], seen[c] * MSG_BYTES) /\ Intact(buf[c], Taken(c))
  BY DEF UdsInv, ConsumerInv
<1>3. rc \in Nat \ {0} /\ Len(msg[c]) + rc <= MSG_BYTES
  BY <1>1
<1>4. PICK front : front = SubSeq(buf[c], 1, rc)
  OBVIOUS
<1>5. /\ front \in Seq(Bytes) /\ Len(front) = rc /\ Intact(front, Taken(c))
      /\ rest \in Seq(Bytes) /\ Len(rest) = Len(buf[c]) - rc
      /\ Intact(rest, Taken(c) + rc)
  BY <1>1, <1>2, <1>3, <1>4, IntactSplit
<1>6. Intact(front, seen[c] * MSG_BYTES + Len(msg[c]))
  BY <1>5 DEF Taken
<1>7. /\ got \in Seq(Bytes) /\ Len(got) = Len(msg[c]) + rc
      /\ Intact(got, seen[c] * MSG_BYTES)
  BY <1>1, <1>2, <1>4, <1>5, <1>6, IntactConcat
<1>8. ASSUME Len(got) = MSG_BYTES
      PROVE  /\ got[1][1] = seen[c] + 1 /\ seen[c] + 1 <= Total
             /\ (seen[c] + 1) * MSG_BYTES = Taken(c) + rc
  <2>1. 1 \in 1 .. Len(got)
    BY <1>1, <1>8
  <2>2. got[1] \in Bytes /\ got[1] = ByteAt(seen[c] * MSG_BYTES + 1 - 1)
    BY <1>7, <2>1 DEF Intact
  <2>3. ByteAt(seen[c] * MSG_BYTES + 0) = <<seen[c] + 1, 0 + 1>>
    <3>1. seen[c] \in Nat /\ 0 \in 0 .. MSG_BYTES - 1
      BY <1>1
    <3> QED
      BY <3>1, ByteOf
  <2>4. seen[c] * MSG_BYTES + 1 - 1 = seen[c] * MSG_BYTES + 0
    BY <1>1
  <2>5. got[1] = <<seen[c] + 1, 0 + 1>>
    BY <2>2, <2>3, <2>4
  <2>6. got[1][1] = seen[c] + 1 /\ seen[c] + 1 \in 1 .. Total
    BY <2>2, <2>5 DEF Bytes
  <2>7. (seen[c] + 1) * MSG_BYTES = seen[c] * MSG_BYTES + MSG_BYTES
    BY <1>1
  <2>8. Taken(c) + rc = seen[c] * MSG_BYTES + MSG_BYTES
    <3>1. PICK p \in Nat : p = seen[c] * MSG_BYTES
      BY <1>1
    <3>2. Taken(c) = p + Len(msg[c]) /\ Len(msg[c]) + rc = MSG_BYTES
      BY <1>7, <1>8, <3>1 DEF Taken
    <3>3. Len(msg[c]) \in Nat /\ rc \in Nat
      BY <1>1, <1>3
    <3>4. Taken(c) + rc = p + MSG_BYTES
      BY <3>2, <3>3
    <3> QED
      BY <3>1, <3>4, Zenon
  <2> QED
    BY <2>6, <2>7, <2>8
<1> QED
  BY <1>3, <1>5, <1>7, <1>8

LEMMA RecvKeeps ==
  ASSUME UdsInv, NEW c \in Consumers, Recv(c)
  PROVE  UdsInv'
<1>1. PICK rc \in 1 .. MSG_BYTES - Len(msg[c]) :
        /\ rc <= Len(buf[c])
        /\ LET got == msg[c] \o SubSeq(buf[c], 1, rc)
           IN  /\ buf' = [buf EXCEPT ![c] = SubSeq(buf[c], rc + 1, Len(buf[c]))]
               /\ IF Len(got) < MSG_BYTES
                  THEN /\ msg' = [msg EXCEPT ![c] = got]
                       /\ UNCHANGED <<cpc, n_recv, s2, seen>>
                  ELSE /\ msg' = [msg EXCEPT ![c] = <<>>]
                       /\ seen' = [seen EXCEPT ![c] = got[1][1]]
                       /\ Count(c, got[1][1])
  BY DEF Recv
<1>2. PICK got, rest : /\ got = msg[c] \o SubSeq(buf[c], 1, rc)
                       /\ rest = SubSeq(buf[c], rc + 1, Len(buf[c]))
  OBVIOUS
<1>3. /\ cpc[c] = "recv" /\ buf' = [buf EXCEPT ![c] = rest]
      /\ UNCHANGED <<ppc, client_fds, i, at, sent, backlog>>
      /\ TypeOK /\ SeqsType /\ ProducerInv /\ ConnectionsInv
  BY <1>1, <1>2 DEF Recv, producerVars, UdsInv
<1>4. /\ Len(buf[c]) \in Nat /\ Len(msg[c]) \in Nat /\ Len(msg[c]) < MSG_BYTES
      /\ seen[c] \in 0 .. Total /\ n_recv[c] \in 0 .. N_MESSAGES
      /\ seen[c] * MSG_BYTES \in Nat /\ Taken(c) \in Nat
      /\ MSG_BYTES \in Nat \ {0} /\ Total \in Nat
      /\ UDS_N_WARMUP \in Nat /\ N_MESSAGES \in Nat \ {0}
      /\ Total = UDS_N_WARMUP + N_MESSAGES
  BY ConsumerTypes
<1>5. /\ got \in Seq(Bytes) /\ Len(got) = Len(msg[c]) + rc /\ Len(got) <= MSG_BYTES
      /\ rest \in Seq(Bytes) /\ Len(rest) = Len(buf[c]) - rc
      /\ Intact(got, seen[c] * MSG_BYTES) /\ Intact(rest, Taken(c) + rc)
      /\ Len(got) = MSG_BYTES =>
           /\ got[1][1] = seen[c] + 1 /\ seen[c] + 1 <= Total
           /\ (seen[c] + 1) * MSG_BYTES = Taken(c) + rc
  BY <1>1, <1>2, Received, ZenonT(40)
<1>6. ConsumerInv(c) /\ c \in Connected
  <2>1. ConsumerInv(c)
    BY DEF UdsInv
  <2>2. buf[c] # <<>>
    BY <1>1
  <2> QED
    BY <2>1, <2>2 DEF ConsumerInv
<1>7. /\ buf'[c] = rest
      /\ \A d \in Consumers \ {c} :
           /\ buf'[d] = buf[d] /\ msg'[d] = msg[d] /\ seen'[d] = seen[d]
           /\ n_recv'[d] = n_recv[d] /\ cpc'[d] = cpc[d]
  <2>1. buf'[c] = rest /\ \A d \in Consumers \ {c} : buf'[d] = buf[d]
    BY <1>3 DEF SeqsType
  <2>2. CASE Len(got) < MSG_BYTES
    BY <1>1, <1>2, <1>3, <2>1, <2>2 DEF SeqsType
  <2>3. CASE ~(Len(got) < MSG_BYTES)
    <3>1. /\ msg' = [msg EXCEPT ![c] = <<>>] /\ seen' = [seen EXCEPT ![c] = got[1][1]]
          /\ Count(c, got[1][1])
      BY <1>1, <1>2, <2>3
    <3>2. CASE got[1][1] <= UDS_N_WARMUP
      BY <1>3, <2>1, <3>1, <3>2 DEF SeqsType, TypeOK, Count
    <3>3. CASE ~(got[1][1] <= UDS_N_WARMUP)
      BY <1>3, <2>1, <3>1, <3>3 DEF SeqsType, TypeOK, Count
    <3> QED
      BY <3>2, <3>3
  <2> QED
    BY <2>2, <2>3
<1>8. /\ Taken(c)' = Taken(c) + rc
      /\ n_recv'[c] = Benchmark(seen'[c])
      /\ cpc'[c] \in {"connect", "recv"} => seen'[c] < Total
      /\ cpc'[c] # "connect"
      /\ Intact(msg[c], seen[c] * MSG_BYTES)'
      /\ msg' \in [Consumers -> Seq(Bytes)] /\ Len(msg'[c]) < MSG_BYTES
      /\ seen' \in [Consumers -> 0 .. Total] /\ n_recv' \in [Consumers -> 0 .. N_MESSAGES]
      /\ s2' \in [Consumers -> BOOLEAN]
      /\ cpc' \in [Consumers -> {"connect", "recv", "finished", "killed"}]
  <2>1. CASE Len(got) < MSG_BYTES
    <3>1. msg' = [msg EXCEPT ![c] = got] /\ UNCHANGED <<cpc, n_recv, s2, seen>>
      BY <1>1, <1>2, <2>1
    <3>2. msg'[c] = got /\ seen'[c] = seen[c] /\ msg' \in [Consumers -> Seq(Bytes)]
      BY <1>3, <1>5, <3>1 DEF SeqsType
    <3>3. Taken(c)' = Taken(c) + rc
      <4>1. PICK p \in Nat : p = seen[c] * MSG_BYTES
        BY <1>4
      <4>2. Taken(c)' = p + Len(got) /\ Taken(c) = p + Len(msg[c])
        BY <3>2, <4>1 DEF Taken
      <4> QED
        BY <1>4, <1>5, <4>1, <4>2, SMTT(30)
    <3>4. Intact(msg[c], seen[c] * MSG_BYTES)'
      BY <1>5, <3>2 DEF Intact, ByteAt
    <3> QED
      BY <1>3, <1>6, <2>1, <3>1, <3>2, <3>3, <3>4 DEF ConsumerInv, TypeOK, Benchmark
  <2>2. CASE Len(got) = MSG_BYTES
    <3>1. PICK m : m = got[1][1] /\ m = seen[c] + 1
      BY <1>5, <2>2
    <3>2. /\ msg' = [msg EXCEPT ![c] = <<>>] /\ seen' = [seen EXCEPT ![c] = m]
          /\ Count(c, m)
      <4>1. ~(Len(got) < MSG_BYTES)
        BY <1>4, <2>2
      <4> QED
        BY <1>1, <1>2, <3>1, <4>1
    <3>3. /\ msg'[c] = <<>> /\ seen'[c] = m /\ msg' \in [Consumers -> Seq(Bytes)]
          /\ m \in 1 .. Total
      <4>1. m \in 1 .. Total
        <5>1. m = seen[c] + 1 /\ m <= Total
          BY <1>5, <2>2, <3>1
        <5>2. seen[c] \in Nat /\ Total \in Nat
          BY <1>4
        <5> QED
          BY <5>1, <5>2
      <4>2. <<>> \in Seq(Bytes)
        OBVIOUS
      <4> QED
        BY <1>3, <3>2, <4>1, <4>2 DEF SeqsType, TypeOK
    <3>4. Taken(c)' = Taken(c) + rc
      <4>1. Taken(c)' = m * MSG_BYTES + 0 /\ m * MSG_BYTES = Taken(c) + rc
        BY <1>5, <2>2, <3>1, <3>3 DEF Taken
      <4> QED
        BY <1>4, <4>1
    <3>5. Intact(msg[c], seen[c] * MSG_BYTES)'
      BY <3>3 DEF Intact
    <3>6. n_recv[c] = Benchmark(seen[c]) /\ seen[c] < Total
      BY <1>3, <1>6 DEF ConsumerInv
    <3>7. /\ n_recv'[c] = Benchmark(m) /\ n_recv' \in [Consumers -> 0 .. N_MESSAGES]
          /\ s2' \in [Consumers -> BOOLEAN]
          /\ cpc' \in [Consumers -> {"connect", "recv", "finished", "killed"}]
          /\ cpc'[c] \in {"recv", "finished"}
          /\ cpc'[c] = "recv" => m < Total
      <4>1. PICK l \in Nat : l = seen[c] /\ m = l + 1 /\ l < Total
        BY <1>4, <3>1, <3>6
      <4>2. /\ UDS_N_WARMUP \in Nat /\ N_MESSAGES \in Nat \ {0}
            /\ Total = UDS_N_WARMUP + N_MESSAGES
        BY <1>4
      <4>3. CASE m <= UDS_N_WARMUP
        <5>1. UNCHANGED <<cpc, n_recv, s2>>
          BY <3>2, <4>3 DEF Count
        <5>2. Benchmark(m) = 0 /\ Benchmark(seen[c]) = 0 /\ m < Total
          BY <4>3, <4>1, <4>2 DEF Benchmark
        <5> QED
          BY <1>3, <3>6, <5>1, <5>2 DEF TypeOK
      <4>4. CASE m > UDS_N_WARMUP
        <5>1. Benchmark(m) = Benchmark(seen[c]) + 1 /\ Benchmark(m) \in 0 .. N_MESSAGES
              /\ (Benchmark(m) >= N_MESSAGES => m = Total)
          BY <4>4, <4>1, <4>2 DEF Benchmark
        <5>2. /\ n_recv' = [n_recv EXCEPT ![c] = n_recv[c] + 1]
              /\ s2' = [s2 EXCEPT ![c] = (m = Total \/ n_recv[c] + 1 >= N_MESSAGES)]
              /\ cpc' = [cpc EXCEPT ![c] =
                          IF m = Total \/ n_recv[c] + 1 >= N_MESSAGES
                          THEN "finished" ELSE "recv"]
          <6>1. ~(m <= UDS_N_WARMUP)
            BY <4>4, <4>1, <4>2
          <6> QED
            BY <3>2, <6>1 DEF Count
        <5>3. m # Total => m < Total
          BY <4>1, <4>2
        <5>4. s2' \in [Consumers -> BOOLEAN]
          BY <1>3, <5>2 DEF TypeOK
        <5>5. cpc' \in [Consumers -> {"connect", "recv", "finished", "killed"}]
              /\ cpc'[c] \in {"recv", "finished"} /\ (cpc'[c] = "recv" => m < Total)
          BY <1>3, <5>2, <5>3 DEF TypeOK
        <5>6. n_recv'[c] = Benchmark(m) /\ n_recv' \in [Consumers -> 0 .. N_MESSAGES]
          BY <1>3, <3>6, <5>1, <5>2 DEF TypeOK
        <5> QED
          BY <5>4, <5>5, <5>6
      <4> QED
        BY <4>3, <4>4, <4>1, <4>2
    <3>8. seen' \in [Consumers -> 0 .. Total] /\ Len(msg'[c]) < MSG_BYTES
      <4>1. m \in 0 .. Total /\ MSG_BYTES > 0 /\ Len(<<>>) = 0
        BY <1>4, <3>3
      <4> QED
        BY <1>3, <3>2, <3>3, <4>1 DEF TypeOK
    <3> QED
      BY <3>3, <3>4, <3>5, <3>7, <3>8
  <2>3. Len(got) < MSG_BYTES \/ Len(got) = MSG_BYTES
    <3>1. Len(got) \in Nat /\ Len(got) <= MSG_BYTES /\ MSG_BYTES \in Nat
      BY <1>4, <1>5
    <3> QED
      BY <3>1
  <2> QED
    BY <2>1, <2>2, <2>3, Zenon
<1>9. SeqsType'
  BY <1>3, <1>5, <1>8 DEF SeqsType
<1>10. TypeOK'
  <2>1. ASSUME NEW d \in Consumers
        PROVE  /\ \A k \in 1 .. Len(buf'[d]) : buf'[d][k] \in Bytes
               /\ \A k \in 1 .. Len(msg'[d]) : msg'[d][k] \in Bytes
               /\ Len(msg'[d]) < MSG_BYTES
    <3>1. buf'[d] \in Seq(Bytes) /\ msg'[d] \in Seq(Bytes)
      BY <1>9 DEF SeqsType
    <3>2. Len(msg'[d]) < MSG_BYTES
      BY <1>3, <1>7, <1>8 DEF TypeOK
    <3> QED
      BY <3>1, <3>2
  <2> QED
    BY <1>3, <1>8, <2>1 DEF TypeOK
<1>11. ProducerInv'
  BY <1>3 DEF ProducerInv
<1>12. Connected' = Connected
  BY <1>3 DEF Connected, Members
<1>13. ConnectionsInv'
  <2>1. \A d \in Connected \cup Members(backlog) : cpc'[d] # "connect"
    <3>1. Connected \cup Members(backlog) \subseteq Consumers
      BY <1>3 DEF Connected, Members, SeqsType
    <3> QED
      BY <1>3, <1>7, <1>8, <3>1 DEF ConnectionsInv
  <2> QED
    BY <1>3, <1>12, <2>1 DEF ConnectionsInv, Distinct, Members
<1>14. ASSUME NEW d \in Consumers PROVE ConsumerInv(d)'
  <2>1. CASE d = c
    <3>1. Len(rest) <= BUF_BYTES
      BY <1>1, <1>4, <1>5, <1>6, UdsAssumption DEF ConsumerInv
    <3>2. Intact(buf[c], Taken(c))'
      BY <1>5, <1>7, <1>8 DEF Intact, ByteAt
    <3>3. c \in Connected' /\ Len(buf'[c]) <= BUF_BYTES
      BY <1>6, <1>7, <1>12, <3>1
    <3>4. (n_recv[c] = Benchmark(seen[c]))'
      BY <1>8 DEF Benchmark
    <3> QED
      BY <1>8, <2>1, <3>2, <3>3, <3>4 DEF ConsumerInv
  <2>2. CASE d # c
    BY <1>7, <1>12, <2>2, SameConsumer DEF UdsInv
  <2> QED
    BY <2>1, <2>2
<1>15. ASSUME NEW k \in 1 .. Len(client_fds) PROVE PlaceInv(k)'
  <2>1. Put(k)' = Put(k) /\ client_fds[k] \in Consumers /\ PlaceInv(k)
    BY <1>3 DEF Put, UdsInv, TypeOK
  <2>2. CASE client_fds[k] = c
    <3>1. Taken(c) + rc + Len(rest) = Taken(c) + Len(buf[c])
      <4>1. Len(rest) = Len(buf[c]) - rc /\ rc \in Int /\ Taken(c) \in Nat /\ Len(buf[c]) \in Nat
        BY <1>4, <1>5
      <4> QED
        BY <4>1
    <3>2. Taken(c)' + Len(buf'[c]) = Put(k)'
      BY <1>7, <1>8, <2>1, <2>2, <3>1 DEF PlaceInv
    <3> QED
      BY <1>3, <2>2, <3>2 DEF PlaceInv
  <2>3. CASE client_fds[k] # c
    BY <1>3, <1>7, <2>1, <2>3 DEF PlaceInv, Taken
  <2> QED
    BY <2>2, <2>3
<1> QED
  BY <1>3, <1>9, <1>10, <1>11, <1>13, <1>14, <1>15 DEF UdsInv

(* A consumer connects, sees the end or is killed: nothing moves.          *)
LEMMA ConsumerQuiet ==
  ASSUME UdsInv, NEW c \in Consumers,
         Connect(c) \/ EndOfFile(c) \/ RecvError(c) \/ Kill(c)
  PROVE  UdsInv'
<1>1. /\ UNCHANGED <<producerVars, buf, msg, n_recv, seen>>
      /\ UNCHANGED <<ppc, client_fds, i, at, sent>>
      /\ TypeOK /\ SeqsType /\ ProducerInv /\ ConnectionsInv
  BY DEF Connect, EndOfFile, RecvError, Kill, producerVars, UdsInv
<1>2. PICK v \in {"recv", "finished", "killed"} :
        /\ cpc' = [cpc EXCEPT ![c] = v] /\ cpc[c] \in {"connect", "recv"}
        /\ cpc'[c] = v /\ \A d \in Consumers \ {c} : cpc'[d] = cpc[d]
  BY <1>1 DEF Connect, EndOfFile, RecvError, Kill, TypeOK
<1>3. s2' \in [Consumers -> BOOLEAN]
  BY <1>1 DEF Connect, EndOfFile, RecvError, Kill, TypeOK
<1>4. Connected' = Connected /\ Connected \subseteq Consumers
  BY <1>1 DEF Connected, Members, SeqsType
<1>5. /\ backlog' \in Seq(Consumers) /\ Distinct(backlog')
      /\ Members(backlog') \cap Connected = {}
      /\ Members(backlog') \subseteq Members(backlog) \cup {c}
      /\ Members(backlog) \subseteq Consumers
  <2>1. Members(backlog) \subseteq Consumers
    BY <1>1 DEF Members, SeqsType
  <2>2. CASE backlog' = backlog
    BY <1>1, <2>1, <2>2 DEF SeqsType, ConnectionsInv
  <2>3. CASE Connect(c)
    <3>1. backlog' = Append(backlog, c) /\ c \notin Members(backlog) /\ c \notin Connected
      BY <1>1, <2>3 DEF Connect, ConnectionsInv
    <3>2. Append(backlog, c) \in Seq(Consumers) /\ Distinct(Append(backlog, c))
          /\ Members(Append(backlog, c)) = Members(backlog) \cup {c}
      BY <1>1, <3>1, MembersAppend DEF SeqsType, ConnectionsInv
    <3> QED
      BY <1>1, <2>1, <3>1, <3>2 DEF ConnectionsInv
  <2> QED
    BY <2>2, <2>3 DEF EndOfFile, RecvError, Kill
<1>6. TypeOK'
  <2>1. \A k \in 1 .. Len(backlog') : backlog'[k] \in Consumers
    BY <1>5
  <2>2. cpc' \in [Consumers -> {"connect", "recv", "finished", "killed"}]
    BY <1>1, <1>2 DEF TypeOK
  <2> QED
    BY <1>1, <1>3, <2>1, <2>2 DEF TypeOK
<1>7. SeqsType'
  BY <1>1, <1>5 DEF SeqsType
<1>8. ProducerInv'
  BY <1>1 DEF ProducerInv
<1>9. ConnectionsInv'
  <2>1. \A d \in Connected \cup Members(backlog') : cpc'[d] # "connect"
    BY <1>1, <1>2, <1>4, <1>5 DEF ConnectionsInv
  <2> QED
    BY <1>1, <1>4, <1>5, <2>1 DEF ConnectionsInv, Distinct, Members
<1>10. ASSUME NEW d \in Consumers PROVE ConsumerInv(d)'
  <2>1. cpc'[d] \in {"connect", "recv"} => cpc[d] \in {"connect", "recv"}
    BY <1>2
  <2> QED
    BY <1>1, <1>4, <2>1, SameConsumer DEF UdsInv
<1>11. ASSUME NEW k \in 1 .. Len(client_fds) PROVE PlaceInv(k)'
  BY <1>1 DEF UdsInv, PlaceInv, Taken, Put
<1> QED
  BY <1>1, <1>6, <1>7, <1>8, <1>9, <1>10, <1>11 DEF UdsInv

LEMMA StepKeeps == UdsInv /\ [Next]_vars => UdsInv'
<1> SUFFICES ASSUME UdsInv, [Next]_vars PROVE UdsInv'
  OBVIOUS
<1>1. CASE Producer
  BY <1>1, QuietSteps, AcceptKeeps, SendKeeps DEF Producer
<1>2. CASE Failure
  BY <1>2, QuietSteps DEF Failure
<1>3. ASSUME NEW c \in Consumers, Consumer(c) \/ Kill(c) PROVE UdsInv'
  BY <1>3, RecvKeeps, ConsumerQuiet DEF Consumer
<1>4. CASE UNCHANGED vars
  <2>1. UNCHANGED <<client_fds, buf, consumerVars, backlog, ppc, i, at, sent>>
    BY <1>4 DEF vars, producerVars
  <2>2. ProducerInv'
    BY <2>1 DEF UdsInv, ProducerInv
  <2>3. \A k \in 1 .. Len(client_fds) : Put(k)' = Put(k)
    BY <2>1 DEF Put
  <2> QED
    BY <2>1, <2>2, <2>3, ProducerQuiet DEF UdsInv, TypeOK
<1> QED
  BY <1>1, <1>2, <1>3, <1>4 DEF Next

-----------------------------------------------------------------------------
(* The inductive invariant.                                                *)
THEOREM UdsInvariant == Spec => []UdsInv
BY InitHolds, StepKeeps, PTL DEF Spec

(* The state keeps its type: in particular recv_exact never gets more than *)
(* a message (main_consumer.cpp, 62-78).                                   *)
THEOREM UdsTypeCorrect == Spec => []TypeOK
<1>1. UdsInv => TypeOK
  BY DEF UdsInv
<1> QED
  BY <1>1, UdsInvariant, PTL

(* Message boundaries never shift, however sends and receives are cut      *)
(* (send_all, main_producer.cpp:61-74; recv_exact, main_consumer.cpp:62-78)*)
THEOREM BoundariesNeverShift == Spec => []StreamIntact
<1>1. UdsInv => StreamIntact
  <2> SUFFICES ASSUME UdsInv, NEW k \in 1 .. Len(client_fds),
                      NEW c, c = client_fds[k]
               PROVE  /\ seen[c] * MSG_BYTES + Len(msg[c] \o buf[c]) = Put(k)
                      /\ Intact(msg[c] \o buf[c], seen[c] * MSG_BYTES)
    BY DEF StreamIntact, Intact
  <2>1. c \in Consumers /\ PlaceInv(k)
    BY DEF UdsInv, TypeOK
  <2>2. /\ buf[c] \in Seq(Bytes) /\ msg[c] \in Seq(Bytes) /\ seen[c] * MSG_BYTES \in Nat
        /\ Len(msg[c]) \in Nat /\ Len(buf[c]) \in Nat
    BY <2>1, ConsumerTypes
  <2>3. Intact(msg[c], seen[c] * MSG_BYTES) /\ Intact(buf[c], seen[c] * MSG_BYTES + Len(msg[c]))
    BY <2>1 DEF UdsInv, ConsumerInv, Taken
  <2>4. /\ Len(msg[c] \o buf[c]) = Len(msg[c]) + Len(buf[c])
        /\ Intact(msg[c] \o buf[c], seen[c] * MSG_BYTES)
    BY <2>2, <2>3, IntactConcat
  <2>5. Put(k) = (seen[c] * MSG_BYTES + Len(msg[c])) + Len(buf[c])
    BY <2>1 DEF PlaceInv, Taken
  <2>6. PICK p \in Nat, m \in Nat, b \in Nat :
          p = seen[c] * MSG_BYTES /\ m = Len(msg[c]) /\ b = Len(buf[c])
    BY <2>2
  <2>7. Put(k) = (p + m) + b /\ Len(msg[c] \o buf[c]) = m + b
    BY <2>4, <2>5, <2>6, Zenon
  <2>8. (p + m) + b = p + (m + b)
    OBVIOUS
  <2>9. Put(k) = p + Len(msg[c] \o buf[c])
    BY <2>7, <2>8, Zenon
  <2> QED
    BY <2>4, <2>6, <2>9, Zenon
<1> QED
  BY <1>1, UdsInvariant, PTL

(* The fastest consumer is never more than a buffer and a message ahead of *)
(* the slowest (broadcast, main_producer.cpp:88-92).                       *)
THEOREM FastestWaitsForSlowest == Spec => []InStep
<1>1. UdsInv => InStep
  <2> SUFFICES ASSUME UdsInv, NEW j \in 1 .. Len(client_fds), NEW k \in 1 .. Len(client_fds)
               PROVE  Taken(client_fds[j]) <= Taken(client_fds[k]) + BUF_BYTES + MSG_BYTES
    BY DEF InStep
  <2>1. PICK p \in Nat : p = (i - 1) * MSG_BYTES
    BY ProducerTypes
  <2>2. /\ at \in Nat /\ sent \in 0 .. MSG_BYTES /\ MSG_BYTES \in Nat /\ Len(client_fds) \in Nat
        /\ BUF_BYTES \in Nat
    BY ProducerTypes, UdsAssumption
  <2>3. ASSUME NEW l \in 1 .. Len(client_fds)
        PROVE  /\ Put(l) \in p .. p + MSG_BYTES
               /\ Taken(client_fds[l]) \in Nat /\ Taken(client_fds[l]) <= Put(l)
               /\ Put(l) <= Taken(client_fds[l]) + BUF_BYTES
    <3>1. Put(l) = p + (IF l < at THEN MSG_BYTES ELSE IF l = at THEN sent ELSE 0)
      BY <2>1, <2>2, PutIs
    <3>2. client_fds[l] \in Consumers /\ PlaceInv(l)
      BY DEF UdsInv, TypeOK
    <3>3. Taken(client_fds[l]) \in Nat /\ Len(buf[client_fds[l]]) \in Nat
      BY <3>2, ConsumerTypes
    <3>4. Len(buf[client_fds[l]]) <= BUF_BYTES
      BY <3>2 DEF UdsInv, ConsumerInv
    <3>5. Put(l) = Taken(client_fds[l]) + Len(buf[client_fds[l]])
      BY <3>2 DEF PlaceInv
    <3> QED
      BY <2>2, <3>1, <3>3, <3>4, <3>5
  <2>4. /\ Put(j) \in p .. p + MSG_BYTES /\ Taken(client_fds[j]) <= Put(j)
        /\ Put(k) \in p .. p + MSG_BYTES /\ Put(k) <= Taken(client_fds[k]) + BUF_BYTES
        /\ Taken(client_fds[j]) \in Nat /\ Taken(client_fds[k]) \in Nat
    BY <2>3
  <2> QED
    BY <2>2, <2>4
<1> QED
  BY <1>1, UdsInvariant, PTL

-----------------------------------------------------------------------------
(* What Broadcast sees of a run.                                           *)
Published == Benchmark(IF at > 1 \/ sent > 0 THEN i ELSE i - 1)

LastSeen == [c \in Consumers |-> Benchmark(seen[c])]

Outcome == [c \in Consumers |-> Stage(c)]

StreamVars == <<Published, ppc = "failed", LastSeen, n_recv, Outcome>>

(* Broadcast sees nothing of a step that keeps these.                      *)
LEMMA Unseen == UNCHANGED StreamVars => UNCHANGED Streams!vars
BY Zenon DEF Streams!vars, StreamVars, Published, LastSeen, Outcome

LEMMA StreamInit == Init => Streams!Init
<1> SUFFICES ASSUME Init PROVE Streams!Init
  OBVIOUS
<1> USE UdsAssumption
<1>1. Benchmark(0) = 0
  BY DEF Benchmark
<1>2. Published = 0 /\ (ppc = "failed") = FALSE
  BY <1>1 DEF Published, Init
<1>3. LastSeen = [c \in Consumers |-> 0]
  BY <1>1 DEF LastSeen, Init
<1>4. Outcome = [c \in Consumers |-> "receiving"]
  BY DEF Outcome, Stage, Init
<1> QED
  BY <1>2, <1>3, <1>4, Zenon DEF Streams!Init, Init, Published, LastSeen, Outcome

LEMMA ConsumersUnseen == UNCHANGED consumerVars => UNCHANGED <<LastSeen, n_recv, Outcome>>
BY DEF consumerVars, LastSeen, Outcome, Stage

(* A message is published with its first byte, if it is of the benchmark.  *)
LEMMA ProducerStreams ==
  ASSUME UdsInv, UNCHANGED consumerVars, ppc = "send", ppc' # "failed",
         Published' = Benchmark(i), Published \in {Benchmark(i), Benchmark(i - 1)}
  PROVE  [Streams!Next]_Streams!vars
<1>1. UNCHANGED <<LastSeen, n_recv, Outcome>>
  BY ConsumersUnseen
<1>2. /\ i \in 1 .. Total /\ UDS_N_WARMUP \in Nat /\ N_MESSAGES \in Nat
      /\ Total = UDS_N_WARMUP + N_MESSAGES
  BY ProducerTypes, UdsAssumption DEF UdsInv, ProducerInv, Total
<1>3. ~(ppc = "failed") /\ UNCHANGED (ppc = "failed")
  OBVIOUS
<1>4. CASE UNCHANGED Published
  BY <1>1, <1>3, <1>4, Unseen DEF StreamVars
<1>5. CASE Benchmark(i) # Benchmark(i - 1) /\ Published = Benchmark(i - 1)
  <2>1. Benchmark(i) = Benchmark(i - 1) + 1 /\ Benchmark(i - 1) < N_MESSAGES
    BY <1>2, <1>5 DEF Benchmark
  <2>2. Published < N_MESSAGES /\ Published' = Published + 1
    BY <1>5, <2>1
  <2>3. Streams!Publish
    BY <1>1, <1>3, <2>2, Zenon DEF Streams!Publish, Published, LastSeen, Outcome
  <2> QED
    BY <2>3 DEF Streams!Next
<1> QED
  BY <1>4, <1>5

(* The producer fails.                                                     *)
LEMMA FailureStreams ==
  ASSUME UNCHANGED consumerVars, SetupFails \/ SendError
  PROVE  Streams!Next
<1>1. UNCHANGED <<LastSeen, n_recv, Outcome>>
  BY ConsumersUnseen
<1>2. ~(ppc = "failed") /\ (ppc = "failed")' = TRUE /\ UNCHANGED Published
  BY DEF SetupFails, SendError, Throw, Published, Benchmark
<1>3. Streams!Abort
  BY <1>1, <1>2, Zenon DEF Streams!Abort, Published, LastSeen, Outcome
<1> QED
  BY <1>3 DEF Streams!Next

LEMMA ProducerStepStreams ==
  ASSUME UdsInv, Producer
  PROVE  [Streams!Next]_Streams!vars
<1>1. UNCHANGED consumerVars
  BY DEF Producer
<1>2. UNCHANGED <<LastSeen, n_recv, Outcome>>
  BY <1>1, ConsumersUnseen
<1>3. /\ i \in 1 .. Total + 1 /\ at \in Nat \ {0} /\ sent \in 0 .. MSG_BYTES
      /\ MSG_BYTES \in Nat \ {0}
  BY ProducerTypes
<1>4. CASE Listen \/ Accept
  <2>1. UNCHANGED <<Published, ppc = "failed">>
    BY <1>4 DEF Listen, Accept, Published, Benchmark
  <2> QED
    BY <1>2, <2>1, Unseen DEF StreamVars
<1>5. CASE Send
  <2>1. PICK rc \in 1 .. MSG_BYTES - sent : sent' = sent + rc
    BY <1>5 DEF Send
  <2>2. sent' > 0
    BY <1>3, <2>1
  <2>3. Published' = Benchmark(i) /\ ppc = "send" /\ ppc' = "send"
    BY <1>5, <2>2 DEF Send, Published, Benchmark
  <2> QED
    BY <1>1, <2>3, ProducerStreams DEF Published
<1>6. CASE SentAll
  <2>1. at' > 1 /\ sent > 0 /\ ppc = "send" /\ UNCHANGED <<ppc, i>>
    BY <1>3, <1>6 DEF SentAll
  <2>2. Published' = Benchmark(i) /\ Published = Benchmark(i)
    BY <2>1 DEF Published, Benchmark
  <2> QED
    BY <1>1, <2>1, <2>2, ProducerStreams
<1>7. CASE NextMessage
  <2>1. at' = 1 /\ sent' = 0 /\ ppc = "send" /\ ppc' # "failed" /\ i' = i + 1
    BY <1>7 DEF NextMessage, UdsInv, ProducerInv
  <2>2. i' - 1 = i
    BY <1>3, <2>1
  <2>3. Published' = Benchmark(i)
    BY <2>1, <2>2 DEF Published, Benchmark
  <2> QED
    BY <1>1, <2>1, <2>3, ProducerStreams DEF Published
<1>8. CASE SendError
  BY <1>1, <1>8, FailureStreams
<1> QED
  BY <1>4, <1>5, <1>6, <1>7, <1>8 DEF Producer

(* Only a producer that has failed cuts somebody off: if it is done all    *)
(* connections are accepted, and what is sent over them is received before *)
(* the end of file.                                                        *)
LEMMA CutOnlyOnFailure ==
  ASSUME UdsInv, NEW c \in Consumers, EndOfFile(c) \/ RecvError(c)
  PROVE  ppc = "failed" /\ seen[c] < Total /\ cpc[c] = "recv"
<1>1. /\ cpc[c] = "recv" /\ ProducerGone
      /\ (Contains(client_fds, c) /\ buf[c] = <<>>) \/ ~Contains(client_fds, c)
  BY DEF EndOfFile, RecvError, NothingLeft
<1>2. seen[c] < Total
  BY <1>1 DEF UdsInv, ConsumerInv
<1>3. ASSUME ppc = "done" PROVE FALSE
  <2>1. c \in Connected
    <3>1. Connected \subseteq Consumers
      BY DEF Connected, Members, UdsInv, SeqsType
    <3>2. Cardinality(Connected) = Len(client_fds) /\ Len(client_fds) = Cardinality(Consumers)
      BY <1>3 DEF UdsInv, ConnectionsInv, ProducerInv
    <3>3. Cardinality(Consumers) = Cardinality(Connected)
      BY <3>2, Zenon
    <3>4. Consumers = Connected
      BY <3>1, <3>3, UdsAssumption, FS_Subset
    <3> QED
      BY <3>4
  <2>2. PICK k \in 1 .. Len(client_fds) : client_fds[k] = c
    BY <2>1 DEF Connected, Members
  <2>3. buf[c] = <<>>
    BY <1>1, <2>2 DEF Contains
  <2>4. PlaceInv(k) /\ i = Total + 1 /\ at = 1 /\ sent = 0
    BY <1>3 DEF UdsInv, ProducerInv
  <2>5. /\ seen[c] \in 0 .. Total /\ Taken(c) \in Nat /\ MSG_BYTES \in Nat \ {0}
        /\ Total \in Nat /\ Len(msg[c]) \in Nat /\ Len(msg[c]) < MSG_BYTES
    BY ConsumerTypes
  <2>6. Put(k) = Total * MSG_BYTES
    <3>1. at \in Nat
      BY <2>4
    <3>2. Put(k) = (i - 1) * MSG_BYTES + 0
      BY <2>4, <3>1, PutIs
    <3>3. i - 1 = Total /\ Total * MSG_BYTES \in Nat
      BY <2>4, <2>5
    <3> QED
      BY <3>2, <3>3
  <2>7. Taken(c) = Total * MSG_BYTES
    BY <2>2, <2>3, <2>4, <2>5, <2>6 DEF PlaceInv
  <2>8. (Total - seen[c] - 1) * MSG_BYTES >= 0
    BY <1>2, <2>5, SMTT(30)
  <2>9. (Total - seen[c] - 1) * MSG_BYTES = Total * MSG_BYTES - seen[c] * MSG_BYTES - MSG_BYTES
    BY <2>5
  <2>10. PICK s \in Int, t \in Int : s = seen[c] * MSG_BYTES /\ t = Total * MSG_BYTES
    BY <2>5
  <2>11. s + Len(msg[c]) = t /\ t - s - MSG_BYTES >= 0
    BY <2>7, <2>8, <2>9, <2>10 DEF Taken
  <2> QED
    BY <2>5, <2>11
<1> QED
  BY <1>1, <1>2, <1>3 DEF ProducerGone

LEMMA EndStreams ==
  ASSUME UdsInv, NEW c \in Consumers, EndOfFile(c) \/ RecvError(c) \/ Kill(c)
  PROVE  Streams!Next
<1>1. /\ UNCHANGED <<ppc, i, at, sent, n_recv, seen>> /\ cpc[c] \in {"connect", "recv"}
      /\ cpc \in [Consumers -> {"connect", "recv", "finished", "killed"}]
  BY DEF EndOfFile, RecvError, Kill, producerVars, UdsInv, TypeOK
<1>2. /\ UNCHANGED <<Published, ppc = "failed", LastSeen, n_recv>>
      /\ Outcome[c] = "receiving"
  BY <1>1 DEF Published, LastSeen, Outcome, Stage, Benchmark
<1>3. CASE EndOfFile(c) \/ RecvError(c)
  <2>1. (ppc = "failed") = TRUE /\ seen[c] < Total
    BY <1>3, CutOnlyOnFailure
  <2>2. seen[c] # Total
    BY <2>1, ConsumerTypes
  <2>3. Outcome' = [Outcome EXCEPT ![c] = "cut"]
    BY <1>1, <1>3, <2>2 DEF EndOfFile, RecvError, Outcome, Stage
  <2>4. Streams!Cut(c)
    BY <1>2, <2>1, <2>3, Zenon DEF Streams!Cut, Published, LastSeen, Outcome
  <2> QED
    BY <2>4 DEF Streams!Next
<1>4. CASE Kill(c)
  <2>1. Outcome' = [Outcome EXCEPT ![c] = "dead"]
    BY <1>1, <1>4 DEF Kill, Outcome, Stage
  <2>2. Streams!Die(c)
    BY <1>2, <2>1, Zenon DEF Streams!Die, Published, LastSeen, Outcome
  <2> QED
    BY <2>2 DEF Streams!Next
<1> QED
  BY <1>3, <1>4

(* A message that is complete has been sent as a whole.                    *)
LEMMA CompleteIsPublished ==
  ASSUME UdsInv, NEW c \in Consumers, NEW m \in Nat, NEW k \in 1 .. Len(client_fds),
         m * MSG_BYTES <= Put(k), m > UDS_N_WARMUP
  PROVE  Benchmark(m) <= Published
<1>1. PICK e : e = IF at > 1 \/ sent > 0 THEN i ELSE i - 1
  OBVIOUS
<1>2. /\ i \in 1 .. Total + 1 /\ at \in Nat \ {0} /\ sent \in 0 .. MSG_BYTES
      /\ MSG_BYTES \in Nat \ {0} /\ UDS_N_WARMUP \in Nat
  BY ProducerTypes, UdsAssumption
<1>3. e \in Nat /\ e * MSG_BYTES \in Int /\ (i - 1) * MSG_BYTES \in Int
      /\ m * MSG_BYTES \in Int
  BY <1>1, <1>2
<1>4. Put(k) <= e * MSG_BYTES
  <2>1. Put(k) = (i - 1) * MSG_BYTES
                   + (IF k < at THEN MSG_BYTES ELSE IF k = at THEN sent ELSE 0)
    <3>1. k \in Nat /\ at \in Nat
      BY <1>2
    <3> QED
      BY <3>1, PutIs
  <2>2. CASE at > 1 \/ sent > 0
    <3>1. e * MSG_BYTES = (i - 1) * MSG_BYTES + MSG_BYTES
      BY <1>1, <1>2, <2>2
    <3> QED
      BY <1>2, <1>3, <2>1, <3>1
  <2>3. CASE ~(at > 1 \/ sent > 0)
    <3>1. at = 1 /\ sent = 0 /\ k >= 1 /\ k \in Nat /\ e = i - 1
      BY <1>1, <1>2, <2>3
    <3>2. Put(k) = (i - 1) * MSG_BYTES + 0
      BY <2>1, <3>1
    <3> QED
      BY <1>3, <3>1, <3>2
  <2> QED
    BY <2>2, <2>3
<1>5. m <= e
  <2> SUFFICES ASSUME e < m PROVE FALSE
    BY <1>3
  <2>1. (m - e - 1) * MSG_BYTES >= 0
    BY <1>2, <1>3
  <2>2. (m - e - 1) * MSG_BYTES = m * MSG_BYTES - e * MSG_BYTES - MSG_BYTES
    BY <1>2, <1>3
  <2>3. m * MSG_BYTES <= e * MSG_BYTES
    <3>1. Put(k) \in Int
      <4>1. k \in Nat /\ at \in Nat
        BY <1>2
      <4> QED
        BY <1>2, <1>3, <4>1, PutIs
    <3> QED
      BY <1>3, <1>4, <3>1
  <2>4. PICK a \in Int, b \in Int : a = m * MSG_BYTES /\ b = e * MSG_BYTES
    BY <1>3
  <2> QED
    BY <1>2, <2>1, <2>2, <2>3, <2>4
<1>6. Published = Benchmark(e)
  BY <1>1 DEF Published
<1> QED
  BY <1>2, <1>3, <1>5, <1>6 DEF Benchmark

LEMMA RecvStreams ==
  ASSUME UdsInv, NEW c \in Consumers, Recv(c)
  PROVE  [Streams!Next]_Streams!vars
<1>1. PICK rc \in 1 .. MSG_BYTES - Len(msg[c]) :
        /\ rc <= Len(buf[c])
        /\ LET got == msg[c] \o SubSeq(buf[c], 1, rc)
           IN  IF Len(got) < MSG_BYTES
               THEN /\ msg' = [msg EXCEPT ![c] = got]
                    /\ UNCHANGED <<cpc, n_recv, s2, seen>>
               ELSE /\ msg' = [msg EXCEPT ![c] = <<>>]
                    /\ seen' = [seen EXCEPT ![c] = got[1][1]]
                    /\ Count(c, got[1][1])
  BY DEF Recv
<1>2. PICK got, rest : /\ got = msg[c] \o SubSeq(buf[c], 1, rc)
                       /\ rest = SubSeq(buf[c], rc + 1, Len(buf[c]))
  OBVIOUS
<1>3. /\ cpc[c] = "recv" /\ UNCHANGED <<ppc, client_fds, i, at, sent, backlog>>
      /\ TypeOK /\ SeqsType
  BY DEF Recv, producerVars, UdsInv
<1>4. UNCHANGED <<Published, ppc = "failed">>
  BY <1>3 DEF Published, Benchmark
<1>5. CASE Len(got) < MSG_BYTES
  <2>1. UNCHANGED <<cpc, n_recv, seen>>
    BY <1>1, <1>2, <1>5
  <2> QED
    BY <1>4, <2>1, Unseen DEF StreamVars, LastSeen, Outcome, Stage, Benchmark
<1>6. CASE ~(Len(got) < MSG_BYTES)
  <2>1. PICK l \in Nat : l = seen[c]
    BY <1>3, UdsAssumption DEF TypeOK, Total
  <2>2. /\ UDS_N_WARMUP \in Nat /\ N_MESSAGES \in Nat \ {0}
        /\ Total = UDS_N_WARMUP + N_MESSAGES
    BY UdsAssumption DEF Total
  <2>3. PICK m \in Nat : m = got[1][1] /\ m = l + 1 /\ m <= Total
    <3>1. Len(got) \in Nat /\ Len(got) <= MSG_BYTES /\ MSG_BYTES \in Nat
      <4>1. got \in Seq(Bytes) /\ Len(got) <= MSG_BYTES
        BY <1>1, <1>2, Received
      <4>2. Len(got) \in Nat
        BY <4>1
      <4> QED
        BY <4>1, <4>2, UdsAssumption
    <3>2. Len(got) = MSG_BYTES
      BY <1>6, <3>1
    <3>3. got[1][1] = seen[c] + 1 /\ seen[c] + 1 <= Total
      BY <1>1, <1>2, <3>2, Received, ZenonT(40)
    <3> QED
      BY <2>1, <3>3
  <2>4. /\ msg' = [msg EXCEPT ![c] = <<>>] /\ seen' = [seen EXCEPT ![c] = m]
        /\ Count(c, m)
    BY <1>1, <1>2, <1>6, <2>3
  <2>5. \A d \in Consumers : LastSeen'[d] = IF d = c THEN Benchmark(m) ELSE LastSeen[d]
    BY <1>3, <2>4 DEF LastSeen, TypeOK, Benchmark
  <2>6. LastSeen[c] = Benchmark(l) /\ n_recv[c] = Benchmark(l) /\ l < Total
    BY <1>3, <2>1 DEF LastSeen, UdsInv, ConsumerInv
  <2>7. CASE m <= UDS_N_WARMUP
    <3>1. UNCHANGED <<cpc, n_recv>>
      BY <2>4, <2>7 DEF Count
    <3>2. Benchmark(m) = Benchmark(l)
      BY <2>2, <2>3, <2>7 DEF Benchmark
    <3>3. UNCHANGED LastSeen
      BY <2>5, <2>6, <3>2 DEF LastSeen
    <3>4. UNCHANGED Outcome
      BY <1>3, <2>4, <3>1 DEF Outcome, Stage, TypeOK
    <3> QED
      BY <1>4, <3>1, <3>3, <3>4, Unseen DEF StreamVars
  <2>8. CASE m > UDS_N_WARMUP
    <3>1. PICK n \in 1 .. N_MESSAGES :
            /\ n = Benchmark(m) /\ n = Benchmark(l) + 1 /\ (n = N_MESSAGES <=> m = Total)
      <4>1. Benchmark(m) = m - UDS_N_WARMUP /\ m - UDS_N_WARMUP \in 1 .. N_MESSAGES
        BY <2>2, <2>3, <2>8 DEF Benchmark
      <4>2. Benchmark(m) = Benchmark(l) + 1
        BY <2>2, <2>3, <2>8 DEF Benchmark
      <4>3. m - UDS_N_WARMUP = N_MESSAGES <=> m = Total
        BY <2>2, <2>3
      <4> QED
        BY <4>1, <4>2, <4>3
    <3>2. n <= Published
      <4>1. UdsInv'
        BY RecvKeeps
      <4>2. c \in Connected
        <5>1. buf[c] # <<>>
          BY <1>1, <1>3 DEF SeqsType
        <5> QED
          BY <5>1 DEF UdsInv, ConsumerInv
      <4>3. PICK k \in 1 .. Len(client_fds) : client_fds[k] = c
        BY <4>2 DEF Connected, Members
      <4>4. Put(k)' = Put(k) /\ PlaceInv(k)'
        BY <1>3, <4>1 DEF Put, UdsInv
      <4>5. seen'[c] = m /\ msg'[c] = <<>>
        BY <1>3, <2>4 DEF TypeOK, SeqsType
      <4>6. Taken(c)' = m * MSG_BYTES + 0
        BY <4>5 DEF Taken
      <4>7. m * MSG_BYTES + 0 + Len(buf'[c]) = Put(k)
        BY <1>3, <4>3, <4>4, <4>6 DEF PlaceInv
      <4>8. Len(buf'[c]) \in Nat /\ m * MSG_BYTES \in Nat
        BY <2>3, <4>1, UdsAssumption DEF UdsInv, SeqsType
      <4>9. m * MSG_BYTES <= Put(k)
        BY <4>7, <4>8
      <4> QED
        BY <2>8, <3>1, <4>9, CompleteIsPublished
    <3>3. LastSeen[c] < n /\ n = LastSeen[c] + 1
      BY <2>2, <2>6, <3>1 DEF Benchmark
    <3>4. LastSeen' = [LastSeen EXCEPT ![c] = n]
      BY <2>5, <3>1 DEF LastSeen
    <3>5. /\ n_recv' = [n_recv EXCEPT ![c] = n_recv[c] + 1]
          /\ cpc' = [cpc EXCEPT ![c] = IF m = Total THEN "finished" ELSE "recv"]
      <4>1. n_recv[c] + 1 = n /\ ~(m <= UDS_N_WARMUP)
        BY <2>2, <2>6, <2>8, <3>1
      <4>2. n_recv[c] + 1 >= N_MESSAGES <=> m = Total
        BY <2>2, <3>1, <4>1
      <4> QED
        BY <2>4, <4>1, <4>2 DEF Count
    <3>6. Outcome[c] = "receiving"
      BY <1>3 DEF Outcome, Stage
    <3>7. Outcome' = [Outcome EXCEPT ![c] = IF n = N_MESSAGES THEN "complete" ELSE Outcome[c]]
      <4>1. CASE m = Total
        BY <1>3, <2>4, <3>1, <3>5, <4>1 DEF Outcome, Stage, TypeOK
      <4>2. CASE m # Total
        BY <1>3, <2>4, <3>1, <3>5, <3>6, <4>2 DEF Outcome, Stage, TypeOK
      <4> QED
        BY <4>1, <4>2
    <3>8. Streams!Receive(c, n)
      BY <1>4, <3>2, <3>3, <3>4, <3>5, <3>6, <3>7, Zenon
      DEF Streams!Receive, Streams!MayFollow, Published, LastSeen, Outcome
    <3> QED
      BY <3>8 DEF Streams!Next
  <2> QED
    BY <2>2, <2>3, <2>7, <2>8
<1> QED
  BY <1>5, <1>6

LEMMA StepStreams == UdsInv /\ [Next]_vars => [Streams!Next]_Streams!vars
<1> SUFFICES ASSUME UdsInv, [Next]_vars PROVE [Streams!Next]_Streams!vars
  OBVIOUS
<1>1. CASE Producer
  BY <1>1, ProducerStepStreams
<1>2. CASE Failure
  BY <1>2, FailureStreams DEF Failure
<1>3. ASSUME NEW c \in Consumers, Connect(c) PROVE [Streams!Next]_Streams!vars
  <2>1. cpc \in [Consumers -> {"connect", "recv", "finished", "killed"}]
    BY DEF UdsInv, TypeOK
  <2>2. UNCHANGED Outcome
    BY <1>3, <2>1 DEF Connect, Outcome, Stage
  <2>3. UNCHANGED <<Published, ppc = "failed", LastSeen, n_recv>>
    BY <1>3 DEF Connect, producerVars, Published, LastSeen, Benchmark
  <2> QED
    BY <2>2, <2>3, Unseen DEF StreamVars
<1>4. ASSUME NEW c \in Consumers, Recv(c) PROVE [Streams!Next]_Streams!vars
  BY <1>4, RecvStreams
<1>5. ASSUME NEW c \in Consumers, EndOfFile(c) \/ RecvError(c) \/ Kill(c)
      PROVE  Streams!Next
  BY <1>5, EndStreams
<1>6. CASE UNCHANGED vars
  <2>1. UNCHANGED StreamVars
    BY <1>6
    DEF vars, producerVars, consumerVars, StreamVars, Published, LastSeen, Outcome, Stage, Benchmark
  <2> QED
    BY <2>1, Unseen
<1> QED
  BY <1>1, <1>2, <1>3, <1>4, <1>5, <1>6 DEF Next, Consumer

(* Every consumer gets every message of the benchmark, in order and once,  *)
(* up to the last, unless it is killed or the producer fails: nobody else  *)
(* is cut off by the closing of the connections (main_producer.cpp:183).   *)
THEOREM UdsImplementsBroadcast == Spec => ImplementsBroadcast
<1>1. Init => Streams!Init
  BY StreamInit
<1>2. UdsInv /\ [Next]_vars => [Streams!Next]_Streams!vars
  BY StepStreams
<1> QED
  BY <1>1, <1>2, UdsInvariant, PTL DEF Spec, ImplementsBroadcast, Streams!Spec

=============================================================================
