------------------------ MODULE GrpcBroadcast_proofs ------------------------
(***************************************************************************)
(* Proofs about the gRPC server and its clients, for any finite set of     *)
(* clients, any depth of the queues and any number of messages.            *)
(***************************************************************************)
EXTENDS GrpcBroadcast, FiniteSetTheorems, TLAPS

(* StateType says of the sequences what bounds them; this is what they are.*)
SeqsType ==
  /\ g_slots \in Seq(Clients)
  /\ q \in [Clients -> Seq(1 .. Total)]

Connected == {c \in Clients : hpc[c] \notin {"none", "register", "connect"}}

Returned == {c \in Clients : hpc[c] = "returned"}

(* A slot for every handler that has registered, and the two counters.     *)
RegInv ==
  /\ \A i, j \in 1 .. Len(g_slots) : g_slots[i] = g_slots[j] => i = j
  /\ Registered = {c \in Clients : hpc[c] \notin {"none", "register"}}
  /\ g_n_connected = Cardinality(Connected)
  /\ g_n_done = Cardinality(Returned)

(* How far producer_thread is.                                             *)
ProducerInv ==
  /\ at <= Len(g_slots) + 1
  /\ IF ppc \in {"barrier", "going", "barrierSleep", "acquire", "push", "asleep"}
     THEN next <= Total
     ELSE next = Total + 1
  /\ ppc = "asleep" => at <= Len(g_slots) /\ ~HasRoom(g_slots[at])

(* The queue at place i holds the messages behind the last one taken.      *)
PlaceInv(i) ==
  LET c == g_slots[i]
  IN  /\ msg[c] + Len(q[c]) = Pushed(i)
      /\ \A k \in 1 .. Len(q[c]) : q[c][k] = msg[c] + k

(* A slot is done only behind the last broadcast; nobody sleeps who has    *)
(* something to do.                                                        *)
SlotInv(c) ==
  /\ hpc[c] \in {"none", "register"} => q[c] = <<>> /\ ~done[c]
  /\ done[c] => next = Total + 1
  /\ hpc[c] = "asleep" => q[c] = <<>> /\ ~done[c]

(* What the client of a handler has got when the handler is where it is:   *)
(* what was taken and written, or nothing, if it has come too late for it. *)
ClientInv(c) ==
  /\ client[c] = "idle" => hpc[c] = "none"
  /\ client[c] = "reading" => hpc[c] # "none"
  /\ client[c] = "finished" => hpc[c] \in {"none", "leaving", "returned"}
  /\ hpc[c] \in {"none", "register"} => seen[c] = 0
  /\ n_recv[c] <= seen[c]
  /\ seen[c] = N_MESSAGES => client[c] = "finished"
  /\ client[c] = "reading" =>
       /\ hpc[c] \in {"connect", "loop", "take", "asleep"} => seen[c] \in {0, msg[c] - N_WARMUP}
       /\ hpc[c] = "write" => seen[c] \in {0, msg[c] - N_WARMUP - 1}
       /\ hpc[c] \in {"leaving", "returned"} => seen[c] = 0 /\ next = Total + 1

GrpcInv ==
  /\ StateType /\ SeqsType /\ RegInv /\ ProducerInv
  /\ \A i \in 1 .. Len(g_slots) : PlaceInv(i)
  /\ \A c \in Clients : SlotInv(c) /\ ClientInv(c)

-----------------------------------------------------------------------------
(* What is used throughout.                                                *)

LEMMA Numbers ==
  /\ Total \in Nat /\ N_WARMUP \in Nat /\ N_MESSAGES \in Nat /\ N_MESSAGES > 0
  /\ Total = N_WARMUP + N_MESSAGES /\ MAX_QUEUE_DEPTH \in Nat /\ Expected \in Nat
BY GrpcAssumption, FS_CardinalityType DEF Total, Expected

(* Queues as sequences.                                                    *)
LEMMA Elements ==
  ASSUME NEW S, NEW s \in Seq(S)
  PROVE  Len(s) \in Nat /\ \A i \in 1 .. Len(s) : s[i] \in S
OBVIOUS

LEMMA FirstOut ==
  ASSUME NEW S, NEW s \in Seq(S), s # <<>>
  PROVE  /\ Len(s) \in Nat \ {0} /\ Head(s) = s[1] /\ Head(s) \in S
         /\ Tail(s) \in Seq(S) /\ Len(Tail(s)) = Len(s) - 1
         /\ \A k \in 1 .. Len(s) - 1 : Tail(s)[k] = s[k + 1]
OBVIOUS

(* A part of a part of the clients.                                        *)
LEMMA CountsInRange ==
  ASSUME NEW A, NEW B, A \subseteq B, B \subseteq Clients
  PROVE  /\ IsFiniteSet(A) /\ IsFiniteSet(B)
         /\ Cardinality(A) \in 0 .. Cardinality(B)
         /\ Cardinality(B) \in 0 .. Expected
<1>1. IsFiniteSet(B) /\ Cardinality(B) <= Expected
  BY GrpcAssumption, FS_Subset DEF Expected
<1>2. IsFiniteSet(A) /\ Cardinality(A) <= Cardinality(B)
  BY <1>1, FS_Subset
<1>3. Cardinality(A) \in Nat /\ Cardinality(B) \in Nat
  BY <1>1, <1>2, FS_CardinalityType
<1> QED
  BY <1>1, <1>2, <1>3, Numbers

(* Places in g_slots, and who is there.                                    *)
LEMMA Places ==
  ASSUME GrpcInv
  PROVE  /\ Len(g_slots) \in Nat /\ Len(g_slots) <= Expected
         /\ at \in Nat /\ at > 0 /\ next \in Nat /\ next > 0
         /\ \A i \in 1 .. Len(g_slots) :
              /\ g_slots[i] \in Clients
              /\ hpc[g_slots[i]] \notin {"none", "register"}
         /\ \A c \in Clients : hpc[c] \notin {"none", "register"} =>
              \E i \in 1 .. Len(g_slots) : g_slots[i] = c
<1>1. g_slots \in Seq(Clients)
  BY DEF GrpcInv, SeqsType
<1>2. Registered \subseteq Clients /\ Len(g_slots) = Cardinality(Registered)
  BY DEF GrpcInv, StateType
<1>3. Len(g_slots) \in Nat /\ \A i \in 1 .. Len(g_slots) : g_slots[i] \in Clients
  BY <1>1
<1>4. Len(g_slots) <= Expected
  BY <1>2, CountsInRange, Numbers
<1>5. Registered = {c \in Clients : hpc[c] \notin {"none", "register"}}
  BY DEF GrpcInv, RegInv
<1>6. /\ \A i \in 1 .. Len(g_slots) : g_slots[i] \in Registered
      /\ \A c \in Registered : \E i \in 1 .. Len(g_slots) : g_slots[i] = c
  BY DEF Registered
<1>7. at \in Nat /\ at > 0 /\ next \in Nat /\ next > 0
  BY Numbers DEF GrpcInv, StateType
<1> QED
  BY <1>3, <1>4, <1>5, <1>6, <1>7

LEMMA InitHolds == Init => GrpcInv
<1> SUFFICES ASSUME Init PROVE GrpcInv
  OBVIOUS
<1> USE DEF Init
<1>1. Len(g_slots) = 0 /\ Registered = {} /\ g_slots \in Seq(Clients)
  BY DEF Registered
<1>2. Connected = {} /\ Returned = {}
  BY DEF Connected, Returned
<1>3. Cardinality({}) = 0
  BY FS_EmptySet
<1>4. StateType
  <2>1. \A c \in Clients : Len(q[c]) = 0
    OBVIOUS
  <2>2. Len(g_slots) = Cardinality(Registered) /\ Registered \subseteq Clients
    BY <1>1, <1>3
  <2>3. /\ next \in 1 .. Total + 1 /\ at \in 1 .. Expected + 1
        /\ g_n_connected \in 0 .. Expected /\ g_n_done \in 0 .. g_n_connected
        /\ msg \in [Clients -> 0 .. Total] /\ n_recv \in [Clients -> 0 .. N_MESSAGES]
        /\ seen \in [Clients -> 0 .. N_MESSAGES]
    BY Numbers
  <2> QED
    BY <2>1, <2>2, <2>3, Numbers DEF StateType
<1>5. SeqsType
  BY <1>1 DEF SeqsType
<1>6. RegInv
  BY <1>1, <1>2, <1>3 DEF RegInv
<1>7. ProducerInv
  BY <1>1, Numbers DEF ProducerInv
<1>8. ASSUME NEW c \in Clients PROVE SlotInv(c) /\ ClientInv(c)
  BY Numbers DEF SlotInv, ClientInv
<1> QED
  BY <1>1, <1>4, <1>5, <1>6, <1>7, <1>8 DEF GrpcInv

-----------------------------------------------------------------------------
(* Steps of producer_thread that only change its place.                    *)
LEMMA ProducerMoves ==
  ASSUME GrpcInv, UNCHANGED <<slotVars, g_n_connected, g_n_done, hpc, msg, clientVars>>,
         ppc' \in {"barrier", "going", "barrierSleep", "acquire", "push", "asleep", "sent",
                  "signal", "waitDone", "shutdown", "down"},
         next' \in 1 .. Total + 1, at' \in Nat, at' > 0, ProducerInv',
         next = Total + 1 => next' = next,
         \A i \in 1 .. Len(g_slots) : Pushed(i)' = Pushed(i)
  PROVE  GrpcInv'
<1>1. /\ StateType /\ SeqsType /\ RegInv /\ Len(g_slots) \in Nat /\ Len(g_slots) <= Expected
      /\ Expected \in Nat
  BY Places, Numbers DEF GrpcInv
<1>2. at' \in 1 .. Expected + 1
  BY <1>1 DEF ProducerInv, slotVars
<1>3. StateType'
  BY <1>1, <1>2 DEF StateType, slotVars, clientVars, Registered
<1>4. SeqsType' /\ RegInv'
  BY <1>1 DEF SeqsType, RegInv, slotVars, Registered, Connected, Returned
<1>5. ASSUME NEW i \in 1 .. Len(g_slots) PROVE PlaceInv(i)'
  <2>1. PlaceInv(i)
    BY DEF GrpcInv
  <2> QED
    BY <2>1 DEF PlaceInv, slotVars
<1>6. ASSUME NEW c \in Clients PROVE SlotInv(c)' /\ ClientInv(c)'
  <2>1. SlotInv(c) /\ ClientInv(c)
    BY DEF GrpcInv
  <2>2. SlotInv(c)'
    BY <2>1 DEF SlotInv, slotVars
  <2>3. ClientInv(c)'
    BY <2>1 DEF ClientInv, clientVars
  <2> QED
    BY <2>2, <2>3
<1> QED
  BY <1>3, <1>4, <1>5, <1>6 DEF GrpcInv, slotVars

(* Which steps these are.                                                  *)
LEMMA PlaceStepsKeep ==
  ASSUME GrpcInv, UNCHANGED <<slotVars, g_n_connected, g_n_done, hpc, msg, clientVars>>,
         \/ BarrierCheck \/ BarrierSleep \/ BarrierTimeout \/ Acquire \/ PushBlock \/ Release
         \/ SignalAcquire \/ SignalRelease \/ WaitDone \/ ShutdownReturns
         \/ ppc = "asleep" /\ ppc' = "push" /\ UNCHANGED <<next, at>>
         \/ ppc = "barrierSleep" /\ ppc' = "barrier" /\ UNCHANGED <<next, at>>
  PROVE  GrpcInv'
<1>1. /\ ProducerInv /\ Len(g_slots) \in Nat /\ at \in Nat /\ at > 0 /\ next \in Nat
      /\ next > 0 /\ next <= Total + 1 /\ Total \in Nat
  BY Places, Numbers DEF GrpcInv, StateType
<1>2. CASE \/ BarrierCheck \/ BarrierSleep \/ BarrierTimeout
           \/ ppc = "barrierSleep" /\ ppc' = "barrier" /\ UNCHANGED <<next, at>>
  <2>1. /\ ppc \in {"barrier", "going", "barrierSleep"}
        /\ ppc' \in {"barrier", "going", "barrierSleep", "acquire"} /\ UNCHANGED <<next, at>>
    BY <1>2 DEF BarrierCheck, BarrierSleep, BarrierTimeout
  <2>2. ProducerInv'
    BY <1>1, <2>1 DEF ProducerInv, slotVars
  <2>3. \A i \in 1 .. Len(g_slots) : Pushed(i)' = Pushed(i)
    BY <2>1 DEF Pushed
  <2> QED
    BY <1>1, <2>1, <2>2, <2>3, ProducerMoves
<1>3. CASE Acquire
  <2>1. ppc = "acquire" /\ ppc' = "push" /\ at' = 1 /\ UNCHANGED next
    BY <1>3 DEF Acquire
  <2>2. ProducerInv'
    BY <1>1, <2>1 DEF ProducerInv, slotVars
  <2>3. \A i \in 1 .. Len(g_slots) : Pushed(i)' = Pushed(i)
    BY <2>1 DEF Pushed
  <2> QED
    BY <1>1, <2>1, <2>2, <2>3, ProducerMoves
<1>4. CASE \/ PushBlock
           \/ ppc = "asleep" /\ ppc' = "push" /\ UNCHANGED <<next, at>>
  <2>1. /\ ppc \in {"push", "asleep"} /\ ppc' \in {"push", "asleep"} /\ UNCHANGED <<next, at>>
        /\ ppc' = "asleep" => at <= Len(g_slots) /\ ~HasRoom(g_slots[at])
    BY <1>4 DEF PushBlock
  <2>2. ProducerInv'
    BY <1>1, <2>1 DEF ProducerInv, slotVars, HasRoom, Full
  <2>3. \A i \in 1 .. Len(g_slots) : Pushed(i)' = Pushed(i)
    BY <2>1 DEF Pushed
  <2> QED
    BY <1>1, <2>1, <2>2, <2>3, ProducerMoves
<1>5. CASE Release
  <2>1. /\ ppc = "push" /\ at > Len(g_slots) /\ next' = next + 1 /\ UNCHANGED at
        /\ ppc' = IF next = Total THEN "sent" ELSE "acquire"
    BY <1>5 DEF Release
  <2>2. next <= Total
    BY <1>1, <2>1 DEF ProducerInv
  <2>3. ProducerInv'
    BY <1>1, <2>1, <2>2 DEF ProducerInv, slotVars
  <2>4. \A i \in 1 .. Len(g_slots) : Pushed(i)' = Pushed(i)
    BY <1>1, <2>1 DEF Pushed
  <2> QED
    BY <1>1, <2>1, <2>2, <2>3, <2>4, ProducerMoves
<1>6. CASE SignalAcquire \/ SignalRelease \/ WaitDone \/ ShutdownReturns
  <2>1. /\ ppc \in {"sent", "signal", "waitDone", "shutdown"}
        /\ ppc' \in {"signal", "waitDone", "shutdown", "down"} /\ UNCHANGED next
        /\ at' \in {1, at}
    BY <1>6 DEF SignalAcquire, SignalRelease, WaitDone, ShutdownReturns
  <2>2. ProducerInv'
    BY <1>1, <2>1 DEF ProducerInv, slotVars
  <2>3. \A i \in 1 .. Len(g_slots) : Pushed(i)' = Pushed(i)
    BY <2>1 DEF Pushed
  <2> QED
    BY <1>1, <2>1, <2>2, <2>3, ProducerMoves
<1> QED
  BY <1>2, <1>3, <1>4, <1>5, <1>6

-----------------------------------------------------------------------------
(* Steps of producer_thread that notify a handler.                         *)

HandlerPlaces == {"none", "register", "connect", "loop", "take", "asleep", "write", "leaving",
                  "returned"}

(* A notification moves a handler from its sleep back to its predicate.    *)
LEMMA WokenMoves ==
  ASSUME GrpcInv, NEW c \in Clients, hpc' = Woken(c)
  PROVE  /\ hpc' \in [Clients -> HandlerPlaces]
         /\ \A d \in Clients : hpc'[d] = IF d = c /\ hpc[d] = "asleep" THEN "take" ELSE hpc[d]
         /\ Connected' = Connected /\ Returned' = Returned
         /\ {d \in Clients : hpc[d] \notin {"none", "register"}}'
              = {d \in Clients : hpc[d] \notin {"none", "register"}}
<1>1. hpc \in [Clients -> HandlerPlaces]
  BY DEF GrpcInv, StateType, HandlerPlaces
<1>2. /\ hpc' \in [Clients -> HandlerPlaces]
      /\ \A d \in Clients : hpc'[d] = IF d = c /\ hpc[d] = "asleep" THEN "take" ELSE hpc[d]
  BY <1>1 DEF Woken, HandlerPlaces
<1> QED
  BY <1>2 DEF Connected, Returned

(* The part of the type that such steps change.                            *)
LEMMA QueuesOnly ==
  ASSUME StateType, UNCHANGED <<g_slots, g_n_connected, g_n_done, ppc, next, msg, clientVars>>,
         done' \in [Clients -> BOOLEAN], at' \in 1 .. Expected + 1,
         hpc' \in [Clients -> HandlerPlaces],
         \A d \in Clients :
           Len(q'[d]) <= MAX_QUEUE_DEPTH /\ \A i \in 1 .. Len(q'[d]) : q'[d][i] \in 1 .. Total
  PROVE  StateType'
BY DEF StateType, Registered, clientVars, HandlerPlaces

(* A slot is done when the last broadcast is over.                         *)
LEMMA SignalKeeps ==
  ASSUME GrpcInv, Signal, UNCHANGED <<g_slots, q, g_n_connected, g_n_done, msg, clientVars>>
  PROVE  GrpcInv'
<1> DEFINE c == g_slots[at]
<1>1. /\ StateType /\ SeqsType /\ RegInv /\ ProducerInv /\ Len(g_slots) \in Nat
      /\ Len(g_slots) <= Expected /\ Expected \in Nat /\ at \in Nat /\ at > 0
  BY Places, Numbers DEF GrpcInv
<1>2. /\ ppc = "signal" /\ at <= Len(g_slots) /\ done' = [done EXCEPT ![c] = TRUE]
      /\ hpc' = Woken(c) /\ at' = at + 1 /\ UNCHANGED <<ppc, next>>
  BY DEF Signal
<1>3. c \in Clients /\ hpc[c] \notin {"none", "register"}
  BY <1>1, <1>2, Places
<1> HIDE DEF c
<1>4. /\ hpc' \in [Clients -> HandlerPlaces]
      /\ \A d \in Clients : hpc'[d] = IF d = c /\ hpc[d] = "asleep" THEN "take" ELSE hpc[d]
      /\ Connected' = Connected /\ Returned' = Returned
      /\ {d \in Clients : hpc[d] \notin {"none", "register"}}'
           = {d \in Clients : hpc[d] \notin {"none", "register"}}
  BY <1>2, <1>3, WokenMoves
<1>5. next = Total + 1
  BY <1>1, <1>2 DEF ProducerInv
<1>6. done' \in [Clients -> BOOLEAN] /\ \A d \in Clients : d # c => done'[d] = done[d]
  BY <1>1, <1>2 DEF StateType
<1>7. StateType'
  <2>1. at' \in 1 .. Expected + 1
    BY <1>1, <1>2
  <2>2. \A d \in Clients :
          Len(q'[d]) <= MAX_QUEUE_DEPTH /\ \A i \in 1 .. Len(q'[d]) : q'[d][i] \in 1 .. Total
    BY <1>1 DEF StateType
  <2> QED
    BY <1>1, <1>2, <1>4, <1>6, <2>1, <2>2, QueuesOnly
<1>8. SeqsType' /\ RegInv'
  BY <1>1, <1>4 DEF SeqsType, RegInv, Registered
<1>9. ProducerInv'
  BY <1>1, <1>2 DEF ProducerInv
<1>10. ASSUME NEW i \in 1 .. Len(g_slots) PROVE PlaceInv(i)'
  <2>1. PlaceInv(i) /\ Pushed(i)' = Pushed(i)
    BY <1>2 DEF GrpcInv, Pushed
  <2> QED
    BY <2>1 DEF PlaceInv
<1>11. ASSUME NEW d \in Clients PROVE SlotInv(d)' /\ ClientInv(d)'
  <2>1. SlotInv(d) /\ ClientInv(d)
    BY DEF GrpcInv
  <2>2. SlotInv(d)'
    BY <1>2, <1>3, <1>4, <1>5, <1>6, <2>1 DEF SlotInv
  <2>3. ClientInv(d)'
    BY <1>2, <1>4, <2>1 DEF ClientInv, clientVars
  <2> QED
    BY <2>2, <2>3
<1> QED
  BY <1>7, <1>8, <1>9, <1>10, <1>11 DEF GrpcInv

(* The message goes to the end of the queue at place at.                   *)
LEMMA PushKeeps ==
  ASSUME GrpcInv, Push,
         UNCHANGED <<g_slots, done, g_n_connected, g_n_done, msg, clientVars>>
  PROVE  GrpcInv'
<1> DEFINE c == g_slots[at]
<1>1. /\ StateType /\ SeqsType /\ RegInv /\ ProducerInv /\ Len(g_slots) \in Nat
      /\ Len(g_slots) <= Expected /\ Expected \in Nat /\ at \in Nat /\ at > 0
      /\ next \in Nat /\ next > 0 /\ Total \in Nat /\ MAX_QUEUE_DEPTH \in Nat
  BY Places, Numbers DEF GrpcInv
<1>2. /\ ppc = "push" /\ at <= Len(g_slots) /\ HasRoom(c) /\ at' = at + 1
      /\ UNCHANGED <<ppc, next>>
      /\ q' = [q EXCEPT ![c] = IF done[c] THEN @ ELSE Append(@, next)]
      /\ hpc' = IF done[c] THEN hpc ELSE Woken(c)
  BY DEF Push
<1>3. c \in Clients /\ hpc[c] \notin {"none", "register"}
  BY <1>1, <1>2, Places
<1>4. next <= Total
  BY <1>1, <1>2 DEF ProducerInv
<1>5. ~done[c] /\ c = g_slots[at] /\ at \in 1 .. Len(g_slots)
  BY <1>1, <1>2, <1>3, <1>4 DEF GrpcInv, SlotInv
<1> HIDE DEF c
<1>6. q' = [q EXCEPT ![c] = Append(q[c], next)] /\ hpc' = Woken(c)
  BY <1>2, <1>5
<1>7. /\ hpc' \in [Clients -> HandlerPlaces]
      /\ \A d \in Clients : hpc'[d] = IF d = c /\ hpc[d] = "asleep" THEN "take" ELSE hpc[d]
      /\ Connected' = Connected /\ Returned' = Returned
      /\ {d \in Clients : hpc[d] \notin {"none", "register"}}'
           = {d \in Clients : hpc[d] \notin {"none", "register"}}
  BY <1>3, <1>6, WokenMoves
<1>8. /\ q[c] \in Seq(1 .. Total) /\ Len(q[c]) \in Nat
      /\ q'[c] = Append(q[c], next) /\ \A d \in Clients : d # c => q'[d] = q[d]
  BY <1>1, <1>3, <1>6 DEF SeqsType
<1>9. /\ Append(q[c], next) \in Seq(1 .. Total) /\ Len(q'[c]) = Len(q[c]) + 1
      /\ q'[c][Len(q[c]) + 1] = next
      /\ \A k \in 1 .. Len(q[c]) : q'[c][k] = q[c][k]
  BY <1>1, <1>4, <1>8
<1>10. SeqsType'
  BY <1>1, <1>3, <1>6, <1>9 DEF SeqsType
<1>11. StateType'
  <2>1. Len(q[c]) < MAX_QUEUE_DEPTH
    BY <1>1, <1>2, <1>5, <1>8 DEF HasRoom, Full
  <2>2. ASSUME NEW d \in Clients
        PROVE  Len(q'[d]) <= MAX_QUEUE_DEPTH /\ \A i \in 1 .. Len(q'[d]) : q'[d][i] \in 1 .. Total
    <3>1. q'[d] \in Seq(1 .. Total)
      BY <1>10 DEF SeqsType
    <3>2. Len(q[d]) <= MAX_QUEUE_DEPTH
      BY <1>1 DEF StateType
    <3>3. Len(q'[d]) <= MAX_QUEUE_DEPTH
      <4>1. CASE d = c
        <5>1. PICK n \in Nat : n = Len(q[c])
          BY <1>8
        <5>2. n + 1 <= MAX_QUEUE_DEPTH /\ Len(q'[c]) = n + 1
          BY <1>1, <1>9, <2>1, <5>1
        <5> QED
          BY <4>1, <5>2, Zenon
      <4>2. CASE d # c
        BY <1>8, <3>2, <4>2, Zenon
      <4> QED
        BY <4>1, <4>2
    <3>4. \A i \in 1 .. Len(q'[d]) : q'[d][i] \in 1 .. Total
      BY <3>1, Elements
    <3> QED
      BY <3>3, <3>4
  <2>3. at' \in 1 .. Expected + 1
    BY <1>1, <1>2
  <2>4. done' \in [Clients -> BOOLEAN]
    BY <1>1 DEF StateType
  <2> QED
    BY <1>1, <1>2, <1>7, <2>2, <2>3, <2>4, QueuesOnly
<1>12. RegInv'
  BY <1>1, <1>7 DEF RegInv, Registered
<1>13. ProducerInv'
  BY <1>1, <1>2 DEF ProducerInv
<1>14. ASSUME NEW i \in 1 .. Len(g_slots) PROVE PlaceInv(i)'
  <2>1. /\ msg[g_slots[i]] + Len(q[g_slots[i]]) = Pushed(i)
        /\ \A k \in 1 .. Len(q[g_slots[i]]) : q[g_slots[i]][k] = msg[g_slots[i]] + k
    BY DEF GrpcInv, PlaceInv
  <2>2. CASE i = at
    <3>1. g_slots[i] = c /\ Pushed(i) = next - 1 /\ Pushed(i)' = next
      BY <1>1, <1>2, <1>5, <2>2 DEF Pushed
    <3>2. msg[c] \in Nat
      BY <1>1, <1>3 DEF StateType
    <3>3. msg[c] + Len(q'[c]) = next
      <4>1. msg[c] + Len(q[c]) = next - 1
        BY <2>1, <3>1
      <4>2. PICK n \in Nat : n = Len(q[c])
        BY <1>8
      <4>3. Len(q'[c]) = n + 1 /\ msg[c] + n = next - 1
        BY <1>9, <4>1, <4>2
      <4>4. msg[c] + (n + 1) = next
        BY <1>1, <3>2, <4>3
      <4> QED
        BY <4>3, <4>4, Zenon
    <3>4. ASSUME NEW k \in 1 .. Len(q'[c]) PROVE q'[c][k] = msg[c] + k
      <4>1. CASE k = Len(q[c]) + 1
        BY <1>9, <3>3, <4>1
      <4>2. CASE k # Len(q[c]) + 1
        <5>1. k \in 1 .. Len(q[c])
          BY <1>8, <1>9, <4>2
        <5> QED
          BY <1>9, <2>1, <3>1, <5>1
      <4> QED
        BY <4>1, <4>2
    <3> QED
      BY <3>1, <3>3, <3>4 DEF PlaceInv
  <2>3. CASE i # at
    <3>1. g_slots[i] \in Clients /\ g_slots[i] # c
      BY <1>1, <1>5, <2>3, Places DEF RegInv
    <3>2. Pushed(i)' = Pushed(i)
      BY <1>1, <1>2, <2>3 DEF Pushed
    <3> QED
      BY <1>8, <2>1, <3>1, <3>2 DEF PlaceInv
  <2> QED
    BY <2>2, <2>3
<1>15. ASSUME NEW d \in Clients PROVE SlotInv(d)' /\ ClientInv(d)'
  <2>1. SlotInv(d) /\ ClientInv(d)
    BY DEF GrpcInv
  <2>2. SlotInv(d)'
    BY <1>2, <1>3, <1>5, <1>7, <1>8, <2>1 DEF SlotInv
  <2>3. ClientInv(d)'
    BY <1>2, <1>7, <2>1 DEF ClientInv, clientVars
  <2> QED
    BY <2>2, <2>3
<1> QED
  BY <1>10, <1>11, <1>12, <1>13, <1>14, <1>15 DEF GrpcInv

-----------------------------------------------------------------------------
(* Steps of a handler, or of its client, that leave the slots alone.       *)

ClientPlaces == {"idle", "reading", "finished", "cut", "gone"}

(* Of the two counters, such a step changes g_n_done only, on the return.  *)
LEMMA StreamMoves ==
  ASSUME GrpcInv, NEW c \in Clients,
         UNCHANGED <<slotVars, producerVars, msg, g_n_connected>>,
         hpc' = [hpc EXCEPT ![c] = hpc'[c]], hpc'[c] \in HandlerPlaces,
         client' = [client EXCEPT ![c] = client'[c]], client'[c] \in ClientPlaces,
         n_recv' = [n_recv EXCEPT ![c] = n_recv'[c]], n_recv'[c] \in 0 .. N_MESSAGES,
         seen' = [seen EXCEPT ![c] = seen'[c]], seen'[c] \in 0 .. N_MESSAGES,
         hpc[c] \in {"none", "register"} <=> hpc'[c] \in {"none", "register"},
         hpc[c] = "connect" <=> hpc'[c] = "connect",
         \/ (hpc[c] = "returned" <=> hpc'[c] = "returned") /\ g_n_done' = g_n_done
         \/ hpc[c] = "leaving" /\ hpc'[c] = "returned" /\ g_n_done' = g_n_done + 1,
         SlotInv(c)', ClientInv(c)'
  PROVE  GrpcInv'
<1>1. StateType /\ SeqsType /\ RegInv /\ ProducerInv
  BY DEF GrpcInv
<1>2. /\ hpc \in [Clients -> HandlerPlaces] /\ client \in [Clients -> ClientPlaces]
      /\ n_recv \in [Clients -> 0 .. N_MESSAGES] /\ seen \in [Clients -> 0 .. N_MESSAGES]
  BY <1>1 DEF StateType, HandlerPlaces, ClientPlaces
<1>3. /\ hpc' \in [Clients -> HandlerPlaces] /\ client' \in [Clients -> ClientPlaces]
      /\ n_recv' \in [Clients -> 0 .. N_MESSAGES] /\ seen' \in [Clients -> 0 .. N_MESSAGES]
  BY <1>2
<1>4. \A d \in Clients : d # c => /\ hpc'[d] = hpc[d] /\ client'[d] = client[d]
                                /\ n_recv'[d] = n_recv[d] /\ seen'[d] = seen[d]
  BY <1>2
<1>5. Connected' = Connected
  BY <1>4 DEF Connected
<1>6. {d \in Clients : hpc'[d] \notin {"none", "register"}}
       = {d \in Clients : hpc[d] \notin {"none", "register"}}
  BY <1>4
<1>7. g_n_done' = Cardinality(Returned')
  <2>1. g_n_done = Cardinality(Returned) /\ Returned \subseteq Clients
    BY <1>1 DEF RegInv, Returned
  <2>2. CASE (hpc[c] = "returned" <=> hpc'[c] = "returned") /\ g_n_done' = g_n_done
    <3>1. Returned' = Returned
      BY <1>4, <2>2 DEF Returned
    <3> QED
      BY <2>1, <2>2, <3>1
  <2>3. CASE hpc[c] = "leaving" /\ hpc'[c] = "returned" /\ g_n_done' = g_n_done + 1
    <3>1. Returned' = Returned \cup {c} /\ c \notin Returned
      BY <1>4, <2>3 DEF Returned
    <3>2. Cardinality(Returned \cup {c}) = Cardinality(Returned) + 1
      BY <2>1, <3>1, CountsInRange, FS_AddElement
    <3> QED
      BY <2>1, <2>3, <3>1, <3>2, Zenon
  <2> QED
    BY <2>2, <2>3
<1>8. RegInv'
  BY <1>1, <1>5, <1>6, <1>7 DEF RegInv, slotVars, Registered
<1>9. g_n_done' \in 0 .. g_n_connected'
  <2>1. Returned' \subseteq Connected' /\ Connected' \subseteq Clients
    BY DEF Returned, Connected
  <2>2. Cardinality(Returned') \in 0 .. Cardinality(Connected')
    BY <2>1, CountsInRange
  <2> QED
    BY <1>8, <2>2 DEF RegInv
<1>10. StateType'
  <2>1. /\ Registered' = Registered /\ Len(g_slots)' = Len(g_slots)
        /\ UNCHANGED <<q, done, ppc, next, at, msg, g_n_connected>>
    BY DEF slotVars, producerVars, Registered
  <2>2. /\ hpc' \in [Clients -> {"none", "register", "connect", "loop", "take", "asleep", "write",
                               "leaving", "returned"}]
        /\ client' \in [Clients -> {"idle", "reading", "finished", "cut", "gone"}]
    BY <1>3 DEF HandlerPlaces, ClientPlaces
  <2>3. /\ Registered \subseteq Clients /\ Len(g_slots) = Cardinality(Registered)
        /\ \A d \in Clients : /\ Len(q[d]) <= MAX_QUEUE_DEPTH
                            /\ \A i \in 1 .. Len(q[d]) : q[d][i] \in 1 .. Total
        /\ done \in [Clients -> BOOLEAN]
        /\ g_n_connected \in 0 .. Expected
        /\ ppc \in {"barrier", "going", "barrierSleep", "acquire", "push", "asleep", "sent",
                    "signal", "waitDone", "shutdown", "down"}
        /\ next \in 1 .. Total + 1 /\ at \in 1 .. Expected + 1 /\ msg \in [Clients -> 0 .. Total]
    BY <1>1 DEF StateType
  <2> QED
    BY <1>3, <1>9, <2>1, <2>2, <2>3 DEF StateType
<1>11. SeqsType' /\ ProducerInv'
  BY <1>1 DEF SeqsType, ProducerInv, slotVars, producerVars, HasRoom, Full
<1>12. ASSUME NEW i \in 1 .. Len(g_slots) PROVE PlaceInv(i)'
  BY DEF GrpcInv, PlaceInv, Pushed, slotVars, producerVars
<1>13. ASSUME NEW d \in Clients PROVE SlotInv(d)' /\ ClientInv(d)'
  <2>1. CASE d = c
    BY <2>1
  <2>2. CASE d # c
    BY <1>4, <2>2 DEF GrpcInv, SlotInv, ClientInv, slotVars, producerVars
  <2> QED
    BY <2>1, <2>2
<1> QED
  BY <1>8, <1>10, <1>11, <1>12, <1>13 DEF GrpcInv, slotVars

(* Those of them that do not touch the numbers of the client.              *)
LEMMA QuietStreamKeeps ==
  ASSUME GrpcInv, NEW c \in Clients,
         \/ Call(c) \/ Loop(c) \/ Sleep(c) \/ Break(c) \/ Leave(c) \/ StreamEnds(c)
         \/ CutOff(c) \/ Disconnect(c)
         \/ /\ hpc[c] = "asleep" /\ hpc' = Woken(c) /\ UNCHANGED ppc
            /\ UNCHANGED <<slotVars, g_n_connected, g_n_done, next, at, msg, clientVars>>
  PROVE  GrpcInv'
<1>1. StateType /\ SlotInv(c) /\ ClientInv(c) /\ ProducerInv
  BY DEF GrpcInv
<1>2. /\ hpc \in [Clients -> HandlerPlaces] /\ client \in [Clients -> ClientPlaces]
      /\ n_recv \in [Clients -> 0 .. N_MESSAGES] /\ seen \in [Clients -> 0 .. N_MESSAGES]
  BY <1>1 DEF StateType, HandlerPlaces, ClientPlaces
<1>3. UNCHANGED <<slotVars, producerVars, msg, g_n_connected, n_recv, seen>>
  BY DEF Call, Loop, Sleep, Break, Leave, StreamEnds, CutOff, Disconnect, clientVars, producerVars
<1>4. /\ hpc' = [hpc EXCEPT ![c] = hpc'[c]] /\ hpc'[c] \in HandlerPlaces
      /\ client' = [client EXCEPT ![c] = client'[c]] /\ client'[c] \in ClientPlaces
  BY <1>2
  DEF Call, Loop, Sleep, Break, Leave, StreamEnds, CutOff, Disconnect, clientVars, Woken, HandlerPlaces,
      ClientPlaces
<1>5. /\ n_recv' = [n_recv EXCEPT ![c] = n_recv'[c]] /\ n_recv'[c] \in 0 .. N_MESSAGES
      /\ seen' = [seen EXCEPT ![c] = seen'[c]] /\ seen'[c] \in 0 .. N_MESSAGES
  BY <1>2, <1>3
<1>6. /\ hpc[c] \in {"none", "register"} <=> hpc'[c] \in {"none", "register"}
      /\ hpc[c] = "connect" <=> hpc'[c] = "connect"
      /\ \/ (hpc[c] = "returned" <=> hpc'[c] = "returned") /\ g_n_done' = g_n_done
         \/ hpc[c] = "leaving" /\ hpc'[c] = "returned" /\ g_n_done' = g_n_done + 1
  BY <1>1, <1>2
  DEF Call, Loop, Sleep, Break, Leave, StreamEnds, CutOff, Disconnect, Woken, ClientInv
<1>7. SlotInv(c)'
  <2>1. hpc'[c] = "asleep" => hpc[c] = "asleep" \/ ~SomethingToDo(c)
    BY <1>2 DEF Call, Loop, Sleep, Break, Leave, StreamEnds, CutOff, Disconnect, Woken
  <2> QED
    BY <1>1, <1>3, <1>6, <2>1 DEF SlotInv, SomethingToDo, slotVars, producerVars
<1>8. ClientInv(c)'
  <2>1. Break(c) /\ client[c] = "reading" => seen[c] = 0 /\ next = Total + 1
    <3> SUFFICES ASSUME Break(c), client[c] = "reading" PROVE seen[c] = 0 /\ next = Total + 1
      OBVIOUS
    <3>1. done[c] /\ q[c] = <<>> /\ hpc[c] = "take"
      BY DEF Break, SomethingToDo, Drained
    <3>2. next = Total + 1
      BY <1>1, <3>1 DEF SlotInv
    <3>3. PICK i \in 1 .. Len(g_slots) : g_slots[i] = c
      BY <3>1, Places
    <3>4. msg[c] + Len(q[c]) = Pushed(i)
      BY <3>3 DEF GrpcInv, PlaceInv
    <3>5. Pushed(i) = Total
      BY <1>1, <3>2, Numbers DEF Pushed, ProducerInv
    <3>6. msg[c] = Total
      BY <1>1, <3>1, <3>4, <3>5 DEF StateType
    <3>7. seen[c] \in {0, msg[c] - N_WARMUP} /\ seen[c] # N_MESSAGES
      BY <1>1, <3>1 DEF ClientInv
    <3> QED
      BY <3>2, <3>6, <3>7, Numbers
  <2>2. CASE Call(c)
    BY <1>1, <1>2, <1>3, <2>2, Numbers DEF Call, ClientInv, producerVars
  <2>3. CASE Loop(c) \/ Sleep(c) \/ Leave(c)
    BY <1>1, <1>2, <1>3, <2>3 DEF Loop, Sleep, Leave, ClientInv, clientVars, producerVars
  <2>4. CASE Break(c)
    BY <1>1, <1>2, <1>3, <2>1, <2>4 DEF Break, ClientInv, clientVars, producerVars
  <2>5. CASE StreamEnds(c) \/ CutOff(c) \/ Disconnect(c)
    BY <1>1, <1>2, <1>3, <2>5 DEF StreamEnds, CutOff, Disconnect, ClientInv, producerVars
  <2>6. CASE hpc[c] = "asleep" /\ hpc' = Woken(c) /\ UNCHANGED clientVars
    BY <1>1, <1>2, <1>3, <2>6 DEF Woken, ClientInv, clientVars, producerVars
  <2> QED
    BY <2>2, <2>3, <2>4, <2>5, <2>6
<1> QED
  BY <1>3, <1>4, <1>5, <1>6, <1>7, <1>8, StreamMoves

(* The client counts what it reads.                                        *)
LEMMA WriteKeeps ==
  ASSUME GrpcInv, NEW c \in Clients, Write(c)
  PROVE  GrpcInv'
<1>1. StateType /\ SlotInv(c) /\ ClientInv(c)
  BY DEF GrpcInv
<1>2. /\ hpc \in [Clients -> HandlerPlaces] /\ client \in [Clients -> ClientPlaces]
      /\ n_recv \in [Clients -> 0 .. N_MESSAGES] /\ seen \in [Clients -> 0 .. N_MESSAGES]
      /\ msg[c] \in 0 .. Total
  BY <1>1 DEF StateType, HandlerPlaces, ClientPlaces
<1>3. /\ UNCHANGED <<slotVars, producerVars, msg, g_n_connected, g_n_done>> /\ hpc[c] = "write"
      /\ hpc' = [hpc EXCEPT ![c] = hpc'[c]] /\ hpc'[c] \in {"loop", "leaving"}
      /\ hpc'[c] = "leaving" => msg[c] = Total \/ client[c] = "gone"
      /\ hpc'[c] = "loop" => msg[c] # Total \/ client[c] = "gone"
  BY <1>2 DEF Write
<1>4. client[c] \in {"reading", "cut", "gone"}
  BY <1>1, <1>2, <1>3 DEF ClientInv, ClientPlaces
<1>5. SlotInv(c)'
  BY <1>1, <1>3 DEF SlotInv, slotVars, producerVars
<1>6. CASE client[c] \in {"cut", "gone"}
  <2>1. UNCHANGED clientVars
    BY <1>6 DEF Write
  <2>2. ClientInv(c)'
    BY <1>1, <1>3, <1>6, <2>1 DEF ClientInv, clientVars
  <2>3. /\ client' = [client EXCEPT ![c] = client'[c]] /\ client'[c] \in ClientPlaces
        /\ n_recv' = [n_recv EXCEPT ![c] = n_recv'[c]] /\ n_recv'[c] \in 0 .. N_MESSAGES
        /\ seen' = [seen EXCEPT ![c] = seen'[c]] /\ seen'[c] \in 0 .. N_MESSAGES
    BY <1>2, <2>1 DEF clientVars
  <2>4. hpc'[c] \in HandlerPlaces
    BY <1>3 DEF HandlerPlaces
  <2> QED
    BY <1>3, <1>5, <2>2, <2>3, <2>4, StreamMoves
<1>7. CASE client[c] = "reading"
  <2>1. ClientReads(c)
    BY <1>7 DEF Write
  <2>2. /\ seen[c] \in {0, msg[c] - N_WARMUP - 1} /\ n_recv[c] <= seen[c]
        /\ seen[c] \in Nat /\ n_recv[c] \in Nat
    BY <1>1, <1>2, <1>3, <1>7 DEF ClientInv
  <2>3. /\ n_recv' = [n_recv EXCEPT ![c] = IF msg[c] > N_WARMUP THEN n_recv[c] + 1 ELSE n_recv[c]]
        /\ seen' = [seen EXCEPT ![c] = IF msg[c] > N_WARMUP THEN msg[c] - N_WARMUP ELSE seen[c]]
        /\ client' = [client EXCEPT ![c] = IF msg[c] = Total THEN "finished" ELSE client[c]]
    BY <1>2, <2>1 DEF ClientReads
  <2>4. /\ n_recv'[c] = (IF msg[c] > N_WARMUP THEN n_recv[c] + 1 ELSE n_recv[c])
        /\ seen'[c] = (IF msg[c] > N_WARMUP THEN msg[c] - N_WARMUP ELSE seen[c])
        /\ client'[c] = (IF msg[c] = Total THEN "finished" ELSE "reading")
    BY <1>2, <1>7, <2>3
  <2>5. /\ n_recv'[c] <= seen'[c] /\ n_recv'[c] \in Nat /\ seen'[c] \in 0 .. N_MESSAGES
        /\ (seen'[c] = N_MESSAGES => client'[c] = "finished")
        /\ seen'[c] \in {0, msg[c] - N_WARMUP}
    BY <1>2, <2>2, <2>4, Numbers
  <2>6. ClientInv(c)'
    BY <1>3, <1>7, <2>4, <2>5 DEF ClientInv
  <2>7. /\ client' = [client EXCEPT ![c] = client'[c]]
        /\ n_recv' = [n_recv EXCEPT ![c] = n_recv'[c]]
        /\ seen' = [seen EXCEPT ![c] = seen'[c]]
    BY <1>7, <2>3, <2>4, Zenon
  <2>8. client'[c] \in ClientPlaces
    BY <2>4 DEF ClientPlaces
  <2>9. n_recv'[c] \in 0 .. N_MESSAGES
    BY <2>5, Numbers
  <2>10. hpc'[c] \in HandlerPlaces
    BY <1>3 DEF HandlerPlaces
  <2> QED
    BY <1>3, <1>5, <2>5, <2>6, <2>7, <2>10, <2>8, <2>9, StreamMoves
<1> QED
  BY <1>4, <1>6, <1>7

-----------------------------------------------------------------------------
(* Steps of a handler that change the slots or the counters.               *)

(* A new slot: its stream begins with the message broadcast next.          *)
LEMMA RegisterKeeps ==
  ASSUME GrpcInv, NEW c \in Clients, Register(c)
  PROVE  GrpcInv'
<1> DEFINE n == Len(g_slots)
<1>1. /\ StateType /\ SeqsType /\ RegInv /\ ProducerInv /\ n \in Nat /\ at \in Nat /\ next \in Nat
      /\ next > 0 /\ SlotInv(c) /\ ClientInv(c) /\ next <= Total + 1 /\ Total \in Nat
      /\ Expected \in Nat
  BY Places, Numbers DEF GrpcInv, StateType
<1>2. /\ hpc[c] = "register" /\ ~RegHeld /\ g_slots' = Append(g_slots, c)
      /\ hpc' = [hpc EXCEPT ![c] = "connect"] /\ msg' = [msg EXCEPT ![c] = next - 1]
      /\ UNCHANGED <<q, done, g_n_connected, g_n_done, producerVars, clientVars>>
  BY DEF Register
<1>3. /\ hpc \in [Clients -> HandlerPlaces] /\ msg \in [Clients -> 0 .. Total]
      /\ g_slots \in Seq(Clients)
  BY <1>1 DEF StateType, HandlerPlaces, SeqsType
<1>4. /\ hpc' \in [Clients -> HandlerPlaces] /\ msg' \in [Clients -> 0 .. Total]
      /\ hpc'[c] = "connect" /\ msg'[c] = next - 1
      /\ \A d \in Clients : d # c => hpc'[d] = hpc[d] /\ msg'[d] = msg[d]
  BY <1>1, <1>2, <1>3 DEF HandlerPlaces
<1>5. /\ g_slots' \in Seq(Clients) /\ Len(g_slots') = n + 1 /\ g_slots'[n + 1] = c
      /\ \A i \in 1 .. n : g_slots'[i] = g_slots[i]
  BY <1>2, <1>3
<1>6. \A i \in 1 .. n : g_slots[i] \in Clients /\ g_slots[i] # c
  BY <1>2, Places
<1> HIDE DEF n
<1>7. \A i \in 1 .. n + 1 : i = n + 1 \/ i \in 1 .. n
  BY <1>1
<1>8. Registered' = Registered \cup {c} /\ c \notin Registered
  <2>1. ASSUME NEW x \in Registered PROVE x \in Registered' /\ x # c
    <3>1. PICK i \in 1 .. n : x = g_slots[i]
      BY <2>1 DEF Registered, n
    <3>2. i \in 1 .. n + 1
      BY <1>1, <3>1
    <3> QED
      BY <1>5, <1>6, <3>1, <3>2 DEF Registered
  <2>2. c \in Registered'
    BY <1>1, <1>5 DEF Registered
  <2>3. ASSUME NEW x \in Registered' PROVE x \in Registered \/ x = c
    <3>1. PICK i \in 1 .. n + 1 : x = g_slots'[i]
      BY <1>5, <2>3 DEF Registered
    <3> QED
      BY <1>5, <1>7, <3>1 DEF Registered, n
  <2> QED
    BY <2>1, <2>2, <2>3
<1>9. Connected' = Connected /\ Returned' = Returned
  BY <1>2, <1>4 DEF Connected, Returned
<1>10. Registered' = {d \in Clients : hpc'[d] \notin {"none", "register"}}
  BY <1>1, <1>2, <1>4, <1>8 DEF RegInv
<1>11. \A i, j \in 1 .. n + 1 : g_slots'[i] = g_slots'[j] => i = j
  <2>1. \A i, j \in 1 .. n : g_slots[i] = g_slots[j] => i = j
    BY <1>1 DEF RegInv, n
  <2> QED
    BY <1>5, <1>6, <1>7, <2>1
<1>12. RegInv'
  BY <1>1, <1>2, <1>5, <1>9, <1>10, <1>11 DEF RegInv
<1>13. SeqsType'
  BY <1>1, <1>2, <1>5 DEF SeqsType
<1>14. StateType'
  <2>1. Len(g_slots') = Cardinality(Registered')
    <3>1. Len(g_slots) = Cardinality(Registered) /\ Registered \subseteq Clients
      BY <1>1 DEF StateType
    <3>2. Cardinality(Registered \cup {c}) = Cardinality(Registered) + 1
      BY <1>8, <3>1, CountsInRange, FS_AddElement
    <3> QED
      BY <1>5, <1>8, <3>1, <3>2, Zenon DEF n
  <2>2. Registered' \subseteq Clients
    BY <1>10
  <2>3. UNCHANGED <<ppc, next, at, client, n_recv, seen>>
    BY <1>2 DEF producerVars, clientVars
  <2> QED
    BY <1>1, <1>2, <1>4, <2>1, <2>2, <2>3 DEF StateType, HandlerPlaces
<1>15. ProducerInv'
  BY <1>1, <1>2, <1>5 DEF ProducerInv, RegHeld, producerVars, n
<1>16. ASSUME NEW i \in 1 .. n + 1 PROVE PlaceInv(i)'
  <2>1. Pushed(i)' = next - 1 /\ Pushed(i) = next - 1
    BY <1>2 DEF Pushed, RegHeld, producerVars
  <2>2. CASE i = n + 1
    <3>1. q'[c] = <<>> /\ g_slots'[i] = c
      BY <1>1, <1>2, <1>5, <2>2 DEF SlotInv
    <3>2. Len(q'[c]) = 0
      BY <3>1
    <3> QED
      BY <1>1, <1>4, <2>1, <3>1, <3>2 DEF PlaceInv
  <2>3. CASE i # n + 1
    <3>1. i \in 1 .. n
      BY <1>7, <2>3
    <3>2. PlaceInv(i)
      BY <3>1 DEF GrpcInv, n
    <3>3. g_slots'[i] = g_slots[i] /\ g_slots[i] \in Clients /\ g_slots[i] # c
      BY <1>5, <1>6, <3>1
    <3>4. msg'[g_slots'[i]] = msg[g_slots[i]] /\ q' = q
      BY <1>2, <1>4, <3>3
    <3> QED
      BY <2>1, <3>2, <3>3, <3>4 DEF PlaceInv
  <2> QED
    BY <2>2, <2>3
<1>17. ASSUME NEW d \in Clients PROVE SlotInv(d)' /\ ClientInv(d)'
  <2>1. SlotInv(d) /\ ClientInv(d)
    BY DEF GrpcInv
  <2>2. SlotInv(d)'
    BY <1>2, <1>4, <2>1 DEF SlotInv, producerVars
  <2>3. ClientInv(d)'
    BY <1>2, <1>4, <2>1 DEF ClientInv, producerVars, clientVars
  <2> QED
    BY <2>2, <2>3
<1> QED
  BY <1>5, <1>12, <1>13, <1>14, <1>15, <1>16, <1>17 DEF GrpcInv

(* g_n_connected counts the handlers that have come this far.              *)
LEMMA ConnectKeeps ==
  ASSUME GrpcInv, NEW c \in Clients, Connect(c)
  PROVE  GrpcInv'
<1>1. /\ StateType /\ SeqsType /\ RegInv /\ ProducerInv /\ SlotInv(c) /\ ClientInv(c)
  BY DEF GrpcInv
<1>2. /\ hpc[c] = "connect" /\ g_n_connected' = g_n_connected + 1
      /\ ppc' = (IF ppc = "barrierSleep" THEN "barrier" ELSE ppc)
      /\ hpc' = [hpc EXCEPT ![c] = "loop"]
      /\ UNCHANGED <<g_slots, q, done, g_n_done, next, at, msg, client, n_recv, seen>>
  BY DEF Connect, slotVars, clientVars
<1>3. hpc \in [Clients -> HandlerPlaces]
  BY <1>1 DEF StateType, HandlerPlaces
<1>4. /\ hpc' \in [Clients -> HandlerPlaces] /\ hpc'[c] = "loop"
      /\ \A d \in Clients : d # c => hpc'[d] = hpc[d]
  BY <1>2, <1>3 DEF HandlerPlaces
<1>5. Returned' = Returned /\ Connected' = Connected \cup {c} /\ c \notin Connected
  BY <1>2, <1>4 DEF Connected, Returned
<1>6. {d \in Clients : hpc'[d] \notin {"none", "register"}}
       = {d \in Clients : hpc[d] \notin {"none", "register"}}
  BY <1>2, <1>4
<1>7. g_n_connected' = Cardinality(Connected')
  <2>1. g_n_connected = Cardinality(Connected) /\ Connected \subseteq Clients
    BY <1>1 DEF RegInv, Connected
  <2>2. Cardinality(Connected \cup {c}) = Cardinality(Connected) + 1
    BY <1>5, <2>1, CountsInRange, FS_AddElement
  <2> QED
    BY <1>2, <1>5, <2>1, <2>2, Zenon
<1>8. RegInv'
  BY <1>1, <1>2, <1>5, <1>6, <1>7 DEF RegInv, Registered
<1>9. g_n_connected' \in 0 .. Expected /\ g_n_done' \in 0 .. g_n_connected'
  <2>1. Returned' \subseteq Connected' /\ Connected' \subseteq Clients
    BY DEF Returned, Connected
  <2>2. /\ Cardinality(Returned') \in 0 .. Cardinality(Connected')
        /\ Cardinality(Connected') \in 0 .. Expected
    BY <2>1, CountsInRange
  <2> QED
    BY <1>8, <2>2 DEF RegInv
<1>10. StateType'
  <2>1. Registered' = Registered
    BY <1>2 DEF Registered
  <2> QED
    BY <1>1, <1>2, <1>4, <1>9, <2>1 DEF StateType, HandlerPlaces
<1>11. SeqsType' /\ ProducerInv'
  BY <1>1, <1>2 DEF SeqsType, ProducerInv, HasRoom, Full
<1>12. ASSUME NEW i \in 1 .. Len(g_slots) PROVE PlaceInv(i)'
  <2>1. PlaceInv(i) /\ Pushed(i)' = Pushed(i)
    BY <1>2 DEF GrpcInv, Pushed
  <2> QED
    BY <1>2, <2>1 DEF PlaceInv
<1>13. ASSUME NEW d \in Clients PROVE SlotInv(d)' /\ ClientInv(d)'
  <2>1. SlotInv(d) /\ ClientInv(d)
    BY DEF GrpcInv
  <2>2. SlotInv(d)'
    BY <1>2, <1>4, <2>1 DEF SlotInv
  <2>3. ClientInv(d)'
    BY <1>2, <1>4, <2>1 DEF ClientInv
  <2> QED
    BY <2>2, <2>3
<1> QED
  BY <1>2, <1>8, <1>10, <1>11, <1>12, <1>13 DEF GrpcInv

(* The message behind the last one taken is at the head of the queue.      *)
LEMMA TakeKeeps ==
  ASSUME GrpcInv, NEW c \in Clients, Take(c)
  PROVE  GrpcInv'
<1>1. /\ StateType /\ SeqsType /\ RegInv /\ ProducerInv /\ SlotInv(c) /\ ClientInv(c)
      /\ Total \in Nat /\ N_WARMUP \in Nat
  BY Numbers DEF GrpcInv
<1>2. /\ hpc[c] = "take" /\ q[c] # <<>> /\ msg' = [msg EXCEPT ![c] = Head(q[c])]
      /\ q' = [q EXCEPT ![c] = Tail(q[c])] /\ hpc' = [hpc EXCEPT ![c] = "write"]
      /\ ppc' = (IF ppc = "asleep" /\ g_slots[at] = c THEN "push" ELSE ppc)
      /\ UNCHANGED <<g_slots, done, g_n_connected, g_n_done, next, at, client, n_recv, seen>>
  BY DEF Take, Drained, QueueFront, NotifyProducer, clientVars
<1>3. /\ hpc \in [Clients -> HandlerPlaces] /\ msg \in [Clients -> 0 .. Total]
      /\ q \in [Clients -> Seq(1 .. Total)]
  BY <1>1 DEF StateType, HandlerPlaces, SeqsType
<1>4. q[c] \in Seq(1 .. Total)
  BY <1>3
<1>5. /\ Len(q[c]) \in Nat \ {0} /\ Head(q[c]) = q[c][1] /\ Head(q[c]) \in 1 .. Total
      /\ Tail(q[c]) \in Seq(1 .. Total) /\ Len(Tail(q[c])) = Len(q[c]) - 1
      /\ \A k \in 1 .. Len(q[c]) - 1 : Tail(q[c])[k] = q[c][k + 1]
  BY <1>2, <1>4, FirstOut
<1>6. /\ q' \in [Clients -> Seq(1 .. Total)] /\ q'[c] = Tail(q[c])
      /\ \A d \in Clients : d # c => q'[d] = q[d]
  BY <1>2, <1>3, <1>5
<1>7. /\ hpc' \in [Clients -> HandlerPlaces] /\ hpc'[c] = "write"
      /\ \A d \in Clients : d # c => hpc'[d] = hpc[d]
  BY <1>2, <1>3 DEF HandlerPlaces
<1>8. /\ msg' \in [Clients -> 0 .. Total] /\ msg'[c] = Head(q[c])
      /\ \A d \in Clients : d # c => msg'[d] = msg[d]
  BY <1>1, <1>2, <1>3, <1>5
<1>9. PICK i \in 1 .. Len(g_slots) : g_slots[i] = c
  BY <1>2, Places
<1>10. /\ msg[c] + Len(q[c]) = Pushed(i)
      /\ \A k \in 1 .. Len(q[c]) : q[c][k] = msg[c] + k
  BY <1>9 DEF GrpcInv, PlaceInv
<1>11. msg'[c] = msg[c] + 1 /\ msg[c] \in Nat
  <2>1. 1 \in 1 .. Len(q[c])
    BY <1>5
  <2> QED
    BY <1>3, <1>5, <1>8, <1>10, <2>1
<1>12. Connected' = Connected /\ Returned' = Returned
  BY <1>2, <1>7 DEF Connected, Returned
<1>13. {d \in Clients : hpc'[d] \notin {"none", "register"}}
        = {d \in Clients : hpc[d] \notin {"none", "register"}}
  BY <1>2, <1>7
<1>14. RegInv'
  BY <1>1, <1>2, <1>12, <1>13 DEF RegInv, Registered
<1>15. SeqsType'
  BY <1>1, <1>2, <1>6 DEF SeqsType
<1>16. ProducerInv'
  <2>1. ppc' = "asleep" => at <= Len(g_slots) /\ q'[g_slots[at]] = q[g_slots[at]]
    <3> SUFFICES ASSUME ppc' = "asleep"
                 PROVE  at <= Len(g_slots) /\ q'[g_slots[at]] = q[g_slots[at]]
      OBVIOUS
    <3>1. ppc = "asleep" /\ g_slots[at] # c
      BY <1>2
    <3>2. at <= Len(g_slots) /\ at \in 1 .. Len(g_slots)
      BY <1>1, <3>1, Places DEF ProducerInv
    <3>3. g_slots[at] \in Clients
      BY <3>2, Places
    <3> QED
      BY <1>6, <3>1, <3>2, <3>3
  <2> QED
    BY <1>1, <1>2, <2>1 DEF ProducerInv, HasRoom, Full
<1>17. StateType'
  <2>1. ASSUME NEW d \in Clients
        PROVE  Len(q'[d]) <= MAX_QUEUE_DEPTH /\ \A k \in 1 .. Len(q'[d]) : q'[d][k] \in 1 .. Total
    <3>1. q'[d] \in Seq(1 .. Total)
      BY <1>6
    <3>2. Len(q[d]) <= MAX_QUEUE_DEPTH
      BY <1>1 DEF StateType
    <3>3. Len(q'[d]) <= MAX_QUEUE_DEPTH
      <4>1. CASE d = c
        <5>1. PICK n \in Nat : n = Len(q[c])
          BY <1>5
        <5>2. n - 1 <= MAX_QUEUE_DEPTH /\ Len(q'[c]) = n - 1
          BY <1>5, <1>6, <3>2, <4>1, <5>1, Numbers
        <5> QED
          BY <4>1, <5>2, Zenon
      <4>2. CASE d # c
        BY <1>6, <3>2, <4>2, Zenon
      <4> QED
        BY <4>1, <4>2
    <3>4. \A k \in 1 .. Len(q'[d]) : q'[d][k] \in 1 .. Total
      BY <3>1, Elements
    <3> QED
      BY <3>3, <3>4
  <2>2. Registered' = Registered
    BY <1>2 DEF Registered
  <2>3. ppc' \in {"barrier", "going", "barrierSleep", "acquire", "push", "asleep", "sent",
                 "signal", "waitDone", "shutdown", "down"}
    BY <1>1, <1>2 DEF StateType
  <2>4. hpc' \in [Clients -> {"none", "register", "connect", "loop", "take", "asleep", "write",
                            "leaving", "returned"}]
    BY <1>7 DEF HandlerPlaces
  <2>5. /\ Registered \subseteq Clients /\ Len(g_slots) = Cardinality(Registered)
        /\ done \in [Clients -> BOOLEAN]
        /\ g_n_connected \in 0 .. Expected /\ g_n_done \in 0 .. g_n_connected
        /\ next \in 1 .. Total + 1 /\ at \in 1 .. Expected + 1
        /\ client \in [Clients -> {"idle", "reading", "finished", "cut", "gone"}]
        /\ n_recv \in [Clients -> 0 .. N_MESSAGES] /\ seen \in [Clients -> 0 .. N_MESSAGES]
    BY <1>1 DEF StateType
  <2> QED
    BY <1>2, <1>8, <2>1, <2>2, <2>3, <2>4, <2>5 DEF StateType
<1>18. \A j \in 1 .. Len(g_slots) : Pushed(j)' = Pushed(j)
  BY <1>2 DEF Pushed
<1>19. ASSUME NEW j \in 1 .. Len(g_slots) PROVE PlaceInv(j)'
  <2>1. CASE g_slots[j] = c
    <3>1. Pushed(j)' = Pushed(i)
      BY <1>1, <1>9, <1>18, <2>1 DEF RegInv
    <3>2. PICK n \in Nat \ {0} : n = Len(q[c])
      BY <1>5
    <3>3. Len(q'[c]) = n - 1 /\ msg[c] + n = Pushed(i)
      BY <1>5, <1>6, <1>10, <3>2
    <3>4. msg'[c] + (n - 1) = msg[c] + n
      BY <1>11, <3>2, SMTT(30)
    <3>5. msg'[c] + Len(q'[c]) = Pushed(j)'
      BY <3>1, <3>3, <3>4, Zenon
    <3>6. ASSUME NEW k \in 1 .. n - 1 PROVE q'[c][k] = msg'[c] + k
      <4>1. q'[c][k] = q[c][k + 1] /\ k + 1 \in 1 .. n
        BY <1>5, <1>6, <3>2
      <4>2. q[c][k + 1] = msg[c] + (k + 1)
        BY <1>10, <3>2, <4>1, Zenon
      <4> QED
        BY <1>11, <4>1, <4>2
    <3> QED
      BY <1>2, <2>1, <3>3, <3>5, <3>6 DEF PlaceInv
  <2>2. CASE g_slots[j] # c
    <3>1. PlaceInv(j) /\ g_slots[j] \in Clients /\ Pushed(j)' = Pushed(j)
      BY <1>18, Places DEF GrpcInv
    <3>2. q'[g_slots[j]] = q[g_slots[j]] /\ msg'[g_slots[j]] = msg[g_slots[j]]
      BY <1>6, <1>8, <2>2, <3>1
    <3> QED
      BY <1>2, <3>1, <3>2 DEF PlaceInv
  <2> QED
    BY <2>1, <2>2
<1>20. ASSUME NEW d \in Clients PROVE SlotInv(d)' /\ ClientInv(d)'
  <2>1. SlotInv(d) /\ ClientInv(d)
    BY DEF GrpcInv
  <2>2. CASE d = c
    <3>1. SlotInv(c)'
      BY <1>2, <1>7, <2>1, <2>2 DEF SlotInv
    <3>2. client[c] = "reading" => seen[c] \in {0, msg'[c] - N_WARMUP - 1}
      BY <1>1, <1>2, <1>11, <2>1, <2>2, SMTT(30) DEF ClientInv
    <3>3. ClientInv(c)'
      BY <1>2, <1>7, <2>1, <2>2, <3>2 DEF ClientInv
    <3> QED
      BY <2>2, <3>1, <3>3
  <2>3. CASE d # c
    BY <1>2, <1>6, <1>7, <1>8, <2>1, <2>3 DEF SlotInv, ClientInv
  <2> QED
    BY <2>2, <2>3
<1> QED
  BY <1>2, <1>14, <1>15, <1>16, <1>17, <1>19, <1>20 DEF GrpcInv

-----------------------------------------------------------------------------
LEMMA StepKeeps == GrpcInv /\ [Next]_vars => GrpcInv'
<1> SUFFICES ASSUME GrpcInv, [Next]_vars PROVE GrpcInv'
  OBVIOUS
<1>1. CASE producer_thread
  <2>1. UNCHANGED <<g_slots, g_n_connected, g_n_done, msg, clientVars>>
    BY <1>1 DEF producer_thread
  <2>2. CASE /\ \/ BarrierCheck \/ BarrierSleep \/ Acquire \/ Release \/ SignalAcquire
                \/ SignalRelease \/ WaitDone \/ ShutdownReturns
             /\ UNCHANGED <<q, done, hpc>>
    BY <2>1, <2>2, PlaceStepsKeep DEF slotVars
  <2>3. CASE PushBlock /\ UNCHANGED done
    <3>1. UNCHANGED <<q, hpc>>
      BY <2>3 DEF PushBlock
    <3> QED
      BY <2>1, <2>3, <3>1, PlaceStepsKeep DEF slotVars
  <2>4. CASE Push /\ UNCHANGED done
    BY <2>1, <2>4, PushKeeps
  <2>5. CASE Signal /\ UNCHANGED q
    BY <2>1, <2>5, SignalKeeps
  <2> QED
    BY <1>1, <2>2, <2>3, <2>4, <2>5 DEF producer_thread
<1>2. CASE BarrierClock
  BY <1>2, PlaceStepsKeep DEF BarrierClock
<1>3. CASE Spurious
  <2>1. UNCHANGED <<slotVars, g_n_connected, g_n_done, next, at, msg, clientVars>>
    BY <1>3 DEF Spurious
  <2>2. ASSUME NEW c \in Clients, hpc[c] = "asleep" /\ hpc' = Woken(c) /\ UNCHANGED ppc
        PROVE  GrpcInv'
    BY <2>1, <2>2, QuietStreamKeeps
  <2>3. CASE UNCHANGED hpc /\ ppc = "asleep" /\ ppc' = "push"
    <3>1. UNCHANGED <<slotVars, g_n_connected, g_n_done, hpc, msg, clientVars>>
      BY <2>1, <2>3
    <3> QED
      BY <2>1, <2>3, <3>1, PlaceStepsKeep
  <2>4. CASE UNCHANGED hpc /\ ppc = "barrierSleep" /\ ppc' = "barrier"
    <3>1. UNCHANGED <<slotVars, g_n_connected, g_n_done, hpc, msg, clientVars>>
      BY <2>1, <2>4
    <3> QED
      BY <2>1, <2>4, <3>1, PlaceStepsKeep
  <2> QED
    BY <1>3, <2>2, <2>3, <2>4 DEF Spurious
<1>4. ASSUME NEW c \in Clients, Stream(c) \/ CutOff(c) \/ Disconnect(c) PROVE GrpcInv'
  BY <1>4, QuietStreamKeeps, RegisterKeeps, ConnectKeeps, TakeKeeps, WriteKeeps DEF Stream
<1>5. CASE Kill \/ UNCHANGED vars
  <2>1. UNCHANGED <<slotVars, g_n_connected, g_n_done, hpc, msg, clientVars, ppc, next, at>>
    BY <1>5 DEF Kill, vars, producerVars
  <2>2. /\ StateType' /\ SeqsType'
        /\ RegInv' /\ ProducerInv'
    <3>1. UNCHANGED <<g_slots, q, done, client, n_recv, seen, Registered, Connected, Returned>>
      BY <2>1 DEF slotVars, clientVars, Registered, Connected, Returned
    <3>2. StateType'
      BY <2>1, <3>1, Zenon DEF GrpcInv, StateType
    <3>3. SeqsType' /\ RegInv'
      BY <2>1, <3>1, Zenon DEF GrpcInv, SeqsType, RegInv
    <3>4. ProducerInv'
      BY <2>1, <3>1 DEF GrpcInv, ProducerInv, HasRoom, Full
    <3> QED
      BY <3>2, <3>3, <3>4
  <2>3. ASSUME NEW i \in 1 .. Len(g_slots) PROVE PlaceInv(i)'
    BY <2>1 DEF GrpcInv, PlaceInv, Pushed, slotVars
  <2>4. ASSUME NEW c \in Clients PROVE SlotInv(c)' /\ ClientInv(c)'
    BY <2>1 DEF GrpcInv, SlotInv, ClientInv, slotVars, clientVars
  <2> QED
    BY <2>1, <2>2, <2>3, <2>4 DEF GrpcInv, slotVars
<1> QED
  BY <1>1, <1>2, <1>3, <1>4, <1>5 DEF Next

(* The inductive invariant.                                                *)
THEOREM GrpcInvariant == Spec => []GrpcInv
BY InitHolds, StepKeeps, PTL DEF Spec

(* The state keeps its type: in particular no queue ever holds more than   *)
(* MAX_QUEUE_DEPTH messages (bench_server.cpp, 217-221).                   *)
THEOREM GrpcTypeCorrect == Spec => []TypeOK
<1> DEFINE UpOK == up \in BOOLEAN
<1>1. Init => UpOK
  BY DEF Init
<1>2. UpOK /\ [Next]_vars => UpOK'
  BY DEF Next, producer_thread, BarrierClock, Spurious, Kill, Stream, CutOff, Disconnect, vars
<1>3. GrpcInv /\ UpOK => TypeOK
  BY DEF GrpcInv, TypeOK
<1> HIDE DEF UpOK
<1> QED
  BY <1>1, <1>2, <1>3, GrpcInvariant, PTL DEF Spec

(* From its registration on a stream loses, repeats and reorders nothing   *)
(* (bench_server.cpp, 174-193 and 213-227).                                *)
THEOREM NoGapInStreams == Spec => []StreamUnbroken
<1>1. GrpcInv => StreamUnbroken
  <2> SUFFICES ASSUME GrpcInv, NEW i \in 1 .. Len(g_slots)
               PROVE  q[g_slots[i]] = [k \in 1 .. Pushed(i) - msg[g_slots[i]] |-> msg[g_slots[i]] + k]
    BY DEF StreamUnbroken
  <2> DEFINE c == g_slots[i]
  <2>1. c \in Clients
    BY Places
  <2>2. /\ msg[c] + Len(q[c]) = Pushed(i)
        /\ \A k \in 1 .. Len(q[c]) : q[c][k] = msg[c] + k
    BY DEF GrpcInv, PlaceInv
  <2>3. q[c] \in Seq(1 .. Total) /\ msg[c] \in 0 .. Total
    BY <2>1 DEF GrpcInv, SeqsType, StateType
  <2> HIDE DEF c
  <2>4. Len(q[c]) \in Nat /\ q[c] = [k \in 1 .. Len(q[c]) |-> q[c][k]]
    BY <2>3
  <2>5. Pushed(i) - msg[c] = Len(q[c])
    BY <2>2, <2>3, <2>4
  <2>6. q[c] = [k \in 1 .. Len(q[c]) |-> msg[c] + k]
    BY <2>2, <2>4
  <2> QED
    BY <2>5, <2>6, Zenon DEF c
<1> QED
  BY <1>1, GrpcInvariant, PTL

(* No notification of a slot's condition variable is missing               *)
(* (bench_server.cpp, 109, 180 and 223).                                   *)
THEOREM NobodySleepsForNothing == Spec => []AsleepForAReason
<1>1. GrpcInv => AsleepForAReason
  BY DEF GrpcInv, ProducerInv, SlotInv, AsleepForAReason
<1> QED
  BY <1>1, GrpcInvariant, PTL

-----------------------------------------------------------------------------
(* What Broadcast sees of a run.                                           *)
Published == IF Begun < N_WARMUP THEN 0 ELSE Begun - N_WARMUP

Outcome == [c \in Clients |-> Stage(c)]

(* Broadcast sees nothing of a step that keeps these.                      *)
LEMMA Unseen ==
  UNCHANGED <<Published, up, seen, n_recv, Outcome>> => UNCHANGED Streams!vars
<1> SUFFICES ASSUME UNCHANGED <<Published, up, seen, n_recv, Outcome>>
             PROVE  UNCHANGED Streams!vars
  OBVIOUS
<1>1. UNCHANGED (~up)
  OBVIOUS
<1>2. UNCHANGED <<Published, seen, n_recv, Outcome>>
  OBVIOUS
<1> QED
  BY <1>1, <1>2, Zenon DEF Streams!vars, Published, Outcome

LEMMA StreamInit == Init => Streams!Init
<1> SUFFICES ASSUME Init PROVE Streams!Init
  OBVIOUS
<1>1. Published = 0 /\ (~up) = FALSE
  BY Numbers DEF Published, Begun, Init
<1>2. Outcome = [c \in Clients |-> "receiving"]
  BY DEF Outcome, Stage, Init
<1> QED
  BY <1>1, <1>2, Zenon DEF Streams!Init, Init, Published, Outcome

(* How far the broadcast is, from the place of producer_thread.            *)
LEMMA BegunRange ==
  ASSUME GrpcInv
  PROVE  /\ Begun \in 0 .. Total
         /\ ppc \in {"sent", "signal", "waitDone", "shutdown", "down"} => Begun = Total
         /\ next = Total + 1 => Begun = Total
         /\ \A i \in 1 .. Len(g_slots) : Pushed(i) <= Begun
<1>1. /\ next \in 1 .. Total + 1 /\ at \in Nat /\ at > 0 /\ Total \in Nat /\ ProducerInv
      /\ Len(g_slots) \in Nat
  BY Places, Numbers DEF GrpcInv, StateType
<1>2. Begun \in 0 .. Total
  BY <1>1 DEF Begun, ProducerInv
<1>3. ppc \in {"sent", "signal", "waitDone", "shutdown", "down"} => Begun = Total
  BY <1>1 DEF Begun, ProducerInv
<1>4. ASSUME NEW i \in 1 .. Len(g_slots) PROVE Pushed(i) <= Begun
  BY <1>1 DEF Pushed, Begun
<1>5. next = Total + 1 => Begun = Total
  BY <1>1 DEF Begun, ProducerInv
<1> QED
  BY <1>2, <1>3, <1>4, <1>5

(* A step that keeps the clients publishes at most one message more.       *)
LEMMA BroadcastStreams ==
  ASSUME GrpcInv, UNCHANGED <<up, clientVars>>,
         Begun' = Begun \/ (up /\ Begun' = Begun + 1 /\ Begun < Total)
  PROVE  [Streams!Next]_Streams!vars
<1>1. UNCHANGED <<seen, n_recv, Outcome>>
  BY DEF clientVars, Outcome, Stage
<1>2. Begun \in 0 .. Total
  BY BegunRange
<1>3. CASE Published' = Published
  BY <1>1, <1>3, Unseen
<1>4. CASE Published' # Published
  <2>1. Published < N_MESSAGES /\ Published' = Published + 1 /\ up /\ ~(~up)
    BY <1>2, <1>4, Numbers DEF Published
  <2>2. Streams!Publish
    BY <1>1, <2>1, Zenon DEF Streams!Publish, Published, Outcome
  <2> QED
    BY <2>2 DEF Streams!Next
<1> QED
  BY <1>3, <1>4

LEMMA ProducerStreams ==
  ASSUME GrpcInv, producer_thread \/ BarrierClock \/ Spurious
  PROVE  [Streams!Next]_Streams!vars
<1>1. /\ ProducerInv /\ at \in Nat /\ at > 0 /\ next \in Nat /\ next > 0 /\ Total \in Nat
      /\ Len(g_slots) \in Nat
  BY Places, Numbers DEF GrpcInv
<1>2. UNCHANGED <<up, clientVars>> /\ up
  BY DEF producer_thread, BarrierClock, Spurious
<1>3. CASE Release
  <2>1. /\ ppc = "push" /\ next' = next + 1 /\ ppc' \notin {"push", "asleep"} /\ next <= Total
    BY <1>1, <1>3 DEF Release, ProducerInv
  <2>2. Begun' = next
    BY <1>1, <2>1 DEF Begun
  <2> QED
    BY <1>1, <1>2, <2>1, <2>2, BroadcastStreams DEF Begun
<1>4. CASE Push
  <2>1. ppc = "push" /\ ppc' = "push" /\ at' = at + 1 /\ next' = next /\ next <= Total
    BY <1>1, <1>4 DEF Push, ProducerInv
  <2>2. Begun' = next
    BY <1>1, <2>1 DEF Begun
  <2> QED
    BY <1>1, <1>2, <2>1, <2>2, BroadcastStreams DEF Begun
<1>5. CASE Acquire
  <2>1. Begun' = Begun
    BY <1>5 DEF Acquire, Begun
  <2> QED
    BY <1>2, <2>1, BroadcastStreams
<1>6. CASE \/ BarrierCheck \/ BarrierSleep \/ BarrierClock \/ PushBlock \/ SignalAcquire \/ Signal
           \/ SignalRelease \/ WaitDone \/ ShutdownReturns \/ Spurious
  <2>1. /\ next' = next
        /\ \/ UNCHANGED at /\ (ppc \in {"push", "asleep"} <=> ppc' \in {"push", "asleep"})
           \/ ppc \notin {"push", "asleep"} /\ ppc' \notin {"push", "asleep"}
    BY <1>6
    DEF BarrierCheck, BarrierSleep, BarrierClock, BarrierTimeout, PushBlock, SignalAcquire, Signal,
        SignalRelease, WaitDone, ShutdownReturns, Spurious
  <2>2. Begun' = Begun
    BY <2>1 DEF Begun
  <2> QED
    BY <1>2, <2>2, BroadcastStreams
<1> QED
  BY <1>3, <1>4, <1>5, <1>6 DEF producer_thread

(* The handlers do not broadcast.                                          *)
LEMMA HandlerKeepsBegun ==
  ASSUME NEW c \in Clients, Stream(c) \/ CutOff(c) \/ Disconnect(c)
  PROVE  Begun' = Begun
<1>1. /\ UNCHANGED <<next, at>>
      /\ (ppc \in {"push", "asleep"} <=> ppc' \in {"push", "asleep"})
  BY DEF Stream, Call, Register, Connect, Loop, Sleep, Break, Take, NotifyProducer, Write, Leave,
         StreamEnds, CutOff, Disconnect, producerVars
<1> QED
  BY <1>1 DEF Begun

(* What a client reads is the next message, or its first.                  *)
LEMMA WriteStreams ==
  ASSUME GrpcInv, NEW c \in Clients, Write(c), up, UNCHANGED up
  PROVE  [Streams!Next]_Streams!vars
<1>1. /\ StateType /\ ClientInv(c) /\ Begun' = Begun /\ Begun \in 0 .. Total
  BY HandlerKeepsBegun, BegunRange DEF GrpcInv, Stream
<1>2. /\ client \in [Clients -> ClientPlaces] /\ msg[c] \in 0 .. Total
      /\ n_recv \in [Clients -> 0 .. N_MESSAGES] /\ seen \in [Clients -> 0 .. N_MESSAGES]
  BY <1>1 DEF StateType, ClientPlaces
<1>3. CASE UNCHANGED clientVars
  BY <1>1, <1>3, BroadcastStreams
<1>4. CASE ~UNCHANGED clientVars
  <2>1. client[c] = "reading" /\ hpc[c] = "write" /\ ClientReads(c)
    BY <1>4 DEF Write
  <2>2. /\ seen[c] \in {0, msg[c] - N_WARMUP - 1} /\ seen[c] \in 0 .. N_MESSAGES
        /\ seen[c] # N_MESSAGES
    BY <1>1, <1>2, <2>1 DEF ClientInv
  <2>3. msg[c] > N_WARMUP
    <3> SUFFICES ASSUME ~(msg[c] > N_WARMUP) PROVE UNCHANGED clientVars
      BY <1>4
    <3>1. msg[c] # Total
      BY <1>2, Numbers
    <3> QED
      BY <1>2, <2>1, <3>1 DEF ClientReads, clientVars
  <2> DEFINE m == msg[c] - N_WARMUP
  <2>4. /\ m \in 1 .. N_MESSAGES /\ (m = N_MESSAGES <=> msg[c] = Total)
        /\ seen[c] < m /\ (m = seen[c] + 1 \/ seen[c] = 0)
    BY <1>2, <2>2, <2>3, Numbers
  <2>5. msg[c] <= Begun
    <3>1. PICK i \in 1 .. Len(g_slots) : g_slots[i] = c
      BY <2>1, Places
    <3>2. msg[c] + Len(q[c]) = Pushed(i) /\ Pushed(i) <= Begun
      BY <3>1, BegunRange DEF GrpcInv, PlaceInv
    <3>3. q[c] \in Seq(1 .. Total)
      BY DEF GrpcInv, SeqsType
    <3>4. PICK n \in Nat : n = Len(q[c])
      BY <3>3, Elements
    <3>5. msg[c] + n <= Begun
      BY <3>2, <3>4
    <3> QED
      BY <1>1, <1>2, <3>4, <3>5, Numbers
  <2>6. m <= Published
    BY <1>1, <1>2, <2>3, <2>5, Numbers DEF Published
  <2>7. /\ n_recv' = [n_recv EXCEPT ![c] = @ + 1] /\ seen' = [seen EXCEPT ![c] = m]
        /\ client' = [client EXCEPT ![c] = IF m = N_MESSAGES THEN "finished" ELSE client[c]]
    BY <2>1, <2>3, <2>4 DEF ClientReads
  <2> HIDE DEF m
  <2>8. Outcome[c] = "receiving"
    BY <2>1 DEF Outcome, Stage
  <2>9. Outcome' = [Outcome EXCEPT ![c] = IF m = N_MESSAGES THEN "complete" ELSE "receiving"]
    <3>1. ASSUME NEW d \in Clients
          PROVE  Outcome'[d] = (IF d = c THEN IF m = N_MESSAGES THEN "complete" ELSE "receiving"
                                         ELSE Outcome[d])
      <4>1. CASE d = c
        <5>1. seen'[c] = m /\ client'[c] = (IF m = N_MESSAGES THEN "finished" ELSE "reading")
          BY <1>2, <2>1, <2>7
        <5> QED
          BY <4>1, <5>1 DEF Outcome, Stage
      <4>2. CASE d # c
        <5>1. seen'[d] = seen[d] /\ client'[d] = client[d]
          BY <1>2, <2>7, <4>2
        <5> QED
          BY <4>2, <5>1 DEF Outcome, Stage
      <4> QED
        BY <4>1, <4>2
    <3> QED
      BY <3>1 DEF Outcome
  <2>10. Published' = Published
    BY <1>1 DEF Published
  <2>11. Streams!MayFollow(c, m)
    BY <2>4, <2>6 DEF Streams!MayFollow, Published
  <2>12. Streams!Receive(c, m)
    BY <2>7, <2>8, <2>9, <2>10, <2>11, Zenon DEF Streams!Receive, Published, Outcome
  <2> QED
    BY <2>4, <2>12 DEF Streams!Next
<1> QED
  BY <1>3, <1>4

(* Ends of a stream for a client that has not had the last message.        *)
LEMMA EndStreams ==
  ASSUME GrpcInv, NEW c \in Clients, UNCHANGED <<up, n_recv, seen>>, Begun' = Begun,
         client[c] \in {"idle", "reading"},
         client' = [client EXCEPT ![c] = client'[c]],
         \/ client'[c] = "reading"
         \/ client'[c] = "gone"
         \/ client'[c] = "cut" /\ ~up
         \/ client'[c] = "finished" /\ seen[c] = 0 /\ Begun = Total
  PROVE  [Streams!Next]_Streams!vars
<1>1. client \in [Clients -> {"idle", "reading", "finished", "cut", "gone"}]
  BY DEF GrpcInv, StateType
<1>2. Published' = Published
  BY DEF Published
<1>3. Outcome[c] = "receiving"
  BY DEF Outcome, Stage
<1>4. ASSUME NEW o, o = Stage(c)' PROVE Outcome' = [Outcome EXCEPT ![c] = o]
  <2>1. ASSUME NEW d \in Clients, d # c PROVE Outcome'[d] = Outcome[d]
    <3>1. client'[d] = client[d]
      BY <1>1, <2>1
    <3> QED
      BY <3>1 DEF Outcome, Stage
  <2>2. Outcome'[c] = o
    BY <1>4 DEF Outcome
  <2> QED
    BY <2>1, <2>2 DEF Outcome
<1>5. CASE client'[c] = "reading"
  <2>1. Stage(c)' = "receiving"
    BY <1>5 DEF Stage
  <2>2. Outcome' = Outcome
    BY <1>3, <1>4, <2>1 DEF Outcome
  <2> QED
    BY <1>2, <2>2, Unseen
<1>6. CASE client'[c] = "gone"
  <2>1. Stage(c)' = "dead"
    BY <1>6 DEF Stage
  <2>2. Outcome' = [Outcome EXCEPT ![c] = "dead"]
    BY <1>4, <2>1
  <2>3. Streams!Die(c)
    BY <1>2, <1>3, <2>2, Zenon DEF Streams!Die, Published, Outcome
  <2> QED
    BY <2>3 DEF Streams!Next
<1>7. CASE client'[c] = "finished" /\ seen[c] = 0 /\ Begun = Total
  <2>1. Stage(c)' = "cut"
    BY <1>7, Numbers DEF Stage
  <2>2. Outcome' = [Outcome EXCEPT ![c] = "cut"]
    BY <1>4, <2>1
  <2>3. Published = N_MESSAGES
    BY <1>7, Numbers DEF Published
  <2>4. Streams!Cut(c)
    BY <1>2, <1>3, <1>7, <2>2, <2>3, Zenon DEF Streams!Cut, Published, Outcome
  <2> QED
    BY <2>4 DEF Streams!Next
<1>8. CASE client'[c] = "cut" /\ ~up
  <2>1. Stage(c)' = "cut"
    BY <1>8 DEF Stage
  <2>2. Outcome' = [Outcome EXCEPT ![c] = "cut"]
    BY <1>4, <2>1
  <2>3. Streams!Cut(c)
    BY <1>2, <1>3, <1>8, <2>2, Zenon DEF Streams!Cut, Published, Outcome
  <2> QED
    BY <2>3 DEF Streams!Next
<1> QED
  BY <1>5, <1>6, <1>7, <1>8

LEMMA StreamStreams ==
  ASSUME GrpcInv, NEW c \in Clients, Stream(c) \/ CutOff(c) \/ Disconnect(c)
  PROVE  [Streams!Next]_Streams!vars
<1>1. /\ Begun' = Begun /\ ClientInv(c) /\ client \in [Clients -> ClientPlaces]
      /\ up' = up /\ (Stream(c) => up)
  BY HandlerKeepsBegun DEF GrpcInv, StateType, ClientPlaces, Stream, CutOff, Disconnect
<1>2. CASE Register(c) \/ Connect(c) \/ Loop(c) \/ Sleep(c) \/ Break(c) \/ Take(c) \/ Leave(c)
  <2>1. UNCHANGED clientVars
    BY <1>2 DEF Register, Connect, Loop, Sleep, Break, Take, Leave
  <2> QED
    BY <1>1, <2>1, BroadcastStreams
<1>3. CASE Stream(c) /\ Write(c)
  BY <1>1, <1>3, WriteStreams
<1>4. CASE Call(c)
  <2>1. /\ client[c] = "idle" /\ UNCHANGED <<n_recv, seen>>
        /\ client' = [client EXCEPT ![c] = client'[c]]
        /\ \/ client'[c] = "reading"
           \/ client'[c] = "finished" /\ ppc \in {"shutdown", "down"}
    BY <1>1, <1>4 DEF Call
  <2>2. seen[c] = 0
    BY <1>1, <2>1 DEF ClientInv
  <2>3. ppc \in {"shutdown", "down"} => Begun = Total
    BY BegunRange
  <2> QED
    BY <1>1, <2>1, <2>2, <2>3, EndStreams
<1>5. CASE StreamEnds(c)
  <2>1. /\ client[c] = "reading" /\ hpc[c] = "returned" /\ UNCHANGED <<n_recv, seen>>
        /\ client' = [client EXCEPT ![c] = client'[c]] /\ client'[c] = "finished"
    BY <1>1, <1>5 DEF StreamEnds
  <2>2. seen[c] = 0 /\ next = Total + 1
    BY <1>1, <2>1 DEF ClientInv
  <2>3. Begun = Total
    BY <2>2, BegunRange
  <2> QED
    BY <1>1, <2>1, <2>2, <2>3, EndStreams
<1>6. CASE Disconnect(c)
  <2>1. /\ client[c] \in {"idle", "reading"} /\ UNCHANGED <<n_recv, seen>>
        /\ client' = [client EXCEPT ![c] = client'[c]] /\ client'[c] = "gone"
    BY <1>1, <1>6 DEF Disconnect
  <2> QED
    BY <1>1, <2>1, EndStreams
<1>7. CASE CutOff(c)
  <2>1. /\ client[c] \in {"idle", "reading"} /\ UNCHANGED <<n_recv, seen>> /\ ~up
        /\ client' = [client EXCEPT ![c] = client'[c]] /\ client'[c] = "cut"
    BY <1>1, <1>7 DEF CutOff
  <2> QED
    BY <1>1, <2>1, EndStreams
<1> QED
  BY <1>2, <1>3, <1>4, <1>5, <1>6, <1>7 DEF Stream

LEMMA StepStreams == GrpcInv /\ [Next]_vars => [Streams!Next]_Streams!vars
<1> SUFFICES ASSUME GrpcInv, [Next]_vars PROVE [Streams!Next]_Streams!vars
  OBVIOUS
<1>1. CASE UNCHANGED vars
  <2>1. UNCHANGED <<up, clientVars>> /\ Begun' = Begun
    BY <1>1 DEF vars, clientVars, producerVars, Begun
  <2> QED
    BY <2>1, BroadcastStreams
<1>2. CASE Kill
  <2>1. ~(~up) /\ (~up)' = TRUE
    BY <1>2 DEF Kill
  <2>2. UNCHANGED <<Published, seen, n_recv, Outcome>>
    BY <1>2 DEF Kill, producerVars, clientVars, Published, Begun, Outcome, Stage
  <2>3. Streams!Abort
    BY <2>1, <2>2, Zenon DEF Streams!Abort, Published, Outcome
  <2> QED
    BY <2>3 DEF Streams!Next
<1> QED
  BY <1>1, <1>2, ProducerStreams, StreamStreams DEF Next

(* From its first message on every client gets every message, in order and *)
(* once, up to the last; only a client that comes after the last broadcast *)
(* gets nothing (bench_server.cpp, 51-52, 174-193 and 213-227), and only    *)
(* the death of the server cuts one off.                                   *)
THEOREM GrpcImplementsBroadcast == Spec => ImplementsBroadcast
<1>1. Init => Streams!Init
  BY StreamInit
<1>2. GrpcInv /\ [Next]_vars => [Streams!Next]_Streams!vars
  BY StepStreams
<1> QED
  BY <1>1, <1>2, GrpcInvariant, PTL DEF Spec, ImplementsBroadcast, Streams!Spec

=============================================================================
