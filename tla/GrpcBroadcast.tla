---------------------------- MODULE GrpcBroadcast ----------------------------
(***************************************************************************)
(* The server of grpc/bench_server.cpp with its clients, bench_client.cpp: *)
(* producer_thread, one Subscribe handler per stream, a queue, a mutex and *)
(* a condition variable between the two, the registration mutex, the start *)
(* barrier and the shutdown.                                               *)
(*                                                                         *)
(* A critical section under a slot's mutex is one step; to wait on its     *)
(* condition variable is to be asleep until the other side notifies, or    *)
(* the wait returns spuriously.  g_reg_mtx is held over several steps, by  *)
(* the producer only.  Messages are numbered from 1, warm-up first.        *)
(*                                                                         *)
(* External: gRPC.  Write hands a message to a reading client; when the    *)
(* client is gone it may succeed (buffered) or fail, and IsCancelled may   *)
(* or may not show it yet.  Shutdown refuses new calls and returns when no *)
(* handler is active.                                                      *)
(***************************************************************************)
EXTENDS Integers, Sequences, FiniteSets

CONSTANTS
  Clients,          (* the g_n_expected client processes                   *)
  MAX_QUEUE_DEPTH,  (* 8192 in the code                                    *)
  N_WARMUP,
  N_MESSAGES

ASSUME GrpcAssumption ==
  /\ IsFiniteSet(Clients)
  /\ MAX_QUEUE_DEPTH \in Nat \ {0}
  /\ N_WARMUP \in Nat
  /\ N_MESSAGES \in Nat \ {0}

VARIABLES
  g_slots,        (* the registered clients, in order                      *)
  q,              (* q[c]: the queue of the slot of client c               *)
  done,           (* done[c]: its flag                                     *)
  g_n_connected,
  g_n_done,
  ppc,            (* where producer_thread is                              *)
  next,           (* the message it broadcasts next, or is broadcasting    *)
  at,             (* its place in g_slots                                  *)
  hpc,            (* where the handler of client c is                      *)
  msg,            (* the message that handler has taken                    *)
  up,             (* the server has not been killed                        *)
  client,         (* the client process                                    *)
  n_recv,         (* messages of the benchmark it has counted              *)
  seen            (* history: the number of the last of them               *)

slotVars == <<g_slots, q, done>>
producerVars == <<ppc, next, at>>
clientVars == <<client, n_recv, seen>>
vars == <<slotVars, g_n_connected, g_n_done, producerVars, hpc, msg, up, clientVars>>

Expected == Cardinality(Clients)

Total == N_WARMUP + N_MESSAGES

Init ==
  /\ g_slots = <<>>
  /\ q = [c \in Clients |-> <<>>]
  /\ done = [c \in Clients |-> FALSE]
  /\ g_n_connected = 0
  /\ g_n_done = 0
  /\ ppc = "barrier" /\ next = 1 /\ at = 1
  /\ hpc = [c \in Clients |-> "none"]
  /\ msg = [c \in Clients |-> 0]
  /\ up = TRUE
  /\ client = [c \in Clients |-> "idle"]
  /\ n_recv = [c \in Clients |-> 0]
  /\ seen = [c \in Clients |-> 0]

(* g_reg_mtx is held.                                                      *)
RegHeld == ppc \in {"push", "asleep", "signal"}

(* The handler of c, if it is asleep on its slot, is woken.                *)
Woken(c) == [hpc EXCEPT ![c] = IF @ = "asleep" THEN "take" ELSE @]

-----------------------------------------------------------------------------
(* producer_thread.                                                        *)

(* The barrier: the predicate of wait_for, evaluated under g_barrier_mtx.  *)
BarrierCheck ==
  /\ ppc = "barrier"
  /\ ppc' = IF g_n_connected >= Expected THEN "acquire" ELSE "going"
  /\ UNCHANGED <<next, at>>

(* It falls asleep.  Subscribe notifies without g_barrier_mtx, so that a   *)
(* notification between the two steps is lost.                             *)
BarrierSleep ==
  /\ ppc = "going"
  /\ ppc' = "barrierSleep"
  /\ UNCHANGED <<next, at>>

(* 60 seconds have passed: go on, whoever is there.                        *)
BarrierTimeout ==
  /\ ppc = "barrierSleep"
  /\ ppc' = "acquire"
  /\ UNCHANGED <<next, at>>

(* broadcast takes g_reg_mtx.                                              *)
Acquire ==
  /\ ppc = "acquire"
  /\ ppc' = "push"
  /\ at' = 1
  /\ UNCHANGED next

Overfull(c) == Len(q[c]) > MAX_QUEUE_DEPTH

Full(c) == Len(q[c]) >= MAX_QUEUE_DEPTH

(* The predicate broadcast waits for.                                      *)
HasRoom(c) == ~Full(c) \/ done[c]

(* broadcast finds the queue full and sleeps, holding g_reg_mtx.           *)
PushBlock ==
  /\ ppc = "push"
  /\ at <= Len(g_slots)
  /\ ~HasRoom(g_slots[at])
  /\ ppc' = "asleep"
  /\ UNCHANGED <<next, at, q, hpc>>

(* broadcast pushes the message to one slot and notifies.                  *)
Push ==
  /\ ppc = "push"
  /\ at <= Len(g_slots)
  /\ LET c == g_slots[at]
     IN  /\ HasRoom(c)
         /\ q' = [q EXCEPT ![c] = IF done[c] THEN @ ELSE Append(@, next)]
         /\ hpc' = IF done[c] THEN hpc ELSE Woken(c)
  /\ at' = at + 1
  /\ UNCHANGED <<ppc, next>>

(* broadcast has served every slot and releases g_reg_mtx.                 *)
Release ==
  /\ ppc = "push"
  /\ at > Len(g_slots)
  /\ next' = next + 1
  /\ ppc' = IF next = Total THEN "sent" ELSE "acquire"
  /\ UNCHANGED at

(* The end of the stream: g_reg_mtx again, then done for every slot.       *)
SignalAcquire ==
  /\ ppc = "sent"
  /\ ppc' = "signal"
  /\ at' = 1
  /\ UNCHANGED next

Signal ==
  /\ ppc = "signal"
  /\ at <= Len(g_slots)
  /\ done' = [done EXCEPT ![g_slots[at]] = TRUE]
  /\ hpc' = Woken(g_slots[at])
  /\ at' = at + 1
  /\ UNCHANGED <<ppc, next>>

SignalRelease ==
  /\ ppc = "signal"
  /\ at > Len(g_slots)
  /\ ppc' = "waitDone"
  /\ UNCHANGED <<next, at>>

OneMoreDone == g_n_done > Expected

AllDone == g_n_done >= Expected

(* g_done_cv: g_n_done changes under g_done_mtx, so the wait is the guard. *)
WaitDone ==
  /\ ppc = "waitDone"
  /\ AllDone
  /\ ppc' = "shutdown"
  /\ UNCHANGED <<next, at>>

Active(c) == hpc[c] \notin {"none", "returned"}

(* Shutdown returns, and with it Wait in main.                             *)
ShutdownReturns ==
  /\ ppc = "shutdown"
  /\ \A c \in Clients : ~Active(c)
  /\ ppc' = "down"
  /\ UNCHANGED <<next, at>>

producer_thread ==
  /\ up
  /\ \/ /\ BarrierCheck \/ BarrierSleep \/ Acquire \/ Release \/ SignalAcquire
           \/ SignalRelease \/ WaitDone \/ ShutdownReturns
        /\ UNCHANGED <<q, done, hpc>>
     \/ (PushBlock \/ Push) /\ UNCHANGED done
     \/ Signal /\ UNCHANGED q
  /\ UNCHANGED <<g_slots, g_n_connected, g_n_done, msg, up, clientVars>>

BarrierClock ==
  /\ up
  /\ BarrierTimeout
  /\ UNCHANGED <<slotVars, g_n_connected, g_n_done, hpc, msg, up, clientVars>>

-----------------------------------------------------------------------------
(* The handlers.                                                           *)

(* The client calls Subscribe and the server starts a handler.             *)
Call(c) ==
  /\ client[c] = "idle"
  /\ \/ /\ ppc \notin {"shutdown", "down"}
        /\ client' = [client EXCEPT ![c] = "reading"]
        /\ hpc' = [hpc EXCEPT ![c] = "register"]
     \/ /\ ppc \in {"shutdown", "down"}
        /\ client' = [client EXCEPT ![c] = "finished"]
        /\ UNCHANGED hpc
  /\ UNCHANGED <<slotVars, g_n_connected, g_n_done, producerVars, msg, n_recv, seen>>

Register(c) ==
  /\ hpc[c] = "register"
  /\ ~RegHeld
  /\ g_slots' = Append(g_slots, c)
  /\ hpc' = [hpc EXCEPT ![c] = "connect"]
  /\ msg' = [msg EXCEPT ![c] = next - 1]  (* history: nothing missed yet  *)
  /\ UNCHANGED <<q, done, g_n_connected, g_n_done, producerVars, clientVars>>

(* g_n_connected.fetch_add(1) and g_barrier_cv.notify_all().               *)
Connect(c) ==
  /\ hpc[c] = "connect"
  /\ g_n_connected' = g_n_connected + 1
  /\ ppc' = IF ppc = "barrierSleep" THEN "barrier" ELSE ppc
  /\ hpc' = [hpc EXCEPT ![c] = "loop"]
  /\ UNCHANGED <<slotVars, g_n_done, next, at, msg, clientVars>>

(* The loop condition: IsCancelled may be true once the client is gone.    *)
Loop(c) ==
  /\ hpc[c] = "loop"
  /\ \/ hpc' = [hpc EXCEPT ![c] = "take"]
     \/ /\ client[c] = "gone"
        /\ hpc' = [hpc EXCEPT ![c] = "leaving"]
  /\ UNCHANGED <<slotVars, g_n_connected, g_n_done, producerVars, msg, clientVars>>

(* The predicate a handler waits for.                                      *)
SomethingToDo(c) == q[c] # <<>> \/ done[c]

Sleep(c) ==
  /\ hpc[c] = "take"
  /\ ~SomethingToDo(c)
  /\ hpc' = [hpc EXCEPT ![c] = "asleep"]
  /\ UNCHANGED <<slotVars, g_n_connected, g_n_done, producerVars, msg, clientVars>>

DoneSignalled(c) == done[c]

(* The producer is done and nothing is left in the queue.                  *)
Drained(c) == q[c] = <<>>

Break(c) ==
  /\ hpc[c] = "take"
  /\ SomethingToDo(c) /\ Drained(c)
  /\ hpc' = [hpc EXCEPT ![c] = "leaving"]
  /\ UNCHANGED <<slotVars, g_n_connected, g_n_done, producerVars, msg, clientVars>>

QueueBack(c) == q[c][Len(q[c])]

QueueFront(c) == Head(q[c])

NotifyNobody(c) == ppc' = ppc

(* Wake the producer if it waits for the slot of c.                        *)
NotifyProducer(c) == ppc' = IF ppc = "asleep" /\ g_slots[at] = c THEN "push" ELSE ppc

(* Take the first message.                                                 *)
Take(c) ==
  /\ hpc[c] = "take"
  /\ SomethingToDo(c) /\ ~Drained(c)
  /\ msg' = [msg EXCEPT ![c] = QueueFront(c)]
  /\ q' = [q EXCEPT ![c] = Tail(@)]
  /\ hpc' = [hpc EXCEPT ![c] = "write"]
  /\ NotifyProducer(c)
  /\ UNCHANGED <<g_slots, done, g_n_connected, g_n_done, next, at, clientVars>>

(* The client reads the message, skips a warm-up one, counts another, and  *)
(* ends with the last.                                                     *)
ClientReads(c) ==
  /\ IF msg[c] > N_WARMUP
     THEN /\ n_recv' = [n_recv EXCEPT ![c] = @ + 1]
          /\ seen' = [seen EXCEPT ![c] = msg[c] - N_WARMUP]
     ELSE UNCHANGED <<n_recv, seen>>
  /\ client' = [client EXCEPT ![c] = IF msg[c] = Total THEN "finished" ELSE @]

(* Write, and the two ways out of the loop behind it.                      *)
Write(c) ==
  /\ hpc[c] = "write"
  /\ \/ client[c] = "reading" /\ ClientReads(c)
     \/ client[c] # "reading" /\ UNCHANGED clientVars
  /\ \/ hpc' = [hpc EXCEPT ![c] = IF msg[c] = Total THEN "leaving" ELSE "loop"]
     \/ /\ client[c] = "gone"
        /\ hpc' = [hpc EXCEPT ![c] = "leaving"]
  /\ UNCHANGED <<slotVars, g_n_connected, g_n_done, producerVars, msg>>

Leave(c) ==
  /\ hpc[c] = "leaving"
  /\ g_n_done' = g_n_done + 1
  /\ hpc' = [hpc EXCEPT ![c] = "returned"]
  /\ UNCHANGED <<slotVars, g_n_connected, producerVars, msg, clientVars>>

(* The stream has ended before the last message: Read returns false.       *)
StreamEnds(c) ==
  /\ client[c] = "reading"
  /\ hpc[c] = "returned"
  /\ client' = [client EXCEPT ![c] = "finished"]
  /\ UNCHANGED <<slotVars, g_n_connected, g_n_done, producerVars, hpc, msg, n_recv, seen>>

Stream(c) ==
  /\ up
  /\ \/ Call(c) \/ Register(c) \/ Connect(c) \/ Loop(c) \/ Sleep(c) \/ Break(c)
     \/ Take(c) \/ Write(c) \/ Leave(c) \/ StreamEnds(c)
  /\ UNCHANGED up

(* The server is gone: Subscribe or Read fails, and Finish returns an      *)
(* error.                                                                  *)
CutOff(c) ==
  /\ ~up
  /\ client[c] \in {"idle", "reading"}
  /\ client' = [client EXCEPT ![c] = "cut"]
  /\ UNCHANGED <<slotVars, g_n_connected, g_n_done, producerVars, hpc, msg, up, n_recv, seen>>

-----------------------------------------------------------------------------
(* The environment.                                                        *)

(* A condition variable may return without a notification.                 *)
Spurious ==
  /\ up
  /\ \/ \E c \in Clients : hpc[c] = "asleep" /\ hpc' = Woken(c) /\ UNCHANGED ppc
     \/ ppc = "asleep" /\ ppc' = "push" /\ UNCHANGED hpc
     \/ ppc = "barrierSleep" /\ ppc' = "barrier" /\ UNCHANGED hpc
  /\ UNCHANGED <<slotVars, g_n_connected, g_n_done, next, at, msg, up, clientVars>>

(* The server is killed.                                                   *)
Kill ==
  /\ up
  /\ ppc # "down"
  /\ up' = FALSE
  /\ UNCHANGED <<slotVars, g_n_connected, g_n_done, producerVars, hpc, msg, clientVars>>

(* A client is killed, before or after it has subscribed.                  *)
Disconnect(c) ==
  /\ client[c] \in {"idle", "reading"}
  /\ client' = [client EXCEPT ![c] = "gone"]
  /\ UNCHANGED <<slotVars, g_n_connected, g_n_done, producerVars, hpc, msg, up, n_recv, seen>>

Next ==
  \/ producer_thread
  \/ BarrierClock
  \/ Spurious
  \/ Kill
  \/ \E c \in Clients : Stream(c) \/ CutOff(c) \/ Disconnect(c)

Spec == Init /\ [][Next]_vars

(* Threads run and the 60 seconds pass.                                    *)
Fairness ==
  /\ WF_vars(producer_thread)
  /\ WF_vars(BarrierClock)
  /\ \A c \in Clients : WF_vars(Stream(c))

FairSpec == Spec /\ Fairness

(* Everybody subscribes within the 60 seconds.                             *)
InTime == BarrierClock /\ g_n_connected >= Expected

(* ... and a client may be killed once the server knows it.                *)
KilledSpec ==
  /\ Init
  /\ [][\/ producer_thread \/ InTime
        \/ \E c \in Clients :
             Stream(c) \/ (Disconnect(c) /\ hpc[c] \notin {"none", "register", "connect"})]_vars
  /\ WF_vars(InTime)
  /\ Fairness

-----------------------------------------------------------------------------
(* Properties.                                                             *)

Registered == {g_slots[i] : i \in 1 .. Len(g_slots)}

StateType ==
  /\ Registered \subseteq Clients /\ Len(g_slots) = Cardinality(Registered)
  /\ \A c \in Clients :
       /\ Len(q[c]) <= MAX_QUEUE_DEPTH
       /\ \A i \in 1 .. Len(q[c]) : q[c][i] \in 1 .. Total
  /\ done \in [Clients -> BOOLEAN]
  /\ g_n_connected \in 0 .. Expected
  /\ g_n_done \in 0 .. g_n_connected
  /\ ppc \in {"barrier", "going", "barrierSleep", "acquire", "push", "asleep", "sent",
              "signal", "waitDone", "shutdown", "down"}
  /\ next \in 1 .. Total + 1
  /\ at \in 1 .. Expected + 1
  /\ hpc \in [Clients -> {"none", "register", "connect", "loop", "take", "asleep",
                          "write", "leaving", "returned"}]
  /\ msg \in [Clients -> 0 .. Total]
  /\ client \in [Clients -> {"idle", "reading", "finished", "cut", "gone"}]
  /\ n_recv \in [Clients -> 0 .. N_MESSAGES]
  /\ seen \in [Clients -> 0 .. N_MESSAGES]

TypeOK == StateType /\ up \in BOOLEAN

(* The last message broadcast to the slot at place i of g_slots.           *)
Pushed(i) == IF ppc \in {"push", "asleep"} /\ i < at THEN next ELSE next - 1

(* From the moment it is registered a stream loses, repeats and reorders   *)
(* nothing: what its handler has taken, followed by what is queued, goes   *)
(* without a gap up to the last message broadcast, also when the producer  *)
(* slept for another slot in the middle of the broadcast.                  *)
StreamUnbroken ==
  \A i \in 1 .. Len(g_slots) :
    LET c == g_slots[i]
    IN  q[c] = [k \in 1 .. Pushed(i) - msg[c] |-> msg[c] + k]

(* Nobody sleeps on a slot's condition variable without a reason, so no    *)
(* notification of lines 109, 180 and 223 is missing: the producer sleeps  *)
(* only while the queue is full, a handler only while it is empty and the  *)
(* stream is not done.                                                     *)
AsleepForAReason ==
  /\ ppc = "asleep" => ~HasRoom(g_slots[at])
  /\ \A c \in Clients : hpc[c] = "asleep" => q[c] = <<>> /\ ~done[c]

(* What reaches the clients: from its first message on a client gets every *)
(* one, in order and once, up to the last, and no end of the stream, of the*)
(* handlers or of the server cuts it off in between (bench_server.cpp,     *)
(* 51-52, 174-193 and 213-227).  Only a client that comes after the last   *)
(* broadcast gets nothing, and only the death of the server cuts one off.  *)
Stage(c) ==
  CASE client[c] = "gone" -> "dead"
    [] client[c] = "cut" -> "cut"
    [] client[c] = "finished" -> IF seen[c] = N_MESSAGES THEN "complete" ELSE "cut"
    [] OTHER -> "receiving"

Begun == IF ppc \in {"push", "asleep"} /\ at > 1 THEN next ELSE next - 1

Streams == INSTANCE Broadcast WITH
  Consumers <- Clients, Lossy <- FALSE, LateStart <- TRUE,
  published <- IF Begun < N_WARMUP THEN 0 ELSE Begun - N_WARMUP,
  aborted <- ~up, last <- seen, outcome <- [c \in Clients |-> Stage(c)]

ImplementsBroadcast == Streams!Spec

(* What can go wrong: the server or a client is killed, or the broadcasts  *)
(* are over before a client has registered; its slot is never done.        *)
Trouble ==
  \/ ~up
  \/ \E c \in Clients : client[c] = "gone"
  \/ ppc = "waitDone" /\ \E c \in Clients : ~done[c]

(* The barrier lets go by its clock, with somebody missing.                *)
StartsShort == ppc \notin {"barrier", "going", "barrierSleep"} /\ g_n_connected < Expected

(* If nothing does, every client gets through and the server ends, also    *)
(* when a client subscribes behind the barrier: no order of the two sides  *)
(* of a queue makes them wait for each other.  And unless the barrier has  *)
(* let go without one of them, everybody gets all messages; a notification *)
(* of the barrier that is lost (line 211) only delays it by the 60 seconds.*)
Completes ==
  \/ <>Trouble
  \/ /\ \A c \in Clients : <>(client[c] = "finished")
     /\ <>(ppc = "down")
     /\ <>StartsShort \/ \A c \in Clients : <>(n_recv[c] = N_MESSAGES)

(* run_bench.sh:209: "Server shuts itself down after last consumer         *)
(* finishes".                                                              *)
ServerStops == (\A c \in Clients : client[c] \in {"finished", "gone"}) ~> (ppc = "down")

=============================================================================
