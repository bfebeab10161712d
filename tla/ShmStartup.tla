----------------------------- MODULE ShmStartup -----------------------------
(***************************************************************************)
(* How the processes of a shared-memory run find each other: create_shm    *)
(* and the barrier of shm/bench_producer.cpp, open_shm and the announcement*)
(* of shm/bench_consumer.cpp, and the next run with the same parameters,   *)
(* which uses the same name, after a producer that ended or crashed.       *)
(*                                                                         *)
(* A segment is named by the run whose producer created it; 0 is none.  It *)
(* lives on for those who have mapped it when its name is unlinked.  Of    *)
(* its contents the start-up looks at ready_count, start_flag, head and    *)
(* tails.  The ring itself is in SeqLockRing.                              *)
(***************************************************************************)
EXTENDS Integers, FiniteSets

CONSTANTS
  Consumers,    (* the n_consumers consumer processes of a run             *)
  N_WARMUP,     (* messages pushed before the start                        *)
  MaxRetries,   (* attempts open_shm makes; 200 in the code                *)
  MaxRuns       (* bound: how many times the benchmark is run              *)

ASSUME StartupAssumption ==
  /\ IsFiniteSet(Consumers)
  /\ N_WARMUP \in Nat \ {0}
  /\ MaxRetries \in Nat \ {0}
  /\ MaxRuns \in Nat \ {0}

VARIABLES
  run,      (* the number of the current run                               *)
  cleaned,  (* history: no segment was left when it began                  *)
  name,     (* the segment the name is linked to                           *)
  mem,      (* mem[s]: segment s                                           *)
  ppc,      (* where the producer is                                       *)
  pseg,     (* the segment the producer has open                           *)
  todo,     (* memset: fields still to zero; tails: those still to store   *)
  cpc,      (* where consumer c is                                         *)
  cseg,     (* the segment consumer c has open                             *)
  tries,    (* the loop counter of open_shm                                *)
  dead      (* the consumers that were killed, or ended by an exception    *)
            (* nobody catches; cpc stays where they were                   *)

producerVars == <<ppc, pseg, todo>>
consumerVars == <<cpc, cseg, tries, dead>>
vars == <<run, cleaned, name, mem, ppc, pseg, todo, cpc, cseg, tries, dead>>

Segments == 1 .. MaxRuns

(* What ftruncate leaves in the pages of a new segment: zero bytes.        *)
Fresh == [sized |-> FALSE, ready |-> 0, start |-> FALSE, head |-> 0,
          tails |-> [c \in Consumers |-> 0]]

Init ==
  /\ run = 1 /\ cleaned = TRUE
  /\ name = 0
  /\ mem = [s \in Segments |-> Fresh]
  /\ ppc = "unlink" /\ pseg = 0 /\ todo = {}
  /\ cpc = [c \in Consumers |-> "open"]
  /\ cseg = [c \in Consumers |-> 0]
  /\ tries = [c \in Consumers |-> 0]
  /\ dead = {}

-----------------------------------------------------------------------------
(* The producer.                                                           *)

UnlinkForgotten ==
  /\ ppc = "unlink"
  /\ ppc' = "create"
  /\ UNCHANGED <<name, mem, pseg, todo>>

(* shm_unlink: remove any stale segment.                                   *)
Unlink ==
  /\ ppc = "unlink"
  /\ name' = 0
  /\ ppc' = "create"
  /\ UNCHANGED <<mem, pseg, todo>>

(* shm_open with O_CREAT: a new segment unless the name is taken.          *)
Create ==
  /\ ppc = "create"
  /\ name' = IF name = 0 THEN run ELSE name
  /\ pseg' = name'
  /\ ppc' = "truncate"
  /\ UNCHANGED <<mem, todo>>

(* ftruncate: from here on open_shm takes the segment for complete.        *)
Truncate ==
  /\ ppc = "truncate"
  /\ mem' = [mem EXCEPT ![pseg].sized = TRUE]
  /\ ppc' = "zero"
  /\ todo' = {"ready", "start", "head", "tails"}
  /\ UNCHANGED <<name, pseg>>

(* memset over the mapped segment, one field at a time in any order.  The  *)
(* fields are atomics elsewhere; here they are plain bytes.                *)
Zero(x) ==
  /\ ppc = "zero"
  /\ x \in todo
  /\ mem' = [mem EXCEPT ![pseg][x] = Fresh[x]]
  /\ todo' = todo \ {x}
  /\ UNCHANGED <<name, ppc, pseg>>

ZeroDone ==
  /\ ppc = "zero"
  /\ todo = {}
  /\ ppc' = "barrier"
  /\ UNCHANGED <<name, mem, pseg, todo>>

(* Spin until ready_count >= n_consumers.                                  *)
Barrier ==
  /\ ppc = "barrier"
  /\ mem[pseg].ready >= Cardinality(Consumers)
  /\ ppc' = "warmup"
  /\ UNCHANGED <<name, mem, pseg, todo>>

(* The N_WARMUP pushes.  No consumer looks at the ring before start_flag.  *)
Warmup ==
  /\ ppc = "warmup"
  /\ mem' = [mem EXCEPT ![pseg].head = N_WARMUP]
  /\ todo' = Consumers
  /\ ppc' = "tails"
  /\ UNCHANGED <<name, pseg>>

(* tails[cid] = head, past the warm-up messages.                           *)
SetTail(c) ==
  /\ ppc = "tails"
  /\ c \in todo
  /\ mem' = [mem EXCEPT ![pseg].tails[c] = mem[pseg].head]
  /\ todo' = todo \ {c}
  /\ UNCHANGED <<name, ppc, pseg>>

Start ==
  /\ ppc = "tails"
  /\ todo = {}
  /\ mem' = [mem EXCEPT ![pseg].start = TRUE]
  /\ ppc' = "send"
  /\ UNCHANGED <<name, pseg, todo>>

(* All messages are sent: munmap, shm_unlink, exit.                        *)
Finish ==
  /\ ppc = "send"
  /\ name' = 0
  /\ ppc' = "done"
  /\ UNCHANGED <<mem, pseg, todo>>

Producer ==
  /\ \/ Unlink \/ Create \/ Truncate \/ ZeroDone
     \/ \E x \in {"ready", "start", "head", "tails"} : Zero(x)
     \/ Barrier \/ Warmup \/ Start \/ Finish
     \/ \E c \in Consumers : SetTail(c)
  /\ UNCHANGED <<run, cleaned, consumerVars>>

(* The producer is killed, or an exception of create_shm ends it: main     *)
(* catches none, and nothing is cleaned up.                                *)
Crash ==
  /\ ppc \notin {"done", "crashed"}
  /\ ppc' = "crashed"
  /\ UNCHANGED <<run, cleaned, name, mem, pseg, todo, consumerVars>>

-----------------------------------------------------------------------------
(* A consumer.                                                             *)

OpenForEver(c) ==
  /\ cpc[c] = "open"
  /\ \/ /\ name # 0
        /\ cseg' = [cseg EXCEPT ![c] = name]
        /\ cpc' = [cpc EXCEPT ![c] = "stat"]
        /\ UNCHANGED tries
     \/ /\ name = 0
        /\ tries' = [tries EXCEPT ![c] = tries[c] + 1]
        /\ UNCHANGED <<cpc, cseg>>
  /\ UNCHANGED mem

(* open_shm: shm_open finds the name, or counts a failed attempt.          *)
OpenName(c) ==
  /\ cpc[c] = "open"
  /\ tries[c] < MaxRetries
  /\ \/ /\ name # 0
        /\ cseg' = [cseg EXCEPT ![c] = name]
        /\ cpc' = [cpc EXCEPT ![c] = "stat"]
        /\ UNCHANGED tries
     \/ /\ name = 0
        /\ tries' = [tries EXCEPT ![c] = tries[c] + 1]
        /\ UNCHANGED <<cpc, cseg>>
  /\ UNCHANGED mem

(* open_shm: fstat, and mmap if the segment has its size.  If it has not,  *)
(* or mmap fails, this attempt has failed.                                 *)
MapSegment(c) ==
  /\ cpc[c] = "stat"
  /\ \/ /\ mem[cseg[c]].sized
        /\ cpc' = [cpc EXCEPT ![c] = "attached"]
        /\ UNCHANGED <<cseg, tries>>
     \/ /\ cpc' = [cpc EXCEPT ![c] = "open"]
        /\ cseg' = [cseg EXCEPT ![c] = 0]
        /\ tries' = [tries EXCEPT ![c] = tries[c] + 1]
  /\ UNCHANGED mem

(* open_shm gives up and throws: the consumer writes empty results.        *)
OpenTimedOut(c) ==
  /\ cpc[c] = "open"
  /\ tries[c] >= MaxRetries
  /\ cpc' = [cpc EXCEPT ![c] = "failed"]
  /\ UNCHANGED <<mem, cseg, tries>>

AnnounceLost(c) ==
  /\ cpc[c] = "attached"
  /\ mem' = [mem EXCEPT ![cseg[c]].ready = 1]
  /\ cpc' = [cpc EXCEPT ![c] = "wait"]
  /\ UNCHANGED <<cseg, tries>>

(* ready_count.fetch_add(1).                                               *)
Announce(c) ==
  /\ cpc[c] = "attached"
  /\ mem' = [mem EXCEPT ![cseg[c]].ready = mem[cseg[c]].ready + 1]
  /\ cpc' = [cpc EXCEPT ![c] = "wait"]
  /\ UNCHANGED <<cseg, tries>>

(* The spin on start_flag, which no clock bounds, ends.                    *)
SeeStart(c) ==
  /\ cpc[c] = "wait"
  /\ mem[cseg[c]].start
  /\ cpc' = [cpc EXCEPT ![c] = "running"]
  /\ UNCHANGED <<mem, cseg, tries>>

(* The receive loop ends, with the last message or on a stall.             *)
Exit(c) ==
  /\ cpc[c] = "running"
  /\ cpc' = [cpc EXCEPT ![c] = "exited"]
  /\ UNCHANGED <<mem, cseg, tries>>

Consumer(c) ==
  /\ c \notin dead
  /\ \/ OpenName(c) \/ MapSegment(c) \/ OpenTimedOut(c)
     \/ Announce(c) \/ SeeStart(c) \/ Exit(c)
  /\ UNCHANGED <<run, cleaned, name, producerVars, dead>>

(* A consumer is killed at any step, or ended by latencies.reserve, which  *)
(* comes before the try block.                                             *)
CrashConsumer(c) ==
  /\ c \notin dead
  /\ cpc[c] \notin {"exited", "failed"}
  /\ dead' = dead \cup {c}
  /\ UNCHANGED <<run, cleaned, name, mem, producerVars, cpc, cseg, tries>>

-----------------------------------------------------------------------------
NameIsKept(clean) == name

(* rm -f of the segment in run_bench.sh, before it starts the consumers;   *)
(* nobody removes it when the programs are started by hand.                *)
NameAtNextRun(clean) == IF clean THEN 0 ELSE name

(* The processes of a run are gone, those that wait for ever killed by the *)
(* user or by the exit trap of run_bench.sh, and the same run is started   *)
(* again: consumers and producer, with nothing to order their steps.       *)
NextRun ==
  /\ run < MaxRuns
  /\ \/ ppc = "crashed"
     \/ ppc = "done" /\ \A c \in Consumers : c \in dead \/ cpc[c] \in {"exited", "failed"}
  /\ run' = run + 1
  /\ \E clean \in BOOLEAN : name' = NameAtNextRun(clean) /\ cleaned' = (clean \/ name = 0)
  /\ ppc' = "unlink" /\ pseg' = 0 /\ todo' = {}
  /\ cpc' = [c \in Consumers |-> "open"]
  /\ cseg' = [c \in Consumers |-> 0]
  /\ tries' = [c \in Consumers |-> 0]
  /\ dead' = {}
  /\ UNCHANGED mem

Next ==
  \/ Producer
  \/ Crash
  \/ \E c \in Consumers : Consumer(c) \/ CrashConsumer(c)
  \/ NextRun

Spec == Init /\ [][Next]_vars

(* Every process is scheduled; nothing obliges one to crash or the user to *)
(* run the benchmark again.                                                *)
FairSpec ==
  /\ Spec
  /\ WF_vars(Producer)
  /\ \A c \in Consumers : WF_vars(Consumer(c))

(* One run in which nothing crashes.                                       *)
Undisturbed ==
  /\ Init
  /\ [][Producer \/ \E c \in Consumers : Consumer(c)]_vars
  /\ WF_vars(Producer)
  /\ \A c \in Consumers : WF_vars(Consumer(c))

-----------------------------------------------------------------------------
(* Properties.                                                             *)

Contents ==
  [sized : BOOLEAN, ready : Nat, start : BOOLEAN,
   head : {0, N_WARMUP}, tails : [Consumers -> {0, N_WARMUP}]]

TypeOK ==
  /\ run \in Segments
  /\ cleaned \in BOOLEAN
  /\ name \in {0} \cup Segments
  /\ mem \in [Segments -> Contents]
  /\ ppc \in {"unlink", "create", "truncate", "zero", "barrier", "warmup", "tails",
              "send", "done", "crashed"}
  /\ pseg \in {0} \cup Segments
  /\ cpc \in [Consumers -> {"open", "stat", "attached", "wait", "running", "exited",
                            "failed"}]
  /\ cseg \in [Consumers -> {0} \cup Segments]
  /\ tries \in [Consumers -> 0 .. MaxRetries]
  /\ dead \subseteq Consumers

Announced(s) ==
  {c \in Consumers : cseg[c] = s /\ cpc[c] \in {"wait", "running", "exited"}}

(* The ready barrier and the order behind it (bench_producer.cpp, 110-131):*)
(* in the segment of the producer no consumer runs before every consumer of*)
(* the run has mapped that very segment and announced itself, nor with a   *)
(* cursor that is not behind the last warm-up message.                     *)
NobodyStartsAlone ==
  \A c \in Consumers :
    cpc[c] \in {"running", "exited"} /\ cseg[c] = pseg
      => Announced(pseg) = Consumers /\ mem[pseg].tails[c] = N_WARMUP

(* Comment at bench_producer.cpp:62: the name is unique per run "so        *)
(* consumers never attach to a stale segment".  A second run has the same  *)
(* name; it is the rm command of run_bench.sh (line 107), before the       *)
(* consumers start, that gives what the comment promises, whenever the     *)
(* producer before crashed.                                                *)
AttachedToThisRun ==
  cleaned => \A c \in Consumers :
    cpc[c] \in {"attached", "wait", "running", "exited"} => cseg[c] = run

(* What keeps a run from starting: a consumer that announced itself before *)
(* the memset cleared ready_count; one that gave up, or died, before it    *)
(* announced itself; a dead producer.                                      *)
Trouble ==
  \/ \E c \in Consumers :
       ppc = "zero" /\ "ready" \in todo /\ cpc[c] = "wait" /\ cseg[c] = pseg
  \/ \E c \in Consumers : cpc[c] = "failed"
  \/ \E c \in dead : cpc[c] \in {"open", "stat", "attached"}
  \/ ppc = "crashed"

(* If no segment was left and none of these happens, every consumer starts *)
(* that lives: in particular one that dies after its announcement, at the  *)
(* barrier or behind it, holds up nobody (bench_producer.cpp, 110-131, and *)
(* bench_consumer.cpp, 126-129).                                           *)
StartsUnlessTrouble ==
  (cleaned /\ ppc = "unlink")
    ~> (Trouble \/ \A c \in Consumers : c \in dead \/ cpc[c] \in {"running", "exited"})

(* Comment at bench_consumer.cpp:133-134: a consumer breaks off after 45   *)
(* seconds "from process start (covers slow open_shm + long runs)", so if  *)
(* all find the segment in time, none stays at the barrier for ever.       *)
ConsumersGiveUp ==
  \/ <>(\E c \in Consumers : cpc[c] = "failed")
  \/ \A c \in Consumers : <>(cpc[c] \in {"running", "exited"})

=============================================================================
