------------------------- MODULE ShmStartup_proofs -------------------------
(***************************************************************************)
(* Proofs about the start-up of a shm run, for any consumers, any number   *)
(* of runs under the same name and of attempts to open the segment.        *)
(***************************************************************************)
EXTENDS ShmStartup, FiniteSetTheorems, TLAPS

(* Which segment the producer has, and the name: a producer that has       *)
(* removed the name creates the segment of its own run, and whatever lies  *)
(* ahead of it is as ftruncate leaves it.                                  *)
SegmentInv ==
  /\ pseg \in {0, run}
  /\ ppc \in {"unlink", "create"} => pseg = 0
  /\ ppc \notin {"unlink", "create", "crashed"} => pseg = run
  /\ name \in 0 .. run
  /\ name = run => pseg = run
  /\ ppc = "create" => name = 0
  /\ cleaned => name \in {0, run}
  /\ \A s \in Segments : s > run => mem[s] = Fresh
  /\ pseg = 0 => mem[run] = Fresh

(* The barrier: ready_count may be behind the announcements (memset wipes  *)
(* it) but never ahead of them, start_flag comes behind the barrier and    *)
(* the hand-over of all cursors.                                           *)
BarrierInv ==
  /\ mem[run].ready <= Cardinality(Announced(run))
  /\ ppc \in {"warmup", "tails", "send", "done"} => Announced(run) = Consumers
  /\ ppc = "tails" =>
       /\ mem[run].head = N_WARMUP
       /\ \A c \in Consumers : c \in todo \/ mem[run].tails[c] = N_WARMUP
  /\ mem[run].start =>
       /\ ppc \in {"send", "done", "crashed"}
       /\ Announced(run) = Consumers
       /\ \A c \in Consumers : mem[run].tails[c] = N_WARMUP

(* A consumer has a segment open from the first look at its size; it is    *)
(* one the name has been linked to in this run.                            *)
ConsumerInv(c) ==
  /\ cseg[c] \in 0 .. run
  /\ cseg[c] = 0 <=> cpc[c] \in {"open", "failed"}
  /\ cseg[c] = run => pseg = run
  /\ cleaned => cseg[c] \in {0, run}
  /\ cpc[c] = "stat" => tries[c] < MaxRetries
  /\ cpc[c] \in {"running", "exited"} /\ cseg[c] = run => mem[run].start

StartupInv == TypeOK /\ SegmentInv /\ BarrierInv /\ \A c \in Consumers : ConsumerInv(c)

-----------------------------------------------------------------------------
LEMMA FreshIsContents == Fresh \in Contents
BY StartupAssumption DEF Fresh, Contents

(* What is known of the current run, in one place.                         *)
LEMMA CurrentRun ==
  ASSUME TypeOK
  PROVE  /\ run \in Segments /\ run \in Nat /\ run > 0 /\ run <= MaxRuns /\ MaxRuns \in Nat
         /\ mem[run] \in Contents
         /\ mem[run].ready \in Nat
<1>1. run \in Segments /\ mem \in [Segments -> Contents] /\ MaxRuns \in Nat
  BY StartupAssumption DEF TypeOK
<1>2. mem[run] \in Contents
  BY <1>1
<1> QED
  BY <1>1, <1>2 DEF Segments, Contents

LEMMA AnnouncedFinite ==
  ASSUME NEW s
  PROVE  /\ IsFiniteSet(Announced(s))
         /\ Cardinality(Announced(s)) \in Nat
         /\ Cardinality(Announced(s)) <= Cardinality(Consumers)
         /\ Cardinality(Consumers) = Cardinality(Announced(s)) => Announced(s) = Consumers
         /\ Cardinality(Consumers) \in Nat
<1>1. Announced(s) \in SUBSET Consumers
  BY DEF Announced
<1>2. /\ IsFiniteSet(Announced(s))
      /\ Cardinality(Announced(s)) <= Cardinality(Consumers)
      /\ Cardinality(Consumers) = Cardinality(Announced(s)) => Announced(s) = Consumers
  BY <1>1, FS_Subset, StartupAssumption
<1> QED
  BY <1>2, FS_CardinalityType, StartupAssumption

LEMMA InitHolds == Init => StartupInv
<1> SUFFICES ASSUME Init PROVE StartupInv
  OBVIOUS
<1> USE StartupAssumption DEF Init
<1>1. 1 \in Segments
  BY DEF Segments
<1>2. mem \in [Segments -> Contents]
  BY FreshIsContents
<1>3. TypeOK
  BY <1>1, <1>2 DEF TypeOK
<1>4. SegmentInv
  BY <1>1 DEF SegmentInv
<1>5. mem[run].ready = 0 /\ ~mem[run].start
  BY <1>1 DEF Fresh
<1>6. mem[run].ready <= Cardinality(Announced(run))
  BY <1>5, AnnouncedFinite
<1>7. BarrierInv
  BY <1>5, <1>6 DEF BarrierInv
<1>8. ASSUME NEW c \in Consumers PROVE ConsumerInv(c)
  BY DEF ConsumerInv
<1> QED
  BY <1>3, <1>4, <1>7, <1>8 DEF StartupInv

-----------------------------------------------------------------------------
(* The producer.                                                           *)

(* A step of the producer that neither leaves its segment nor clears       *)
(* start_flag keeps what is said of the consumers.                         *)
LEMMA ConsumersUndisturbed ==
  ASSUME StartupInv, UNCHANGED <<run, cleaned, consumerVars>>,
         pseg = run => pseg' = run, mem[run].start => mem'[run].start,
         NEW c \in Consumers
  PROVE  ConsumerInv(c)'
BY DEF StartupInv, ConsumerInv, consumerVars

LEMMA AnnouncedUndisturbed ==
  ASSUME UNCHANGED <<run, consumerVars>>
  PROVE  Announced(run)' = Announced(run)
BY DEF Announced, consumerVars

(* Steps that do not write to the segment.                                 *)
LEMMA QuietProducerKeeps ==
  ASSUME StartupInv, UNCHANGED <<run, cleaned, consumerVars, mem>>,
         \/ Unlink \/ Create \/ ZeroDone \/ Barrier \/ Finish
         \/ ppc # "done" /\ ppc' = "crashed" /\ UNCHANGED <<name, pseg, todo>>
  PROVE  StartupInv'
<1>1. TypeOK /\ SegmentInv /\ BarrierInv
  BY DEF StartupInv
<1>2. run \in Segments /\ run \in Nat /\ run > 0 /\ mem[run].ready \in Nat
  BY <1>1, CurrentRun
<1>3. /\ pseg' \in {0, run} /\ name' \in 0 .. run /\ (pseg = run => pseg' = run)
      /\ ppc' \in {"unlink", "create", "truncate", "zero", "barrier", "warmup", "tails",
                   "send", "done", "crashed"}
  BY <1>1, <1>2 DEF Unlink, Create, ZeroDone, Barrier, Finish, SegmentInv
<1>4. TypeOK'
  <2>1. 0 .. run \subseteq {0} \cup Segments
    BY <1>1, CurrentRun DEF Segments
  <2> QED
    BY <1>1, <1>2, <1>3, <2>1 DEF TypeOK, consumerVars
<1>5. SegmentInv'
  <2>1. /\ (ppc' \in {"unlink", "create"} => pseg' = 0)
        /\ (ppc' \notin {"unlink", "create", "crashed"} => pseg' = run)
        /\ (name' = run => pseg' = run)
        /\ (ppc' = "create" => name' = 0)
        /\ (cleaned => name' \in {0, run})
    BY <1>1, <1>2 DEF Unlink, Create, ZeroDone, Barrier, Finish, SegmentInv
  <2>2. (\A s \in Segments : s > run => mem[s] = Fresh) /\ (pseg' = 0 => mem[run] = Fresh)
    BY <1>1, <1>2, <1>3 DEF SegmentInv
  <2> QED
    BY <1>3, <2>1, <2>2 DEF SegmentInv
<1>6. BarrierInv'
  <2>1. Announced(run)' = Announced(run)
    BY AnnouncedUndisturbed
  <2>2. Barrier => Announced(run) = Consumers
    <3> SUFFICES ASSUME Barrier PROVE Announced(run) = Consumers
      OBVIOUS
    <3>1. mem[run].ready >= Cardinality(Consumers)
      BY <1>1 DEF Barrier, SegmentInv
    <3>2. mem[run].ready <= Cardinality(Announced(run))
      BY <1>1 DEF BarrierInv
    <3>3. /\ Cardinality(Announced(run)) <= Cardinality(Consumers)
          /\ Cardinality(Announced(run)) \in Nat /\ Cardinality(Consumers) \in Nat
      BY AnnouncedFinite
    <3>4. Cardinality(Consumers) = Cardinality(Announced(run))
      BY <1>2, <3>1, <3>2, <3>3
    <3> QED
      BY <3>4, AnnouncedFinite
  <2>3. mem[run].start => ppc' \in {"send", "done", "crashed"}
    BY <1>1 DEF Unlink, Create, ZeroDone, Barrier, Finish, BarrierInv
  <2>4. ppc' \in {"warmup", "tails", "send", "done"} => Announced(run) = Consumers
    BY <1>1, <2>2 DEF Unlink, Create, ZeroDone, Barrier, Finish, BarrierInv
  <2>5. ppc' # "tails"
    BY DEF Unlink, Create, ZeroDone, Barrier, Finish
  <2> QED
    BY <1>1, <2>1, <2>3, <2>4, <2>5 DEF BarrierInv
<1>7. ASSUME NEW c \in Consumers PROVE ConsumerInv(c)'
  BY <1>3, ConsumersUndisturbed
<1> QED
  BY <1>4, <1>5, <1>6, <1>7 DEF StartupInv

(* Steps that write to the segment, which is that of the run.              *)
LEMMA WritingProducerKeeps ==
  ASSUME StartupInv, UNCHANGED <<run, cleaned, consumerVars, name, pseg>>,
         pseg = run, mem' \in [Segments -> Contents],
         \A s \in Segments : s # run => mem'[s] = mem[s],
         ppc' \in {"zero", "tails", "send"},
         mem'[run].ready <= mem[run].ready,
         ppc' \in {"tails", "send"} => ppc \in {"warmup", "tails"},
         ppc' = "tails" =>
           /\ mem'[run].head = N_WARMUP
           /\ \A c \in Consumers : c \in todo' \/ mem'[run].tails[c] = N_WARMUP,
         mem'[run].start => ppc' = "send" /\ \A c \in Consumers : mem'[run].tails[c] = N_WARMUP,
         ~mem[run].start
  PROVE  StartupInv'
<1>1. TypeOK /\ SegmentInv /\ BarrierInv
  BY DEF StartupInv
<1>2. /\ run \in Segments /\ run \in Nat /\ run > 0 /\ mem[run].ready \in Nat
      /\ mem'[run].ready \in Nat
  BY <1>1, CurrentRun DEF Contents
<1>3. TypeOK'
  BY <1>1 DEF TypeOK, consumerVars
<1>4. SegmentInv'
  BY <1>1, <1>2 DEF SegmentInv
<1>5. Announced(run)' = Announced(run)
  BY AnnouncedUndisturbed
<1>6. BarrierInv'
  <2>1. mem'[run].ready <= Cardinality(Announced(run))
    BY <1>1, <1>2, AnnouncedFinite DEF BarrierInv
  <2>2. ppc' \in {"warmup", "tails", "send", "done"} => Announced(run) = Consumers
    BY <1>1 DEF BarrierInv
  <2> QED
    BY <1>5, <2>1, <2>2 DEF BarrierInv
<1>7. ASSUME NEW c \in Consumers PROVE ConsumerInv(c)'
  BY ConsumersUndisturbed
<1> QED
  BY <1>3, <1>4, <1>6, <1>7 DEF StartupInv

LEMMA ProducerKeeps == StartupInv /\ Producer => StartupInv'
<1> SUFFICES ASSUME StartupInv, Producer PROVE StartupInv'
  OBVIOUS
<1> USE StartupAssumption
<1>1. /\ TypeOK /\ SegmentInv /\ BarrierInv /\ UNCHANGED <<run, cleaned, consumerVars>>
  BY DEF StartupInv, Producer
<1>2. /\ run \in Segments /\ mem \in [Segments -> Contents] /\ mem[run] \in Contents
      /\ mem[run].ready \in Nat
  BY <1>1, CurrentRun DEF TypeOK
<1>3. CASE Unlink \/ Create \/ ZeroDone \/ Barrier \/ Finish
  <2>1. UNCHANGED mem
    BY <1>3 DEF Unlink, Create, ZeroDone, Barrier, Finish
  <2> QED
    BY <1>1, <1>3, <2>1, QuietProducerKeeps
<1>4. CASE Truncate
  <2>1. /\ ppc = "truncate" /\ ppc' = "zero" /\ UNCHANGED <<name, pseg>> /\ pseg = run
        /\ mem' = [mem EXCEPT ![run].sized = TRUE]
    BY <1>1, <1>4 DEF Truncate, SegmentInv
  <2>2. /\ mem' \in [Segments -> Contents] /\ mem'[run].ready = mem[run].ready
        /\ mem'[run].start = mem[run].start
        /\ \A s \in Segments : s # run => mem'[s] = mem[s]
    BY <1>2, <2>1 DEF Contents
  <2>3. ~mem[run].start
    BY <1>1, <2>1 DEF BarrierInv
  <2> QED
    BY <1>1, <1>2, <2>1, <2>2, <2>3, WritingProducerKeeps
<1>5. ASSUME NEW x \in {"ready", "start", "head", "tails"}, Zero(x) PROVE StartupInv'
  <2>1. /\ ppc = "zero" /\ ppc' = "zero" /\ UNCHANGED <<name, pseg>> /\ pseg = run
        /\ mem' = [mem EXCEPT ![run][x] = Fresh[x]]
    BY <1>1, <1>5 DEF Zero, SegmentInv
  <2>2. /\ mem' \in [Segments -> Contents] /\ mem'[run].ready <= mem[run].ready
        /\ mem'[run].start => mem[run].start
        /\ \A s \in Segments : s # run => mem'[s] = mem[s]
    <3>1. CASE x = "ready"
      BY <1>2, <2>1, <3>1 DEF Contents, Fresh
    <3>2. CASE x = "start"
      <4>1. Fresh[x] = FALSE
        BY <3>2 DEF Fresh
      <4>2. mem' = [mem EXCEPT ![run].start = FALSE]
        BY <2>1, <3>2, <4>1
      <4>3. /\ mem' \in [Segments -> Contents] /\ mem'[run].ready = mem[run].ready
            /\ \A s \in Segments : s # run => mem'[s] = mem[s]
        BY <1>2, <4>2 DEF Contents
      <4>4. mem'[run].start = FALSE
        BY <1>2, <4>2 DEF Contents
      <4> QED
        BY <1>2, <4>3, <4>4
    <3>3. CASE x = "head"
      BY <1>2, <2>1, <3>3 DEF Contents, Fresh
    <3>4. CASE x = "tails"
      BY <1>2, <2>1, <3>4 DEF Contents, Fresh
    <3>5. x \in {"ready", "start", "head", "tails"}
      BY <1>5
    <3> QED
      BY <3>1, <3>2, <3>3, <3>4, <3>5
  <2>3. ~mem[run].start
    BY <1>1, <2>1 DEF BarrierInv
  <2> QED
    BY <1>1, <1>2, <2>1, <2>2, <2>3, WritingProducerKeeps
<1>6. CASE Warmup
  <2>1. /\ ppc = "warmup" /\ ppc' = "tails" /\ UNCHANGED <<name, pseg>> /\ pseg = run
        /\ mem' = [mem EXCEPT ![run].head = N_WARMUP] /\ todo' = Consumers
    BY <1>1, <1>6 DEF Warmup, SegmentInv
  <2>2. /\ mem' \in [Segments -> Contents] /\ mem'[run].ready = mem[run].ready
        /\ mem'[run].start = mem[run].start /\ mem'[run].head = N_WARMUP
        /\ \A s \in Segments : s # run => mem'[s] = mem[s]
    BY <1>2, <2>1 DEF Contents
  <2>3. ~mem[run].start
    BY <1>1, <2>1 DEF BarrierInv
  <2> QED
    BY <1>1, <1>2, <2>1, <2>2, <2>3, WritingProducerKeeps
<1>7. ASSUME NEW d \in Consumers, SetTail(d) PROVE StartupInv'
  <2>1. /\ ppc = "tails" /\ ppc' = "tails" /\ UNCHANGED <<name, pseg>> /\ pseg = run
        /\ mem' = [mem EXCEPT ![run].tails[d] = mem[run].head] /\ todo' = todo \ {d}
    BY <1>1, <1>7 DEF SetTail, SegmentInv
  <2>2. /\ mem[run].head = N_WARMUP
        /\ \A c \in Consumers : c \in todo \/ mem[run].tails[c] = N_WARMUP
    BY <1>1, <2>1 DEF BarrierInv
  <2>3. /\ mem' \in [Segments -> Contents] /\ mem'[run].ready = mem[run].ready
        /\ mem'[run].start = mem[run].start /\ mem'[run].head = N_WARMUP
        /\ \A s \in Segments : s # run => mem'[s] = mem[s]
        /\ mem'[run].tails = [mem[run].tails EXCEPT ![d] = N_WARMUP]
    BY <1>2, <2>1, <2>2 DEF Contents
  <2>4. \A c \in Consumers : c \in todo' \/ mem'[run].tails[c] = N_WARMUP
    <3>1. mem[run].tails \in [Consumers -> {0, N_WARMUP}]
      BY <1>2 DEF Contents
    <3> QED
      BY <2>1, <2>2, <2>3, <3>1
  <2>5. ~mem[run].start
    BY <1>1, <2>1 DEF BarrierInv
  <2> QED
    BY <1>1, <1>2, <2>1, <2>3, <2>4, <2>5, WritingProducerKeeps
<1>8. CASE Start
  <2>1. /\ ppc = "tails" /\ ppc' = "send" /\ UNCHANGED <<name, pseg>> /\ pseg = run
        /\ mem' = [mem EXCEPT ![run].start = TRUE] /\ todo = {}
    BY <1>1, <1>8 DEF Start, SegmentInv
  <2>2. /\ mem' \in [Segments -> Contents] /\ mem'[run].ready = mem[run].ready
        /\ mem'[run].tails = mem[run].tails
        /\ \A s \in Segments : s # run => mem'[s] = mem[s]
    BY <1>2, <2>1 DEF Contents
  <2>3. \A c \in Consumers : mem[run].tails[c] = N_WARMUP
    BY <1>1, <2>1 DEF BarrierInv
  <2>4. ~mem[run].start
    BY <1>1, <2>1 DEF BarrierInv
  <2> QED
    BY <1>1, <1>2, <2>1, <2>2, <2>3, <2>4, WritingProducerKeeps
<1> QED
  BY <1>3, <1>4, <1>5, <1>6, <1>7, <1>8 DEF Producer

LEMMA CrashKeeps == StartupInv /\ Crash => StartupInv'
<1> SUFFICES ASSUME StartupInv, Crash PROVE StartupInv'
  OBVIOUS
<1>1. /\ UNCHANGED <<run, cleaned, consumerVars, mem>>
      /\ ppc # "done" /\ ppc' = "crashed" /\ UNCHANGED <<name, pseg, todo>>
  BY DEF Crash
<1> QED
  BY <1>1, QuietProducerKeeps

-----------------------------------------------------------------------------
(* The consumers.                                                          *)

(* Steps of a consumer that only read the segment.                         *)
LEMMA ReaderKeeps ==
  ASSUME StartupInv, UNCHANGED <<run, cleaned, name, producerVars, mem, dead>>,
         NEW c \in Consumers,
         OpenName(c) \/ MapSegment(c) \/ OpenTimedOut(c) \/ SeeStart(c) \/ Exit(c)
  PROVE  StartupInv'
<1> USE StartupAssumption
<1>1. TypeOK /\ SegmentInv /\ BarrierInv /\ \A d \in Consumers : ConsumerInv(d)
  BY DEF StartupInv
<1>2. /\ run \in Segments /\ run \in Nat /\ run > 0 /\ cseg[c] \in 0 .. run
      /\ tries[c] \in 0 .. MaxRetries /\ MaxRetries \in Nat /\ name \in 0 .. run
  BY <1>1, CurrentRun DEF TypeOK, ConsumerInv, SegmentInv
<1>3. /\ cpc \in [Consumers -> {"open", "stat", "attached", "wait", "running", "exited",
                              "failed"}]
      /\ cseg \in [Consumers -> {0} \cup Segments] /\ tries \in [Consumers -> 0 .. MaxRetries]
  BY <1>1 DEF TypeOK
<1>4. /\ cpc' = [cpc EXCEPT ![c] = cpc'[c]] /\ cseg' = [cseg EXCEPT ![c] = cseg'[c]]
      /\ tries' = [tries EXCEPT ![c] = tries'[c]]
      /\ cpc'[c] \in {"open", "stat", "attached", "wait", "running", "exited", "failed"}
  <2>1. CASE OpenName(c)
    BY <1>3, <2>1 DEF OpenName
  <2>2. CASE MapSegment(c)
    BY <1>3, <2>2 DEF MapSegment
  <2>3. CASE OpenTimedOut(c)
    BY <1>3, <2>3 DEF OpenTimedOut
  <2>4. CASE SeeStart(c) \/ Exit(c)
    BY <1>3, <2>4 DEF SeeStart, Exit
  <2> QED
    BY <2>1, <2>2, <2>3, <2>4
<1>5. /\ cseg'[c] \in 0 .. run /\ tries'[c] \in 0 .. MaxRetries
      /\ cseg'[c] \in {0, name, cseg[c]}
      /\ (cseg'[c] = 0 <=> cpc'[c] \in {"open", "failed"})
      /\ (cpc'[c] = "stat" => tries'[c] < MaxRetries)
      /\ (cpc'[c] \in {"running", "exited"} /\ cseg'[c] = run => mem[run].start)
  <2>1. ConsumerInv(c)
    BY <1>1
  <2>2. CASE OpenName(c)
    BY <1>2, <1>3, <2>1, <2>2 DEF OpenName, ConsumerInv
  <2>3. CASE MapSegment(c)
    BY <1>2, <1>3, <2>1, <2>3 DEF MapSegment, ConsumerInv
  <2>4. CASE OpenTimedOut(c)
    BY <1>2, <1>3, <2>1, <2>4 DEF OpenTimedOut, ConsumerInv
  <2>5. CASE SeeStart(c) \/ Exit(c)
    BY <1>2, <1>3, <2>1, <2>5 DEF SeeStart, Exit, ConsumerInv
  <2> QED
    BY <2>2, <2>3, <2>4, <2>5
<1>6. TypeOK'
  <2>1. 0 .. run \subseteq {0} \cup Segments
    BY <1>1, CurrentRun DEF Segments
  <2>2. /\ cpc' \in [Consumers -> {"open", "stat", "attached", "wait", "running", "exited",
                                 "failed"}]
        /\ cseg' \in [Consumers -> {0} \cup Segments]
        /\ tries' \in [Consumers -> 0 .. MaxRetries]
    BY <1>3, <1>4, <1>5, <2>1
  <2> QED
    BY <1>1, <2>2 DEF TypeOK, producerVars
<1>7. SegmentInv'
  BY <1>1 DEF SegmentInv, producerVars
<1>8. Announced(run)' = Announced(run)
  <2>1. /\ cpc'[c] \in {"wait", "running", "exited"} <=> cpc[c] \in {"wait", "running", "exited"}
        /\ cpc[c] \in {"wait", "running", "exited"} => cseg'[c] = cseg[c]
    BY <1>3 DEF OpenName, MapSegment, OpenTimedOut, SeeStart, Exit
  <2>2. \A d \in Consumers : d # c => cpc'[d] = cpc[d] /\ cseg'[d] = cseg[d]
    BY <1>3, <1>4
  <2> QED
    BY <2>1, <2>2 DEF Announced
<1>9. BarrierInv'
  BY <1>1, <1>8 DEF BarrierInv, producerVars
<1>10. ASSUME NEW d \in Consumers PROVE ConsumerInv(d)'
  <2>1. CASE d = c
    <3>1. /\ cseg'[c] = run => pseg = run
          /\ cleaned => cseg'[c] \in {0, run}
      BY <1>1, <1>2, <1>5 DEF SegmentInv, ConsumerInv
    <3> QED
      BY <1>5, <2>1, <3>1 DEF ConsumerInv, producerVars
  <2>2. CASE d # c
    <3>1. cpc'[d] = cpc[d] /\ cseg'[d] = cseg[d] /\ tries'[d] = tries[d]
      BY <1>3, <1>4, <2>2
    <3> QED
      BY <1>1, <3>1 DEF ConsumerInv, producerVars
  <2> QED
    BY <2>1, <2>2
<1> QED
  BY <1>6, <1>7, <1>9, <1>10 DEF StartupInv

(* ready_count grows with the set of those who have announced themselves.  *)
LEMMA AnnounceKeeps ==
  ASSUME StartupInv, UNCHANGED <<run, cleaned, name, producerVars, dead>>,
         NEW c \in Consumers, Announce(c)
  PROVE  StartupInv'
<1> USE StartupAssumption
<1>1. TypeOK /\ SegmentInv /\ BarrierInv /\ \A d \in Consumers : ConsumerInv(d)
  BY DEF StartupInv
<1>2. /\ run \in Segments /\ run \in Nat /\ run > 0 /\ run <= MaxRuns /\ MaxRuns \in Nat
      /\ mem[run].ready \in Nat
  BY <1>1, CurrentRun
<1>3. /\ cpc \in [Consumers -> {"open", "stat", "attached", "wait", "running", "exited",
                              "failed"}]
      /\ mem \in [Segments -> Contents]
  BY <1>1 DEF TypeOK
<1>4. /\ cpc[c] = "attached" /\ cpc' = [cpc EXCEPT ![c] = "wait"]
      /\ mem' = [mem EXCEPT ![cseg[c]].ready = mem[cseg[c]].ready + 1]
      /\ UNCHANGED <<cseg, tries>>
  BY DEF Announce
<1>5. /\ cseg[c] \in Segments /\ cseg[c] <= run /\ cseg[c] \in Nat
      /\ (cseg[c] = run => pseg = run)
  BY <1>1, <1>2, <1>4 DEF ConsumerInv, Segments
<1>6. /\ mem' \in [Segments -> Contents]
      /\ \A s \in Segments : s # cseg[c] => mem'[s] = mem[s]
  <2>1. mem[cseg[c]] \in Contents /\ mem[cseg[c]].ready + 1 \in Nat
    BY <1>3, <1>5 DEF Contents
  <2>2. [mem[cseg[c]] EXCEPT !.ready = mem[cseg[c]].ready + 1] \in Contents
    BY <2>1 DEF Contents
  <2> QED
    BY <1>3, <1>4, <1>5, <2>2
<1>7. \A s \in Segments : /\ mem'[s].start = mem[s].start /\ mem'[s].tails = mem[s].tails
                          /\ mem'[s].head = mem[s].head
  BY <1>3, <1>4, <1>5 DEF Contents
<1>8. mem'[run].ready = IF cseg[c] = run THEN mem[run].ready + 1 ELSE mem[run].ready
  BY <1>2, <1>3, <1>4, <1>5 DEF Contents
<1>9. TypeOK'
  BY <1>1, <1>3, <1>4, <1>6 DEF TypeOK, producerVars
<1>10. SegmentInv'
  <2>1. \A s \in Segments : s > run => mem'[s] = Fresh
    BY <1>1, <1>2, <1>5, <1>6 DEF SegmentInv, Segments
  <2>2. pseg = 0 => mem'[run] = Fresh
    BY <1>1, <1>2, <1>5, <1>6 DEF SegmentInv
  <2> QED
    BY <1>1, <2>1, <2>2 DEF SegmentInv, producerVars
<1>11. Announced(run)' = IF cseg[c] = run THEN Announced(run) \cup {c} ELSE Announced(run)
  BY <1>3, <1>4 DEF Announced
<1>12. c \notin Announced(run)
  BY <1>4 DEF Announced
<1>13. mem'[run].ready <= Cardinality(Announced(run)')
  <2>1. mem[run].ready <= Cardinality(Announced(run)) /\ Cardinality(Announced(run)) \in Nat
    BY <1>1, AnnouncedFinite DEF BarrierInv
  <2>2. Cardinality(Announced(run) \cup {c}) = Cardinality(Announced(run)) + 1
    BY <1>12, AnnouncedFinite, FS_AddElement
  <2>3. CASE cseg[c] = run
    <3>1. Cardinality(Announced(run)') = Cardinality(Announced(run)) + 1
      BY <1>11, <2>2, <2>3, Zenon
    <3> QED
      BY <1>2, <1>8, <2>1, <2>3, <3>1
  <2>4. CASE cseg[c] # run
    BY <1>8, <1>11, <2>1, <2>4
  <2> QED
    BY <2>3, <2>4
<1>14. BarrierInv'
  <2>1. Announced(run) = Consumers => Announced(run)' = Consumers
    BY <1>11
  <2>2. /\ ppc \in {"warmup", "tails", "send", "done"} => Announced(run)' = Consumers
        /\ mem'[run].start => Announced(run)' = Consumers
    BY <1>1, <1>2, <1>7, <2>1 DEF BarrierInv
  <2> QED
    BY <1>1, <1>2, <1>7, <1>13, <2>2 DEF BarrierInv, producerVars
<1>15. ASSUME NEW d \in Consumers PROVE ConsumerInv(d)'
  <2>1. cpc'[d] = IF d = c THEN "wait" ELSE cpc[d]
    BY <1>3, <1>4
  <2> QED
    BY <1>1, <1>2, <1>4, <1>7, <2>1 DEF ConsumerInv, producerVars
<1> QED
  BY <1>9, <1>10, <1>14, <1>15 DEF StartupInv

LEMMA ConsumerKeeps == ASSUME StartupInv, NEW c \in Consumers, Consumer(c) PROVE StartupInv'
<1>1. UNCHANGED <<run, cleaned, name, producerVars, dead>>
  BY DEF Consumer
<1>2. CASE Announce(c)
  BY <1>1, <1>2, AnnounceKeeps
<1>3. CASE OpenName(c) \/ MapSegment(c) \/ OpenTimedOut(c) \/ SeeStart(c) \/ Exit(c)
  <2>1. UNCHANGED mem
    BY <1>3 DEF OpenName, MapSegment, OpenTimedOut, SeeStart, Exit
  <2> QED
    BY <1>1, <1>3, <2>1, ReaderKeeps
<1> QED
  BY <1>2, <1>3 DEF Consumer

(* The death of a consumer disturbs nothing it has done before.            *)
LEMMA CrashConsumerKeeps ==
  ASSUME StartupInv, NEW c \in Consumers, CrashConsumer(c)
  PROVE  StartupInv'
<1>1. /\ UNCHANGED <<run, cleaned, name, mem, ppc, pseg, todo, cpc, cseg, tries>>
      /\ dead' = dead \cup {c}
  BY DEF CrashConsumer, producerVars
<1>2. TypeOK'
  BY <1>1 DEF StartupInv, TypeOK
<1>3. SegmentInv' /\ BarrierInv' /\ \A d \in Consumers : ConsumerInv(d)'
  BY <1>1 DEF StartupInv, SegmentInv, BarrierInv, ConsumerInv, Announced
<1> QED
  BY <1>2, <1>3 DEF StartupInv

-----------------------------------------------------------------------------
(* The next run finds a segment nobody has touched yet, under its number.  *)
LEMMA NextRunKeeps == StartupInv /\ NextRun => StartupInv'
<1> SUFFICES ASSUME StartupInv, NextRun PROVE StartupInv'
  OBVIOUS
<1> USE StartupAssumption
<1>1. TypeOK /\ SegmentInv
  BY DEF StartupInv
<1>2. run \in Nat /\ run > 0 /\ run <= MaxRuns /\ MaxRuns \in Nat
  BY <1>1, CurrentRun
<1>3. /\ run < MaxRuns /\ run' = run + 1 /\ name' \in {0, name} /\ cleaned' \in BOOLEAN
      /\ (cleaned' => name' = 0) /\ ppc' = "unlink" /\ pseg' = 0
      /\ cpc' = [c \in Consumers |-> "open"] /\ cseg' = [c \in Consumers |-> 0]
      /\ tries' = [c \in Consumers |-> 0] /\ dead' = {} /\ mem' = mem
  BY DEF NextRun, NameAtNextRun
<1>4. run' \in Segments /\ run' \in Nat /\ run' > run
  BY <1>2, <1>3 DEF Segments
<1>5. TypeOK'
  BY <1>1, <1>3, <1>4 DEF TypeOK
<1>6. mem[run'] = Fresh
  BY <1>1, <1>4 DEF SegmentInv
<1>7. SegmentInv'
  <2>1. name' \in 0 .. run' /\ name' # run'
    BY <1>1, <1>2, <1>3 DEF SegmentInv
  <2>2. \A s \in Segments : s > run' => mem[s] = Fresh
    BY <1>1, <1>2, <1>4 DEF SegmentInv, Segments
  <2> QED
    BY <1>3, <1>6, <2>1, <2>2 DEF SegmentInv
<1>8. BarrierInv'
  <2>1. mem'[run'].ready = 0 /\ ~mem'[run'].start
    BY <1>3, <1>6 DEF Fresh
  <2>2. Announced(run)' = {}
    BY <1>2, <1>3, <1>4 DEF Announced
  <2>3. Cardinality(Announced(run)') = 0
    BY <2>2, FS_EmptySet, Zenon
  <2> QED
    BY <1>3, <2>1, <2>3 DEF BarrierInv
<1>9. ASSUME NEW c \in Consumers PROVE ConsumerInv(c)'
  BY <1>3, <1>4 DEF ConsumerInv
<1> QED
  BY <1>5, <1>7, <1>8, <1>9 DEF StartupInv

LEMMA StepKeeps == StartupInv /\ [Next]_vars => StartupInv'
<1> SUFFICES ASSUME StartupInv, [Next]_vars PROVE StartupInv'
  OBVIOUS
<1>1. CASE UNCHANGED vars
  BY <1>1 DEF vars, StartupInv, TypeOK, SegmentInv, BarrierInv, ConsumerInv, Announced
<1>2. CASE Next
  BY <1>2, ProducerKeeps, CrashKeeps, ConsumerKeeps, CrashConsumerKeeps, NextRunKeeps DEF Next
<1> QED
  BY <1>1, <1>2

(* The inductive invariant.                                                *)
THEOREM StartupInvariant == Spec => []StartupInv
BY InitHolds, StepKeeps, PTL DEF Spec

(* The state keeps its type: ready_count counts, no attempt to open the    *)
(* segment comes after the last one (bench_consumer.cpp, open_shm).        *)
THEOREM StartupTypeCorrect == Spec => []TypeOK
<1>1. StartupInv => TypeOK
  BY DEF StartupInv
<1> QED
  BY <1>1, StartupInvariant, PTL

(* No consumer runs before all have announced themselves in the segment of *)
(* the producer, nor with a cursor among the warm-up messages              *)
(* (bench_producer.cpp, 110-131), whoever crashed before.                  *)
THEOREM AllStartTogether == Spec => []NobodyStartsAlone
<1>1. StartupInv => NobodyStartsAlone
  <2> SUFFICES ASSUME StartupInv, NEW c \in Consumers,
                      cpc[c] \in {"running", "exited"}, cseg[c] = pseg
               PROVE  Announced(pseg) = Consumers /\ mem[pseg].tails[c] = N_WARMUP
    BY DEF NobodyStartsAlone
  <2>1. pseg = run
    BY DEF StartupInv, SegmentInv, ConsumerInv
  <2>2. mem[run].start
    BY <2>1 DEF StartupInv, ConsumerInv
  <2> QED
    BY <2>1, <2>2 DEF StartupInv, BarrierInv
<1> QED
  BY <1>1, StartupInvariant, PTL

(* Where no segment was left when the run began, consumers attach to the   *)
(* one of their own run (bench_producer.cpp:62).                           *)
THEOREM NoStaleSegment == Spec => []AttachedToThisRun
<1>1. StartupInv => AttachedToThisRun
  BY DEF StartupInv, ConsumerInv, AttachedToThisRun
<1> QED
  BY <1>1, StartupInvariant, PTL

=============================================================================
