------------------------- MODULE BenchRunner_proofs -------------------------
(***************************************************************************)
(* Proofs about the sweep of run_bench.sh, for any combinations and any    *)
(* consumers.                                                              *)
(***************************************************************************)
EXTENDS BenchRunner, TLAPS

(* A consumer or a producer runs only in the places of the script between  *)
(* its start and the end of the run, only gRPC has a producer that runs    *)
(* beside the script, and only that of shm has a segment to create.        *)
ProcessInv ==
  /\ pc \in {"clean", "server", "socket", "redis", "redisSocket", "consumers", "recheck",
             "analyze", "ended", "aborted"} => \A c \in Consumers : ~Alive(c)
  /\ prod = "running" => \/ pc = "foreground"
                         \/ ipc = "grpc" /\ pc \in {"socket", "consumers", "poll", "wait"}
  /\ prod = "creating" => pc = "foreground"
  /\ pc \in {"server", "socket"} => ipc = "grpc"
  /\ pc \in {"redis", "redisSocket"} => ipc = "redis"
  /\ pc \in {"pids", "recheck"} => HasPids
  /\ pc \notin {"clean", "analyze", "ended", "aborted"} => ipc \in Known

(* A redis-server of the sweep belongs to a run of Redis.                  *)
RedisInv ==
  redis = "started" =>
    /\ ipc = "redis"
    /\ pc \in {"redisSocket", "consumers", "producer", "foreground", "poll", "pids", "recheck",
               "wait", "aborted"}

(* The files: what was left over is gone once the run has begun, the       *)
(* consumers of this run have opened theirs when they are done with their  *)
(* loops, and the script goes on only with all of them.                    *)
FilesInv ==
  /\ pc \notin {"clean", "analyze", "ended", "aborted"} =>
       \A c \in Consumers : tp[run][c] # "stale"
  /\ pc \in {"producer", "foreground", "poll", "pids", "recheck", "wait"} =>
       \A c \in Consumers : /\ cons[c] # "none"
                            /\ cons[c] \in {"writing", "exited"} => HasFile(c)
  /\ pc = "wait" => FilesThere

SweepInv == TypeOK /\ ProcessInv /\ RedisInv /\ FilesInv

-----------------------------------------------------------------------------
LEMMA RunsAreNaturals ==
  /\ Len(Combos) \in Nat \ {0}
  /\ 1 \in Runs
  /\ \A n \in Runs : /\ n \in Nat
                     /\ Combos[n].ipc \in STRING
                     /\ Combos[n].mps \in Seq(Nat)
<1> DEFINE Combo == [ipc : STRING, mps : Seq(Nat)]
<1>1. Combos \in Seq(Combo) /\ Combos # <<>>
  BY SweepAssumption
<1> HIDE DEF Combo
<1>2. Len(Combos) \in Nat \ {0}
  BY <1>1
<1>3. \A n \in Runs : n \in Nat /\ Combos[n] \in Combo
  BY <1>1 DEF Runs
<1>4. \A x \in Combo : x.ipc \in STRING /\ x.mps \in Seq(Nat)
  BY DEF Combo
<1> QED
  BY <1>2, <1>3, <1>4 DEF Runs

(* Clean removes what an earlier sweep has left of this very run.          *)
LEMMA OwnFilesMatch == ASSUME run \in Runs PROVE Matches(run)
<1>1. Combos[run].mps \in Seq(Nat)
  BY RunsAreNaturals
<1>2. Len(Combos[run].mps) \in Nat
  BY <1>1
<1> QED
  BY <1>2 DEF Matches, ipc, IsPrefix

LEMMA SweepInit == Init => SweepInv
<1> SUFFICES ASSUME Init PROVE SweepInv
  OBVIOUS
<1>1. tp \in [Runs -> [Consumers -> {"none", "stale", "open", "written"}]]
  <2>1. /\ [c \in Consumers |-> "none"] \in [Consumers -> {"none", "stale", "open", "written"}]
        /\ [c \in Consumers |-> "stale"] \in [Consumers -> {"none", "stale", "open", "written"}]
    OBVIOUS
  <2> QED
    BY <2>1 DEF Init
<1>2. TypeOK
  BY <1>1, RunsAreNaturals DEF Init, TypeOK
<1>3. \A c \in Consumers : ~Alive(c)
  BY DEF Init, Alive
<1> QED
  BY <1>2, <1>3 DEF Init, SweepInv, ProcessInv, RedisInv, FilesInv

-----------------------------------------------------------------------------
(* The script.                                                             *)

LEMMA CleanStep == SweepInv /\ Clean => SweepInv'
<1> SUFFICES ASSUME SweepInv, Clean PROVE SweepInv'
  OBVIOUS
<1>1. TypeOK /\ ProcessInv /\ RedisInv /\ pc = "clean" /\ run \in Runs
  BY DEF SweepInv, Clean, TypeOK
<1>2. UNCHANGED <<run, cons, ready, lost, prod, redis>> /\ pc' \in {"server", "redis", "consumers"}
  BY DEF Clean
<1>3. tp' = [n \in Runs |-> IF Matches(n) THEN [c \in Consumers |-> "none"] ELSE tp[n]]
  BY DEF Clean
<1>4. TypeOK'
  <2>1. tp' \in [Runs -> [Consumers -> {"none", "stale", "open", "written"}]]
    BY <1>1, <1>3 DEF TypeOK
  <2> QED
    BY <1>1, <1>2, <2>1 DEF TypeOK
<1>5. tp'[run] = [c \in Consumers |-> "none"]
  BY <1>1, <1>3, OwnFilesMatch
<1>6. ipc' = ipc /\ (HasPids <=> HasPids') /\ \A c \in Consumers : Alive(c)' = Alive(c)
  BY <1>2 DEF ipc, HasPids, Alive
<1>7. ProcessInv'
  BY <1>1, <1>2, <1>6 DEF ProcessInv, Clean
<1>8. RedisInv'
  BY <1>1, <1>2, <1>6 DEF RedisInv
<1>9. FilesInv'
  BY <1>2, <1>5 DEF FilesInv
<1> QED
  BY <1>4, <1>7, <1>8, <1>9 DEF SweepInv

(* Steps of the script in which neither a consumer nor a file is touched.  *)
Quiet ==
  \/ StartServer \/ SocketThere \/ SocketTimeout \/ StartRedis \/ RedisThere \/ RedisTimeout
  \/ StartProducer \/ Poll \/ CheckPids \/ Recheck \/ Analyze

LEMMA QuietStep == SweepInv /\ Quiet => SweepInv'
<1> SUFFICES ASSUME SweepInv, Quiet PROVE SweepInv'
  OBVIOUS
<1>1. TypeOK /\ ProcessInv /\ RedisInv /\ FilesInv
  BY DEF SweepInv
<1>2. UNCHANGED <<run, tp, cons, ready, lost>>
  BY DEF Quiet, StartServer, SocketThere, SocketTimeout, StartRedis, RedisThere, RedisTimeout,
         StartProducer, Poll, CheckPids, Recheck, Analyze
<1>3. /\ ipc' = ipc /\ (HasPids <=> HasPids') /\ FilesThere' = FilesThere
      /\ \A c \in Consumers : Alive(c)' = Alive(c) /\ HasFile(c)' = HasFile(c)
  BY <1>2 DEF ipc, HasPids, Alive, HasFile, FilesThere
<1>4. CASE StartServer \/ SocketThere \/ SocketTimeout
  <2>1. TypeOK'
    BY <1>1, <1>2, <1>4 DEF TypeOK, StartServer, SocketThere, SocketTimeout
  <2>2. ProcessInv'
    BY <1>1, <1>3, <1>4 DEF ProcessInv, StartServer, SocketThere, SocketTimeout
  <2>3. RedisInv'
    BY <1>1, <1>3, <1>4 DEF RedisInv, StartServer, SocketThere, SocketTimeout
  <2>4. FilesInv'
    BY <1>1, <1>2, <1>3, <1>4 DEF FilesInv, StartServer, SocketThere, SocketTimeout
  <2> QED
    BY <2>1, <2>2, <2>3, <2>4 DEF SweepInv
<1>5. CASE StartRedis \/ RedisThere \/ RedisTimeout
  <2>1. TypeOK'
    BY <1>1, <1>2, <1>5 DEF TypeOK, StartRedis, RedisThere, RedisTimeout
  <2>2. ProcessInv'
    BY <1>1, <1>3, <1>5 DEF ProcessInv, StartRedis, RedisThere, RedisTimeout
  <2>3. RedisInv'
    BY <1>1, <1>3, <1>5 DEF ProcessInv, RedisInv, StartRedis, RedisThere, RedisTimeout
  <2>4. FilesInv'
    BY <1>1, <1>2, <1>3, <1>5 DEF FilesInv, StartRedis, RedisThere, RedisTimeout
  <2> QED
    BY <2>1, <2>2, <2>3, <2>4 DEF SweepInv
<1>6. CASE StartProducer \/ Poll \/ Analyze
  <2>1. TypeOK'
    BY <1>1, <1>2, <1>6 DEF TypeOK, StartProducer, Poll, Analyze
  <2>2. ProcessInv'
    BY <1>1, <1>3, <1>6 DEF ProcessInv, HasPids, StartProducer, Poll, Analyze
  <2>3. RedisInv'
    BY <1>1, <1>3, <1>6 DEF RedisInv, StartProducer, Poll, Analyze
  <2>4. FilesInv'
    BY <1>1, <1>2, <1>3, <1>6 DEF FilesInv, StartProducer, Poll, Analyze
  <2> QED
    BY <2>1, <2>2, <2>3, <2>4 DEF SweepInv
<1>7. CASE CheckPids \/ Recheck
  <2>1. TypeOK'
    BY <1>1, <1>2, <1>7 DEF TypeOK, CheckPids, Recheck, NextLook
  <2>2. ProcessInv'
    BY <1>1, <1>3, <1>7 DEF ProcessInv, CheckPids, Recheck, NextLook
  <2>3. RedisInv'
    BY <1>1, <1>3, <1>7 DEF RedisInv, CheckPids, Recheck, NextLook
  <2>4. FilesInv'
    BY <1>1, <1>2, <1>3, <1>7 DEF FilesInv, CheckPids, Recheck, NextLook
  <2> QED
    BY <2>1, <2>2, <2>3, <2>4 DEF SweepInv
<1> QED
  BY <1>4, <1>5, <1>6, <1>7 DEF Quiet

LEMMA StartConsumersStep == SweepInv /\ StartConsumers => SweepInv'
<1> SUFFICES ASSUME SweepInv, StartConsumers PROVE SweepInv'
  OBVIOUS
<1>1. TypeOK /\ ProcessInv /\ RedisInv /\ FilesInv /\ pc = "consumers"
  BY DEF SweepInv, StartConsumers
<1>2. UNCHANGED <<run, tp, prod, redis>> /\ cons' = [c \in Consumers |-> "started"]
  BY DEF StartConsumers
<1>3. ready' = {} /\ lost' = {} /\ pc' = IF ipc = "grpc" THEN "poll" ELSE "producer"
  BY DEF StartConsumers
<1>4. ipc' = ipc /\ (HasPids <=> HasPids')
  BY <1>2 DEF ipc, HasPids
<1>5. TypeOK'
  BY <1>1, <1>2, <1>3 DEF TypeOK
<1>6. ProcessInv'
  BY <1>1, <1>2, <1>3, <1>4 DEF ProcessInv
<1>7. RedisInv'
  BY <1>1, <1>2, <1>3, <1>4 DEF RedisInv
<1>8. FilesInv'
  BY <1>1, <1>2, <1>3 DEF FilesInv
<1> QED
  BY <1>5, <1>6, <1>7, <1>8 DEF SweepInv

(* A kill leaves nobody alive and no consumer that was not there.          *)
LEMMA KillKills ==
  ASSUME TypeOK, Kill
  PROVE  /\ cons' \in [Consumers -> {"none", "started", "writing", "exited", "crashed"}]
         /\ \A c \in Consumers : ~Alive(c)'
BY DEF TypeOK, Kill, Alive

LEMMA ForegroundEndsStep == SweepInv /\ ForegroundEnds => SweepInv'
<1> SUFFICES ASSUME SweepInv, ForegroundEnds PROVE SweepInv'
  OBVIOUS
<1>1. TypeOK /\ ProcessInv /\ RedisInv /\ FilesInv /\ pc = "foreground"
  BY DEF SweepInv, ForegroundEnds
<1>2. UNCHANGED <<run, tp, ready, lost, prod, redis>>
  BY DEF ForegroundEnds
<1>3. ipc' = ipc /\ (HasPids <=> HasPids')
  BY <1>2 DEF ipc, HasPids
<1>4. CASE prod = "ended" /\ pc' = "poll" /\ UNCHANGED cons
  <2>1. TypeOK'
    BY <1>1, <1>2, <1>4 DEF TypeOK
  <2>2. ProcessInv'
    BY <1>1, <1>2, <1>3, <1>4 DEF ProcessInv
  <2>3. RedisInv'
    BY <1>1, <1>2, <1>3, <1>4 DEF RedisInv
  <2>4. FilesInv'
    BY <1>1, <1>2, <1>4 DEF FilesInv, HasFile
  <2> QED
    BY <2>1, <2>2, <2>3, <2>4 DEF SweepInv
<1>5. CASE prod = "failed" /\ pc' = "aborted" /\ Kill
  <2>1. TypeOK'
    BY <1>1, <1>2, <1>5, KillKills DEF TypeOK
  <2>2. ProcessInv'
    BY <1>1, <1>2, <1>3, <1>5, KillKills DEF ProcessInv
  <2>3. RedisInv'
    BY <1>1, <1>2, <1>3, <1>5 DEF RedisInv
  <2>4. FilesInv'
    BY <1>5 DEF FilesInv
  <2> QED
    BY <2>1, <2>2, <2>3, <2>4 DEF SweepInv
<1> QED
  BY <1>4, <1>5 DEF ForegroundEnds

LEMMA PollTimeoutStep == SweepInv /\ PollTimeout => SweepInv'
<1> SUFFICES ASSUME SweepInv, PollTimeout PROVE SweepInv'
  OBVIOUS
<1>1. TypeOK /\ ProcessInv /\ RedisInv /\ FilesInv /\ pc = "poll"
  BY DEF SweepInv, PollTimeout
<1>2. UNCHANGED <<run, tp, ready, lost, redis>> /\ Kill /\ pc' = "aborted"
  BY DEF PollTimeout
<1>3. prod' \in {"none", "ended", "failed"}
  BY <1>1 DEF PollTimeout, TypeOK, ProcessInv
<1>4. TypeOK'
  BY <1>1, <1>2, <1>3, KillKills DEF TypeOK
<1>5. ProcessInv'
  BY <1>1, <1>2, <1>3, KillKills DEF ProcessInv
<1>6. RedisInv'
  BY <1>1, <1>2 DEF RedisInv, ipc
<1>7. FilesInv'
  BY <1>2 DEF FilesInv
<1> QED
  BY <1>4, <1>5, <1>6, <1>7 DEF SweepInv

(* The last steps of a run: the next one is cleaned for, or the analysis   *)
(* begins.                                                                 *)
LEMMA LastStep == SweepInv /\ (Wait \/ SkipUnknown) => SweepInv'
<1> SUFFICES ASSUME SweepInv, Wait \/ SkipUnknown PROVE SweepInv'
  OBVIOUS
<1>1. TypeOK /\ ProcessInv /\ RedisInv /\ run \in Runs
  BY DEF SweepInv, TypeOK
<1>2. UNCHANGED <<tp, cons, ready, lost>> /\ Advance
  BY DEF Wait, SkipUnknown
<1>3. \A c \in Consumers : ~Alive(c)'
  BY <1>1, <1>2 DEF Wait, SkipUnknown, AllEnded, ProcessInv, Alive
<1>4. prod' \in {"none", "ended", "failed"}
  BY <1>1 DEF Wait, SkipUnknown, TypeOK, ProcessInv
<1>5. redis' \in {"down", "found", "left"}
  BY <1>1 DEF Wait, StopRedis, SkipUnknown, TypeOK, RedisInv
<1>6. run' \in Runs /\ pc' \in {"clean", "analyze"}
  BY <1>1, <1>2, RunsAreNaturals DEF Advance, MoreRuns, Runs
<1>7. TypeOK'
  BY <1>1, <1>2, <1>4, <1>5, <1>6 DEF TypeOK
<1> QED
  BY <1>3, <1>4, <1>5, <1>6, <1>7 DEF SweepInv, ProcessInv, RedisInv, FilesInv

-----------------------------------------------------------------------------
(* The programs.                                                           *)

(* Steps of a consumer c that is alive.                                    *)
LEMMA ConsumerStep ==
  ASSUME SweepInv, NEW c \in Consumers, Program(c) \/ CrashConsumer(c)
  PROVE  SweepInv'
<1>1. TypeOK /\ ProcessInv /\ RedisInv /\ FilesInv /\ Alive(c)
  BY DEF SweepInv, Program, GetReady, OpenFile, ExitConsumer, CrashConsumer, Alive
<1>2. UNCHANGED <<pc, run, prod, redis>> /\ ipc' = ipc /\ HasPids' = HasPids
  BY DEF Program, GetReady, OpenFile, ExitConsumer, CrashConsumer, ipc, HasPids
<1>3. ready' \subseteq Consumers /\ lost' = lost /\ lost' \subseteq Consumers \ ready'
  BY <1>1 DEF TypeOK, Program, GetReady, OpenFile, ExitConsumer, CrashConsumer
<1>4. PICK s \in {"started", "writing", "exited", "crashed"} : cons' = [cons EXCEPT ![c] = s]
  BY <1>1 DEF TypeOK, Program, GetReady, OpenFile, ExitConsumer, CrashConsumer
<1>5. PICK t \in {"none", "stale", "open", "written"} :
         /\ tp' = [tp EXCEPT ![run][c] = t]
         /\ t \in {"open", "written"} \/ t = tp[run][c]
         /\ s \in {"writing", "exited"} => t \in {"open", "written"} \/ cons[c] = s
  BY <1>1, <1>4 DEF TypeOK, Program, GetReady, OpenFile, ExitConsumer, CrashConsumer
<1>6. TypeOK'
  BY <1>1, <1>2, <1>3, <1>4, <1>5 DEF TypeOK
<1>7. \A d \in Consumers : d # c => cons'[d] = cons[d] /\ tp'[run][d] = tp[run][d]
  BY <1>1, <1>4, <1>5 DEF TypeOK
<1>8. cons'[c] = s /\ tp'[run][c] = t
  BY <1>1, <1>4, <1>5 DEF TypeOK
<1>9. pc \in {"producer", "foreground", "poll", "pids", "wait"}
  BY <1>1 DEF ProcessInv, TypeOK
<1>10. ProcessInv'
  BY <1>1, <1>2, <1>9 DEF ProcessInv
<1>11. RedisInv'
  BY <1>1, <1>2 DEF RedisInv
<1>12. FilesInv'
  <2>1. \A d \in Consumers : tp'[run][d] # "stale"
    BY <1>1, <1>5, <1>7, <1>8, <1>9 DEF FilesInv
  <2>2. \A d \in Consumers : HasFile(d) => HasFile(d)'
    BY <1>2, <1>5, <1>7, <1>8 DEF HasFile
  <2>3. \A d \in Consumers : cons'[d] # "none"
    BY <1>1, <1>7, <1>8, <1>9 DEF FilesInv
  <2>4. \A d \in Consumers : cons'[d] \in {"writing", "exited"} => HasFile(d)'
    <3> SUFFICES ASSUME NEW d \in Consumers, cons'[d] \in {"writing", "exited"}
                 PROVE  HasFile(d)'
      OBVIOUS
    <3>1. CASE d = c
      <4>1. t # "none"
        BY <1>1, <1>5, <1>8, <1>9, <3>1 DEF FilesInv, HasFile
      <4> QED
        BY <1>2, <1>8, <3>1, <4>1 DEF HasFile
    <3>2. CASE d # c
      BY <1>1, <1>7, <1>9, <2>2, <3>2 DEF FilesInv
    <3> QED
      BY <3>1, <3>2
  <2>5. FilesThere => FilesThere'
    BY <2>2 DEF FilesThere
  <2> QED
    BY <1>1, <1>2, <2>1, <2>3, <2>4, <2>5 DEF FilesInv
<1> QED
  BY <1>6, <1>10, <1>11, <1>12 DEF SweepInv

LEMMA ProducerStep ==
  SweepInv /\ (ClearSegment \/ ProducerEnds \/ ProducerFails) => SweepInv'
<1> SUFFICES ASSUME SweepInv, ClearSegment \/ ProducerEnds \/ ProducerFails PROVE SweepInv'
  OBVIOUS
<1>1. TypeOK /\ ProcessInv /\ RedisInv /\ FilesInv
  BY DEF SweepInv
<1>2. /\ UNCHANGED <<pc, run, tp, cons, redis>>
      /\ prod' \in {"ended", "failed"} \/ (prod' = "running" /\ pc = "foreground")
  BY <1>1 DEF ClearSegment, ProducerEnds, ProducerFails, ProcessInv
<1>3. /\ ipc' = ipc /\ (HasPids <=> HasPids') /\ FilesThere' = FilesThere
      /\ \A c \in Consumers : Alive(c)' = Alive(c) /\ HasFile(c)' = HasFile(c)
  BY <1>2 DEF ipc, HasPids, Alive, HasFile, FilesThere
<1>4. TypeOK'
  <2>1. ready' \subseteq Consumers /\ lost' \subseteq Consumers \ ready'
    BY <1>1 DEF TypeOK, ClearSegment, ProducerEnds, ProducerFails
  <2> QED
    BY <1>1, <1>2, <2>1 DEF TypeOK
<1>5. ProcessInv'
  BY <1>1, <1>2, <1>3 DEF ProcessInv
<1>6. RedisInv' /\ FilesInv'
  BY <1>1, <1>2, <1>3 DEF RedisInv, FilesInv
<1> QED
  BY <1>4, <1>5, <1>6 DEF SweepInv

-----------------------------------------------------------------------------
LEMMA SweepStep == SweepInv /\ [Next]_vars => SweepInv'
<1> SUFFICES ASSUME SweepInv, [Next]_vars PROVE SweepInv'
  OBVIOUS
<1>1. CASE Script
  BY <1>1, CleanStep, QuietStep, StartConsumersStep, ForegroundEndsStep, LastStep
     DEF Script, Quiet
<1>2. CASE Timeout
  BY <1>2, QuietStep, PollTimeoutStep DEF Timeout, Quiet
<1>3. ASSUME NEW c \in Consumers, Program(c) \/ CrashConsumer(c) PROVE SweepInv'
  BY <1>3, ConsumerStep
<1>4. CASE ClearSegment \/ ProducerEnds \/ ProducerFails
  BY <1>4, ProducerStep
<1>5. CASE UNCHANGED vars
  BY <1>5 DEF vars, SweepInv, TypeOK, ProcessInv, RedisInv, FilesInv, Alive, HasFile,
              FilesThere, HasPids, ipc
<1> QED
  BY <1>1, <1>2, <1>3, <1>4, <1>5 DEF Next

(* The inductive invariant of the sweep.                                   *)
THEOREM SweepInvariant == Spec => []SweepInv
<1>1. Init => SweepInv
  BY SweepInit
<1>2. SweepInv /\ [Next]_vars => SweepInv'
  BY SweepStep
<1> QED
  BY <1>1, <1>2, PTL DEF Spec

(* Types; in particular the sweep never runs beyond its combinations.      *)
THEOREM SweepTypeCorrect == Spec => []TypeOK
<1>1. SweepInv => TypeOK
  BY DEF SweepInv
<1> QED
  BY <1>1, SweepInvariant, PTL

(* Whatever crashes and whichever clock ends a run, the next one, the      *)
(* analysis and the user find no consumer, producer or gRPC server of it   *)
(* running (run_bench.sh, 54, 118, 168 and 208-211).  Of redis-server it   *)
(* says only that the sweep does not go on, or end, without having told one*)
(* it has started to shut down (257); that this can fail is in StopRedis.  *)
THEOREM EachRunCleansUp == Spec => []NoJobLeftRunning
<1>1. SweepInv => NoJobLeftRunning
  BY DEF SweepInv, ProcessInv, RedisInv, NoJobLeftRunning
<1> QED
  BY <1>1, SweepInvariant, PTL

(* wait_consumers never reports consumers that have all written their      *)
(* files (run_bench.sh, 79-88).                                            *)
THEOREM AlarmsAreTrue == Spec => NoFalseAlarm
<1> DEFINE TrueAlarm == pc' = "aborted" /\ pc \in {"pids", "recheck"} =>
                          \E c \in Consumers : cons[c] = "crashed" /\ ~HasFile(c)
<1>1. SweepInv /\ [Next]_vars => [TrueAlarm]_vars
  <2> SUFFICES ASSUME SweepInv, Next, pc' = "aborted", pc \in {"pids", "recheck"}
               PROVE  \E c \in Consumers : cons[c] = "crashed" /\ ~HasFile(c)
    BY DEF TrueAlarm
  <2>1. pc = "recheck" /\ ~FilesThere
    <3>1. CheckPids \/ Recheck
      BY DEF Next, Script, Timeout, Clean, SkipUnknown, StartServer, SocketThere, StartRedis,
             RedisThere, StartConsumers, StartProducer, ForegroundEnds, Poll, Wait, Analyze,
             SocketTimeout, RedisTimeout, PollTimeout, Program, GetReady, OpenFile, ExitConsumer,
             CrashConsumer, ClearSegment, ProducerEnds, ProducerFails
    <3> QED
      BY <3>1 DEF CheckPids, Recheck, NextLook
  <2>2. PICK c \in Consumers : ~HasFile(c)
    BY <2>1 DEF FilesThere
  <2>3. cons[c] = "crashed"
    BY <2>1, <2>2 DEF SweepInv, TypeOK, ProcessInv, FilesInv, Alive
  <2> QED
    BY <2>2, <2>3
<1>2. Spec => [][TrueAlarm]_vars
  BY <1>1, SweepInvariant, PTL DEF Spec
<1> QED
  BY <1>2 DEF NoFalseAlarm

-----------------------------------------------------------------------------
(* What the file names need: no rate begins with the digits of a later one *)
(* of the same transport.  Without it a later run removes the files of an  *)
(* earlier one (see run_bench.sh, 105, and the run runner_prefix).         *)
NoLaterPrefix ==
  \A m, n \in Runs : m < n /\ Combos[m].ipc = Combos[n].ipc =>
    ~IsPrefix(Combos[n].mps, Combos[m].mps)

(* The files of the runs that are through, and that the analysis comes     *)
(* behind the last.                                                        *)
ResultsInv ==
  /\ ResultsAreFresh
  /\ pc \in {"analyze", "ended"} => run = Len(Combos)

LEMMA ResultsStep ==
  ASSUME NoLaterPrefix, SweepInv, ResultsInv, [Next]_vars
  PROVE  ResultsInv'
<1> USE RunsAreNaturals
<1>1. TypeOK /\ ProcessInv /\ FilesInv /\ run \in Runs
  BY DEF SweepInv, TypeOK
<1>2. CASE Clean
  <2>1. pc = "clean" /\ run' = run /\ pc' \notin {"clean", "analyze", "ended", "aborted"}
    BY <1>2 DEF Clean
  <2>2. ASSUME NEW n \in Passed' PROVE n \in Passed /\ n < run
    BY <2>1 DEF Passed
  <2>3. ASSUME NEW n \in Runs, n < run PROVE tp'[n] = tp[n]
    <3>1. ~Matches(n)
      BY <1>1, <2>3 DEF Matches, NoLaterPrefix, ipc
    <3> QED
      BY <1>2, <3>1 DEF Clean
  <2>4. ResultsAreFresh'
    BY <2>2, <2>3 DEF ResultsInv, ResultsAreFresh, Passed
  <2> QED
    BY <2>1, <2>4 DEF ResultsInv
<1>3. CASE Wait \/ SkipUnknown
  <2>1. tp' = tp /\ Advance /\ pc \in {"wait", "clean"}
    BY <1>3 DEF Wait, SkipUnknown
  <2>2. ipc \in Known => \A c \in Consumers : tp[run][c] \in {"open", "written"}
    <3> SUFFICES ASSUME ipc \in Known, NEW c \in Consumers
                 PROVE  tp[run][c] \in {"open", "written"}
      OBVIOUS
    <3>1. pc = "wait"
      BY <1>3 DEF Wait, SkipUnknown
    <3>2. tp[run][c] # "stale" /\ tp[run][c] # "none"
      BY <1>1, <3>1 DEF FilesInv, FilesThere, HasFile
    <3> QED
      BY <1>1, <3>2 DEF TypeOK
  <2>3. pc' \in {"analyze", "ended"} => run' = Len(Combos)
    BY <1>1, <2>1 DEF Advance, MoreRuns, Runs
  <2>4. ASSUME NEW n \in Passed' PROVE n \in Passed \/ (n = run /\ ipc \in Known)
    <3>1. n \in Runs /\ Combos[n].ipc \in Known
      BY DEF Passed
    <3>2. n < run \/ n = run
      BY <1>1, <2>1, <3>1 DEF Passed, Advance, MoreRuns, Runs
    <3> QED
      BY <3>1, <3>2 DEF Passed, ipc
  <2>5. ResultsAreFresh'
    BY <2>1, <2>2, <2>4 DEF ResultsInv, ResultsAreFresh
  <2> QED
    BY <2>3, <2>5 DEF ResultsInv
<1>4. ASSUME NEW c \in Consumers, Program(c) \/ CrashConsumer(c) PROVE ResultsInv'
  <2>1. UNCHANGED <<pc, run>>
    BY <1>4 DEF Program, GetReady, OpenFile, ExitConsumer, CrashConsumer
  <2>2. Passed' = Passed
    BY <2>1 DEF Passed
  <2>3. ASSUME NEW n \in Runs, NEW d \in Consumers
        PROVE  tp'[n][d] = tp[n][d] \/ tp'[n][d] \in {"open", "written"}
    BY <1>1, <1>4, SMTT(30) DEF TypeOK, Program, GetReady, OpenFile, ExitConsumer, CrashConsumer
  <2> QED
    BY <2>1, <2>2, <2>3 DEF ResultsInv, ResultsAreFresh, Passed
<1>5. CASE UNCHANGED <<run, tp>> /\ (pc' \in {"analyze", "ended"} => pc \in {"analyze", "ended"})
  <2>1. Passed' \subseteq Passed
    BY <1>5 DEF Passed
  <2> QED
    BY <1>5, <2>1 DEF ResultsInv, ResultsAreFresh
<1>6. \/ Clean \/ Wait \/ SkipUnknown
      \/ \E c \in Consumers : Program(c) \/ CrashConsumer(c)
      \/ UNCHANGED <<run, tp>> /\ (pc' \in {"analyze", "ended"} => pc \in {"analyze", "ended"})
  <2>1. CASE Script
    BY <2>1 DEF Script, StartServer, SocketThere, StartRedis, RedisThere, StartConsumers,
                StartProducer, ForegroundEnds, Poll, CheckPids, NextLook, Recheck, Analyze
  <2>2. CASE Timeout
    BY <2>2 DEF Timeout, SocketTimeout, RedisTimeout, PollTimeout
  <2>3. CASE ClearSegment \/ ProducerEnds \/ ProducerFails \/ UNCHANGED vars
    BY <2>3 DEF ClearSegment, ProducerEnds, ProducerFails, vars
  <2> QED
    BY <2>1, <2>2, <2>3 DEF Next
<1> QED
  BY <1>2, <1>3, <1>4, <1>5, <1>6

(* What the analysis reads of this sweep's runs was written by them, as    *)
(* long as no rate begins with the digits of a later one.                  *)
THEOREM OwnResultsOnly ==
  ASSUME NoLaterPrefix
  PROVE  Spec => []ResultsAreFresh
<1>1. Init => ResultsInv
  <2>1. \A n \in Runs : ~(n < 1)
    BY RunsAreNaturals DEF Runs
  <2> QED
    BY <2>1 DEF Init, ResultsInv, ResultsAreFresh, Passed
<1>2. SweepInv /\ ResultsInv /\ [Next]_vars => ResultsInv'
  BY ResultsStep
<1>3. ResultsInv => ResultsAreFresh
  BY DEF ResultsInv
<1> QED
  BY <1>1, <1>2, <1>3, SweepInvariant, PTL DEF Spec

=============================================================================
