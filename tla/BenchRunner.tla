------------------------------ MODULE BenchRunner ------------------------------
(***************************************************************************)
(* The sweep of run_bench.sh: for each combination of parameters it starts *)
(* the consumers and the producer, waits for the .tp files of the          *)
(* consumers, and goes on to the next; then the results are analysed.      *)
(* The script runs under set -e: a function that returns 1 and a producer  *)
(* in the foreground that fails end it, and its EXIT trap kills the jobs.  *)
(* A redis-server is started as a daemon and is no job.                    *)
(*                                                                         *)
(* Of the programs the script sees when they end and which files they have *)
(* written.  How they get there is in the other modules.  A combination is *)
(* a transport and a rate; N_MESSAGES and N_CONSUMERS, which stand in the  *)
(* middle of the file names, are the same throughout.  The rate, at the    *)
(* end of the name, is the sequence of its digits.                         *)
(*                                                                         *)
(* External: the programs of Redis, which are not in the repository, and   *)
(* redis-server, which pgrep finds as long as it runs, also when its socket*)
(* has been removed.                                                       *)
(***************************************************************************)
EXTENDS Integers, Sequences, SequencesExt

CONSTANTS
  Combos,     (* the sequence of [ipc, mps]: what the sweep runs           *)
  Consumers   (* the n_cons consumer numbers                               *)

ASSUME SweepAssumption == Combos \in Seq([ipc : STRING, mps : Seq(Nat)]) \ {<<>>}

VARIABLES
  pc,        (* where the script is                                        *)
  run,       (* which of Combos it runs                                    *)
  tp,        (* tp[n][c]: the .tp file of consumer c in run n              *)
  cons,      (* the consumer processes                                     *)
  ready,     (* those that have got through to the producer                *)
  lost,      (* those whose announcement the producer of shm has wiped     *)
  prod,      (* the producer process, or the gRPC server                   *)
  redis      (* redis-server: found running, started by this sweep, or     *)
             (* left over by a shutdown that failed                        *)

vars == <<pc, run, tp, cons, ready, lost, prod, redis>>

Runs == 1 .. Len(Combos)

ipc == Combos[run].ipc

Known == {"shm", "uds", "zmq", "grpc", "redis"}

Init ==
  /\ pc = "clean"
  /\ run = 1
  /\ tp \in [Runs -> {[c \in Consumers |-> "none"], [c \in Consumers |-> "stale"]}]
  /\ cons = [c \in Consumers |-> "none"]
  /\ ready = {} /\ lost = {}
  /\ prod = "none"
  /\ redis \in {"down", "found"}

Alive(c) == cons[c] \in {"started", "writing"}

(* [[ -f ... ]]: the file need not have its contents yet.                  *)
HasFile(c) == tp[run][c] # "none"

FilesThere == \A c \in Consumers : HasFile(c)

NothingMatches(n) == FALSE

(* The files bench_{ipc}{tag}* of run n when the tag is that of this run:  *)
(* the glob also matches a longer rate.                                    *)
Matches(n) == Combos[n].ipc = ipc /\ IsPrefix(Combos[run].mps, Combos[n].mps)

-----------------------------------------------------------------------------
(* The script.                                                             *)

(* rm -f of the files of an earlier run of the combination.                *)
Clean ==
  /\ pc = "clean"
  /\ ipc \in Known
  /\ tp' = [n \in Runs |-> IF Matches(n) THEN [c \in Consumers |-> "none"] ELSE tp[n]]
  /\ pc' = CASE ipc = "grpc" -> "server" [] ipc = "redis" -> "redis" [] OTHER -> "consumers"
  /\ UNCHANGED <<run, cons, ready, lost, prod, redis>>

(* The gRPC server is started in the background, before the clients.       *)
StartServer ==
  /\ pc = "server"
  /\ prod' = "running"
  /\ pc' = "socket"
  /\ UNCHANGED <<run, tp, cons, ready, lost, redis>>

(* Its socket has appeared, though the server may have failed by now ...   *)
SocketThere ==
  /\ pc = "socket"
  /\ pc' = "consumers"
  /\ UNCHANGED <<run, tp, cons, ready, lost, prod, redis>>

(* ... or has not in 10 s.                                                 *)
SocketTimeout ==
  /\ pc = "socket"
  /\ pc' = "aborted"
  /\ prod' = "ended"
  /\ UNCHANGED <<run, tp, cons, ready, lost, redis>>

(* start_redis: it takes any redis-server there is for one that serves.    *)
StartRedis ==
  /\ pc = "redis"
  /\ \/ redis \in {"found", "left"} /\ pc' = "consumers" /\ UNCHANGED redis
     \/ redis = "down" /\ pc' = "redisSocket" /\ redis' = "started"
     \/ redis = "down" /\ pc' = "aborted" /\ UNCHANGED redis
  /\ UNCHANGED <<run, tp, cons, ready, lost, prod>>

RedisThere ==
  /\ pc = "redisSocket"
  /\ pc' = "consumers"
  /\ UNCHANGED <<run, tp, cons, ready, lost, prod, redis>>

RedisTimeout ==
  /\ pc = "redisSocket"
  /\ pc' = "aborted"
  /\ UNCHANGED <<run, tp, cons, ready, lost, prod, redis>>

StartConsumers ==
  /\ pc = "consumers"
  /\ cons' = [c \in Consumers |-> "started"]
  /\ ready' = {} /\ lost' = {}
  /\ pc' = IF ipc = "grpc" THEN "poll" ELSE "producer"
  /\ UNCHANGED <<run, tp, prod, redis>>

(* The producer runs in the foreground.  That of shm first creates the     *)
(* segment, which consumers may open before memset has cleared it.         *)
StartProducer ==
  /\ pc = "producer"
  /\ prod' = IF ipc = "shm" THEN "creating" ELSE "running"
  /\ pc' = "foreground"
  /\ UNCHANGED <<run, tp, cons, ready, lost, redis>>

Kill == cons' = [c \in Consumers |-> IF Alive(c) THEN "crashed" ELSE cons[c]]

(* It has ended, and with an error it ends the script.                     *)
ForegroundEnds ==
  /\ pc = "foreground"
  /\ \/ prod = "ended" /\ pc' = "poll" /\ UNCHANGED cons
     \/ prod = "failed" /\ pc' = "aborted" /\ Kill
  /\ UNCHANGED <<run, tp, ready, lost, prod, redis>>

(* run_shm and run_uds hand the consumers' pids to wait_consumers.         *)
HasPids == ipc \in {"shm", "uds"}

(* wait_consumers looks for the files ...                                  *)
Poll ==
  /\ pc = "poll"
  /\ FilesThere \/ HasPids
  /\ pc' = IF FilesThere THEN "wait" ELSE "pids"
  /\ UNCHANGED <<run, tp, cons, ready, lost, prod, redis>>

WithoutRecheck == IF \E c \in Consumers : Alive(c) THEN "poll" ELSE "aborted"

OnlyTheClock == "poll"

(* ... and then at the consumers: if all are gone it looks once more.      *)
NextLook == IF \E c \in Consumers : Alive(c) THEN "poll" ELSE "recheck"

CheckPids ==
  /\ pc = "pids"
  /\ pc' = NextLook
  /\ UNCHANGED <<run, tp, cons, ready, lost, prod, redis>>

Recheck ==
  /\ pc = "recheck"
  /\ pc' = IF FilesThere THEN "wait" ELSE "aborted"
  /\ UNCHANGED <<run, tp, cons, ready, lost, prod, redis>>

NoClock == FALSE

(* 300 s have passed.                                                      *)
PollTimeout ==
  /\ pc = "poll"
  /\ ~FilesThere
  /\ pc' = "aborted"
  /\ Kill
  /\ prod' = IF prod = "running" THEN "ended" ELSE prod
  /\ UNCHANGED <<run, tp, ready, lost, redis>>

MoreRunsByOne == run <= Len(Combos)

MoreRuns == run < Len(Combos)

Advance ==
  IF MoreRuns
  THEN pc' = "clean" /\ run' = run + 1
  ELSE pc' = "analyze" /\ UNCHANGED run

NotWaitedFor == TRUE

(* wait returns when the consumers have ended.                             *)
AllEnded == \A c \in Consumers : ~Alive(c)

(* stop_redis, if this run is one of Redis.  That redis-cli fails does not *)
(* show; the socket is removed all the same.                               *)
StopRedis == redis' \in IF ipc = "redis" THEN {"down", "left"} ELSE {redis}

(* wait for the consumers; kill and wait for the gRPC server.              *)
Wait ==
  /\ pc = "wait"
  /\ AllEnded
  /\ prod' = IF prod = "running" THEN "ended" ELSE prod
  /\ StopRedis
  /\ Advance
  /\ UNCHANGED <<tp, cons, ready, lost>>

(* "Unknown IPC": go on with the next.                                     *)
SkipUnknown ==
  /\ pc = "clean"
  /\ ipc \notin Known
  /\ Advance
  /\ UNCHANGED <<tp, cons, ready, lost, prod, redis>>

(* analyze.py, which may fail.                                             *)
Analyze ==
  /\ pc = "analyze"
  /\ pc' \in {"ended", "aborted"}
  /\ UNCHANGED <<run, tp, cons, ready, lost, prod, redis>>

Script ==
  \/ Clean \/ SkipUnknown \/ StartServer \/ SocketThere \/ StartRedis \/ RedisThere
  \/ StartConsumers \/ StartProducer \/ ForegroundEnds \/ Poll \/ CheckPids
  \/ Recheck \/ Wait \/ Analyze

Timeout == SocketTimeout \/ RedisTimeout \/ PollTimeout

-----------------------------------------------------------------------------
(* The programs.                                                           *)

(* A consumer gets through to the producer: ready_count, connect or        *)
(* Subscribe.                                                              *)
GetReady(c) ==
  /\ cons[c] = "started"
  /\ c \notin ready \cup lost
  /\ prod \in {"creating", "running"}
  /\ ready' = ready \cup {c}
  /\ UNCHANGED <<pc, run, tp, cons, lost, prod, redis>>

(* The memset of create_shm wipes the announcements there are.             *)
ClearSegment ==
  /\ prod = "creating"
  /\ prod' = "running"
  /\ lost' = ready
  /\ ready' = {}
  /\ UNCHANGED <<pc, run, tp, cons, redis>>

(* A consumer of shm that has announced itself spins on start_flag.        *)
Spins(c) == ipc = "shm" /\ (c \in lost \/ (c \in ready /\ ready # Consumers))

(* Its receive loop ends, or it gives up beforehand, and it opens its .tp. *)
OpenFile(c) ==
  /\ cons[c] = "started"
  /\ ~Spins(c)
  /\ cons' = [cons EXCEPT ![c] = "writing"]
  /\ tp' = [tp EXCEPT ![run][c] = "open"]
  /\ UNCHANGED <<pc, run, ready, lost, prod, redis>>

ExitConsumer(c) ==
  /\ cons[c] = "writing"
  /\ cons' = [cons EXCEPT ![c] = "exited"]
  /\ tp' = [tp EXCEPT ![run][c] = "written"]
  /\ UNCHANGED <<pc, run, ready, lost, prod, redis>>

(* It is killed, or leaves without writing its files.                      *)
CrashConsumer(c) ==
  /\ Alive(c)
  /\ cons' = [cons EXCEPT ![c] = "crashed"]
  /\ UNCHANGED <<pc, run, tp, ready, lost, prod, redis>>

(* The producers of run_shm and run_uds wait for all consumers first.      *)
ProducerEnds ==
  /\ prod = "running"
  /\ HasPids => ready = Consumers
  /\ prod' = "ended"
  /\ UNCHANGED <<pc, run, tp, cons, ready, lost, redis>>

ProducerFails ==
  /\ prod \in {"creating", "running"}
  /\ prod' = "failed"
  /\ UNCHANGED <<pc, run, tp, cons, ready, lost, redis>>

Program(c) == GetReady(c) \/ OpenFile(c) \/ ExitConsumer(c)

Next ==
  \/ Script
  \/ Timeout
  \/ \E c \in Consumers : Program(c) \/ CrashConsumer(c)
  \/ ClearSegment \/ ProducerEnds \/ ProducerFails

Spec == Init /\ [][Next]_vars

(* The consumers the script watches are gone.                              *)
AllGone == HasPids /\ \A c \in Consumers : ~Alive(c)

(* The script runs, and a producer in the foreground gets to its end if the*)
(* consumers it waits for get through to it.  These are scheduled and write*)
(* their files; nothing is assumed of their receive loops.  The loops of   *)
(* the script that wait for a file or a socket are bounded, hence the      *)
(* strong fairness; but when all watched consumers are gone nothing relies *)
(* on them.                                                                *)
FairSpec ==
  /\ Spec
  /\ WF_vars(Script) /\ SF_vars(~AllGone /\ Timeout)
  /\ WF_vars(ClearSegment) /\ WF_vars(pc = "foreground" /\ ProducerEnds)
  /\ \A c \in Consumers : WF_vars(GetReady(c)) /\ WF_vars(ExitConsumer(c))

-----------------------------------------------------------------------------
(* Properties.                                                             *)

TypeOK ==
  /\ pc \in {"clean", "server", "socket", "redis", "redisSocket", "consumers", "producer",
             "foreground", "poll", "pids", "recheck", "wait", "analyze", "ended", "aborted"}
  /\ run \in Runs
  /\ tp \in [Runs -> [Consumers -> {"none", "stale", "open", "written"}]]
  /\ cons \in [Consumers -> {"none", "started", "writing", "exited", "crashed"}]
  /\ ready \subseteq Consumers /\ lost \subseteq Consumers \ ready
  /\ prod \in {"none", "creating", "running", "ended", "failed"}
  /\ redis \in {"down", "found", "started", "left"}

(* Between two runs, before the analysis and after an abort no job of a    *)
(* run is left running: the next one, on the same endpoint or socket, meets*)
(* no process of this one (run_bench.sh, 118, 168, 208-211 and 54).  A     *)
(* redis-server is no job: one that this sweep has started and not told to *)
(* shut down is left by an abort only (257).  That one which was told to   *)
(* does is not claimed: it may be "left", for line 233 ignores the failure.*)
NoJobLeftRunning ==
  /\ pc \in {"clean", "analyze", "ended", "aborted"} =>
       prod \notin {"creating", "running"} /\ \A c \in Consumers : ~Alive(c)
  /\ pc \in {"clean", "analyze", "ended"} => redis # "started"

(* The runs that are through.                                              *)
Passed ==
  {n \in Runs : Combos[n].ipc \in Known /\ (n < run \/ pc \in {"analyze", "ended"})}

(* The analysis finds a .tp file of every consumer of every run of the     *)
(* sweep, and each was written by that run: none is left from an earlier   *)
(* sweep, and no later run has removed it.                                 *)
ResultsAreFresh ==
  \A n \in Passed : \A c \in Consumers : tp[n][c] \in {"open", "written"}

(* wait_consumers says that a consumer "exited early" only if one did: that*)
(* the last of them write their files and exit between its look at the     *)
(* files and its look at the processes is no failure (run_bench.sh, 79-88).*)
NoFalseAlarm ==
  [][pc' = "aborted" /\ pc \in {"pids", "recheck"} =>
       \E c \in Consumers : cons[c] = "crashed" /\ ~HasFile(c)]_vars

(* run_bench.sh:58: once all consumers are gone without all files being    *)
(* there, wait_consumers ends the run without waiting for its clock.       *)
FailsFast ==
  (pc \in {"poll", "pids", "recheck"} /\ AllGone)
    ~> (pc \notin {"poll", "pids", "recheck"})

(* The producer in the foreground waits, without a clock, for a consumer   *)
(* that will not get through to it any more: it has ended beforehand, or   *)
(* its announcement was wiped.                                             *)
WaitsInVain ==
  /\ pc = "foreground" /\ prod = "running" /\ HasPids
  /\ \E c \in Consumers \ ready : c \in lost \/ cons[c] \in {"writing", "exited", "crashed"}

(* Whatever crashes, hangs in its receive loop or does not come up, the    *)
(* sweep ends, or it hangs at one place: behind a producer of shm or UDS   *)
(* that waits in vain (run_bench.sh, 115 and 139).  Every other wait of    *)
(* the script is ended by what it waits for or by its clock (lines 65, 118,*)
(* 189 and 225).                                                           *)
SweepEnds == <>(pc \in {"ended", "aborted"}) \/ <>[]WaitsInVain

(* run_bench.sh:105: "Clean stale output files and stale SHM segment for   *)
(* this combo": no result of another combination is removed.               *)
CleansThisComboOnly ==
  [][\A n \in Runs : Combos[n] # Combos[run] =>
       \A c \in Consumers : tp'[n][c] = "none" => tp[n][c] = "none"]_vars

=============================================================================
