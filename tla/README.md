# A verification project for hft-ipc-bench

The repository measures how fast one producer process can broadcast 64-byte
messages to up to four consumer processes on one host, over four transports: a
lock-free ring in shared memory (`shm/`), unix domain sockets (`uds/`), ZeroMQ
PUB/SUB (`zeroMQ/`) and a gRPC stream (`grpc/`).  `run_bench.sh` sweeps the
parameters, `analyze.py` and `analyze_shm_csv.py` reduce the files the consumers
write.  This directory holds TLA+ models of that program, the TLC runs that
check them and the theorems TLAPS proves about them.  `PROJECT.json` lists the
components, the runs, one mutation of the model per property that the property
must catch, the source lines of every definition, the hazards and the theorems.

    tlc -config ring.cfg SeqLockRing.tla        # and so on, one .cfg per run
    tlapm SeqLockRing_proofs.tla                # and so on, one module per component

## 1. The system

| component | state | operations | what makes it correct |
|---|---|---|---|
| SPMC ring, `shm/ring_buffer.hpp` | `head`, per slot `seq` and `msg`, per consumer `tail`, all in shared memory | `rb_push`, `rb_pop`, `rb_pop_meta` | no torn or stale message is returned, order per consumer, a lap loses only overwritten messages, "empty" is honest, the re-sync never moves back or ahead, consumers catch up |
| start-up of a shm run, `bench_producer.cpp` 61-131, `bench_consumer.cpp` 63-129 | the named segment, `ready_count`, `start_flag`, `tails`, where every process is | `create_shm`, `open_shm`, the ready barrier, warm-up, tails reset, start | producer and consumers meet in the same segment, nobody starts before everybody is ready, no warm-up message is measured, nobody waits for ever |
| a shm run, `bench_producer.cpp` 116-165, `bench_consumer.cpp` 131-208 | `last_seq_seen`, `n_recv`, `n_dropped`, `s2_ns`, the stall clocks | send loop, receive loop, stall exit | what is received plus what is reported dropped accounts for the stream, `s2_ns` is set exactly when the last message came, every consumer stops |
| gRPC server and client, `grpc/bench_server.cpp`, `bench_client.cpp` | `g_slots` (queue, `done`, mutex, condition variable), `g_n_connected`, `g_n_done`, three more mutexes; the client's `n_recv` | `Subscribe`, `broadcast`, `producer_thread`, shutdown, the read loop | the queue bound holds, every registered stream gets every message in order, back-pressure and shutdown do not block for ever |
| UDS pair, `uds/` | one stream per consumer, bytes sent and received of the current message | `send_all`, `broadcast`, `accept_one`, `connect_with_retry`, `recv_exact` | partial transfers never shift message boundaries, everyone gets everything in order, one slow consumer only delays |
| ZeroMQ pair, `zeroMQ/` | the pipes of the library, `n_recv`, `s2_ns` | `send`, `recv`, warm-up, stall exit | the loss that is reported is the loss there was, the consumer stops whatever was lost |
| promise of a transport, which every consumer relies on and no file states | what was published, what each consumer has received, how its stream ended | publish, receive, cut, die | messages of the benchmark only, in order, none twice; "complete" means the last one; nothing is missing where the transport is reliable |
| sweep, `run_bench.sh` | jobs, `.tp` files, sockets, segments, the redis-server | `run_shm`, `run_uds`, `run_zmq`, `run_redis`, `run_grpc`, `wait_consumers` | a failed run is noticed, a hung one is ended, no run sees files or processes of an earlier one |
| result files and report, the ends of all programs, `analyze.py` | `tsc_ghz.txt`, `s1.ns`, `latency_*.bin`, `.tp`, the summary | opening and closing of each file, `text_report`, `percentile`, jitter, `read_throughput`, the radar | the figures of a row fit together and fit the run, nobody with samples is left out, no missing figure looks like a good one |
| aggregation of shm runs, `analyze_shm_csv.py`, `analyze.py` | `newshm*.csv`, `shm_final.csv` | `aggregate_shm_csvs`, `load_shm_final_rows`, `run_sweep` | the shm rows are those of the files there are, aggregation loses no configuration |

How they interact.  Producer and consumers of a shm run share nothing but the
segment; the ring, the barrier (`ready_count`, `start_flag`) and the cursors all
live in it.  UDS, ZeroMQ and gRPC processes share one socket path each.  The
sweep sees a consumer only through its exit and its `.tp` file; the analysis
sees files only, and of a shm run not even those: its shm rows come from
`newshm*.csv`, which somebody else has put there.

Which behaviours are hard.  In the ring every access to shared memory is a step
of its own and the producer never waits, so a consumer can be overtaken between
any two of its loads, by any number of laps.  At start-up a consumer may find
the segment while it is being initialised, or find the one a crashed producer
left.  The gRPC server holds one mutex while it waits for room in a queue.  UDS
transfers may stop after any byte.  ZeroMQ drops messages silently.  Every
consumer has time-outs that race with late messages, and some waits have none.
A file exists from its opening but is complete only with its closing, and a
process may be killed in between.
The hazards in `PROJECT.json` name each of these at its line.

## 2. The modules

| module | models | state and actions |
|---|---|---|
| `LossyBroadcast` | what the ring promises; an abstract specification | `sent`, a `cursor` per reader, the message each received `last`; `Publish`, `Deliver`, `Skip` over messages that are no longer among the latest `Capacity` |
| `Broadcast` | what a transport promises; an abstract specification with two parameters, `Lossy` and `LateStart` | `published`, and per consumer `last`, `n_recv` and the `outcome` of its stream; `Publish`, `Abort`, `Receive`, `Cut`, `Die` |
| `SeqLockRing` | `ring_buffer.hpp` | one action per access to shared memory: `PushMark` (odd stamp), `PushCopy` (one word of the `memcpy`), `PushStable` (even stamp), `PushPublish` (`head`); `PopEmpty`, `PopLapped`, `PopSample` (the first look at `seq`), `PopCopy` (one word), `PopReturn`, `PopTorn` (the second look), `Resync` (load of `head`, store of `tail`).  A consumer is on `rb_pop` or on `rb_pop_meta`; they differ in the words they copy |
| `ShmStartup` | `create_shm`, `open_shm`, the barrier, warm-up, hand-over of the cursors, `start_flag` | the name and what it is linked to, segments by the run that created them, one action per system call and per shared access; `memset` clears the fields one by one; the producer (`Crash`) and every consumer (`CrashConsumer`, which puts it into `dead`) may end anywhere; `NextRun` starts the same programs again, by hand or by the script, which removes the segment first |
| `ShmBench` | both loops of a shm run | composes `LossyBroadcast` (as `Log`) with the warm-up, the cursor hand-over, the send loop, `Count`, `Retry` and `Stall` of the receive loop |
| `GrpcBroadcast` | `bench_server.cpp` and `bench_client.cpp` | `producer_thread` step by step with `g_reg_mtx` held over a whole `broadcast`, the barrier with its lost wake-up, a handler per stream, `done`, shutdown; clients that come late or are killed; a server that is killed (`Kill`, `up`), whereupon the read of a client fails (`CutOff`); spurious wake-ups |
| `UdsBroadcast` | `uds/main_producer.cpp`, `uds/main_consumer.cpp` | connections as sequences of bytes; `Send` and `Recv` move any number of them that the buffer allows; `EndOfFile`, `SendError`, `RecvError`, kills |
| `ZmqPubSub` | `zeroMQ/` | a pipe on either side per subscriber, drops at the high-water mark and before the subscription is seen, the receive loop, stall exit |
| `BenchRunner`, `MCBenchRunner` | `run_bench.sh` | the script's place (`pc`), the `.tp` files of every run of the sweep, the processes of the current one, who has announced itself (`ready`) and whose announcement the producer's `memset` has wiped (`lost`, `ClearSegment`), the redis-server, which after a shutdown that failed is "left"; `Clean`, starting, `Poll`, `CheckPids`, `Recheck`, `Wait`, the time-outs, the EXIT trap (`Kill`), `Analyze`; the MC module has the sweeps |
| `Report` | what the programs write, and when; `text_report`, `read_throughput`, the summary, the radar | the places of producer and consumers between the files they open and close, the latencies measured; any of them may be killed; `Analyze` comes at any moment and may find any part of a file that is still open |
| `Percentile` | `percentile` and `sorted` of `analyze.py` | the formula in thousandths, over a list put in order |
| `Analysis` | `aggregate_shm_csvs`, `load_shm_final_rows`, `run_sweep` | `newshm*.csv` with time stamps, `shm_final.csv`, the program that runs (`job`); `LookForInputs`, `Read`, `OpenFinal`, `CloseFinal`, `LoadFinal`, aggregation by hand, `KillProgram`, and at any step the user who puts and removes files |

The theorems are in modules of their own, each of which extends the modules it is about:

| module | theorems on |
|---|---|
| `SeqLockRing_proofs` | the ring; with lemmas on positions and slots (`h & RING_MASK`) |
| `ShmStartup_proofs` | the start-up |
| `ShmBench_proofs` | a shm run, and the promise (`Promise` is an instance of `Broadcast`) |
| `GrpcBroadcast_proofs`, `UdsBroadcast_proofs`, `ZmqPubSub_proofs` | the other transports |
| `BenchRunner_proofs` | the sweep |
| `Comparison_proofs` | `Percentile`, `Report` and `Analysis`; with lemmas on sums and on sorting |

How they compose.  `SeqLockRing` is shown to implement `LossyBroadcast`
(`ImplementsLog`, with `sent <- Sent`, `cursor <- tail`); `ShmBench` uses
`LossyBroadcast` in its place, so what is shown of a run with a log of
`RING_SIZE` messages holds of one with the ring.  `ShmBench` begins where the
barrier of `ShmStartup` is passed.  The four transports each implement
`Broadcast` (`ImplementsBroadcast`), the shm run and ZeroMQ with
`Lossy <- TRUE`, UDS and gRPC with `Lossy <- FALSE`; a gRPC or ZeroMQ consumer
may join late (`LateStart <- TRUE`).  So one specification says what a number in
the tables stands for, and the transports differ in two parameters.  `Report`
takes up where a consumer's loop ends, whatever the transport, and uses
`Percentile`; its shm rows are any table that `Analysis` can leave in
`shm_final.csv`.

What is abstracted.  A message is its position in the stream; in the ring each
word of it carries that position, so that a mixed copy shows.  Time is not
measured: a clock may or may not have expired, unless a section below says
otherwise.  `RING_SIZE`, the queue depth, the high-water marks, the number of
warm-up and of measured messages are CONSTANTS, small in the runs.  Counters of
the ring are natural numbers: 64 bits do not overflow in the lifetime of a
host.  Pacing, time stamps and the contents of messages do not influence the
control flow.

Memory order.  The ring's `memcpy` is not atomic and races with the consumers'
copies, and `seq` is accessed with acquire and release only.  The model assumes
what the program relies on, as it is compiled for x86 only: stores become
visible in program order, loads are performed in program order, the compiler
moves no access across the atomic ones; words of one `memcpy` come in any order.
The mutation `UnmarkedPush`, a copy that starts before the odd stamp is
visible, breaks `NoTornDelivery`: without this assumption the ring is not
correct.

## 3. The runs

Each run is `<name>.cfg`.

| run | what it asks | bounds and why they are enough |
|---|---|---|
| `ring` | No pop returns a torn, stale or unpublished message; "empty" is honest; a re-sync happens only a whole ring behind; the ring implements the log; every consumer catches up (`Drains`) | two slots, four messages: each slot is written twice, so a consumer can be lapped or overtaken in the middle of a copy in either slot and re-sync in the first lap and behind it; two words, so that a copy can be mixed; one consumer of either kind. The safety part is proved for all sizes |
| `startup` | Nobody starts before all have announced themselves in the same segment, nor with a cursor in the warm-up; after a clean start consumers attach to their own run; every consumer that lives starts unless one of the named troubles comes | two consumers, two runs (a stale segment needs one run before), two attempts of `open_shm`, so that it can fail at once, late or not; any process dies at any step. The safety part is proved for all sizes |
| `startup_giveup` | the comment on the 45 s of a consumer; **violated** | one run in which nothing crashes |
| `bench` | Received plus dropped accounts for the stream; losses stay within what the ring must lose; the run keeps the promise of a lossy broadcast: no warm-up message, nothing twice, the end recorded with the last message only; everybody stops | a ring of two, six messages: three laps; stalls at any failed pop; the producer killed at any message. The safety part is proved for all sizes |
| `grpc` | Streams without gap, sleepers with a reason; the promise of a broadcast without loss; without trouble everybody gets through, with all messages unless the barrier let go one short, and the server ends | a queue of two, four messages (one of them warm-up): the producer sleeps and wakes for either client; clients come at any time, before, in and after the broadcast, or are killed, as is the server. The safety part is proved for all sizes |
| `grpc_shutdown` | the script's comment that the server shuts itself down; **violated** | a client killed after it has registered |
| `uds` | Message boundaries never shift, consumers stay in step, the promise of a broadcast without loss that only a failure cuts, everybody ends but for the named troubles | three consumers, so that a broadcast has a first, a middle and a last connection when one fails; messages of two bytes and buffers of three, so that every cut, also across messages, occurs; one message of the warm-up and two of the benchmark. The safety part is proved for all sizes |
| `zmq` | What a consumer has not received was dropped, is on its way or not sent, and on its regular end dropped; the promise of a lossy broadcast, everybody stops | pipes of one message on either side and four messages, so that any of them can be dropped. The safety part is proved for all sizes |
| `runner` | No job of a run is left when the next begins; the analysis finds the results of this sweep; no false alarm; a run whose consumers are gone fails without its clock; the sweep ends, or hangs behind a producer that waits in vain | five runs: two shm rates with pids, Redis with a server of the script's own, a transport that does not exist, gRPC with its server in the background; anything may crash or end at any time, an announcement may be wiped, a shutdown of Redis may fail; a `.tp` file of an earlier sweep and a redis-server may be there. The safety part is proved for any sweep, `ResultsAreFresh` for one without the prefixes of the next run |
| `runner_prefix` | the comment that `rm` cleans this combination; **violated** | two rates, one beginning with the digits of the other |
| `analysis` | The shm rows are current; aggregation loses no configuration and no figure | two input files, two configurations of which one is asked for, a figure below and one above the threshold and none at all, two thresholds, two time stamps; files come and go at any step of a program, which may be killed at any. One configuration in a file (`MaxRows`): configurations do not influence each other. Proved for all |
| `report` | The figures of a row fit together and the run; only an unfinished file stops the analysis and nobody with samples is missing; no missing figure flatters a transport in the radar | two consumers of up to two samples each, from two latencies; every process killed at any point; the analysis at any moment; any shm table. Proved for all |

Where a run says `CHECK_DEADLOCK FALSE` the programs of the model end.  `ring`
does not say so because there the consumers poll on; in `analysis` the user may
go on for ever.  `report` ends with the first analysis: a later one would find
what one started later finds.

### Fairness

Every process is scheduled: weak fairness of each producer, each consumer, each
handler, the script.  These are independent processes and threads of one host,
and no step of theirs is disabled again and again by another, so that strong
fairness is not needed but for a clock of the script (below).  Crashes, kills, errors, spurious wake-ups, new runs and the
user are never assumed to happen.  Clocks:

* `bench`: while the producer lives a stall clock may expire or not.  It is
  relied on only when the producer has crashed (`WF(ppc = "crashed" /\ GiveUp)`).
* `grpc`: the 60 s of the barrier pass (`WF(BarrierClock)`): this is what makes
  up for the notification it can lose.
* `zmq`: 5 s without a message pass, as `rcvtimeo` is set (`WF(Stalled)`).
* `runner`: the 10 s and 300 s of the script pass.  They are numbers of rounds of
  loops (lines 65, 189 and 225), between whose looks the time-out is not enabled,
  hence strong fairness (`SF_vars(~AllGone /\ Timeout)`); but not when all watched
  consumers are gone, for `FailsFast` must hold without them.  A producer in the
  foreground is assumed to end only when everybody has got through to it
  (`ProducerEnds`; that of Redis, which is not in the repository, and that of
  ZeroMQ wait for nobody), and a consumer not to spin on `start_flag` for ever only
  when all announcements are there (`Spins`).  That a receive loop ends is not
  assumed: the script's clock ends it.

Where the code does wait for ever under some condition, the liveness property
names the condition: `Trouble` in `ShmStartup`, `GrpcBroadcast` and `UdsBroadcast`,
`WaitsInVain` in `BenchRunner`.  What the run then shows is that the processes of
the model, with the failures it has, wait for ever under no other condition:

* `StartsUnlessTrouble` (start-up): an announcement is wiped by the `memset`; a
  consumer gives up or dies before it has announced itself; the producer dies.  A
  consumer that dies behind its announcement holds up nobody.
* `Completes` (gRPC): the server or a client is killed, or a client registers
  behind the broadcasts.  Everybody gets all messages unless the barrier has let
  go one short (`StartsShort`); a client that comes behind it still ends.
* `EverybodyEnds` (UDS): the producer fails before it has accepted everybody, or a
  consumer dies before it
  is connected.
* `SweepEnds` (the script): a producer of shm or UDS in the foreground waits for a
  consumer that has ended before it got through to it, or whose announcement was
  wiped.  The lines 115 and 139 have no clock.  This says where the sweep can hang,
  not that it does not.

`Analysis` and `Report` have no liveness property: a person starts them.

### Disagreements between the code and what it says

1. `startup_giveup`.  `open_shm` takes a segment for complete once `ftruncate`
   has sized it; the `memset` comes later and can wipe a consumer's
   `ready_count.fetch_add`.  Everybody then waits for ever: the 45 s of
   `bench_consumer.cpp` 133-134 count from behind the wait.
2. `grpc_shutdown`.  A handler that leaves because its client is gone neither
   sets `done` nor leaves `g_slots`; its queue fills, the producer sleeps with
   `g_reg_mtx` held, and the server does not shut itself down (`run_bench.sh` 209).
3. `runner_prefix`.  `rm -f bench_shm${tag}*` also matches rates with more
   digits, against "for this combo" (`run_bench.sh` 105).  The default rates are
   not prefixes of each other.

Met while modelling, without a run of their own: the slot a re-sync goes to is
the next to be overwritten, so "still guaranteed to be in the ring"
(`ring_buffer.hpp` 125) may be over before the next look;
without the script, consumers can attach to a stale segment of the same
parameters (`bench_producer.cpp` 62), which is why `AttachedToThisRun` begins
with `cleaned`; after 60 s the gRPC server starts with whoever is there
(`bench_server.cpp` 9-10: it waits for all consumers); `analyze_shm_csv.py` 10 says
slow rows are dropped entirely, lines 118-121 keep one if there is no other;
`shm_final.csv` is made anew only for a newer input: one that was removed, keeps
an old time stamp or was followed by an aggregation by hand with another
threshold goes unnoticed, and so does a `shm_final.csv` that is left empty because
the program was killed while it wrote (`ShmRowsAreCurrent` excepts these); the count that is
to guard against a lost last message (`zeroMQ/main_consumer.cpp` 97-100) is then
one short and never reached, so the clock ends the loop; `run_bench.sh` 16
says that flags can be repeated, but of a repeated flag only the last value counts
(lines 33-36); throughput is computed of a consumer with losses, too; an empty `.tp` left
by a consumer that was killed at its end raises an exception which ends the
whole analysis, of all combinations (`EverybodyReported` excepts it); a
redis-server the script has started survives an abort, and any end of its run
when `redis-cli` fails: line 233 ignores that and line 234 removes the socket, so
that the next run of Redis finds a server (line 220) that nobody can reach.
`NoJobLeftRunning` is therefore about the jobs of a run, and of the redis-server
says only that it is told to shut down.

## 4. The theorems

About the ring, for every `RING_SIZE > 0`, any set of consumers on either pop,
any words, any number of messages (assumption `RingAssumption`; not even that
`RING_SIZE` is a power of two, as the index is `h % RING_SIZE`):

* `TypeCorrect`: types, in particular no cursor is ever below zero.
* `RingInvariant`: `Spec => []RingInv`, the inductive invariant.
* `WholeMessagesOnly`, `CursorsStayWithin`, `EmptyMeansNotSent`,
  `ResyncMeansLapped`: the invariants `NoTornDelivery`, `CursorWithinLog`,
  `EmptyIsHonest`, `ResyncOnlyWhenLapped`.
* `CursorsOnlyAdvance`: the action property `TailNeverRegresses`.
* `RingImplementsLog`: `Spec => Log!Spec`.

The argument.  `NoTornDelivery` speaks of what a consumer has returned; it is
not inductive, for nothing in it ties the words copied so far to the slot, nor
the stamp of a slot to its contents.  `RingInv` adds three parts.
`InFlightInv`: while `rb_push` copies, the slot carries the odd stamp of `head`
and the words already written are new.  `SlotInv`: any other slot is untouched,
with stamp 0, or holds the whole message of the position its stamp names, which
is the latest of its positions.  `ConsumerInv`: a consumer in the middle of a
copy saw the stamp of its cursor, stamps only grow, and as long as it is
unchanged the copied words are those of its message; one about to re-sync saw a
larger stamp.  From `SlotInv` and the fact that two positions of one slot are a
ring apart (`SameSlotIsRingApart`) follow three lemmas on what a stamp below, at or
above the expected one means (`LowStampMeansUnsent`, `RightStampMeansThere`,
`HighStampMeansLapped`), and these give the properties, the re-sync's
`head - RING_SIZE >= tail`, and each step of the refinement: a delivery is of a
message still remembered, a re-sync skips only forgotten ones.

About a shm run over that log, for every `RING_SIZE > 0`, `N_MESSAGES > 0` and
any set of consumers (`BenchAssumption`), with stalls and a killed producer:

* `BenchTypeCorrect`: types; the counters stay within the stream.
* `BenchInvariant`: `Spec => []BenchInv`, the inductive invariant.
* `EveryMessageAccounted`, `LossIsBeyondRing`: the invariants `Accounted` and
  `LossOnlyBeyondRing`.
* `BenchImplementsBroadcast`: `Spec => Stream!Spec`, the promise.

The argument.  `Accounted` relates the counters of one consumer and does not say
where its cursor is, so that nothing keeps the next message from being one it
has counted.  `CursorInv` adds that: behind `start_flag` the cursor stands on the
message after the last one counted, or is ahead of it because a re-sync moved
it, and then a whole ring behind the head, so that the gap to come is no larger
than the loss allows (`LossInv`).  `StageInv` gives the start: no consumer runs
before the producer has moved all cursors behind the warm-up, hence
`NoWarmupPopped`: the comparison with `WARMUP_SENTINEL` is never the reason that
a message is skipped.  `NextMessage` collects what follows for a message that a
pop returns; with `n_recv + n_dropped <= last_seq_seen + 1` it says that the count
of `bench_consumer.cpp` 172 is reached with the last message and not before,
which is what `Broadcast` demands of "complete".

About the start-up, for any finite set of consumers, any number of runs under one
name and of attempts of `open_shm`, with crashes anywhere (`StartupAssumption`):

* `StartupTypeCorrect`, `StartupInvariant`: types and the inductive invariant.
* `AllStartTogether`, `NoStaleSegment`: the invariants `NobodyStartsAlone` and
  `AttachedToThisRun`.

The argument.  `NobodyStartsAlone` speaks of running consumers only.  The
producer passes its barrier by a number, `ready_count`, which the `memset` may set
back: `BarrierInv` says that the number is never ahead of the consumers that have
announced themselves in the segment of this run (it may be behind: that is the
lost announcement of `startup_giveup`, which delays but starts nobody alone), and
that `start_flag` comes behind both the barrier and the hand-over of all cursors.
`SegmentInv` says that the segment of this run is as `ftruncate` leaves it until
the producer has it, so that no announcement or flag of an earlier run is in it,
and that after a clean start the name leads there or nowhere; `ConsumerInv` ties
each consumer's segment to what the name has led to.  A process that dies stays
where it was, so the invariant does not speak of the dead.

About gRPC, for any finite set of clients, any queue depth and any number of
messages, with clients that come late or are killed, a killed server and spurious
wake-ups (`GrpcAssumption`):

* `GrpcTypeCorrect` (the queue bound is in it), `GrpcInvariant`.
* `NoGapInStreams`, `NobodySleepsForNothing`: the invariants `StreamUnbroken` and
  `AsleepForAReason`.
* `GrpcImplementsBroadcast`: `Spec => Streams!Spec`.

The argument.  A broadcast is not atomic: while the producer sleeps for one slot,
the slots before it have the message and those behind do not.  `PlaceInv` says of
each place in `g_slots` that what its handler took and what its queue holds end
with the message that place has got, `ProducerInv` how far the producer is with
the slots, `RegInv` that there is one slot per registered handler and that the
two counters count.  `SlotInv` says that `done` comes behind the last broadcast.
For the promise `ClientInv` relates what a client has read to where its handler
is: a handler returns only when its client has all, has come too late for any, or
is gone; only a client whose server has died is cut off.

About UDS, for any finite set of consumers, any length of message and buffer and
any number of messages, however transfers are cut, with kills and errors
(`UdsAssumption`):

* `UdsTypeCorrect`, `UdsInvariant`.
* `BoundariesNeverShift`, `FastestWaitsForSlowest`: the invariants `StreamIntact`
  and `InStep`.
* `UdsImplementsBroadcast`: `Spec => Streams!Spec`.

The argument.  Bytes are counted from the beginning of the stream: `ConsumerInv`
says that what a consumer holds of a message and what lies in its connection are
the bytes from its place on, `PlaceInv` that they end where the producer has got
to with that connection.  `InStep` follows, since the producer is at the same
message with all.  `ConnectionsInv` (each consumer has one connection, none
twice) keeps a step of one connection from touching another, and with
`ProducerInv` a consumer that finds the end of its connection has everything or
the producer has failed.

About ZeroMQ, for any consumers, high-water marks and numbers of messages, with
drops, late subscriptions, kills and stalls (`ZmqAssumption`):

* `ZmqTypeCorrect`, `ZmqInvariant`.
* `LossReportedIsLossSuffered`: the invariant `LossIsWhatWasDropped`.
* `ZmqImplementsBroadcast`: `Spec => Streams!Spec`.

The argument.  The loss a consumer reports is a difference of counters, what the
library dropped, holds or has not been given is a set (`Accounting`: these are
apart from each other and from what was counted).  `CountInv` equates them up to the last message
received; `GapInv` says that behind it a message was dropped or is still in a
pipe, unless the producer was killed; `PipeInv` keeps the pipes in order, so that
a message that is passed by is never received later.

About `Broadcast`, for any consumers and `N_MESSAGES > 0`: `BroadcastSound` (at
most once, not before it was published, complete exactly with the last message)
and `LosslessLosesNothing` (without loss and late start `n_recv = last`).  As the
four `...ImplementsBroadcast` show, the first holds of every transport of the
repository, the second of UDS.

About the sweep, for any combinations of at least one (`SweepAssumption`), any
consumers, whatever crashes or exceeds its time:

* `SweepTypeCorrect`, `SweepInvariant`.
* `EachRunCleansUp`, `AlarmsAreTrue`: `NoJobLeftRunning` and the action property
  `NoFalseAlarm`.
* `OwnResultsOnly`: `ResultsAreFresh`, for a sweep in which no rate begins with
  the digits of a later one of the same transport (`NoLaterPrefix`; the default
  rates satisfy it).  Without this hypothesis it is false, as `runner_prefix`
  shows.

The argument.  `ProcessInv` says in which places of the script a process of the
run can be alive: only between its start and the wait or kill that ends it; only
gRPC has a producer beside the script.  `FilesInv` says that what was left over is
gone once a run has begun, that a consumer that is done with its loop has opened
its file, and that the script is in `wait` only with all files there.  So
`Recheck`, after a second look at the files, finds no file missing that is only
late.  `RedisInv` ties a redis-server of the script's own that has not been told
to shut down to a run of Redis.

About the figures of a comparison (`ReportAssumption`, `AnalysisAssumption`), for
any consumers, samples, inputs and thresholds, with every process killed at any
point and the analysis at any moment:

* `PercentileGrows`, `PercentileWithinSamples`: for sorted lists of any length, of
  two percentages the larger gives the larger figure, and none leaves the samples.
* `FiguresFit`, `NobodyLeftOut`, `RadarTellsTheTruth`: the invariants `RowsAreTrue`,
  `EverybodyReported` and `RadarIsHonest` of `Report`.
* `ShmTableIsCurrent`, `NoConfigurationLost`: the invariants `ShmRowsAreCurrent` and
  `EveryConfigurationStays` of `Analysis`.

The argument.  Of the state little is needed: only a producer that sends has
consumers with samples (`SamplesInv`), so that `tsc_ghz.txt` and `s1.ns` are there
when a row is computed, and times are numbers (`TimesInv`); `TableInv` says that
`shm_final.csv` is what the inputs give, or older than one of them, or being
written, or a change went unnoticed, and that what a program has read is what the
inputs give unless one has changed behind it (`JobInv`).  The weight is in the data.  `SortedSamples` says what `sorted`
returns; that there is such an order follows from the rank of each sample (how
many come before it), which is one to one and hence onto.  `SumBounds` says that
a sum lies between as many times the least and the greatest of its numbers;
sums are folds, and both that the fold's recursive function exists (`SumExists`)
and the bounds are shown by taking a least counterexample.  From these follow
the jitter (`JitterWithinRange`), the means of the radar (`MeanIsLarge`) and the
averages of the aggregation.  Throughout, arithmetic is exact, where the code
computes in floating point.

Only model-checked: liveness, that is `Drains`, `StartsUnlessTrouble`,
`ConsumersStop` (of `bench` and `zmq`), `Completes`, `EverybodyEnds`, `FailsFast` and
`SweepEnds`.  They rest on fairness and on ENABLED, which are beyond the prover.
Every invariant, action property and refinement of the passing runs is a theorem.

## 5. Not modelled

* The Redis programs: `run_redis` is modelled, what it calls is not in the
  repository.
* The code protoc generated under `grpc/`, the notebook, the PDF, the Makefiles.
* Parsing of flags and of the CSV files, pacing to `target_mps`, CPU pinning, the
  drawing of plots, the formats of numbers.
* The legacy mode of `analyze.py`: `legacy_report` repeats `text_report` for names
  without a tag in `/tmp`, which no program of the repository writes any more.
* Two analyses at the same time, or inputs that change between the readings of two
  of them: `Read` takes all inputs in one step.  A change before `shm_final.csv` is
  closed leaves no newer file, so `ShmRowsAreCurrent` promises nothing then either way.
* Libraries and the kernel are modelled from their use: gRPC streams, ZeroMQ
  pipes, sockets, named segments.  The map marks their definitions external.

## 6. Plan

Done, in this order: the log and the ring with their proofs; start-up; a whole
shm run; gRPC; UDS; ZeroMQ; the sweep; percentiles and analysis; the promise of
a transport and its four implementations; the result files and the report;
Redis and unknown transports in the sweep; the proofs of the shm run and of the
promise; the proofs of start-up, of the other transports, of the sweep and of the
figures of a comparison.

Next:

1. A composition of `ShmStartup` and `ShmBench`, so that the stale segment and
   the wiped announcement are seen through to the reported numbers.
2. The safety half of the liveness properties as theorems: that no reachable
   state without a named trouble is one in which everybody waits.
