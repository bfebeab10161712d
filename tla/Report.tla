------------------------------- MODULE Report -------------------------------
(***************************************************************************)
(* From the messages of one run to the figures of a comparison: the files  *)
(* the programs leave (bench_*_tsc_ghz.txt and _s1.ns of the producer,     *)
(* latency_*.bin and then .tp of each consumer), what text_report of       *)
(* analyze.py makes of them, the summary, and the radar in which the       *)
(* transport stands beside shm, whose rows come from shm_final.csv (see    *)
(* Analysis).  uds, zmq and grpc write the same files.                     *)
(*                                                                         *)
(* A file is there from the moment it is opened, and has its contents when *)
(* it is closed; of a .bin any part may be there before.  So the files are *)
(* what the places of the processes say, and a killed process stays where  *)
(* it was.  analyze.py may be started at any time.  Times count the        *)
(* moments that are recorded, latencies are in nanoseconds, percentiles in *)
(* thousandths of one, and a mean is a sum and a number.                   *)
(***************************************************************************)
EXTENDS Percentile, SequencesExt, FiniteSetsExt

CONSTANTS
  Cids,       (* consumer numbers, 0 .. n_cons - 1                         *)
  Latencies,  (* the latencies there are                                   *)
  N_MESSAGES

ASSUME ReportAssumption ==
  /\ Cids \subseteq Nat /\ IsFiniteSet(Cids)
  /\ Latencies \subseteq Nat \ {0}
  /\ N_MESSAGES \in Nat \ {0}

VARIABLES
  now,      (* the latest moment recorded                                  *)
  ppc,      (* the producer: start, tsc, warmup, s1, send                  *)
  s1_ns,
  cpc,      (* consumer c: recv, bin, binClosed, tp, exited                *)
  lat,      (* lat[c]: the latencies it has measured                       *)
  s2_ns,
  killed,   (* the processes that are killed                               *)
  summary   (* what analyze.py has found                                   *)

vars == <<now, ppc, s1_ns, cpc, lat, s2_ns, killed, summary>>

Empty == -1     (* an empty field                                          *)
PRODUCER == -1  (* beside the consumers' numbers                           *)

NoSummary == [status |-> "none", shm |-> <<>>, rows |-> <<>>, radar |-> <<>>]

(* shm_final.csv: p50_ns by consumer, which may be empty.                  *)
ShmTables == UNION {[d -> Latencies \cup {Empty}] : d \in SUBSET Cids}

Init ==
  /\ now = 0
  /\ ppc = "start" /\ s1_ns = 0
  /\ cpc = [c \in Cids |-> "recv"]
  /\ lat = [c \in Cids |-> <<>>]
  /\ s2_ns = [c \in Cids |-> 0]
  /\ killed = {}
  /\ summary = NoSummary

-----------------------------------------------------------------------------
(* The programs.                                                           *)

ProducerStep ==
  /\ PRODUCER \notin killed
  /\ \/ ppc = "start" /\ ppc' = "tsc" /\ UNCHANGED <<now, s1_ns>>
     \/ ppc = "tsc" /\ ppc' = "warmup" /\ UNCHANGED <<now, s1_ns>>
     \/ ppc = "warmup" /\ ppc' = "s1" /\ now' = now + 1 /\ s1_ns' = now'
     \/ ppc = "s1" /\ ppc' = "send" /\ UNCHANGED <<now, s1_ns>>
  /\ UNCHANGED <<cpc, lat, s2_ns, killed>>

(* A message of the benchmark is counted.                                  *)
Receive(c) ==
  /\ c \notin killed
  /\ cpc[c] = "recv"
  /\ ppc = "send"
  /\ Len(lat[c]) < N_MESSAGES
  /\ \E l \in Latencies : lat' = [lat EXCEPT ![c] = Append(@, l)]
  /\ UNCHANGED <<now, ppc, s1_ns, cpc, s2_ns, killed>>

(* The receive loop ends: with the end of the stream or with a stall or an *)
(* end of file that counts as such (zmq, uds), and s2_ns is set, or without*)
(* (the stream of grpc is cut, an exception in uds); and .bin is opened.   *)
EndLoop(c) ==
  /\ c \notin killed
  /\ cpc[c] = "recv"
  /\ \/ now' = now + 1 /\ s2_ns' = [s2_ns EXCEPT ![c] = now']
     \/ Len(lat[c]) < N_MESSAGES /\ UNCHANGED <<now, s2_ns>>
  /\ cpc' = [cpc EXCEPT ![c] = "bin"]
  /\ UNCHANGED <<ppc, s1_ns, lat, killed>>

(* .bin is closed with all that was measured ...                           *)
WriteLatencies(c) ==
  /\ c \notin killed
  /\ cpc[c] = "bin"
  /\ cpc' = [cpc EXCEPT ![c] = "binClosed"]
  /\ UNCHANGED <<now, ppc, s1_ns, lat, s2_ns, killed>>

(* ... and .tp is opened, and closed with s2_ns, n_recv and N_MESSAGES.    *)
WriteThroughput(c) ==
  /\ c \notin killed
  /\ \/ cpc[c] = "binClosed" /\ cpc' = [cpc EXCEPT ![c] = "tp"]
     \/ cpc[c] = "tp" /\ cpc' = [cpc EXCEPT ![c] = "exited"]
  /\ UNCHANGED <<now, ppc, s1_ns, lat, s2_ns, killed>>

(* A process is killed, or a consumer of zmq leaves with an error before   *)
(* it has written anything.                                                *)
Kill(p) ==
  /\ p \notin killed
  /\ killed' = killed \cup {p}
  /\ UNCHANGED <<now, ppc, s1_ns, cpc, lat, s2_ns>>

-----------------------------------------------------------------------------
(* text_report: bins[c] is what is in the latency file of c.               *)

(* The loop over the consumers ends with the first that has no .bin.       *)
Reached(c) == \A d \in 0 .. c : cpc[d] # "recv"

HasSamplesOrNot(ns) == TRUE

(* A consumer without a sample is passed over.                             *)
HasSamples(ns) == ns # <<>>

Reported(bins) == {c \in Cids : Reached(c) /\ HasSamples(bins[c])}

(* read_throughput: None if .tp or s1.ns is not there; an exception if one *)
(* of them is empty.                                                       *)
TpThere(c) == cpc[c] \in {"tp", "exited"} /\ ppc \in {"s1", "send"}

TpUnreadable(c) == TpThere(c) /\ (cpc[c] = "tp" \/ ppc = "s1")

abs(a, b) == IF a < b THEN b - a ELSE a - b

(* Between successive samples, in the order they came.                     *)
jitter(ns) == [k \in 1 .. Len(ns) - 1 |-> abs(ns[k + 1], ns[k])]

WithoutGuard(elapsed) == TRUE

Measurable(elapsed) == elapsed > 0

(* A throughput is a number of messages and the time they took; 0.0 is     *)
(* none.                                                                   *)
NoRate == [n |-> 0, per |-> 1]

mps(n_recv, elapsed) ==
  IF Measurable(elapsed) THEN [n |-> n_recv, per |-> elapsed] ELSE NoRate

Row(c, ns) ==
  LET ns_sorted == sorted(ns)
  IN  [p50 |-> percentile(ns_sorted, 500), p90 |-> percentile(ns_sorted, 900),
       p99 |-> percentile(ns_sorted, 990), p999 |-> percentile(ns_sorted, 999),
       max |-> 1000 * ns_sorted[Len(ns)], n_samples |-> Len(ns),
       total_jitter |-> SumFunction(jitter(ns)),
       max_jitter |-> Max(ToSet(jitter(ns)) \cup {0}),
       mps  |-> IF TpThere(c) THEN mps(Len(lat[c]), s2_ns[c] - s1_ns) ELSE NoRate,
       loss |-> IF TpThere(c) THEN N_MESSAGES - Len(lat[c]) ELSE Empty]

(* max(ns) of nothing is an exception, too.                                *)
ReportFails(bins) ==
  \/ ppc = "tsc"
  \/ \E c \in Reported(bins) : bins[c] = <<>> \/ TpUnreadable(c)

(* run_sweep looks for tsc_ghz.txt before it calls text_report.            *)
text_report(bins) ==
  IF ppc = "start" THEN <<>> ELSE [c \in Reported(bins) |-> Row(c, bins[c])]

-----------------------------------------------------------------------------
(* The comparison.                                                         *)

Unchecked(shm) == TRUE

(* build_summary_combo takes the figures of every shm row, and raises an   *)
(* exception where there is none.                                          *)
ShmReadable(shm) == \A c \in DOMAIN shm : shm[c] # Empty

(* build_radar_combos: the mean of the figures that can be read, which is  *)
(* 0 if there is none.                                                     *)
Mean(figures) ==
  LET nums == {c \in DOMAIN figures : figures[c] # Empty}
  IN  [sum |-> SumFunctionOnSet(figures, nums), n |-> Cardinality(nums)]

(* plot_radar draws nothing unless there are two transports.               *)
Drawn(rows, shm) == DOMAIN rows # {} /\ DOMAIN shm # {}

Radar(rows, shm) ==
  IF ~Drawn(rows, shm) THEN <<>>
  ELSE [raw |-> Mean([c \in DOMAIN rows |-> rows[c].p50]), shm |-> Mean(shm)]

(* run_sweep for this configuration: an exception leaves nothing written.  *)
(* Of a .bin that is still open any part may have been read.               *)
Analyze ==
  /\ \E shm \in ShmTables, cut \in [Cids -> 0 .. N_MESSAGES] :
       LET bins == [c \in Cids |-> SubSeq(lat[c], 1, cut[c])]
           rows == text_report(bins)
       IN  /\ \A c \in Cids : cut[c] <= Len(lat[c]) /\ (cpc[c] = "bin" \/ cut[c] = Len(lat[c]))
           /\ summary' = IF ReportFails(bins) \/ ~ShmReadable(shm)
                         THEN [NoSummary EXCEPT !.status = "failed", !.shm = shm]
                         ELSE [status |-> "written", shm |-> shm, rows |-> rows,
                               radar |-> Radar(rows, shm)]
  /\ UNCHANGED <<now, ppc, s1_ns, cpc, lat, s2_ns, killed>>

Programs ==
  /\ \/ ProducerStep
     \/ \E c \in Cids :
          Receive(c) \/ EndLoop(c) \/ WriteLatencies(c) \/ WriteThroughput(c)
     \/ \E p \in Cids \cup {PRODUCER} : Kill(p)
  /\ UNCHANGED summary

(* The first analysis is the end: a later one finds what one that was      *)
(* started later would have found.                                         *)
Next == summary = NoSummary /\ (Programs \/ Analyze)

Spec == Init /\ [][Next]_vars

-----------------------------------------------------------------------------
(* Properties.                                                             *)

(* The figures of a row fit together and fit what the consumer saw: they   *)
(* are in order, from the least sample over p50, p90, p99 and p99.9 to the *)
(* largest; no step between samples is larger than their range; the loss   *)
(* and the number of samples, which come from two files, add up to the     *)
(* stream; and there is a throughput only if the end was recorded, after   *)
(* the start (analyze.py, 173-183 and 288-307).                            *)
RowsAreTrue ==
  \A c \in DOMAIN summary.rows :
    LET r == summary.rows[c]
        least == Min(ToSet(lat[c]))
    IN  /\ 1000 * least <= r.p50
        /\ r.p50 <= r.p90 /\ r.p90 <= r.p99 /\ r.p99 <= r.p999 /\ r.p999 <= r.max
        /\ r.max_jitter <= r.max \div 1000 - least
        /\ 0 <= r.total_jitter /\ r.total_jitter <= (r.n_samples - 1) * r.max_jitter
        /\ r.loss # Empty => r.loss + r.n_samples = N_MESSAGES
        /\ r.mps.per > 0
        /\ r.mps.n > 0 <=> TpThere(c) /\ s2_ns[c] > s1_ns

(* A process that is, or was killed, with an empty file open.              *)
Interrupted == ppc \in {"tsc", "s1"} \/ \E c \in Cids : cpc[c] = "tp"

(* Only such a file, or an shm row without a figure, keeps the analysis    *)
(* from its end: consumers that gave up, failed or got nothing do not.     *)
(* And then no consumer that has samples is missing, unless the producer   *)
(* never began or a consumer before it left no .bin (analyze.py, 276-331   *)
(* and 431).                                                               *)
EverybodyReported ==
  /\ summary.status = "failed" => Interrupted \/ \E c \in DOMAIN summary.shm : summary.shm[c] = Empty
  /\ summary.status = "written" => \A c \in Cids :
       \/ lat[c] = <<>> \/ cpc[c] = "bin"
       \/ \E d \in 0 .. c : cpc[d] = "recv"
       \/ c \in DOMAIN summary.rows

(* No transport looks better in the radar than its consumers saw it: each  *)
(* latency there is the mean over all rows of the transport, and never the *)
(* 0 that would stand for a missing figure and, as 1/p50, for the best of  *)
(* all (analyze.py, 236-246 and 370-376).                                  *)
RadarIsHonest ==
  summary.radar # <<>> =>
    LET r == summary.radar
        least == Min(Latencies)
    IN  /\ r.raw.n = Cardinality(DOMAIN summary.rows) /\ r.raw.sum >= 1000 * least * r.raw.n
        /\ r.shm.n = Cardinality(DOMAIN summary.shm) /\ r.shm.sum >= least * r.shm.n

=============================================================================
