------------------------------ MODULE Analysis ------------------------------
(***************************************************************************)
(* The shm rows of a comparison (see Report for those of the other         *)
(* transports): analyze.py takes them from shm_final.csv, the aggregation  *)
(* of repeated runs (newshm*.csv) by analyze_shm_csv.py, which is kept as  *)
(* long as no input is newer.                                              *)
(*                                                                         *)
(* Each of the two programs looks at the files, reads the inputs, opens   *)
(* shm_final.csv, which empties it, closes it, and analyze.py reads it     *)
(* back; it may be killed at any step, but not two of them run at a time.  *)
(* At any moment the user puts newshm files into the directory or removes  *)
(* them; each has at most one row of a configuration.  A time stamp is     *)
(* that of the last change of a file, and a file that is moved or copied   *)
(* may keep an older one.  Of a row there is the configuration (row_key)   *)
(* and p50; an average is a sum and the number of values it is taken of.   *)
(* Latencies are integers.                                                 *)
(***************************************************************************)
EXTENDS Integers, FiniteSetsExt, Functions

CONSTANTS
  Files,      (* the names newshm*.csv                                     *)
  Configs,    (* the configurations of their rows                          *)
  Swept,      (* those that this analysis was asked for                    *)
  P50s,       (* the values of p50_ns                                      *)
  Default,    (* p50_threshold_ns                                          *)
  Thresholds, (* what --p50-threshold-ns may say, the default included     *)
  MaxRows,    (* bound: the configurations of one file                     *)
  MaxTime     (* bound: the last time stamp                                *)

ASSUME AnalysisAssumption ==
  /\ P50s \subseteq Nat
  /\ Swept \subseteq Configs
  /\ Default \in Thresholds /\ Thresholds \subseteq Nat
  /\ MaxRows \in Nat

NaN == -1      (* an empty p50_ns                                          *)

VARIABLES
  clock,    (* the time: a time stamp                                      *)
  inputs,   (* the newshm*.csv files there are                             *)
  final,    (* shm_final.csv; its mtime is 0 if there is none              *)
  job,      (* the program that runs: where it is, what it was asked for,  *)
            (* what it found, and whether inputs changed behind it         *)
  table,    (* what the last analysis found; forgotten with any change     *)
  unnoticed (* history: final differs, and no file is newer                *)

tableVars == <<clock, inputs, final, job, table, unnoticed>>

Idle == [at |-> "idle", paths |-> {}, threshold |-> Default, byHand |-> FALSE,
         rows |-> <<>>, changed |-> FALSE]

(* The rows of a file: the value of p50_ns by configuration.               *)
Rows == UNION {[ks -> P50s \cup {NaN}] :
                 ks \in {d \in SUBSET Configs : Cardinality(d) <= MaxRows}}

NoTable == [written |-> FALSE, shm |-> <<>>]

TableInit ==
  /\ clock = 1
  /\ inputs = <<>>
  /\ final = [mtime |-> 0, rows |-> <<>>]
  /\ job = Idle
  /\ table = NoTable
  /\ unnoticed = FALSE

-----------------------------------------------------------------------------
(* analyze_shm_csv.py.                                                     *)

(* The files with a row of configuration k.                                *)
Group(k) == {f \in DOMAIN inputs : k \in DOMAIN inputs[f].rows}

Slow(f, k, threshold) ==
  LET p50 == inputs[f].rows[k] IN p50 # NaN /\ p50 > threshold

KeptWithoutGuard(k, threshold) == {f \in Group(k) : ~Slow(f, k, threshold)}

(* Rows above the threshold are dropped; if all are, the lowest stays.     *)
Kept(k, threshold) ==
  LET kept == {f \in Group(k) : ~Slow(f, k, threshold)}
      lowest(f) == \A g \in Group(k) : inputs[f].rows[k] <= inputs[g].rows[k]
  IN  IF kept # {} \/ Group(k) = {} THEN kept
      ELSE {CHOOSE f \in Group(k) : lowest(f)}

(* average_group, of the values that are finite.                           *)
Average(p50) == [sum |-> SumFunction(p50), n |-> Cardinality(DOMAIN p50)]

average_group(kept, k) ==
  LET finite == {f \in kept : inputs[f].rows[k] # NaN}
  IN  Average([f \in finite |-> inputs[f].rows[k]])

aggregate_shm_csvs(threshold) ==
  [k \in {j \in Configs : Kept(j, threshold) # {}} |-> average_group(Kept(k, threshold), k)]

(* read_rows and the averages.  A file that is gone by now is an exception *)
(* that ends the program.                                                  *)
Read ==
  /\ job.at = "read"
  /\ job' = IF job.paths \subseteq DOMAIN inputs
              THEN [job EXCEPT !.at = "open", !.paths = {},
                               !.rows = aggregate_shm_csvs(job.threshold),
                               !.changed = (job.paths # DOMAIN inputs)]
              ELSE Idle
  /\ UNCHANGED <<clock, inputs, final, table, unnoticed>>

(* open(..., "w") empties the file, ...                                    *)
OpenFinal ==
  /\ job.at = "open"
  /\ final' = [mtime |-> clock, rows |-> <<>>]
  /\ job' = [job EXCEPT !.at = "write"]
  /\ UNCHANGED <<clock, inputs, table, unnoticed>>

(* ... and its rows are there when it is closed.                           *)
CloseFinal ==
  /\ job.at = "write"
  /\ final' = [mtime |-> clock, rows |-> job.rows]
  /\ job' = IF job.byHand THEN Idle
            ELSE [Idle EXCEPT !.at = "load", !.changed = job.changed]
  /\ unnoticed' = (job.threshold # Default \/ job.changed)
  /\ UNCHANGED <<clock, inputs, table>>

(* analyze_shm_csv.py is started by hand.                                  *)
aggregate_main(threshold) ==
  /\ job.at = "idle" /\ inputs # <<>>
  /\ job' = [Idle EXCEPT !.at = "read", !.paths = DOMAIN inputs,
                         !.threshold = threshold, !.byHand = TRUE]
  /\ table' = NoTable
  /\ UNCHANGED <<clock, inputs, final, unnoticed>>

-----------------------------------------------------------------------------
(* analyze.py.                                                             *)

OnlyWhenMissing == inputs # <<>> /\ final.mtime = 0

(* load_shm_final_rows: aggregate, if there are inputs and shm_final.csv   *)
(* is missing or older than one of them.                                   *)
Outdated == \E f \in DOMAIN inputs : final.mtime = 0 \/ inputs[f].mtime > final.mtime

LookForInputs ==
  /\ job.at = "idle"
  /\ job' = IF Outdated THEN [Idle EXCEPT !.at = "read", !.paths = DOMAIN inputs]
                        ELSE [Idle EXCEPT !.at = "load"]
  /\ table' = NoTable
  /\ UNCHANGED <<clock, inputs, final, unnoticed>>

Selected(rows) == Restrict(rows, DOMAIN rows \cap Swept)

(* run_sweep reads shm_final.csv.  A selected row without a p50 is an      *)
(* exception in build_summary_combo: the program ends with nothing written *)
(* but shm_final.csv.                                                      *)
LoadFinal ==
  /\ job.at = "load"
  /\ LET shm == Selected(final.rows)
     IN  table' = IF ~job.changed /\ \A k \in DOMAIN shm : shm[k].n > 0
                    THEN [written |-> TRUE, shm |-> shm] ELSE NoTable
  /\ job' = Idle
  /\ UNCHANGED <<clock, inputs, final, unnoticed>>

run_sweep == LookForInputs \/ Read \/ OpenFinal \/ CloseFinal \/ LoadFinal

-----------------------------------------------------------------------------
(* External: a signal.  Between open and close it leaves shm_final.csv     *)
(* empty, and newer than its inputs.                                       *)
KillProgram ==
  /\ job.at # "idle"
  /\ job' = Idle
  /\ unnoticed' = (unnoticed \/ job.at = "write")
  /\ UNCHANGED <<clock, inputs, final, table>>

(* Inputs change behind a program that has begun.                          *)
Overtakes == job' = IF job.at = "idle" THEN job ELSE [job EXCEPT !.changed = TRUE]

(* External: the user.                                                     *)
PutInput(f) ==
  \E mtime \in 1 .. clock, rows \in Rows :
    /\ inputs' = [g \in DOMAIN inputs \cup {f} |->
                    IF g = f THEN [mtime |-> mtime, rows |-> rows] ELSE inputs[g]]
    /\ unnoticed' = (unnoticed \/ mtime <= final.mtime)
    /\ Overtakes
    /\ table' = NoTable
    /\ UNCHANGED <<clock, final>>

RemoveInput(f) ==
  /\ f \in DOMAIN inputs
  /\ inputs' = Restrict(inputs, DOMAIN inputs \ {f})
  /\ unnoticed' = (unnoticed \/ final.mtime # 0)
  /\ Overtakes
  /\ table' = NoTable
  /\ UNCHANGED <<clock, final>>

Tick ==
  /\ clock < MaxTime
  /\ clock' = clock + 1
  /\ UNCHANGED <<inputs, final, job, table, unnoticed>>

TableNext ==
  \/ run_sweep
  \/ \E threshold \in Thresholds : aggregate_main(threshold)
  \/ KillProgram
  \/ \E f \in Files : PutInput(f) \/ RemoveInput(f)
  \/ Tick

TableSpec == TableInit /\ [][TableNext]_tableVars

-----------------------------------------------------------------------------
(* Properties.                                                             *)

(* The shm rows of a summary are those of the newshm files there are, at   *)
(* whatever times and in whatever order these came and the aggregation was *)
(* made or killed, unless a change left no file newer than shm_final.csv:  *)
(* an input was removed, came with an old time stamp or while the inputs   *)
(* were aggregated, another threshold was asked for by hand, or a program  *)
(* was killed while it wrote (analyze.py, 252-262; analyze_shm_csv.py,     *)
(* 98-130).                                                                *)
ShmRowsAreCurrent ==
  table.written /\ ~unnoticed =>
    table.shm = Selected(aggregate_shm_csvs(Default))

(* Aggregation loses no configuration, nor its figure, without which the   *)
(* analysis fails, where every run has one; and an average is above the    *)
(* threshold only if every run was: a slow run never weighs on the others  *)
(* (analyze_shm_csv.py, 83-123).                                           *)
EveryConfigurationStays ==
  LET rows == aggregate_shm_csvs(Default)
  IN  \A k \in Configs : Group(k) # {} =>
        /\ k \in DOMAIN rows
        /\ rows[k].n = 0 => \E f \in Group(k) : inputs[f].rows[k] = NaN
        /\ rows[k].sum > Default * rows[k].n => \A f \in Group(k) : Slow(f, k, Default)

=============================================================================
