---------------------------- MODULE MCBenchRunner ----------------------------
(***************************************************************************)
(* Sweeps for the model checking of BenchRunner.                           *)
(***************************************************************************)
EXTENDS BenchRunner

Combo(i, m) == [ipc |-> i, mps |-> m]

(* Two rates as in the default MPS_LIST, neither a prefix of the other; a  *)
(* transport with pids, one without, both with a server of their own, and  *)
(* one that does not exist.                                                *)
MixedSweep == <<Combo("shm", <<2>>), Combo("shm", <<5>>), Combo("redis", <<2>>),
                Combo("pipe", <<2>>), Combo("grpc", <<2>>)>>

(* A rate, and then one whose digits it begins with.                       *)
PrefixSweep == <<Combo("shm", <<2, 0>>), Combo("shm", <<2>>)>>

=============================================================================
