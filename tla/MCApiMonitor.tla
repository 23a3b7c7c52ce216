---------------------------- MODULE MCApiMonitor ----------------------------
(* Small instances of ApiMonitor: one or two local miners, one networked    *)
(* miner, and polls that end in time or overlap.                            *)
EXTENDS ApiMonitor, TLC

CONSTANTS n1, p1, p2

GpuMiner  == {"bfg"}
TwoMiners == {"asic", "bfg"}
OneNet    == {n1}
OnePoll   == {p1}
TwoPolls  == {p1, p2}

(* The polls run the same code; the run without liveness may swap them.    *)
Interchangeable == Permutations(TwoPolls)
=============================================================================
