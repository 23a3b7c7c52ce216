------------------------------ MODULE MCMiners ------------------------------
(* Small instances of Miners: which controllers, users and faults.         *)
EXTENDS Miners

AllMiners == {"bfg", "asic", "cg", "cpu"}
GpuMiner  == {"bfg"}

Nobody       == {}
NoFaults     == {}
Shown        == {FALSE}
Both         == BOOLEAN
=============================================================================
