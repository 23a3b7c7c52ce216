----------------------------- MODULE MCOptions -----------------------------
(* A small instance of Options: all controllers, and of the algorithms     *)
(* those of each program and of each branch.                               *)
EXTENDS Options

AllMiners == {"asic", "bfg", "cg", "cpu"}
SomeGpu   == {0, 22, 31}
SomeCpu   == {0, 6, 14}
=============================================================================
