---------------------------- MODULE MCOutputView ----------------------------
(* Small instances of OutputView: lengths in units of a few hundred, so    *)
(* that a log is full after some outputs.                                  *)
EXTENDS OutputView

SomeLimits == {0, 2, 4, 7}
SomeSizes  == {1, 2, 3, 4}
=============================================================================
