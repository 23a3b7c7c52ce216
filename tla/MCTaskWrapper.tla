--------------------------- MODULE MCTaskWrapper ---------------------------
(* Small instances of TaskWrapper: the owner's old wrapper and its new one. *)
EXTENDS TaskWrapper, TLC

CONSTANTS w1, w2

TwoWrappers == {w1, w2}

(* The two wrappers share nothing, so runs without liveness may swap them. *)
Interchangeable == Permutations(TwoWrappers)

NoFaults == {}
=============================================================================
