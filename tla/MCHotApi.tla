------------------------------ MODULE MCHotApi ------------------------------
(* HotApi with two calls of reload() and up to two edits: with the first     *)
(* build, a run in flight, its follow-up and a call between the two.        *)
EXTENDS HotApi, TLC

Symmetric == Permutations(Calls)
=============================================================================
