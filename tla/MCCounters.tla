----------------------------- MODULE MCCounters -----------------------------
(***************************************************************************)
(* Counters with two counting goroutines and one that logs.                *)
(***************************************************************************)
EXTENDS Counters

MCSizes == {2}
=============================================================================
