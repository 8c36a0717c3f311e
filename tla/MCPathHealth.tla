---------------------------- MODULE MCPathHealth ----------------------------
(***************************************************************************)
(* PathHealth with every pair of reconnect flags from -1..9 ticks, the     *)
(* refused and the defaulted ones included.                                *)
(***************************************************************************)
EXTENDS PathHealth

MCDurations == -1..9
=============================================================================
