---------------------------- MODULE MCReconnect ----------------------------
(***************************************************************************)
(* Reconnect with durations of a few ticks: every pair of flags from       *)
(* -1..9, the refused and the defaulted ones included.                     *)
(***************************************************************************)
EXTENDS Reconnect

MCDurations == -1..9
=============================================================================
