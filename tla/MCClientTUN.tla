---------------------------- MODULE MCClientTUN ----------------------------
(***************************************************************************)
(* ClientTUN on instances small enough for TLC; the cfgs give the sizes.   *)
(***************************************************************************)
EXTENDS ClientTUN
=============================================================================
