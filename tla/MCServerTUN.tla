---------------------------- MODULE MCServerTUN ----------------------------
(***************************************************************************)
(* ServerTUN on instances small enough for TLC; the cfgs give the sizes.   *)
(***************************************************************************)
EXTENDS ServerTUN
=============================================================================
