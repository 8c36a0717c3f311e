------------------------------ MODULE MCTunnel ------------------------------
(***************************************************************************)
(* Tunnel with two packets for the server and one for the client.          *)
(***************************************************************************)
EXTENDS Tunnel

MCPackets == [e \in {"client", "server"} |-> IF e = "client" THEN 2 ELSE 1]
=============================================================================
