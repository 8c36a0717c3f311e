----------------------------- MODULE MCPackets -----------------------------
(***************************************************************************)
(* Packets with the addresses of the documentation's examples, numbers at  *)
(* both ends of their range and payloads of odd and even length.  The      *)
(* words of the request 63487, 65535 with payload 0 1 sum up to 0x1ffff:   *)
(* adding the carry makes another one.                                     *)
(***************************************************************************)
EXTENDS Packets

Virtual == <<10, 0, 0, 1>>
Client  == <<10, 0, 0, 2>>
Other   == <<192, 168, 0, 2>>

MCRequests ==
  [virtual : {Virtual}, client : {Client, Virtual, Other}, id : {0, 63487},
   seq : {1, 65535}, payload : {<< >>, <<7>>, <<0, 1>>, <<255, 255, 255>>, <<1, 2, 3, 4>>}]
=============================================================================
