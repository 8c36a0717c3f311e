-------------------------------- MODULE Link --------------------------------
(***************************************************************************)
(* What a tunnel promises in one direction: the packets that arrive are    *)
(* packets that were offered, each at most once, and none that its sender  *)
(* counts as dropped.  Packets may be lost on the way and may overtake     *)
(* each other; paths, frames and retries are no part of the promise.       *)
(***************************************************************************)
EXTENDS Naturals, Sequences

VARIABLES
  offered,  (* number of packets offered                                     *)
  arrived,  (* packets in the order they have arrived                        *)
  dropped   (* packets the sender gave up                                    *)
lvars == <<offered, arrived, dropped>>

Init == offered = 0 /\ arrived = << >> /\ dropped = {}

Offer == offered' = offered + 1 /\ UNCHANGED <<arrived, dropped>>

OfferDropped ==
  offered' = offered + 1 /\ dropped' = dropped \cup {offered'} /\ UNCHANGED arrived

Open == {p \in 1..offered \ dropped : \A i \in DOMAIN arrived : arrived[i] # p}

Arrive == \E p \in Open : arrived' = Append(arrived, p) /\ UNCHANGED <<offered, dropped>>

Drop == \E p \in Open : dropped' = dropped \cup {p} /\ UNCHANGED <<offered, arrived>>

Next == Offer \/ OfferDropped \/ Arrive \/ Drop

Spec == Init /\ [][Next]_lvars
=============================================================================
