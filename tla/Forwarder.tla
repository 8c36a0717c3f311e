----------------------------- MODULE Forwarder -----------------------------
(***************************************************************************)
(* What the sending half of a TUN endpoint promises about the packets it   *)
(* reads from its device: each is delivered to a stream at most once, in   *)
(* the order they were read, or dropped; it is never both, and it is given *)
(* up only by dropping it.  Paths, streams, failures and retries are no    *)
(* part of the promise.                                                    *)
(***************************************************************************)
EXTENDS Naturals, Sequences

CONSTANT MaxPackets

VARIABLES taken, hand, delivered, lost
fvars == <<taken, hand, delivered, lost>>

Nothing == 0

Init == taken = 0 /\ hand = Nothing /\ delivered = << >> /\ lost = {}

(* The next packet is read from the device.                                *)
Accept ==
  /\ hand = Nothing /\ taken < MaxPackets
  /\ taken' = taken + 1 /\ hand' = taken + 1
  /\ UNCHANGED <<delivered, lost>>

(* The next packet is read and refused at once.                            *)
Refuse ==
  /\ hand = Nothing /\ taken < MaxPackets
  /\ taken' = taken + 1 /\ lost' = lost \cup {taken + 1}
  /\ UNCHANGED <<hand, delivered>>

Deliver ==
  /\ hand # Nothing
  /\ delivered' = Append(delivered, hand) /\ hand' = Nothing
  /\ UNCHANGED <<taken, lost>>

GiveUp ==
  /\ hand # Nothing
  /\ lost' = lost \cup {hand} /\ hand' = Nothing
  /\ UNCHANGED <<taken, delivered>>

Next == Accept \/ Refuse \/ Deliver \/ GiveUp

SafeSpec == Init /\ [][Next]_fvars

(* A packet in hand is not kept for ever.                                  *)
Spec == SafeSpec /\ WF_fvars(Deliver \/ GiveUp)
=============================================================================
