------------------------------ MODULE Counters ------------------------------
(***************************************************************************)
(* internal/stats/stats.go: counters that goroutines add to with atomic    *)
(* operations while others (LogEvery and the final log line) copy them,    *)
(* field by field, into a Snapshot.                                        *)
(***************************************************************************)
EXTENDS Integers, Sequences

CONSTANTS
  Writers,  (* goroutines that count packets, drops and errors               *)
  Readers,  (* goroutines that take snapshots                                *)
  Sizes,    (* packet lengths                                                *)
  MaxOps,   (* bound: operations of one writer                               *)
  Modulus   (* number of values of a counter, 2^64 in the code               *)

ASSUME CountersAssumption ==
  MaxOps \in Nat /\ Modulus \in Nat \ {0} /\ Sizes \subseteq Nat

(* The fields in the order Snapshot loads them.                            *)
Fields == <<"rxPackets", "rxBytes", "txPackets", "txBytes", "droppedPackets",
            "errors">>
Field == {Fields[k] : k \in DOMAIN Fields}

None == "none"

VARIABLES
  counter,  (* the value of each field                                       *)
  ops,      (* per writer: operations left                                   *)
  owed,     (* per writer: the bytes addPacket has yet to add, and where     *)
  snap,     (* per reader: the Snapshot literal being filled in              *)
  pos,      (* per reader: fields loaded; 0 before the first                 *)
  history   (* per reader: values of counter since the snapshot began        *)

vars == <<counter, ops, owed, snap, pos, history>>

NothingOwed == [field |-> None, bytes |-> 0]

Zero == [f \in Field |-> 0]

Init ==
  /\ counter = Zero
  /\ ops = [w \in Writers |-> MaxOps]
  /\ owed = [w \in Writers |-> NothingOwed]
  /\ snap = [r \in Readers |-> Zero]
  /\ pos = [r \in Readers |-> 0]
  /\ history = [r \in Readers |-> << >>]

(* One atomic Add, seen by every snapshot under way.                       *)
Bump(field, n) ==
  /\ counter' = [counter EXCEPT ![field] = (@ + n) % Modulus]
  /\ history' = [r \in Readers |-> IF pos[r] \in 1..(Len(Fields) - 1)
                                   THEN Append(history[r], counter') ELSE history[r]]
  /\ UNCHANGED <<snap, pos>>

Starts(w) ==
  /\ owed[w] = NothingOwed /\ ops[w] > 0
  /\ ops' = [ops EXCEPT ![w] = @ - 1]

(* AddRX and AddTX count the packet, then its bytes if it has any.         *)
AddPacket(w, packets, bytes, size) ==
  /\ Starts(w)
  /\ Bump(packets, 1)
  /\ owed' = IF size > 0 THEN [owed EXCEPT ![w] = [field |-> bytes, bytes |-> size]]
                         ELSE owed

AddRX(w) == \E size \in Sizes : AddPacket(w, "rxPackets", "rxBytes", size)
AddTX(w) == \E size \in Sizes : AddPacket(w, "txPackets", "txBytes", size)

AddBytes(w) ==
  /\ owed[w] # NothingOwed
  /\ Bump(owed[w].field, owed[w].bytes)
  /\ owed' = [owed EXCEPT ![w] = NothingOwed]
  /\ UNCHANGED ops

AddDrop(w)  == Starts(w) /\ Bump("droppedPackets", 1) /\ UNCHANGED owed
AddError(w) == Starts(w) /\ Bump("errors", 1) /\ UNCHANGED owed

(* Mutant: a field of the literal is filled from its neighbour's counter.  *)
LoadNext_Neighbour(r) ==
  /\ pos[r] < Len(Fields)
  /\ LET f == Fields[pos[r] + 1]
         g == IF f = "txBytes" THEN "txPackets" ELSE f
     IN  snap' = [snap EXCEPT ![r][f] = counter[g]]
  /\ pos' = [pos EXCEPT ![r] = @ + 1]
  /\ history' = IF pos[r] = 0 THEN [history EXCEPT ![r] = <<counter>>] ELSE history
  /\ UNCHANGED <<counter, ops, owed>>

(* Snapshot loads one field after the other.                               *)
LoadNext(r) ==
  /\ pos[r] < Len(Fields)
  /\ snap' = [snap EXCEPT ![r][Fields[pos[r] + 1]] = counter[Fields[pos[r] + 1]]]
  /\ pos' = [pos EXCEPT ![r] = @ + 1]
  /\ history' = IF pos[r] = 0 THEN [history EXCEPT ![r] = <<counter>>] ELSE history
  /\ UNCHANGED <<counter, ops, owed>>

(* The snapshot is formatted and logged; LogEvery waits for its next tick. *)
Logged(r) ==
  /\ pos[r] = Len(Fields)
  /\ pos' = [pos EXCEPT ![r] = 0]
  /\ snap' = [snap EXCEPT ![r] = Zero]
  /\ history' = [history EXCEPT ![r] = << >>]
  /\ UNCHANGED <<counter, ops, owed>>

Next ==
  \/ \E w \in Writers : AddRX(w) \/ AddTX(w) \/ AddBytes(w) \/ AddDrop(w) \/ AddError(w)
  \/ \E r \in Readers : LoadNext(r) \/ Logged(r)

Spec == Init /\ [][Next]_vars

-----------------------------------------------------------------------------
Complete(r) == pos[r] = Len(Fields)

(* Each field of a complete snapshot is a value its counter had while the  *)
(* snapshot was taken, however many goroutines counted meanwhile.          *)
SnapshotFieldsReal ==
  \A r \in Readers : Complete(r) =>
    \A f \in Field : \E k \in DOMAIN history[r] : snap[r][f] = history[r][k][f]

(* What the comment on the type says ("Snapshot is a stable point-in-time  *)
(* copy of Counters", internal/stats/stats.go:21): some moment while the   *)
(* snapshot was taken had all of its values.                               *)
SnapshotIsPointInTime ==
  \A r \in Readers : Complete(r) => \E k \in DOMAIN history[r] : snap[r] = history[r][k]
=============================================================================
