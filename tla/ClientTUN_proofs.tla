-------------------------- MODULE ClientTUN_proofs --------------------------
(***************************************************************************)
(* Proofs about ClientTUN for every number of paths, streams, packets and  *)
(* retries.  First the types, the distinctness of the path set, and that   *)
(* the client takes only broken paths out of it.  Then, from a second      *)
(* invariant, the streams: each active path has a receiver, no stream is   *)
(* leaked, reports fit into errCh until a path is redialled, the sender    *)
(* keeps the promise of Forwarder and drops nothing that a live path could *)
(* have carried.                                                           *)
(***************************************************************************)
EXTENDS ClientTUN, PathSet_proofs, FiniteSetTheorems

(* One reconnect goroutine per id, and it alone adds its id: between its   *)
(* look at the path set and its add the id stays missing.                  *)
RedialInv ==
  /\ UniquePaths
  /\ \A s \in StreamsOf(paths) : s <= used
  /\ \A i \in PathIds :
       /\ fresh[i] <= used
       /\ reconnectPc[i] \in {"add", "spawn"} => fresh[i] # None
       /\ reconnectPc[i] \in {"dial", "add"} => i \notin IdsOf(paths)
       /\ reconnectPc[i] = "add" => fresh[i] \notin StreamsOf(paths)
  /\ \A i, j \in PathIds : i # j /\ fresh[i] # None => fresh[i] # fresh[j]
  /\ mainPc = "dial" =>
       /\ \A i \in PathIds : reconnectPc[i] = "idle"
       /\ \A i \in IdsOf(paths) : i < dialNext

(* A goroutine on its way to remove a stream has seen it fail, and a       *)
(* failed stream does not come back.                                       *)
SenderFault ==
  /\ senderPc \in {"pick", "write", "fail", "remove", "close"} => held # Empty
  /\ senderPc \in {"write", "mark", "fail", "remove", "close"} =>
       target.stream \in 1..used
  /\ senderPc \in {"fail", "remove", "close"} => ~Writable(target.stream)

ReceiverFault ==
  \A s \in Streams :
    /\ receiverPc[s] # "none" => s <= used
    /\ receiverPc[s] = "remove" => stream[s] # "open" \/ cancelled \/ errCount > 0

FaultInv == (~deviceOpen => cancelled) /\ SenderFault /\ ReceiverFault

IndInv == TypeOK /\ RedialInv /\ FaultInv

-----------------------------------------------------------------------------
(* Types.                                                                  *)

LEMMA Numbers ==
  /\ NPaths \in Nat \ {0} /\ MaxStreams \in Nat /\ MaxPackets \in Nat
  /\ MaxRetries \in Nat /\ ErrChCapacity \in Nat
  /\ 0 \in PathIds /\ None \notin Streams /\ Empty \notin Packets
BY NPathsAssumption, MaxStreamsAssumption, MaxPacketsAssumption,
   MaxRetriesAssumption
   DEF ErrChCapacity, MaxTUNClientErrors, PathIds, Streams, Packets, None, Empty

(* Taking a stream out keeps the types of the path set.                    *)
LEMMA RemoveKeepsTypes ==
  ASSUME TypeOK, NEW s,
         paths' = RemovePath(paths, s), next' = NextAfterRemove(paths, next, s)
  PROVE  /\ paths' \in Seq([id : PathIds, stream : Streams])
         /\ next' \in Nat /\ (next' = 0 \/ next' < Len(paths'))
<1>1. /\ paths \in Seq([id : PathIds, stream : Streams])
      /\ next \in Nat /\ (next = 0 \/ next < Len(paths))
  BY DEF TypeOK
<1> QED
  BY <1>1, RemovePathProperties, NextAfterRemoveInRange

(* And so does adding a path whose id is missing.                          *)
LEMMA AddKeepsTypes ==
  ASSUME TypeOK, NEW path \in [id : PathIds, stream : Streams],
         path.id \notin IdsOf(paths), paths' = AddPath(paths, path)
  PROVE  /\ paths' \in Seq([id : PathIds, stream : Streams])
         /\ Len(paths') = Len(paths) + 1
<1>1. paths \in Seq([id : PathIds, stream : Streams])
  BY DEF TypeOK
<1>2. /\ AddPath(paths, path) \in Seq([id : PathIds, stream : Streams])
      /\ Len(AddPath(paths, path)) = Len(paths) + 1
  BY <1>1, AddPathProperties
<1> QED
  BY <1>2

LEMMA TypeInit == Init => TypeOK
<1> SUFFICES ASSUME Init PROVE TypeOK
  OBVIOUS
<1>1. /\ << >> \in Seq([id : PathIds, stream : Streams])
      /\ << >> \in Seq(Packets)
  OBVIOUS
<1> QED
  BY <1>1, Numbers DEF Init, TypeOK, SenderPcs, ReceiverPcs, ReconnectPcs, NoPath

LEMMA TypeEnvironment ==
  ASSUME TypeOK, Environment
  PROVE  TypeOK'
<1> USE DEF TypeOK, mainVars, ctxVars, pathVars, streamVars, senderVars,
            redialVars, packetVars
<1>1. CASE Interrupt
  BY <1>1 DEF Interrupt
<1>2. ASSUME NEW s \in Streams, StreamEnds(s) PROVE TypeOK'
  BY <1>2 DEF StreamEnds
<1>3. ASSUME NEW s \in Streams, StreamBreaks(s) PROVE TypeOK'
  BY <1>3 DEF StreamBreaks
<1>4. ASSUME NEW i \in PathIds, CooldownEnds(i) PROVE TypeOK'
  BY <1>4 DEF CooldownEnds
<1> QED
  BY <1>1, <1>2, <1>3, <1>4 DEF Environment

LEMMA TypeMain ==
  ASSUME TypeOK, Main
  PROVE  TypeOK'
<1> USE DEF TypeOK, mainVars, ctxVars, pathVars, streamVars, senderVars,
            redialVars, packetVars
<1>1. CASE InitialDialSucceeds
  <2>1. /\ paths' \in Seq([id : PathIds, stream : Streams])
        /\ Len(paths') = Len(paths) + 1
    <3>1. Dialled(dialNext) \in [id : PathIds, stream : Streams]
      BY <1>1, Numbers DEF InitialDialSucceeds, Dialled, PathIds, Streams
    <3> QED
      BY <1>1, <3>1, AppendProperties DEF InitialDialSucceeds
  <2>2. next' \in Nat /\ (next' = 0 \/ next' < Len(paths'))
    <3>1. Len(paths) \in Nat
      BY LenProperties
    <3> QED
      BY <1>1, <2>1, <3>1 DEF InitialDialSucceeds
  <2>3. dialNext' \in 0..NPaths /\ used' \in 0..MaxStreams
    BY <1>1, Numbers DEF InitialDialSucceeds
  <2> QED
    BY <1>1, <2>1, <2>2, <2>3 DEF InitialDialSucceeds
<1>2. CASE InitialDialFails
  BY <1>2, Numbers DEF InitialDialFails
<1>3. CASE StartGoroutines
  BY <1>3 DEF StartGoroutines, SenderPcs, ReceiverPcs, ReconnectPcs
<1>4. CASE SelectDone
  BY <1>4 DEF SelectDone
<1>5. CASE SelectError
  BY <1>5, Numbers DEF SelectError
<1>6. CASE ClosePaths
  BY <1>6 DEF ClosePaths
<1> QED
  BY <1>1, <1>2, <1>3, <1>4, <1>5, <1>6 DEF Main

LEMMA TypeCloseDevice ==
  ASSUME TypeOK, CloseDevice
  PROVE  TypeOK'
BY DEF CloseDevice, TypeOK, mainVars, ctxVars, pathVars, streamVars, senderVars,
       redialVars, packetVars

LEMMA TypeSender ==
  ASSUME TypeOK, FaultInv, Sender
  PROVE  TypeOK'
<1> USE Numbers DEF TypeOK, SenderGoes, SenderOnly, SenderPcs, mainVars, ctxVars,
        pathVars, streamVars, senderVars, redialVars, packetVars
<1>1. CASE ReadPacket
  BY <1>1 DEF ReadPacket, Packets
<1>2. CASE ReadDenied
  BY <1>2 DEF ReadDenied, Packets
<1>3. CASE ReadNothing
  BY <1>3 DEF ReadNothing
<1>4. CASE ReadRetryable
  <2>1. retries \in 0..MaxRetries /\ retries < MaxRetries /\ retries' = retries + 1
    BY <1>4 DEF ReadRetryable
  <2>2. retries' \in 0..MaxRetries
    BY <2>1, Numbers, SMT
  <2> QED
    BY <1>4, <2>2 DEF ReadRetryable
<1>5. CASE ReadFails
  BY <1>5 DEF ReadFails
<1>6. CASE ReadClosed \/ ReadGivenUp
  BY <1>6 DEF ReadClosed, ReadGivenUp
<1>7. CASE SenderWakes
  BY <1>7 DEF SenderWakes
<1>8. CASE SenderInterrupted
  BY <1>8 DEF SenderInterrupted
<1>9. CASE SenderReports
  BY <1>9 DEF SenderReports
<1>10. CASE PickPath
  <2> DEFINE index == NextIndex(paths, next, cooling)
  <2>1. /\ PathAt(paths, index) \in [id : PathIds, stream : Streams]
        /\ NextAfter(paths, index) \in 0..(Len(paths) - 1)
    BY <1>10, NextIndexPrefersWarm DEF PickPath
  <2>2. Len(paths) \in Nat
    BY LenProperties
  <2>3. /\ target' = PathAt(paths, index)
        /\ next' = NextAfter(paths, index)
    BY <1>10 DEF PickPath
  <2> HIDE DEF index
  <2>4. next' \in Nat /\ next' < Len(paths)
    BY <2>1, <2>2, <2>3
  <2> QED
    BY <1>10, <2>1, <2>3, <2>4 DEF PickPath
<1>11. CASE PickNone
  BY <1>11 DEF PickNone
<1>12. CASE WriteSucceeds
  <2>1. sent' \in Seq(Packets)
    BY <1>12, AppendProperties DEF WriteSucceeds
  <2> QED
    BY <1>12, <2>1 DEF WriteSucceeds
<1>13. CASE WriteFails
  BY <1>13 DEF WriteFails
<1>14. CASE MarkSuccess
  BY <1>14 DEF MarkSuccess, NoPath
<1>15. CASE MarkFailure
  BY <1>15 DEF MarkFailure, NoPath
<1>16. CASE SenderRemoves
  <2>1. /\ paths' \in Seq([id : PathIds, stream : Streams])
        /\ next' \in Nat /\ (next' = 0 \/ next' < Len(paths'))
    BY <1>16, RemoveKeepsTypes DEF SenderRemoves
  <2> QED
    BY <1>16, <2>1 DEF SenderRemoves
<1>17. CASE SenderCloses
  BY <1>17 DEF SenderCloses
<1> QED
  BY <1>1, <1>2, <1>3, <1>4, <1>5, <1>6, <1>7, <1>8, <1>9, <1>10, <1>11, <1>12,
     <1>13, <1>14, <1>15, <1>16, <1>17 DEF Sender, SenderReads, SenderRuns

LEMMA TypeReceiver ==
  ASSUME TypeOK, NEW s \in Streams, Receiver(s)
  PROVE  TypeOK'
<1> USE Numbers DEF TypeOK, ReceiverGoes, ReceiverOnly, ReceiverPcs, mainVars,
        ctxVars, pathVars, streamVars, senderVars, redialVars, packetVars
<1>1. CASE ReceiveFrame(s)
  BY <1>1 DEF ReceiveFrame
<1>2. CASE WriteDeviceFails(s)
  BY <1>2 DEF WriteDeviceFails
<1>3. CASE LockDevice(s)
  BY <1>3 DEF LockDevice
<1>4. CASE ReceiveFails(s)
  BY <1>4 DEF ReceiveFails
<1>5. CASE WriteDevice(s)
  BY <1>5 DEF WriteDevice
<1>6. CASE WriteDeviceClosed(s)
  BY <1>6 DEF WriteDeviceClosed
<1>7. CASE ReceiverReports(s)
  BY <1>7 DEF ReceiverReports
<1>8. CASE ReceiverRemoves(s)
  <2>1. /\ paths' \in Seq([id : PathIds, stream : Streams])
        /\ next' \in Nat /\ (next' = 0 \/ next' < Len(paths'))
    BY <1>8, RemoveKeepsTypes DEF ReceiverRemoves
  <2> QED
    BY <1>8, <2>1 DEF ReceiverRemoves
<1>9. CASE ReceiverCloses(s)
  BY <1>9 DEF ReceiverCloses
<1> QED
  BY <1>1, <1>2, <1>3, <1>4, <1>5, <1>6, <1>7, <1>8, <1>9
     DEF Receiver, ReceiverReads, ReceiverRuns

LEMMA TypeReconnect ==
  ASSUME TypeOK, RedialInv, NEW i \in PathIds, Reconnect(i)
  PROVE  TypeOK'
<1> USE Numbers DEF TypeOK, ReconnectGoes, ReconnectOnly, ReconnectPcs, mainVars,
        ctxVars, pathVars, streamVars, senderVars, redialVars, packetVars
<1>1. CASE CheckPresent(i)
  BY <1>1 DEF CheckPresent
<1>2. CASE CheckMissing(i)
  BY <1>2 DEF CheckMissing
<1>3. CASE ReconnectStops(i)
  BY <1>3 DEF ReconnectStops
<1>4. CASE ReconnectWakes(i)
  BY <1>4 DEF ReconnectWakes
<1>5. CASE RedialFails(i)
  BY <1>5 DEF RedialFails
<1>6. CASE RedialSucceeds(i)
  BY <1>6 DEF RedialSucceeds, Streams
<1>7. CASE AddFresh(i)
  <2>1. fresh[i] \in Streams /\ i \notin IdsOf(paths)
    BY <1>7 DEF AddFresh, RedialInv
  <2>2. /\ paths' \in Seq([id : PathIds, stream : Streams])
        /\ Len(paths') = Len(paths) + 1
    <3> DEFINE path == [id |-> i, stream |-> fresh[i]]
    <3>1. path \in [id : PathIds, stream : Streams] /\ path.id \notin IdsOf(paths)
      BY <2>1
    <3>2. paths' = AddPath(paths, path)
      BY <1>7 DEF AddFresh
    <3> HIDE DEF path
    <3> QED
      BY <3>1, <3>2, AddKeepsTypes
  <2>3. next' \in Nat /\ (next' = 0 \/ next' < Len(paths'))
    <3>1. Len(paths) \in Nat
      BY LenProperties
    <3> QED
      BY <1>7, <2>2, <3>1 DEF AddFresh
  <2>4. late' \subseteq Streams
    BY <1>7, <2>1 DEF AddFresh
  <2>5. stream' \in [Streams -> {"unused", "open", "eof", "broken", "closed"}]
    BY <1>7 DEF AddFresh
  <2> QED
    BY <1>7, <2>2, <2>3, <2>4, <2>5 DEF AddFresh
<1>8. CASE SpawnReceiver(i)
  BY <1>8 DEF SpawnReceiver, ReceiverPcs
<1> QED
  BY <1>1, <1>2, <1>3, <1>4, <1>5, <1>6, <1>7, <1>8
     DEF Reconnect, ReconnectRuns

LEMMA TypeStep ==
  ASSUME TypeOK, RedialInv, FaultInv, [Next]_vars
  PROVE  TypeOK'
<1>1. CASE UNCHANGED vars
  BY <1>1 DEF vars, TypeOK, mainVars, ctxVars, pathVars, streamVars, senderVars,
              redialVars, packetVars
<1> QED
  BY <1>1, TypeEnvironment, TypeMain, TypeCloseDevice, TypeSender, TypeReceiver,
     TypeReconnect DEF Next

-----------------------------------------------------------------------------
(* The path set and the reconnect goroutines.                              *)

redialFrame == <<paths, used, fresh, reconnectPc, mainPc, dialNext>>

LEMMA RedialFrame ==
  ASSUME RedialInv, UNCHANGED redialFrame
  PROVE  RedialInv'
BY DEF RedialInv, redialFrame, UniquePaths

(* Taking a stream out of the set, whoever does it.                        *)
LEMMA RedialRemove ==
  ASSUME TypeOK, RedialInv, NEW s, paths' = RemovePath(paths, s),
         UNCHANGED <<used, fresh, reconnectPc, mainPc, dialNext>>
  PROVE  RedialInv'
<1>1. paths \in Seq([id : PathIds, stream : Streams])
  BY DEF TypeOK
<1>2. /\ IdsOf(paths') \subseteq IdsOf(paths)
      /\ StreamsOf(paths') \subseteq StreamsOf(paths)
      /\ Distinct(paths) => Distinct(paths')
  BY <1>1, RemovePathProperties
<1>3. Distinct(paths) /\ Distinct(paths) = UniquePaths /\ Distinct(paths') = UniquePaths'
  BY DEF RedialInv, UniquePaths
<1>4. UniquePaths'
  BY <1>2, <1>3
<1> QED
  BY <1>2, <1>4 DEF RedialInv

(* Every id and stream of the path set is one of the model's.              *)
LEMMA PathsInRange ==
  ASSUME TypeOK
  PROVE  IdsOf(paths) \subseteq PathIds /\ StreamsOf(paths) \subseteq Streams
<1>1. paths \in Seq([id : PathIds, stream : Streams])
  BY DEF TypeOK
<1>2. \A k \in 1..Len(paths) : paths[k] \in [id : PathIds, stream : Streams]
  BY <1>1, ElementOfSeq
<1>3. DOMAIN paths = 1..Len(paths)
  BY <1>1, LenProperties
<1> QED
  BY <1>2, <1>3 DEF IdsOf, StreamsOf

(* Adding a path whose id and stream are both missing.                     *)
LEMMA AddKeepsDistinct ==
  ASSUME RedialInv, NEW P, paths \in Seq(P), NEW path \in P,
         path.id \notin IdsOf(paths), path.stream \notin StreamsOf(paths),
         paths' = AddPath(paths, path)
  PROVE  /\ IdsOf(paths') = IdsOf(paths) \cup {path.id}
         /\ StreamsOf(paths') = StreamsOf(paths) \cup {path.stream}
         /\ UniquePaths'
<1>2. /\ IdsOf(AddPath(paths, path)) = IdsOf(paths) \cup {path.id}
      /\ StreamsOf(AddPath(paths, path)) = StreamsOf(paths) \cup {path.stream}
      /\ Distinct(paths) /\ path.stream \notin StreamsOf(paths)
           => Distinct(AddPath(paths, path))
  BY AddPathProperties
<1>3. Distinct(paths)
  BY DEF RedialInv, UniquePaths
<1> QED
  BY <1>2, <1>3 DEF UniquePaths

LEMMA RedialInit == Init => RedialInv
<1> SUFFICES ASSUME Init PROVE RedialInv
  OBVIOUS
<1>1. paths = << >> /\ DOMAIN paths = {}
  BY DEF Init
<1>2. UniquePaths /\ IdsOf(paths) = {} /\ StreamsOf(paths) = {}
  BY <1>1, Zenon DEF UniquePaths, Distinct, IdsOf, StreamsOf
<1> QED
  BY <1>2 DEF Init, RedialInv, None

LEMMA RedialMain ==
  ASSUME TypeOK, RedialInv, Main
  PROVE  RedialInv'
<1> USE DEF mainVars, ctxVars, pathVars, streamVars, senderVars, redialVars,
            packetVars
<1>1. CASE InitialDialSucceeds
  <2> DEFINE path == Dialled(dialNext)
  <2>0. paths \in Seq([id : PathIds, stream : Streams])
    BY DEF TypeOK
  <2>1. /\ path \in [id : PathIds, stream : Streams]
        /\ path.id = dialNext /\ path.stream = used + 1
    BY <1>1, Numbers DEF InitialDialSucceeds, Dialled, PathIds, Streams, TypeOK
  <2>2. dialNext \notin IdsOf(paths) /\ used + 1 \notin StreamsOf(paths)
    <3>1. used \in Nat /\ dialNext \in Nat
      BY Numbers DEF TypeOK
    <3> QED
      BY <1>1, <3>1 DEF InitialDialSucceeds, RedialInv
  <2>3. paths' = AddPath(paths, path)
    <3>2. paths' = Append(paths, path)
      BY <1>1 DEF InitialDialSucceeds
    <3> HIDE DEF path
    <3>3. AddPath(paths, path) = Append(paths, path)
      BY <2>0, <2>1, <2>2, AddPathProperties
    <3> QED
      BY <3>2, <3>3
  <2> HIDE DEF path
  <2>4. /\ IdsOf(paths') = IdsOf(paths) \cup {dialNext}
        /\ StreamsOf(paths') = StreamsOf(paths) \cup {used + 1}
        /\ UniquePaths'
    BY <2>1, <2>2, <2>3, <2>0, AddKeepsDistinct
  <2>7. /\ used' = used + 1 /\ dialNext' = dialNext + 1 /\ mainPc = "dial"
        /\ UNCHANGED <<mainPc, fresh, reconnectPc>>
    BY <1>1 DEF InitialDialSucceeds
  <2>8. /\ used \in Int /\ dialNext \in Int
        /\ \A s \in StreamsOf(paths) : s \in Int
        /\ \A i \in IdsOf(paths) : i \in Int
        /\ \A i \in PathIds : fresh[i] \in Int
    BY PathsInRange, Numbers DEF TypeOK, PathIds, Streams, None
  <2>9. /\ \A s \in StreamsOf(paths') : s <= used'
        /\ \A i \in IdsOf(paths') : i < dialNext'
        /\ \A i \in PathIds : fresh'[i] <= used'
    BY <2>4, <2>7, <2>8 DEF RedialInv
  <2> QED
    BY <2>4, <2>7, <2>9 DEF RedialInv
<1>2. CASE InitialDialFails
  <2>1. /\ UNCHANGED <<paths, used, fresh, reconnectPc, mainPc>>
        /\ dialNext \in 0..NPaths /\ NPaths \in Nat
        /\ dialNext' = NPaths \/ dialNext' = dialNext + 1
    BY <1>2, Numbers DEF InitialDialFails, TypeOK
  <2>2. dialNext' >= dialNext /\ dialNext' \in Int
    BY <2>1
  <2>3. \A i \in IdsOf(paths) : i \in Int
    BY PathsInRange, Numbers DEF PathIds
  <2>4. mainPc = "dial" => \A i \in IdsOf(paths) : i < dialNext'
    BY <2>1, <2>2, <2>3 DEF RedialInv
  <2>5. UniquePaths'
    BY <2>1 DEF RedialInv, UniquePaths
  <2> QED
    BY <2>1, <2>4, <2>5 DEF RedialInv
<1>3. CASE StartGoroutines
  <2>1. /\ UNCHANGED <<paths, used, fresh>>
        /\ mainPc' = "select" /\ reconnectPc' = [i \in PathIds |-> "check"]
    BY <1>3 DEF StartGoroutines
  <2>2. UniquePaths'
    BY <2>1 DEF RedialInv, UniquePaths
  <2> QED
    BY <2>1, <2>2 DEF RedialInv
<1>4. ASSUME mainPc # "dial", mainPc' # "dial",
             UNCHANGED <<paths, used, fresh, reconnectPc, dialNext>>
      PROVE  RedialInv'
  BY <1>4 DEF RedialInv, UniquePaths
<1>5. CASE SelectDone
  BY <1>4, <1>5 DEF SelectDone
<1>6. CASE SelectError
  BY <1>4, <1>6 DEF SelectError
<1>7. CASE ClosePaths
  BY <1>4, <1>7 DEF ClosePaths
<1> QED
  BY <1>1, <1>2, <1>3, <1>5, <1>6, <1>7 DEF Main

LEMMA RedialReconnect ==
  ASSUME TypeOK, RedialInv, NEW i \in PathIds, Reconnect(i)
  PROVE  RedialInv'
<1> USE DEF mainVars, ctxVars, pathVars, streamVars, senderVars, redialVars,
            packetVars, ReconnectGoes, ReconnectOnly
<1>0. reconnectPc \in [PathIds -> ReconnectPcs] /\ fresh \in [PathIds -> Streams \cup {None}]
  BY DEF TypeOK
<1>1. mainPc # "dial" \/ reconnectPc[i] = "idle"
  BY DEF RedialInv
(* The steps that only move: towards a dial only with the id missing.      *)
<1>2. ASSUME reconnectPc[i] # "idle", reconnectPc'[i] \notin {"add", "spawn"},
             \A j \in PathIds : j # i => reconnectPc'[j] = reconnectPc[j],
             reconnectPc'[i] = "dial" => i \notin IdsOf(paths),
             UNCHANGED <<paths, used, fresh, mainPc, dialNext>>
      PROVE  RedialInv'
  <2>1. UniquePaths'
    BY <1>2 DEF RedialInv, UniquePaths
  <2> QED
    BY <1>1, <1>2, <2>1 DEF RedialInv
<1>3. CASE CheckPresent(i)
  BY <1>0, <1>2, <1>3 DEF CheckPresent
<1>4. CASE CheckMissing(i)
  <2>1. i \notin IdsOf(paths)
    BY <1>4 DEF CheckMissing, HasPathID
  <2> QED
    BY <1>0, <1>2, <1>4, <2>1 DEF CheckMissing
<1>5. CASE ReconnectStops(i)
  BY <1>0, <1>2, <1>5 DEF ReconnectStops
<1>6. CASE ReconnectWakes(i)
  BY <1>0, <1>2, <1>6 DEF ReconnectWakes
<1>7. CASE RedialFails(i)
  BY <1>0, <1>2, <1>7 DEF RedialFails
<1>8. CASE RedialSucceeds(i)
  <2>1. /\ reconnectPc[i] = "dial" /\ reconnectPc' = [reconnectPc EXCEPT ![i] = "add"]
        /\ used' = used + 1 /\ fresh' = [fresh EXCEPT ![i] = used + 1]
        /\ UNCHANGED <<paths, mainPc, dialNext>>
    BY <1>8 DEF RedialSucceeds
  <2>2. /\ used \in Nat /\ \A s \in StreamsOf(paths) : s \in Int
        /\ \A j \in PathIds : fresh[j] \in Int
    BY PathsInRange, Numbers DEF TypeOK, Streams, None
  <2>3. /\ \A s \in StreamsOf(paths) : s <= used' /\ s # used + 1
        /\ \A j \in PathIds : fresh'[j] <= used' /\ fresh[j] # used + 1
        /\ used + 1 # None
    BY <1>0, <2>1, <2>2 DEF RedialInv, None
  <2>4. UniquePaths'
    BY <2>1 DEF RedialInv, UniquePaths
  <2> QED
    BY <1>0, <1>1, <2>1, <2>3, <2>4 DEF RedialInv
<1>9. CASE AddFresh(i)
  <2> DEFINE path == [id |-> i, stream |-> fresh[i]]
  <2>0. paths \in Seq([id : PathIds, stream : Streams])
    BY DEF TypeOK
  <2>1. /\ reconnectPc[i] = "add" /\ reconnectPc' = [reconnectPc EXCEPT ![i] = "spawn"]
        /\ paths' = AddPath(paths, path)
        /\ UNCHANGED <<used, fresh, mainPc, dialNext>>
    BY <1>9 DEF AddFresh
  <2>2. /\ path \in [id : PathIds, stream : Streams]
        /\ path.id = i /\ path.stream = fresh[i]
        /\ i \notin IdsOf(paths) /\ fresh[i] \notin StreamsOf(paths)
    BY <1>0, <2>1 DEF RedialInv
  <2> HIDE DEF path
  <2>3. /\ IdsOf(paths') = IdsOf(paths) \cup {i}
        /\ StreamsOf(paths') = StreamsOf(paths) \cup {fresh[i]}
        /\ UniquePaths'
    BY <2>0, <2>1, <2>2, AddKeepsDistinct
  <2> QED
    BY <1>0, <1>1, <2>1, <2>3 DEF RedialInv
<1>10. CASE SpawnReceiver(i)
  <2>1. /\ reconnectPc[i] = "spawn" /\ reconnectPc' = [reconnectPc EXCEPT ![i] = "check"]
        /\ fresh' = [fresh EXCEPT ![i] = None]
        /\ UNCHANGED <<paths, used, mainPc, dialNext>>
    BY <1>10 DEF SpawnReceiver
  <2>2. None <= used
    BY Numbers DEF TypeOK, None
  <2>3. UniquePaths'
    BY <2>1 DEF RedialInv, UniquePaths
  <2> QED
    BY <1>0, <1>1, <2>1, <2>2, <2>3 DEF RedialInv
<1> QED
  BY <1>3, <1>4, <1>5, <1>6, <1>7, <1>8, <1>9, <1>10
     DEF Reconnect, ReconnectRuns

LEMMA RedialStep ==
  ASSUME TypeOK, RedialInv, [Next]_vars
  PROVE  RedialInv'
<1> USE DEF mainVars, ctxVars, pathVars, streamVars, senderVars, redialVars,
            packetVars
<1>1. CASE Environment
  BY <1>1, RedialFrame DEF Environment, Interrupt, StreamEnds, StreamBreaks,
                           CooldownEnds, redialFrame
<1>2. CASE CloseDevice
  BY <1>2, RedialFrame DEF CloseDevice, redialFrame
<1>3. CASE Sender
  <2>1. CASE SenderRemoves
    BY <2>1, RedialRemove DEF SenderRemoves
  <2>2. CASE ~SenderRemoves
    <3>1. UNCHANGED redialFrame
      BY <1>3, <2>2 DEF Sender, SenderReads, SenderRuns, SenderOnly, ReadPacket,
         ReadDenied, ReadNothing, ReadRetryable, ReadFails, ReadClosed, ReadGivenUp,
         SenderWakes, SenderInterrupted, SenderReports, PickPath, PickNone,
         WriteSucceeds, WriteFails, MarkSuccess, MarkFailure, SenderCloses,
         redialFrame
    <3> QED
      BY <3>1, RedialFrame
  <2> QED
    BY <2>1, <2>2
<1>4. ASSUME NEW s \in Streams, Receiver(s) PROVE RedialInv'
  <2>1. CASE ReceiverRemoves(s)
    BY <2>1, RedialRemove DEF ReceiverRemoves
  <2>2. CASE ~ReceiverRemoves(s)
    <3>1. UNCHANGED redialFrame
      BY <1>4, <2>2 DEF Receiver, ReceiverReads, ReceiverRuns, ReceiverOnly,
         ReceiveFrame, WriteDeviceFails, LockDevice, ReceiveFails, WriteDevice,
         WriteDeviceClosed, ReceiverReports, ReceiverCloses, redialFrame
    <3> QED
      BY <3>1, RedialFrame
  <2> QED
    BY <2>1, <2>2
<1>5. CASE UNCHANGED vars
  BY <1>5, RedialFrame DEF vars, redialFrame
<1> QED
  BY <1>1, <1>2, <1>3, <1>4, <1>5, RedialMain, RedialReconnect DEF Next

-----------------------------------------------------------------------------
(* Failed streams.                                                         *)

(* Streams are dialled once: what has failed stays failed.  The signs of a *)
(* shutdown do not go away either.                                         *)
NoReturn ==
  /\ used <= used'
  /\ \A s \in 1..used : /\ stream[s] # "open" => stream'[s] # "open"
                        /\ ~Writable(s) => ~Writable(s)'
  /\ cancelled => cancelled'
  /\ errCount > 0 => cancelled' \/ errCount' > 0

(* A stream that changes without being dialled gets worse.                 *)
Worsens(s) == \/ stream'[s] = stream[s]
              \/ stream'[s] \in {"broken", "closed"}
              \/ stream[s] = "open" /\ stream'[s] = "eof"

LEMMA FailuresStay ==
  ASSUME TypeOK, RedialInv, [Next]_vars
  PROVE  NoReturn
<1> USE Numbers DEF mainVars, ctxVars, pathVars, streamVars, senderVars, redialVars,
            packetVars
<1>1. /\ used \in Int /\ errCount \in Int /\ 1..used \subseteq Streams
      /\ stream \in [Streams -> {"unused", "open", "eof", "broken", "closed"}]
  BY DEF TypeOK, Streams
<1>2. ASSUME UNCHANGED <<used, stream, cancelled, errCount>> PROVE NoReturn
  BY <1>1, <1>2 DEF NoReturn, Writable
<1>3. ASSUME UNCHANGED <<used, cancelled, errCount>>,
             \A s \in Streams : Worsens(s)
      PROVE  NoReturn
  BY <1>1, <1>3 DEF NoReturn, Writable, Worsens
<1>4. ASSUME used' = used + 1, stream' = [stream EXCEPT ![used + 1] = "open"],
             UNCHANGED <<cancelled, errCount>>
      PROVE  NoReturn
  BY <1>1, <1>4 DEF NoReturn, Writable
<1>5. ASSUME UNCHANGED <<used, stream, cancelled>>, errCount' = errCount + 1
      PROVE  NoReturn
  BY <1>1, <1>5 DEF NoReturn, Writable
<1>6. CASE Environment
  <2>1. CASE Interrupt
    BY <1>1, <2>1 DEF Interrupt, NoReturn, Writable
  <2>2. ASSUME NEW s \in Streams, StreamEnds(s) PROVE NoReturn
    <3>1. \A r \in Streams : Worsens(r)
      BY <1>1, <2>2 DEF StreamEnds, Worsens
    <3> QED
      BY <1>3, <2>2, <3>1 DEF StreamEnds
  <2>3. ASSUME NEW s \in Streams, StreamBreaks(s) PROVE NoReturn
    <3>1. \A r \in Streams : Worsens(r)
      BY <1>1, <2>3 DEF StreamBreaks, Worsens
    <3> QED
      BY <1>3, <2>3, <3>1 DEF StreamBreaks
  <2>4. ASSUME NEW i \in PathIds, CooldownEnds(i) PROVE NoReturn
    BY <1>2, <2>4 DEF CooldownEnds
  <2> QED
    BY <1>6, <2>1, <2>2, <2>3, <2>4 DEF Environment
<1>7. CASE Main
  <2>1. CASE InitialDialSucceeds
    BY <1>4, <2>1 DEF InitialDialSucceeds
  <2>2. CASE ClosePaths
    <3>1. \A r \in Streams : Worsens(r)
      BY <1>1, <2>2 DEF ClosePaths, Worsens
    <3> QED
      BY <1>3, <2>2, <3>1 DEF ClosePaths
  <2>3. CASE SelectError
    BY <1>1, <2>3 DEF SelectError, NoReturn, Writable
  <2>4. CASE InitialDialFails \/ StartGoroutines \/ SelectDone
    BY <1>2, <2>4 DEF InitialDialFails, StartGoroutines, SelectDone
  <2> QED
    BY <1>7, <2>1, <2>2, <2>3, <2>4 DEF Main
<1>8. CASE CloseDevice
  BY <1>2, <1>8 DEF CloseDevice
<1>9. CASE Sender
  <2>1. CASE SenderCloses
    <3>1. \A r \in Streams : Worsens(r)
      BY <1>1, <2>1 DEF SenderCloses, Worsens
    <3> QED
      BY <1>3, <2>1, <3>1 DEF SenderCloses
  <2>2. CASE SenderReports
    BY <1>5, <2>2 DEF SenderReports
  <2>3. CASE ~SenderCloses /\ ~SenderReports
    BY <1>2, <1>9, <2>3 DEF Sender, SenderReads, SenderRuns, SenderOnly,
       ReadPacket, ReadDenied, ReadNothing, ReadRetryable, ReadFails, ReadClosed,
       ReadGivenUp,
       SenderWakes, SenderInterrupted, PickPath, PickNone, WriteSucceeds,
       WriteFails, MarkSuccess, MarkFailure, SenderRemoves
  <2> QED
    BY <2>1, <2>2, <2>3
<1>10. ASSUME NEW s \in Streams, Receiver(s) PROVE NoReturn
  <2>1. CASE ReceiverCloses(s)
    <3>1. \A r \in Streams : Worsens(r)
      BY <1>1, <2>1 DEF ReceiverCloses, Worsens
    <3> QED
      BY <1>3, <2>1, <3>1 DEF ReceiverCloses
  <2>2. CASE ReceiverReports(s)
    BY <1>5, <2>2 DEF ReceiverReports
  <2>3. CASE ~ReceiverCloses(s) /\ ~ReceiverReports(s)
    BY <1>2, <1>10, <2>3 DEF Receiver, ReceiverReads, ReceiverRuns, ReceiverOnly,
       ReceiveFrame, WriteDeviceFails, LockDevice, ReceiveFails, WriteDevice,
       WriteDeviceClosed, ReceiverRemoves
  <2> QED
    BY <2>1, <2>2, <2>3
<1>11. ASSUME NEW i \in PathIds, Reconnect(i) PROVE NoReturn
  <2>1. CASE RedialSucceeds(i)
    BY <1>4, <2>1 DEF RedialSucceeds
  <2>2. CASE AddFresh(i)
    <3>1. \A r \in Streams : Worsens(r)
      BY <1>1, <2>2 DEF AddFresh, Worsens
    <3> QED
      BY <1>3, <2>2, <3>1 DEF AddFresh
  <2>3. CASE ~RedialSucceeds(i) /\ ~AddFresh(i)
    BY <1>2, <1>11, <2>3 DEF Reconnect, ReconnectRuns, ReconnectOnly, CheckPresent,
       CheckMissing, ReconnectStops, ReconnectWakes, RedialFails, SpawnReceiver
  <2> QED
    BY <2>1, <2>2, <2>3
<1>12. CASE UNCHANGED vars
  BY <1>2, <1>12 DEF vars
<1> QED
  BY <1>6, <1>7, <1>8, <1>9, <1>10, <1>11, <1>12 DEF Next

LEMMA FaultInit == Init => FaultInv
BY DEF Init, FaultInv, SenderFault, ReceiverFault

(* Only the sender acts on what it holds; main starts it.                  *)
LEMMA SenderFrame ==
  ASSUME [Next]_vars, ~Sender
  PROVE  /\ UNCHANGED <<held, target>>
         /\ senderPc' = senderPc \/ senderPc' = "read"
<1> USE DEF mainVars, ctxVars, pathVars, streamVars, senderVars, redialVars,
            packetVars
<1>1. CASE Environment
  BY <1>1 DEF Environment, Interrupt, StreamEnds, StreamBreaks, CooldownEnds
<1>2. CASE Main
  BY <1>2 DEF Main, InitialDialSucceeds, InitialDialFails, StartGoroutines,
              SelectDone, SelectError, ClosePaths
<1>3. CASE CloseDevice
  BY <1>3 DEF CloseDevice
<1>4. ASSUME NEW s \in Streams, Receiver(s) PROVE UNCHANGED senderVars
  BY <1>4 DEF Receiver, ReceiverReads, ReceiverRuns, ReceiverOnly, ReceiveFrame,
     WriteDeviceFails, LockDevice, ReceiveFails, WriteDevice, WriteDeviceClosed,
     ReceiverReports, ReceiverRemoves, ReceiverCloses
<1>5. ASSUME NEW i \in PathIds, Reconnect(i) PROVE UNCHANGED senderVars
  BY <1>5 DEF Reconnect, ReconnectRuns, ReconnectOnly, CheckPresent, CheckMissing,
     ReconnectStops, ReconnectWakes, RedialFails, SpawnReceiver, RedialSucceeds,
     AddFresh
<1>6. CASE UNCHANGED vars
  BY <1>6 DEF vars
<1> QED
  BY <1>1, <1>2, <1>3, <1>4, <1>5, <1>6 DEF Next

LEMMA SenderFaultStep ==
  ASSUME TypeOK, RedialInv, FaultInv, NoReturn, [Next]_vars
  PROVE  SenderFault'
<1>0. /\ 1..used \subseteq 1..used'
      /\ \A s \in 1..used : ~Writable(s) => ~Writable(s)'
  <2>1. used \in Int /\ used' \in Int
    BY TypeStep, Numbers DEF TypeOK
  <2>2. \A s \in 1..used : ~Writable(s) => ~Writable(s)'
    BY DEF NoReturn
  <2>3. used <= used'
    BY DEF NoReturn
  <2> QED
    BY <2>1, <2>2, <2>3
<1>1. CASE ~Sender
  <2>1. /\ UNCHANGED <<held, target>>
        /\ senderPc' = senderPc \/ senderPc' = "read"
    BY <1>1, SenderFrame
  <2>2. target.stream \in 1..used /\ ~Writable(target.stream)
          => ~Writable(target.stream)'
    BY <1>0, <2>1 DEF Writable
  <2> QED
    BY <1>0, <2>1, <2>2 DEF FaultInv, SenderFault
<1>2. CASE Sender
  <2> USE DEF FaultInv, SenderFault, Writable, SenderGoes, SenderOnly, mainVars,
          ctxVars, pathVars, streamVars, senderVars, redialVars, packetVars
  <2>1. CASE ReadPacket
    BY <2>1, Numbers DEF ReadPacket, TypeOK, Empty
  <2>2. CASE ReadDenied \/ ReadNothing \/ ReadRetryable \/ ReadFails
             \/ ReadClosed \/ ReadGivenUp
    BY <2>2 DEF ReadDenied, ReadNothing, ReadRetryable, ReadFails, ReadClosed,
       ReadGivenUp
  <2>3. CASE SenderWakes \/ SenderInterrupted \/ SenderReports
    BY <2>3 DEF SenderWakes, SenderInterrupted, SenderReports
  <2>4. CASE PickPath
    <3> DEFINE index == NextIndex(paths, next, cooling)
    <3>1. PathAt(paths, index).stream \in StreamsOf(paths)
      BY <2>4, NextIndexPrefersWarm DEF PickPath, TypeOK
    <3>2. PathAt(paths, index).stream \in Streams /\ PathAt(paths, index).stream <= used
      BY <3>1, PathsInRange DEF RedialInv
    <3>3. /\ senderPc = "pick" /\ senderPc' = "write" /\ UNCHANGED <<used, held>>
          /\ target' = PathAt(paths, index)
      BY <2>4 DEF PickPath
    <3> HIDE DEF index
    <3>4. target'.stream \in 1..used'
      BY <3>2, <3>3, Numbers DEF TypeOK, Streams
    <3> QED
      BY <3>3, <3>4
  <2>5. CASE PickNone
    BY <2>5 DEF PickNone
  <2>6. CASE WriteSucceeds
    BY <2>6 DEF WriteSucceeds
  <2>7. CASE WriteFails
    BY <2>7 DEF WriteFails
  <2>8. CASE MarkSuccess
    BY <2>8 DEF MarkSuccess
  <2>9. CASE MarkFailure
    BY <2>9 DEF MarkFailure
  <2>10. CASE SenderRemoves
    BY <2>10 DEF SenderRemoves
  <2>11. CASE SenderCloses
    BY <2>11 DEF SenderCloses
  <2> QED
    BY <1>2, <2>1, <2>2, <2>3, <2>4, <2>5, <2>6, <2>7, <2>8, <2>9, <2>10, <2>11
       DEF Sender, SenderReads, SenderRuns
<1> QED
  BY <1>1, <1>2

(* The streams of the path set and of the redials have been dialled.       *)
LEMMA DialledStreams ==
  ASSUME TypeOK, RedialInv
  PROVE  /\ StreamsOf(paths) \subseteq Streams
         /\ \A s \in StreamsOf(paths) : s <= used
         /\ \A i \in PathIds : reconnectPc[i] = "spawn" =>
                                  fresh[i] \in Streams /\ fresh[i] <= used
<1>1. StreamsOf(paths) \subseteq Streams /\ \A s \in StreamsOf(paths) : s <= used
  BY PathsInRange DEF RedialInv
<1>2. ASSUME NEW i \in PathIds, reconnectPc[i] = "spawn"
      PROVE  fresh[i] \in Streams /\ fresh[i] <= used
  <2>1. fresh[i] \in Streams \cup {None}
    BY DEF TypeOK
  <2> QED
    BY <1>2, <2>1 DEF RedialInv
<1> QED
  BY <1>1, <1>2

LEMMA StreamNumbersGrow ==
  ASSUME TypeOK, TypeOK', NoReturn, NEW s \in Streams, s <= used
  PROVE  s <= used'
<1>1. used \in Int /\ used' \in Int /\ s \in Int
  BY Numbers DEF TypeOK, Streams
<1> QED
  BY <1>1 DEF NoReturn

LEMMA ReceiverFaultStep ==
  ASSUME TypeOK, RedialInv, FaultInv, NoReturn, [Next]_vars
  PROVE  ReceiverFault'
<1> USE DEF mainVars, ctxVars, pathVars, streamVars, senderVars, redialVars,
            packetVars
<1>0. /\ used \in Int /\ used' \in Int /\ used <= used' /\ Streams \subseteq Nat \ {0}
      /\ errCount \in Nat /\ errCount' \in Nat
      /\ receiverPc \in [Streams -> ReceiverPcs]
  <2>1. TypeOK'
    BY TypeStep
  <2>2. used \in Int /\ used' \in Int /\ Streams \subseteq Nat \ {0}
    BY <2>1, Numbers DEF TypeOK, Streams
  <2>3. errCount \in Nat /\ errCount' \in Nat /\ receiverPc \in [Streams -> ReceiverPcs]
    BY <2>1 DEF TypeOK
  <2>4. used <= used'
    BY DEF NoReturn
  <2> QED
    BY <2>2, <2>3, <2>4
<1>00. TypeOK'
  BY TypeStep
(* What held of the receivers that did not move still holds.               *)
<1>1. ASSUME NEW s \in Streams, receiverPc'[s] = receiverPc[s]
      PROVE  /\ receiverPc'[s] # "none" => s <= used'
             /\ receiverPc'[s] = "remove" =>
                  stream'[s] # "open" \/ cancelled' \/ errCount' > 0
  BY <1>0, <1>1 DEF FaultInv, ReceiverFault, NoReturn
<1>2. ASSUME UNCHANGED receiverPc PROVE ReceiverFault'
  BY <1>1, <1>2 DEF ReceiverFault
(* Receivers are started for streams that have been dialled.               *)
<1>3. CASE StartGoroutines
  <2>1. receiverPc' = [s \in Streams |->
                        IF s \in StreamsOf(paths) THEN "read" ELSE receiverPc[s]]
    BY <1>3 DEF StartGoroutines
  <2>2. ASSUME NEW s \in Streams, s \in StreamsOf(paths)
        PROVE  receiverPc'[s] = "read" /\ s <= used'
    BY <1>00, <2>1, <2>2, DialledStreams, StreamNumbersGrow
  <2>3. ASSUME NEW s \in Streams, s \notin StreamsOf(paths)
        PROVE  receiverPc'[s] = receiverPc[s]
    BY <2>1, <2>3
  <2> QED
    BY <1>1, <2>2, <2>3 DEF ReceiverFault
<1>4. CASE Main /\ ~StartGoroutines
  BY <1>2, <1>4 DEF Main, InitialDialSucceeds, InitialDialFails, SelectDone,
                    SelectError, ClosePaths
<1>5. CASE Environment
  BY <1>2, <1>5 DEF Environment, Interrupt, StreamEnds, StreamBreaks, CooldownEnds
<1>6. CASE CloseDevice
  BY <1>2, <1>6 DEF CloseDevice
<1>7. CASE Sender
  BY <1>2, <1>7 DEF Sender, SenderReads, SenderRuns, SenderOnly,
     ReadPacket, ReadDenied, ReadNothing, ReadRetryable, ReadFails, ReadClosed,
     ReadGivenUp,
     SenderWakes, SenderInterrupted, SenderReports, PickPath, PickNone,
     WriteSucceeds, WriteFails, MarkSuccess, MarkFailure, SenderRemoves,
     SenderCloses
<1>8. ASSUME NEW i \in PathIds, Reconnect(i) PROVE ReceiverFault'
  <2>1. CASE SpawnReceiver(i)
    <3>1. /\ reconnectPc[i] = "spawn"
          /\ receiverPc' = [receiverPc EXCEPT ![fresh[i]] = "read"]
      BY <2>1 DEF SpawnReceiver, ReconnectGoes
    <3>2. fresh[i] \in Streams /\ fresh[i] <= used'
      BY <1>00, <3>1, DialledStreams, StreamNumbersGrow
    <3>3. \A s \in Streams : s # fresh[i] => receiverPc'[s] = receiverPc[s]
      BY <1>0, <3>1
    <3>4. receiverPc'[fresh[i]] = "read"
      BY <1>0, <3>1, <3>2
    <3> QED
      BY <1>1, <3>2, <3>3, <3>4 DEF ReceiverFault
  <2>2. CASE ~SpawnReceiver(i)
    BY <1>2, <1>8, <2>2 DEF Reconnect, ReconnectRuns, ReconnectOnly, CheckPresent,
       CheckMissing, ReconnectStops, ReconnectWakes, RedialFails, RedialSucceeds,
       AddFresh
  <2> QED
    BY <2>1, <2>2
<1>9. ASSUME NEW r \in Streams, Receiver(r) PROVE ReceiverFault'
  <2>1. /\ receiverPc[r] # "none"
        /\ \A s \in Streams : s # r => receiverPc'[s] = receiverPc[s]
    BY <1>0, <1>9 DEF Receiver, ReceiverReads, ReceiverRuns, ReceiverGoes,
       ReceiveFrame, WriteDeviceFails, LockDevice, ReceiveFails, WriteDevice,
       WriteDeviceClosed, ReceiverReports, ReceiverRemoves, ReceiverCloses
  <2>2. r <= used'
    BY <1>0, <2>1 DEF FaultInv, ReceiverFault
  <2>3. receiverPc'[r] = "remove" => stream'[r] # "open" \/ cancelled' \/ errCount' > 0
    <3> USE DEF ReceiverGoes, ReceiverOnly
    <3>1. CASE ReceiveFails(r)
      BY <3>1 DEF ReceiveFails, Readable
    <3>2. CASE WriteDeviceClosed(r)
      BY <3>2 DEF WriteDeviceClosed, FaultInv
    <3>3. CASE ReceiverReports(r)
      BY <1>0, <3>3 DEF ReceiverReports
    <3>4. CASE ReceiveFrame(r) \/ WriteDeviceFails(r) \/ LockDevice(r) \/ WriteDevice(r)
      BY <1>0, <3>4 DEF ReceiveFrame, WriteDeviceFails, LockDevice, WriteDevice
    <3>5. CASE ReceiverRemoves(r) \/ ReceiverCloses(r)
      BY <1>0, <3>5 DEF ReceiverRemoves, ReceiverCloses
    <3> QED
      BY <1>9, <3>1, <3>2, <3>3, <3>4, <3>5
         DEF Receiver, ReceiverReads, ReceiverRuns
  <2> QED
    BY <1>1, <2>1, <2>2, <2>3 DEF ReceiverFault
<1>10. CASE UNCHANGED vars
  BY <1>2, <1>10 DEF vars
<1> QED
  BY <1>3, <1>4, <1>5, <1>6, <1>7, <1>8, <1>9, <1>10 DEF Next

(* The device is closed by the goroutine that waits for the context.       *)
LEMMA DeviceStep ==
  ASSUME [Next]_vars, ~CloseDevice
  PROVE  UNCHANGED deviceOpen
<1> USE DEF mainVars, ctxVars, pathVars, streamVars, senderVars, redialVars,
            packetVars
<1>1. CASE Environment
  BY <1>1 DEF Environment, Interrupt, StreamEnds, StreamBreaks, CooldownEnds
<1>2. CASE Main
  BY <1>2 DEF Main, InitialDialSucceeds, InitialDialFails, StartGoroutines,
              SelectDone, SelectError, ClosePaths
<1>3. CASE Sender
  BY <1>3 DEF Sender, SenderReads, SenderRuns, SenderOnly,
     ReadPacket, ReadDenied, ReadNothing, ReadRetryable, ReadFails, ReadClosed,
     ReadGivenUp,
     SenderWakes, SenderInterrupted, SenderReports, PickPath, PickNone,
     WriteSucceeds, WriteFails, MarkSuccess, MarkFailure, SenderRemoves,
     SenderCloses
<1>4. ASSUME NEW s \in Streams, Receiver(s) PROVE UNCHANGED deviceOpen
  BY <1>4 DEF Receiver, ReceiverReads, ReceiverRuns, ReceiverOnly, ReceiveFrame,
     WriteDeviceFails, LockDevice, ReceiveFails, WriteDevice, WriteDeviceClosed,
     ReceiverReports, ReceiverRemoves, ReceiverCloses
<1>5. ASSUME NEW i \in PathIds, Reconnect(i) PROVE UNCHANGED deviceOpen
  BY <1>5 DEF Reconnect, ReconnectRuns, ReconnectOnly, CheckPresent, CheckMissing,
     ReconnectStops, ReconnectWakes, RedialFails, SpawnReceiver, RedialSucceeds,
     AddFresh
<1>6. CASE UNCHANGED vars
  BY <1>6 DEF vars
<1> QED
  BY <1>1, <1>2, <1>3, <1>4, <1>5, <1>6 DEF Next

LEMMA FaultStep ==
  ASSUME TypeOK, RedialInv, FaultInv, [Next]_vars
  PROVE  FaultInv'
<1>1. NoReturn
  BY FailuresStay
<1>2. SenderFault' /\ ReceiverFault'
  BY <1>1, SenderFaultStep, ReceiverFaultStep
<1>3. ~deviceOpen' => cancelled'
  <2>1. CASE CloseDevice
    BY <2>1 DEF CloseDevice, ctxVars
  <2>2. CASE ~CloseDevice
    BY <2>2, <1>1, DeviceStep DEF FaultInv, NoReturn
  <2> QED
    BY <2>1, <2>2
<1> QED
  BY <1>2, <1>3 DEF FaultInv

-----------------------------------------------------------------------------
(* Theorems.                                                               *)

(* IndInv holds at the start and every step of every goroutine, and of the *)
(* environment, preserves it.                                              *)
THEOREM Inductive == Spec => []IndInv
<1>1. Init => IndInv
  BY TypeInit, RedialInit, FaultInit DEF IndInv
<1>2. IndInv /\ [Next]_vars => IndInv'
  BY TypeStep, RedialStep, FaultStep DEF IndInv
<1> QED
  BY <1>1, <1>2, PTL DEF Spec

(* Every variable keeps its type: in particular next stays inside the path *)
(* slice, so that nextPath never indexes beyond it, errCh is never over    *)
(* full, and the read retries stay within their limit.                     *)
THEOREM TypeCorrect == Spec => []TypeOK
<1>1. IndInv => TypeOK
  BY DEF IndInv
<1> QED
  BY <1>1, Inductive, PTL

(* clientPathSet never holds two paths of one id or one stream twice,      *)
(* although reconnectClientPath looks for the id and adds it in two calls  *)
(* with a dial between them.                                               *)
THEOREM PathsUnique == Spec => []UniquePaths
<1>1. IndInv => UniquePaths
  BY DEF IndInv, RedialInv
<1> QED
  BY <1>1, Inductive, PTL

(* What leaves the path set in one step, whichever goroutine takes it out. *)
LEMMA RemovalStep ==
  ASSUME IndInv, [Next]_vars,
         NEW s \in StreamsOf(paths), s \notin StreamsOf(paths')
  PROVE  stream[s] # "open" \/ cancelled \/ errCount > 0
<1> USE DEF mainVars, ctxVars, pathVars, streamVars, senderVars, redialVars,
            packetVars
<1>0. /\ TypeOK /\ RedialInv /\ FaultInv
      /\ paths \in Seq([id : PathIds, stream : Streams])
  BY DEF IndInv, TypeOK
<1>1. paths' # paths
  OBVIOUS
(* remove takes out the stream it is given and no other.                   *)
<1>2. ASSUME NEW r, paths' = RemovePath(paths, r) PROVE s = r
  <2>1. StreamsOf(paths) \ {r} \subseteq StreamsOf(RemovePath(paths, r))
    BY <1>0, RemovePathProperties
  <2> QED
    BY <1>2, <2>1
<1>3. CASE SenderRemoves
  <2>1. senderPc = "remove" /\ s = target.stream
    BY <1>2, <1>3 DEF SenderRemoves
  <2> QED
    BY <1>0, <2>1 DEF FaultInv, SenderFault, Writable
<1>4. ASSUME NEW r \in Streams, ReceiverRemoves(r)
      PROVE  stream[s] # "open" \/ cancelled \/ errCount > 0
  <2>1. receiverPc[r] = "remove" /\ s = r
    BY <1>2, <1>4 DEF ReceiverRemoves, ReceiverGoes
  <2> QED
    BY <1>0, <2>1 DEF FaultInv, ReceiverFault
(* Adding a path takes nothing out, as its id is missing.                  *)
<1>5. CASE InitialDialSucceeds
  <2>1. paths' = Append(paths, Dialled(dialNext))
    BY <1>5 DEF InitialDialSucceeds
  <2>2. Dialled(dialNext) \in [id : PathIds, stream : Streams]
    BY <1>0, <1>5, Numbers DEF InitialDialSucceeds, Dialled, PathIds, Streams, TypeOK
  <2>3. Len(paths) \in Nat /\ DOMAIN paths = 1..Len(paths)
    BY <1>0, LenProperties
  <2>4. /\ DOMAIN paths' = 1..(Len(paths) + 1)
        /\ \A k \in 1..Len(paths) : paths'[k] = paths[k]
    BY <1>0, <2>1, <2>2, AppendProperties, LenProperties
  <2> QED
    BY <2>3, <2>4 DEF StreamsOf
<1>6. ASSUME NEW i \in PathIds, AddFresh(i)
      PROVE  s \in StreamsOf(paths')
  <2> DEFINE path == [id |-> i, stream |-> fresh[i]]
  <2>1. reconnectPc[i] = "add" /\ paths' = AddPath(paths, path)
    BY <1>6 DEF AddFresh, ReconnectGoes
  <2>2. /\ path \in [id : PathIds, stream : Streams] /\ path.id \notin IdsOf(paths)
        /\ path.stream \notin StreamsOf(paths)
    <3>1. fresh[i] \in Streams \cup {None}
      BY <1>0 DEF TypeOK
    <3> QED
      BY <1>0, <2>1, <3>1 DEF RedialInv
  <2> HIDE DEF path
  <2>3. StreamsOf(paths') = StreamsOf(paths) \cup {path.stream}
    BY <1>0, <2>1, <2>2, AddKeepsDistinct
  <2> QED
    BY <2>3
<1>7. CASE Environment
  BY <1>1, <1>7 DEF Environment, Interrupt, StreamEnds, StreamBreaks, CooldownEnds
<1>8. CASE Main /\ ~InitialDialSucceeds
  BY <1>1, <1>8 DEF Main, InitialDialFails, StartGoroutines, SelectDone,
                    SelectError, ClosePaths
<1>9. CASE CloseDevice
  BY <1>1, <1>9 DEF CloseDevice
<1>10. CASE Sender /\ ~SenderRemoves
  BY <1>1, <1>10 DEF Sender, SenderReads, SenderRuns, SenderOnly,
     ReadPacket, ReadDenied, ReadNothing, ReadRetryable, ReadFails, ReadClosed,
     ReadGivenUp,
     SenderWakes, SenderInterrupted, SenderReports, PickPath, PickNone,
     WriteSucceeds, WriteFails, MarkSuccess, MarkFailure, SenderCloses
<1>11. ASSUME NEW r \in Streams, Receiver(r), ~ReceiverRemoves(r) PROVE FALSE
  BY <1>1, <1>11 DEF Receiver, ReceiverReads, ReceiverRuns, ReceiverOnly,
     ReceiveFrame, WriteDeviceFails, LockDevice, ReceiveFails, WriteDevice,
     WriteDeviceClosed, ReceiverReports, ReceiverCloses
<1>12. ASSUME NEW i \in PathIds, Reconnect(i), ~AddFresh(i) PROVE FALSE
  BY <1>1, <1>12 DEF Reconnect, ReconnectRuns, ReconnectOnly, CheckPresent,
     CheckMissing, ReconnectStops, ReconnectWakes, RedialFails, RedialSucceeds,
     SpawnReceiver
<1>13. CASE UNCHANGED vars
  BY <1>1, <1>13 DEF vars
<1> QED
  BY <1>3, <1>4, <1>5, <1>6, <1>7, <1>8, <1>9, <1>10, <1>11, <1>12, <1>13 DEF Next

(* A stream leaves the path set only after it failed or in a shutdown: the *)
(* sender's removal, decided several steps before it happens, and the      *)
(* receiver's deferred one never hit the stream a redial has put in place  *)
(* of the failed one.                                                      *)
THEOREM OnlyBrokenRemoved == Spec => OnlyBrokenPathsRemoved
<1>1. IndInv /\ [Next]_vars =>
        [\A s \in StreamsOf(paths) \ StreamsOf(paths') :
            stream[s] # "open" \/ cancelled \/ errCount > 0]_vars
  BY RemovalStep
<1> QED
  BY <1>1, Inductive, PTL DEF Spec, OnlyBrokenPathsRemoved

-----------------------------------------------------------------------------
(* The streams.                                                            *)

(* Receivers run once main has started them; a stream that is just being   *)
(* added has none yet.                                                     *)
WatchInv ==
  /\ mainPc = "dial" => /\ senderPc = "idle"
                        /\ \A s \in Streams : receiverPc[s] = "none"
  /\ \A i \in PathIds :
       reconnectPc[i] \in {"add", "spawn"} => receiverPc[fresh[i]] = "none"
  /\ ActivePathsWatched

(* Each goroutine reports once at most, and is past its loop then.         *)
Finished == {s \in Streams : receiverPc[s] \in {"remove", "close", "done"}}
ReportInv ==
  errCount <= Cardinality(Finished) + (IF senderPc = "done" THEN 1 ELSE 0)

(* The sender has a packet in hand from its read to its write or drop.     *)
HandInv == held # Empty <=> senderPc \in {"pick", "write", "fail", "remove", "close"}

(* A live stream that is received from, or is going to be, is active: who  *)
(* takes out another's stream has seen it fail.                            *)
LiveInv ==
  /\ \A s \in Streams :
       receiverPc[s] \in {"read", "lock", "write"} /\ Readable(s) => s \in StreamsOf(paths)
  /\ \A i \in PathIds :
       reconnectPc[i] = "spawn" /\ Readable(fresh[i]) => fresh[i] \in StreamsOf(paths)

StreamInv == WatchInv /\ NoStreamLeaked /\ ReportInv /\ HandInv /\ LiveInv

-----------------------------------------------------------------------------
(* What the steps of each goroutine leave alone.                           *)

LEMMA EnvironmentFrame ==
  ASSUME Environment
  PROVE  UNCHANGED <<mainVars, errCount, paths, used, senderVars, receiverPc, redialVars,
                     packetVars>>
<1> USE DEF mainVars, ctxVars, pathVars, streamVars
<1>1. CASE Interrupt
  BY <1>1 DEF Interrupt
<1>2. ASSUME NEW s \in Streams, StreamEnds(s) \/ StreamBreaks(s)
      PROVE  UNCHANGED <<mainVars, errCount, paths, used, senderVars, receiverPc,
                         redialVars, packetVars>>
  BY <1>2 DEF StreamEnds, StreamBreaks
<1>3. ASSUME NEW i \in PathIds, CooldownEnds(i)
      PROVE  UNCHANGED <<mainVars, errCount, paths, streamVars, senderVars, receiverPc,
                         redialVars, packetVars>>
  BY <1>3 DEF CooldownEnds
<1> QED
  BY <1>1, <1>2, <1>3 DEF Environment

(* Main before the shutdown and the sender.                                *)
LEMMA SenderMoves ==
  ASSUME Sender
  PROVE  /\ UNCHANGED <<mainPc, receiverPc, reconnectPc, fresh>>
         /\ senderPc # "idle" /\ senderPc # "done" /\ senderPc' # "idle"
<1> USE DEF mainVars, redialVars, SenderGoes, SenderOnly
<1>1. CASE SenderReads
  BY <1>1 DEF SenderReads, ReadPacket, ReadDenied, ReadNothing, ReadGivenUp,
     ReadRetryable, ReadFails
<1>2. CASE SenderRemoves
  BY <1>2 DEF SenderRemoves
<1>3. CASE (SenderRuns \/ WriteSucceeds) /\ ~SenderRemoves
  BY <1>3 DEF SenderRuns, ReadClosed, ReadGivenUp, SenderWakes,
     SenderInterrupted, SenderReports,
     PickPath, PickNone, WriteSucceeds, WriteFails, MarkSuccess, MarkFailure, SenderCloses
<1> QED
  BY <1>1, <1>2, <1>3 DEF Sender

(* A receiver moves on, and from the end of its loop only to its end.      *)
LEMMA ReceiverMoves ==
  ASSUME NEW r \in Streams, Receiver(r)
  PROVE  /\ UNCHANGED <<mainPc, senderVars, redialVars, packetVars>>
         /\ \E pc : /\ receiverPc' = [receiverPc EXCEPT ![r] = pc]
                    /\ \/ /\ receiverPc[r] \in {"read", "lock", "write"}
                          /\ pc \in {"read", "lock", "write", "report", "remove"}
                          /\ UNCHANGED <<paths, stream, errCount>>
                       \/ /\ receiverPc[r] = "report" /\ pc = "remove"
                          /\ errCount' = errCount + 1 /\ UNCHANGED <<paths, stream>>
                       \/ /\ receiverPc[r] = "remove"
                          /\ pc = (IF r \in StreamsOf(paths) THEN "close" ELSE "done")
                          /\ paths' = RemovePath(paths, r) /\ UNCHANGED <<stream, errCount>>
                       \/ /\ receiverPc[r] = "close" /\ pc = "done"
                          /\ stream' = [stream EXCEPT ![r] = "closed"]
                          /\ UNCHANGED <<paths, errCount>>
<1> USE DEF mainVars, ctxVars, pathVars, streamVars, ReceiverGoes, ReceiverOnly
<1>1. CASE ReceiveFrame(r) \/ WriteDeviceFails(r) \/ LockDevice(r)
  BY <1>1 DEF ReceiveFrame, WriteDeviceFails, LockDevice
<1>2. CASE ReceiveFails(r) \/ WriteDevice(r) \/ WriteDeviceClosed(r)
  BY <1>2 DEF ReceiveFails, WriteDevice, WriteDeviceClosed
<1>3. CASE ReceiverReports(r)
  BY <1>3 DEF ReceiverReports
<1>4. CASE ReceiverRemoves(r)
  BY <1>4 DEF ReceiverRemoves
<1>5. CASE ReceiverCloses(r)
  BY <1>5 DEF ReceiverCloses
<1> QED
  BY <1>1, <1>2, <1>3, <1>4, <1>5 DEF Receiver, ReceiverReads, ReceiverRuns

(* A reconnect goroutine that neither dials, adds nor spawns only moves.   *)
LEMMA ReconnectMoves ==
  ASSUME NEW i \in PathIds, Reconnect(i)
  PROVE  /\ UNCHANGED <<mainPc, errCount, senderVars, packetVars>>
         /\ \/ RedialSucceeds(i) \/ AddFresh(i) \/ SpawnReceiver(i)
            \/ /\ UNCHANGED <<paths, stream, receiverPc, fresh>>
               /\ reconnectPc[i] \notin {"idle", "add", "spawn"}
               /\ \E pc : /\ reconnectPc' = [reconnectPc EXCEPT ![i] = pc]
                          /\ pc \notin {"add", "spawn"}
BY DEF Reconnect, ReconnectRuns, CheckPresent, CheckMissing, ReconnectStops,
       ReconnectWakes, RedialFails, RedialSucceeds, AddFresh, SpawnReceiver, ReconnectOnly,
       ReconnectGoes, mainVars, ctxVars, pathVars, streamVars

(* What a reconnect goroutine adds is new to the set.                      *)
LEMMA AddedStream ==
  ASSUME TypeOK, RedialInv, NEW i \in PathIds, AddFresh(i)
  PROVE  /\ fresh[i] \in Streams /\ StreamsOf(paths') = StreamsOf(paths) \cup {fresh[i]}
         /\ stream' = stream /\ UNCHANGED <<receiverPc, fresh>>
         /\ reconnectPc[i] = "add" /\ reconnectPc' = [reconnectPc EXCEPT ![i] = "spawn"]
<1> DEFINE path == [id |-> i, stream |-> fresh[i]]
<1>1. /\ reconnectPc[i] = "add" /\ reconnectPc' = [reconnectPc EXCEPT ![i] = "spawn"]
      /\ paths' = AddPath(paths, path) /\ UNCHANGED <<receiverPc, fresh>>
      /\ stream' = [s \in Streams |-> IF s \in Replaced(paths, path)
                                      THEN "closed" ELSE stream[s]]
  BY DEF AddFresh, ReconnectGoes
<1>2. /\ fresh[i] \in Streams /\ i \notin IdsOf(paths)
      /\ paths \in Seq([id : PathIds, stream : Streams])
      /\ stream \in [Streams -> {"unused", "open", "eof", "broken", "closed"}]
  BY <1>1 DEF TypeOK, RedialInv
<1>3. path \in [id : PathIds, stream : Streams] /\ path.id = i /\ path.stream = fresh[i]
  BY <1>2
<1> HIDE DEF path
<1>4. /\ Replaced(paths, path) = {}
      /\ StreamsOf(AddPath(paths, path)) = StreamsOf(paths) \cup {path.stream}
  <2>1. ASSUME NEW P, paths \in Seq(P), NEW p \in P, p.id \notin IdsOf(paths)
        PROVE  /\ Replaced(paths, p) = {}
               /\ StreamsOf(AddPath(paths, p)) = StreamsOf(paths) \cup {p.stream}
    BY <2>1, AddPathProperties
  <2> QED
    BY <1>2, <1>3, <2>1
<1> QED
  BY <1>1, <1>2, <1>3, <1>4

-----------------------------------------------------------------------------
(* Receivers.                                                              *)

LEMMA WatchStep ==
  ASSUME IndInv, WatchInv, [Next]_vars
  PROVE  WatchInv'
<1> USE DEF WatchInv, ActivePathsWatched
<1>0. /\ TypeOK /\ RedialInv /\ FaultInv
      /\ receiverPc \in [Streams -> ReceiverPcs]
      /\ reconnectPc \in [PathIds -> ReconnectPcs]
      /\ fresh \in [PathIds -> Streams \cup {None}] /\ StreamsOf(paths) \subseteq Streams
  <2>1. TypeOK /\ RedialInv /\ FaultInv
    BY DEF IndInv
  <2>2. StreamsOf(paths) \subseteq Streams
    BY <2>1, PathsInRange
  <2> QED
    BY <2>1, <2>2 DEF TypeOK
<1>a. ASSUME NEW s
      PROVE  /\ StreamsOf(RemovePath(paths, s)) \subseteq StreamsOf(paths)
             /\ s \notin StreamsOf(RemovePath(paths, s))
  <2>1. paths \in Seq([id : PathIds, stream : Streams])
    BY <1>0 DEF TypeOK
  <2>2. StreamsDistinct(paths)
    BY <1>0 DEF RedialInv, UniquePaths, Distinct, StreamsDistinct
  <2> QED
    BY <2>1, <2>2, RemovePathProperties
<1>1. ASSUME UNCHANGED <<receiverPc, reconnectPc, fresh>>,
             StreamsOf(paths') \subseteq StreamsOf(paths),
             mainPc' = "dial" <=> mainPc = "dial",
             mainPc = "dial" => senderPc' = senderPc
      PROVE  WatchInv'
  BY <1>1 DEF Watched
<1>2. CASE Environment
  BY <1>1, <1>2, EnvironmentFrame DEF mainVars, senderVars, redialVars
<1>3. CASE Sender
  <2>1. StreamsOf(paths') \subseteq StreamsOf(paths)
    <3>1. CASE SenderRemoves
      BY <1>a, <3>1 DEF SenderRemoves
    <3>2. CASE ~SenderRemoves
      BY <1>3, <3>2 DEF Sender, SenderReads, SenderRuns, SenderOnly, ReadPacket,
         ReadDenied, ReadNothing, ReadRetryable, ReadFails, ReadClosed,
         ReadGivenUp, SenderWakes,
         SenderInterrupted, SenderReports, PickPath, PickNone, WriteSucceeds, WriteFails,
         MarkSuccess, MarkFailure, SenderCloses, pathVars
    <3> QED
      BY <3>1, <3>2
  <2> QED
    BY <1>1, <1>3, <2>1, SenderMoves
<1>4. CASE Main
  <2> USE DEF mainVars, pathVars, senderVars, redialVars
  <2>1. CASE InitialDialSucceeds
    BY <1>0, <2>1 DEF InitialDialSucceeds
  <2>2. CASE InitialDialFails \/ SelectDone \/ SelectError \/ ClosePaths
    BY <1>1, <2>2 DEF InitialDialFails, SelectDone, SelectError, ClosePaths
  <2>3. CASE StartGoroutines
    BY <1>0, <2>3 DEF StartGoroutines, Watched
  <2> QED
    BY <1>4, <2>1, <2>2, <2>3 DEF Main
<1>5. CASE CloseDevice
  BY <1>1, <1>5 DEF CloseDevice, mainVars, pathVars, senderVars, redialVars
<1>6. ASSUME NEW r \in Streams, Receiver(r)
      PROVE  WatchInv'
  <2>1. UNCHANGED <<mainPc, senderPc, reconnectPc, fresh>>
    BY <1>6, ReceiverMoves DEF senderVars, redialVars
  <2>2. PICK pc : /\ receiverPc' = [receiverPc EXCEPT ![r] = pc]
                  /\ receiverPc[r] # "none"
                  /\ Watched(r) => \/ pc \in {"read", "lock", "write", "report", "remove"}
                                   \/ paths' = RemovePath(paths, r)
                  /\ paths' = paths \/ paths' = RemovePath(paths, r)
    BY <1>6, ReceiverMoves DEF Watched
  <2>3. /\ mainPc # "dial"
        /\ \A i \in PathIds : reconnectPc[i] \in {"add", "spawn"} => fresh[i] # r
    BY <2>2
  <2>4. StreamsOf(paths') \subseteq StreamsOf(paths)
    BY <1>a, <2>2
  <2>5. paths' = RemovePath(paths, r) => r \notin StreamsOf(paths')
    BY <1>a
  <2>6. \A s \in StreamsOf(paths') :
          Watched(s)' \/ \E i \in PathIds : reconnectPc[i] = "spawn" /\ fresh[i] = s
    <3> SUFFICES ASSUME NEW s \in StreamsOf(paths')
                 PROVE  Watched(s)' \/ \E i \in PathIds :
                                         reconnectPc[i] = "spawn" /\ fresh[i] = s
      OBVIOUS
    <3>1. \/ Watched(s)
          \/ \E i \in PathIds : reconnectPc[i] = "spawn" /\ fresh[i] = s
      BY <2>3, <2>4
    <3>2. CASE s # r
      BY <1>0, <2>2, <3>1, <3>2 DEF Watched
    <3>3. CASE s = r
      BY <1>0, <2>2, <2>3, <2>5, <3>1, <3>3 DEF Watched
    <3> QED
      BY <3>2, <3>3
  <2> QED
    BY <1>0, <2>1, <2>2, <2>3, <2>6
<1>7. ASSUME NEW i \in PathIds, Reconnect(i)
      PROVE  WatchInv'
  <2>0. mainPc # "dial" /\ mainPc' = mainPc
    <3>1. reconnectPc[i] # "idle"
      BY <1>7 DEF Reconnect, ReconnectRuns, CheckPresent, CheckMissing, ReconnectStops,
         ReconnectWakes, RedialFails, RedialSucceeds, AddFresh, SpawnReceiver, ReconnectGoes
    <3> QED
      BY <1>0, <1>7, <3>1, ReconnectMoves DEF RedialInv
  <2>1. CASE RedialSucceeds(i)
    <3>1. /\ reconnectPc[i] = "dial" /\ reconnectPc' = [reconnectPc EXCEPT ![i] = "add"]
          /\ fresh' = [fresh EXCEPT ![i] = used + 1] /\ UNCHANGED <<paths, receiverPc>>
      BY <2>1 DEF RedialSucceeds, ReconnectGoes, pathVars
    <3>2. receiverPc[used + 1] = "none"
      <4>1. used + 1 \in Streams /\ ~(used + 1 <= used)
        BY <1>0, <2>1, Numbers DEF RedialSucceeds, TypeOK, Streams
      <4> QED
        BY <1>0, <4>1 DEF FaultInv, ReceiverFault
    <3> QED
      BY <1>0, <2>0, <3>1, <3>2 DEF Watched
  <2>2. CASE AddFresh(i)
    BY <1>0, <2>0, <2>2, AddedStream DEF Watched
  <2>3. CASE SpawnReceiver(i)
    <3>1. /\ reconnectPc[i] = "spawn" /\ reconnectPc' = [reconnectPc EXCEPT ![i] = "check"]
          /\ receiverPc' = [receiverPc EXCEPT ![fresh[i]] = "read"]
          /\ fresh' = [fresh EXCEPT ![i] = None] /\ UNCHANGED paths
      BY <2>3 DEF SpawnReceiver, ReconnectGoes, pathVars
    <3>2. fresh[i] # None /\ \A j \in PathIds : i # j => fresh[j] # fresh[i]
      BY <1>0, <3>1 DEF RedialInv
    <3> QED
      BY <1>0, <2>0, <3>1, <3>2 DEF Watched
  <2>4. CASE /\ UNCHANGED <<paths, receiverPc, fresh>>
             /\ reconnectPc[i] \notin {"add", "spawn"}
             /\ \E pc : /\ reconnectPc' = [reconnectPc EXCEPT ![i] = pc]
                        /\ pc \notin {"add", "spawn"}
    BY <1>0, <2>0, <2>4 DEF Watched
  <2> QED
    BY <1>7, <2>1, <2>2, <2>3, <2>4, ReconnectMoves
<1>8. CASE UNCHANGED vars
  BY <1>1, <1>8 DEF vars, mainVars, pathVars, senderVars, redialVars
<1> QED
  BY <1>2, <1>3, <1>4, <1>5, <1>6, <1>7, <1>8 DEF Next

-----------------------------------------------------------------------------
(* Leaks.                                                                  *)

(* A stream somebody accounts for.                                         *)
Kept(s) ==
  \/ s \in StreamsOf(paths)
  \/ \E i \in PathIds : reconnectPc[i] = "add" /\ fresh[i] = s
  \/ senderPc = "close" /\ target.stream = s
  \/ receiverPc[s] = "close"

Alive(s) == stream[s] \in {"open", "eof", "broken"}

LEMMA LeakStep ==
  ASSUME IndInv, WatchInv, NoStreamLeaked, [Next]_vars
  PROVE  NoStreamLeaked'
<1> USE DEF NoStreamLeaked
<1>0. /\ TypeOK /\ RedialInv /\ FaultInv
      /\ receiverPc \in [Streams -> ReceiverPcs]
      /\ reconnectPc \in [PathIds -> ReconnectPcs]
      /\ fresh \in [PathIds -> Streams \cup {None}]
      /\ stream \in [Streams -> {"unused", "open", "eof", "broken", "closed"}]
  BY DEF IndInv, TypeOK
<1>a. ASSUME NEW s
      PROVE  StreamsOf(paths) \ {s} \subseteq StreamsOf(RemovePath(paths, s))
  <2>1. paths \in Seq([id : PathIds, stream : Streams])
    BY <1>0 DEF TypeOK
  <2> QED
    BY <2>1, RemovePathProperties
<1>1. ASSUME \A s \in Streams : Alive(s)' => Alive(s),
             \A s \in Streams : Alive(s)' /\ Kept(s) => Kept(s)'
      PROVE  NoStreamLeaked'
  BY <1>1 DEF Alive, Kept
<1>2. CASE Environment
  <2>1. \A s \in Streams : Alive(s)' => Alive(s)
    BY <1>0, <1>2 DEF Environment, Interrupt, StreamEnds, StreamBreaks, CooldownEnds,
       streamVars, Alive
  <2>2. UNCHANGED <<paths, senderPc, target, receiverPc, reconnectPc, fresh>>
    BY <1>2, EnvironmentFrame DEF senderVars, redialVars
  <2> QED
    BY <1>1, <2>1, <2>2 DEF Kept
<1>3. CASE Sender
  <2>0. senderPc # "idle" /\ UNCHANGED <<receiverPc, reconnectPc, fresh>>
    BY <1>3, SenderMoves
  <2>1. CASE SenderRemoves
    <3>1. /\ senderPc = "remove" /\ UNCHANGED <<stream, target>>
          /\ senderPc' = IF target.stream \in StreamsOf(paths) THEN "close" ELSE "pick"
          /\ paths' = RemovePath(paths, target.stream)
      BY <2>1 DEF SenderRemoves, streamVars
    <3> QED
      BY <1>1, <1>a, <2>0, <3>1 DEF Alive, Kept
  <2>2. CASE SenderCloses
    <3>1. /\ UNCHANGED <<paths, target>>
          /\ stream' = [stream EXCEPT ![target.stream] = "closed"]
      BY <2>2 DEF SenderCloses, pathVars
    <3> QED
      BY <1>0, <1>1, <2>0, <3>1 DEF Alive, Kept
  <2>3. CASE ~SenderRemoves /\ ~SenderCloses
    <3>1. senderPc # "close" /\ UNCHANGED <<paths, stream>>
      BY <1>3, <2>3 DEF Sender, SenderReads, SenderRuns, SenderOnly, SenderGoes,
         ReadPacket, ReadDenied, ReadNothing, ReadRetryable, ReadFails,
         ReadClosed, ReadGivenUp,
         SenderWakes, SenderInterrupted, SenderReports, PickPath, PickNone,
         WriteSucceeds, WriteFails, MarkSuccess, MarkFailure, pathVars, streamVars
    <3> QED
      BY <1>1, <2>0, <3>1 DEF Alive, Kept
  <2> QED
    BY <2>1, <2>2, <2>3
<1>4. CASE Main
  <2> USE DEF pathVars, streamVars, senderVars, redialVars
  <2>1. CASE InitialDialSucceeds
    <3>1. /\ stream' = [stream EXCEPT ![used + 1] = "open"]
          /\ paths' = Append(paths, Dialled(dialNext))
          /\ UNCHANGED <<senderPc, target, receiverPc, reconnectPc, fresh>>
      BY <2>1 DEF InitialDialSucceeds
    <3>2. StreamsOf(paths') = StreamsOf(paths) \cup {used + 1}
      <4>1. paths \in Seq([id : PathIds, stream : Streams])
        BY <1>0 DEF TypeOK
      <4>2. /\ dialNext \in PathIds /\ dialNext \notin IdsOf(paths)
            /\ used + 1 \in Streams
        BY <1>0, <2>1, Numbers
           DEF InitialDialSucceeds, RedialInv, TypeOK, PathIds, Streams
      <4>3. /\ Dialled(dialNext) \in [id : PathIds, stream : Streams]
            /\ Dialled(dialNext).stream = used + 1 /\ Dialled(dialNext).id = dialNext
        BY <4>2 DEF Dialled
      <4>4. ASSUME NEW P, paths \in Seq(P), NEW p \in P, p.id \notin IdsOf(paths)
            PROVE  StreamsOf(Append(paths, p)) = StreamsOf(paths) \cup {p.stream}
        <5>1. AddPath(paths, p) = Append(paths, p)
          BY <4>4, AddPathProperties
        <5>2. StreamsOf(AddPath(paths, p)) = StreamsOf(paths) \cup {p.stream}
          BY <4>4, AddPathProperties
        <5> QED
          BY <5>1, <5>2
      <4> QED
        BY <3>1, <4>1, <4>2, <4>3, <4>4
    <3> QED
      BY <1>0, <3>1, <3>2
  <2>2. CASE ClosePaths
    BY <1>0, <1>1, <2>2 DEF ClosePaths, Alive, Kept
  <2>3. CASE StartGoroutines
    BY <1>0, <1>1, <2>3 DEF StartGoroutines, Alive, Kept, WatchInv, RedialInv
  <2>4. CASE InitialDialFails \/ SelectDone \/ SelectError
    BY <1>1, <2>4 DEF InitialDialFails, SelectDone, SelectError, Alive, Kept
  <2> QED
    BY <1>4, <2>1, <2>2, <2>3, <2>4 DEF Main
<1>5. CASE CloseDevice
  BY <1>1, <1>5 DEF CloseDevice, pathVars, streamVars, senderVars, redialVars, Alive, Kept
<1>6. ASSUME NEW r \in Streams, Receiver(r)
      PROVE  NoStreamLeaked'
  <2>1. UNCHANGED <<senderPc, target, reconnectPc, fresh>>
    BY <1>6, ReceiverMoves DEF senderVars, redialVars
  <2>2. PICK pc : /\ receiverPc' = [receiverPc EXCEPT ![r] = pc]
                  /\ \/ receiverPc[r] # "close" /\ UNCHANGED <<paths, stream>>
                     \/ /\ receiverPc[r] = "remove"
                        /\ r \in StreamsOf(paths) => pc = "close"
                        /\ paths' = RemovePath(paths, r) /\ UNCHANGED stream
                     \/ /\ stream' = [stream EXCEPT ![r] = "closed"]
                        /\ UNCHANGED paths
    BY <1>6, ReceiverMoves
  <2> QED
    BY <1>0, <1>1, <1>a, <2>1, <2>2 DEF Alive, Kept
<1>7. ASSUME NEW i \in PathIds, Reconnect(i)
      PROVE  NoStreamLeaked'
  <2>0. UNCHANGED <<senderPc, target>>
    BY <1>7, ReconnectMoves DEF senderVars
  <2>1. CASE RedialSucceeds(i)
    <3>1. /\ reconnectPc[i] = "dial" /\ reconnectPc' = [reconnectPc EXCEPT ![i] = "add"]
          /\ fresh' = [fresh EXCEPT ![i] = used + 1] /\ UNCHANGED <<paths, receiverPc>>
          /\ stream' = [stream EXCEPT ![used + 1] = "open"]
      BY <2>1 DEF RedialSucceeds, ReconnectGoes, pathVars
    <3> QED
      BY <1>0, <2>0, <3>1
  <2>2. CASE AddFresh(i)
    BY <1>0, <1>1, <2>0, <2>2, AddedStream DEF Alive, Kept
  <2>3. CASE SpawnReceiver(i)
    <3>1. /\ reconnectPc[i] = "spawn" /\ reconnectPc' = [reconnectPc EXCEPT ![i] = "check"]
          /\ receiverPc' = [receiverPc EXCEPT ![fresh[i]] = "read"]
          /\ fresh' = [fresh EXCEPT ![i] = None] /\ UNCHANGED <<paths, stream>>
      BY <2>3 DEF SpawnReceiver, ReconnectGoes, pathVars, streamVars
    <3>2. receiverPc[fresh[i]] = "none"
      BY <3>1 DEF WatchInv
    <3> QED
      BY <1>0, <1>1, <2>0, <3>1, <3>2 DEF Alive, Kept
  <2>4. CASE /\ UNCHANGED <<paths, stream, receiverPc, fresh>>
             /\ reconnectPc[i] \notin {"add", "spawn"}
             /\ \E pc : reconnectPc' = [reconnectPc EXCEPT ![i] = pc]
    BY <1>0, <1>1, <2>0, <2>4 DEF Alive, Kept
  <2> QED
    BY <1>7, <2>1, <2>2, <2>3, <2>4, ReconnectMoves
<1>8. CASE UNCHANGED vars
  BY <1>1, <1>8 DEF vars, pathVars, streamVars, senderVars, redialVars, Alive, Kept
<1> QED
  BY <1>2, <1>3, <1>4, <1>5, <1>6, <1>7, <1>8 DEF Next

-----------------------------------------------------------------------------
(* Reports.                                                                *)

LEMMA Counting ==
  /\ IsFiniteSet(Streams) /\ IsFiniteSet(Finished) /\ Cardinality(Finished) \in Nat
  /\ IsFiniteSet(Finished') /\ Cardinality(Finished') \in Nat
<1>1. IsFiniteSet(Streams)
  BY FS_Interval, Numbers DEF Streams
<1>2. Finished \in SUBSET Streams /\ Finished' \in SUBSET Streams
  BY DEF Finished
<1>3. IsFiniteSet(Finished) /\ IsFiniteSet(Finished')
  BY <1>1, <1>2, FS_Subset
<1> QED
  BY <1>1, <1>3, FS_CardinalityType

LEMMA ReportStep ==
  ASSUME IndInv, WatchInv, ReportInv, [Next]_vars
  PROVE  ReportInv'
<1>0. /\ receiverPc \in [Streams -> ReceiverPcs] /\ errCount \in Nat
      /\ Cardinality(Finished) \in Nat /\ Cardinality(Finished') \in Nat
  BY Counting, Numbers DEF IndInv, TypeOK
<1>1. ASSUME Finished \subseteq Finished', errCount' \in Nat, errCount' <= errCount,
             senderPc = "done" => senderPc' = "done"
      PROVE  ReportInv'
  <2>1. Cardinality(Finished) <= Cardinality(Finished')
    BY <1>1, Counting, FS_Subset
  <2> QED
    BY <1>0, <1>1, <2>1 DEF ReportInv
<1>2. CASE Environment
  BY <1>0, <1>1, <1>2, EnvironmentFrame DEF Finished, senderVars
<1>3. CASE Sender
  <2>1. UNCHANGED receiverPc /\ senderPc # "done"
    BY <1>3, SenderMoves
  <2>2. Finished' = Finished
    BY <2>1 DEF Finished
  <2>3. CASE SenderReports
    <3>1. errCount' = errCount + 1 /\ senderPc' = "done"
      BY <2>3 DEF SenderReports, SenderGoes
    <3> QED
      BY <1>0, <2>1, <2>2, <3>1 DEF ReportInv
  <2>4. CASE ~SenderReports
    <3>1. errCount' = errCount
      BY <1>3, <2>4 DEF Sender, SenderReads, SenderRuns, SenderOnly, ReadPacket,
         ReadDenied, ReadNothing, ReadRetryable, ReadFails, ReadClosed,
         ReadGivenUp, SenderWakes,
         SenderInterrupted, PickPath, PickNone, WriteSucceeds, WriteFails, MarkSuccess,
         MarkFailure, SenderRemoves, SenderCloses, ctxVars
    <3> QED
      BY <1>0, <1>1, <2>1, <2>2, <3>1
  <2> QED
    BY <2>3, <2>4
<1>4. CASE Main
  <2>1. CASE StartGoroutines
    <3>1. Finished = {} /\ errCount' = errCount /\ senderPc # "done"
      BY <2>1 DEF StartGoroutines, WatchInv, Finished, ctxVars
    <3> QED
      BY <1>0, <1>1, <3>1
  <2>2. CASE InitialDialSucceeds \/ InitialDialFails \/ SelectDone \/ ClosePaths
    <3>1. UNCHANGED <<receiverPc, errCount, senderPc>>
      BY <2>2 DEF InitialDialSucceeds, InitialDialFails, SelectDone, ClosePaths, ctxVars,
         senderVars
    <3> QED
      BY <1>0, <1>1, <3>1 DEF Finished
  <2>3. CASE SelectError
    <3>1. /\ UNCHANGED <<receiverPc, senderPc>>
          /\ errCount > 0 /\ errCount' = errCount - 1
      BY <2>3 DEF SelectError, senderVars
    <3> QED
      BY <1>0, <1>1, <3>1 DEF Finished
  <2> QED
    BY <1>4, <2>1, <2>2, <2>3 DEF Main
<1>5. CASE CloseDevice
  BY <1>0, <1>1, <1>5 DEF CloseDevice, Finished, senderVars
<1>6. ASSUME NEW r \in Streams, Receiver(r)
      PROVE  ReportInv'
  <2>1. UNCHANGED senderPc
    BY <1>6, ReceiverMoves DEF senderVars
  <2>2. PICK pc : /\ receiverPc' = [receiverPc EXCEPT ![r] = pc]
                  /\ \/ /\ receiverPc[r] \notin {"remove", "close", "done"}
                        /\ errCount' = errCount
                     \/ /\ receiverPc[r] = "report" /\ pc = "remove"
                        /\ errCount' = errCount + 1
                     \/ pc \in {"close", "done"} /\ errCount' = errCount
    BY <1>6, ReceiverMoves
  <2>3. CASE errCount' = errCount
    <3>1. Finished \subseteq Finished'
      BY <1>0, <2>2, <2>3 DEF Finished
    <3> QED
      BY <1>0, <1>1, <2>1, <2>3, <3>1
  <2>4. CASE errCount' = errCount + 1
    <3>1. receiverPc[r] = "report" /\ pc = "remove"
      BY <1>0, <2>2, <2>4
    <3>2. Finished' = Finished \cup {r} /\ r \notin Finished
      BY <1>0, <2>2, <3>1 DEF Finished
    <3>3. Cardinality(Finished') = Cardinality(Finished) + 1
      BY <3>2, Counting, FS_AddElement
    <3> QED
      BY <1>0, <2>1, <2>4, <3>3 DEF ReportInv
  <2> QED
    BY <2>2, <2>3, <2>4
<1>7. ASSUME NEW i \in PathIds, Reconnect(i)
      PROVE  ReportInv'
  <2>1. UNCHANGED <<errCount, senderPc>>
    BY <1>7, ReconnectMoves DEF senderVars
  <2>2. Finished \subseteq Finished'
    <3>1. CASE SpawnReceiver(i)
      BY <1>0, <3>1 DEF SpawnReceiver, ReconnectGoes, WatchInv, Finished
    <3>2. CASE RedialSucceeds(i)
      BY <3>2 DEF RedialSucceeds, Finished
    <3>3. CASE AddFresh(i)
      BY <3>3 DEF AddFresh, Finished
    <3> QED
      BY <1>7, <3>1, <3>2, <3>3, ReconnectMoves DEF Finished
  <2> QED
    BY <1>0, <1>1, <2>1, <2>2
<1>8. CASE UNCHANGED vars
  BY <1>0, <1>1, <1>8 DEF vars, ctxVars, senderVars, Finished
<1> QED
  BY <1>2, <1>3, <1>4, <1>5, <1>6, <1>7, <1>8 DEF Next

(* Before a redial there are at most NPaths receivers, and those finished  *)
(* are not those that report.                                              *)
LEMMA ReportsFit ==
  ASSUME IndInv, ReportInv
  PROVE  ErrorReportsFit
<1> DEFINE reporting == {s \in Streams : receiverPc[s] = "report"}
<1> SUFFICES ASSUME used <= NPaths
             PROVE  errCount + Cardinality(reporting)
                      + (IF senderPc = "report" THEN 1 ELSE 0) <= ErrChCapacity
  BY DEF ErrorReportsFit
<1>1. used \in Nat /\ errCount \in Nat /\ NPaths \in Nat /\ ErrChCapacity = NPaths + 1
  BY Numbers DEF IndInv, TypeOK, ErrChCapacity, MaxTUNClientErrors
<1>2. IsFiniteSet(1..used) /\ Cardinality(1..used) = used
  BY <1>1, FS_Interval
<1>3. Finished \cup reporting \in SUBSET (1..used) /\ Finished \cap reporting = {}
  BY <1>1 DEF Finished, IndInv, FaultInv, ReceiverFault, Streams
<1>4. /\ IsFiniteSet(Finished \cup reporting)
      /\ Cardinality(Finished \cup reporting) <= used
  BY <1>2, <1>3, FS_Subset
<1>5. /\ IsFiniteSet(Finished) /\ Cardinality(Finished) \in Nat
      /\ IsFiniteSet(reporting) /\ Cardinality(reporting) \in Nat
  <2>1. Finished \in SUBSET (Finished \cup reporting)
        /\ reporting \in SUBSET (Finished \cup reporting)
    OBVIOUS
  <2>2. IsFiniteSet(Finished) /\ IsFiniteSet(reporting)
    BY <1>4, <2>1, FS_Subset
  <2> QED
    BY <2>2, FS_CardinalityType
<1>6. Cardinality(Finished) + Cardinality(reporting) <= used
  <2>1. Cardinality(Finished \cup reporting) =
          Cardinality(Finished) + Cardinality(reporting)
            - Cardinality(Finished \cap reporting)
    BY <1>5, FS_Union
  <2>2. Cardinality(Finished \cap reporting) = 0
    BY <1>3, FS_EmptySet
  <2> QED
    BY <1>4, <1>5, <2>1, <2>2
<1> HIDE DEF reporting
<1> QED
  BY <1>1, <1>5, <1>6 DEF ReportInv

-----------------------------------------------------------------------------
(* The packet in the sender's hand.                                        *)

LEMMA SenderHand ==
  ASSUME IndInv, HandInv, Sender
  PROVE  HandInv'
<1> USE DEF HandInv, SenderGoes, SenderOnly, Empty
<1>1. CASE ReadPacket
  <2>1. taken + 1 # 0
    BY DEF IndInv, TypeOK
  <2> QED
    BY <1>1, <2>1 DEF ReadPacket
<1>2. CASE ReadDenied \/ ReadNothing \/ ReadRetryable \/ ReadFails
  BY <1>2 DEF ReadDenied, ReadNothing, ReadRetryable, ReadFails
<1>3. CASE ReadClosed \/ ReadGivenUp \/ SenderWakes \/ SenderInterrupted \/ SenderReports
  BY <1>3 DEF ReadClosed, ReadGivenUp, SenderWakes, SenderInterrupted, SenderReports
<1>4. CASE PickPath \/ PickNone \/ WriteSucceeds \/ WriteFails
  BY <1>4 DEF PickPath, PickNone, WriteSucceeds, WriteFails
<1>5. CASE MarkSuccess \/ MarkFailure \/ SenderRemoves \/ SenderCloses
  BY <1>5 DEF MarkSuccess, MarkFailure, SenderRemoves, SenderCloses
<1> QED
  BY <1>1, <1>2, <1>3, <1>4, <1>5 DEF Sender, SenderReads, SenderRuns

(* Nobody but the sender touches a packet, and only main starts it.        *)
LEMMA OthersLeaveSender ==
  ASSUME [Next]_vars, ~Sender
  PROVE  /\ UNCHANGED <<held, taken, sent, dropped>>
         /\ senderPc' = senderPc \/ (mainPc = "dial" /\ senderPc' = "read")
<1> USE DEF senderVars, packetVars
<1>1. CASE Main
  BY <1>1 DEF Main, InitialDialSucceeds, InitialDialFails, StartGoroutines, SelectDone,
     SelectError, ClosePaths
<1>2. CASE Environment \/ CloseDevice \/ UNCHANGED vars
  BY <1>2, EnvironmentFrame DEF CloseDevice, vars
<1>3. ASSUME NEW r \in Streams, Receiver(r)
      PROVE  UNCHANGED <<senderPc, held, taken, sent, dropped>>
  BY <1>3, ReceiverMoves
<1>4. ASSUME NEW i \in PathIds, Reconnect(i)
      PROVE  UNCHANGED <<senderPc, held, taken, sent, dropped>>
  BY <1>4, ReconnectMoves
<1> QED
  BY <1>1, <1>2, <1>3, <1>4 DEF Next

LEMMA HandStep ==
  ASSUME IndInv, WatchInv, HandInv, [Next]_vars
  PROVE  HandInv'
<1>1. CASE Sender
  BY <1>1, SenderHand
<1>2. CASE ~Sender
  BY <1>2, OthersLeaveSender DEF HandInv, WatchInv
<1> QED
  BY <1>1, <1>2

LEMMA PromiseInit == Init => Promise!Init
BY DEF Init, Promise!Init, Promise!Nothing, Empty

LEMMA PromiseNext ==
  ASSUME HandInv, [Next]_vars
  PROVE  [Promise!Next]_Promise!fvars
<1> USE DEF Promise!fvars, Promise!Nothing, Empty, packetVars, SenderGoes, HandInv
<1>1. CASE ~Sender
  BY <1>1, OthersLeaveSender
<1>2. CASE ReadPacket
  BY <1>2 DEF ReadPacket, Promise!Next, Promise!Accept
<1>3. CASE ReadDenied
  BY <1>3 DEF ReadDenied, Promise!Next, Promise!Refuse
<1>4. CASE WriteSucceeds
  BY <1>4 DEF WriteSucceeds, Promise!Next, Promise!Deliver
<1>5. CASE PickNone
  <2>1. held # Empty /\ held \notin {Empty}
    BY <1>5 DEF PickNone
  <2>2. dropped' = dropped \cup {held} /\ held' = Empty /\ UNCHANGED <<taken, sent>>
    BY <1>5, <2>1 DEF PickNone
  <2> QED
    BY <2>1, <2>2 DEF Promise!Next, Promise!GiveUp
<1>6. CASE ReadNothing \/ ReadRetryable \/ ReadFails \/ ReadClosed \/ ReadGivenUp
  BY <1>6 DEF ReadNothing, ReadRetryable, ReadFails, ReadClosed, ReadGivenUp
<1>7. CASE SenderWakes \/ SenderInterrupted \/ SenderReports
  BY <1>7 DEF SenderWakes, SenderInterrupted, SenderReports
<1>8. CASE PickPath \/ WriteFails \/ MarkSuccess \/ MarkFailure
  BY <1>8 DEF PickPath, WriteFails, MarkSuccess, MarkFailure
<1>9. CASE SenderRemoves \/ SenderCloses
  BY <1>9 DEF SenderRemoves, SenderCloses
<1> QED
  BY <1>1, <1>2, <1>3, <1>4, <1>5, <1>6, <1>7, <1>8, <1>9
     DEF Sender, SenderReads, SenderRuns

-----------------------------------------------------------------------------
(* Live streams.                                                           *)

LEMMA LiveStep ==
  ASSUME IndInv, WatchInv, LiveInv, [Next]_vars
  PROVE  LiveInv'
<1> USE DEF LiveInv, Readable
<1>0. /\ TypeOK /\ RedialInv /\ FaultInv
      /\ receiverPc \in [Streams -> ReceiverPcs]
      /\ reconnectPc \in [PathIds -> ReconnectPcs]
      /\ fresh \in [PathIds -> Streams \cup {None}]
      /\ stream \in [Streams -> {"unused", "open", "eof", "broken", "closed"}]
  BY DEF IndInv, TypeOK
<1>a. ASSUME NEW s
      PROVE  StreamsOf(paths) \ {s} \subseteq StreamsOf(RemovePath(paths, s))
  <2>1. paths \in Seq([id : PathIds, stream : Streams])
    BY <1>0 DEF TypeOK
  <2> QED
    BY <2>1, RemovePathProperties
<1>b. \A i \in PathIds : reconnectPc[i] = "spawn" => fresh[i] \in Streams
  BY <1>0 DEF RedialInv
<1>1. ASSUME UNCHANGED <<receiverPc, reconnectPc, fresh>>,
             \A s \in Streams : stream'[s] = "open" =>
               stream[s] = "open" /\ (s \in StreamsOf(paths) => s \in StreamsOf(paths'))
      PROVE  LiveInv'
  BY <1>1, <1>b
<1>2. CASE Environment
  <2>1. \A s \in Streams : stream'[s] = "open" => stream[s] = "open"
    BY <1>0, <1>2 DEF Environment, Interrupt, StreamEnds, StreamBreaks, CooldownEnds,
       streamVars
  <2>2. UNCHANGED <<paths, receiverPc, reconnectPc, fresh>>
    BY <1>2, EnvironmentFrame DEF redialVars
  <2> QED
    BY <1>1, <2>1, <2>2
<1>3. CASE Sender
  <2>0. UNCHANGED <<receiverPc, reconnectPc, fresh>>
    BY <1>3, SenderMoves
  <2>1. CASE SenderRemoves
    <3>1. /\ stream' = stream /\ paths' = RemovePath(paths, target.stream)
          /\ ~Writable(target.stream)
      BY <1>0, <2>1 DEF SenderRemoves, streamVars, FaultInv, SenderFault
    <3> QED
      BY <1>1, <1>a, <2>0, <3>1 DEF Writable
  <2>2. CASE SenderCloses
    BY <1>0, <1>1, <2>0, <2>2 DEF SenderCloses, pathVars
  <2>3. CASE ~SenderRemoves /\ ~SenderCloses
    <3>1. UNCHANGED <<paths, stream>>
      BY <1>3, <2>3 DEF Sender, SenderReads, SenderRuns, SenderOnly,
         ReadPacket, ReadDenied, ReadNothing, ReadRetryable, ReadFails,
         ReadClosed, ReadGivenUp,
         SenderWakes, SenderInterrupted, SenderReports, PickPath, PickNone,
         WriteSucceeds, WriteFails, MarkSuccess, MarkFailure, pathVars, streamVars
    <3> QED
      BY <1>1, <2>0, <3>1
  <2> QED
    BY <2>1, <2>2, <2>3
<1>4. CASE Main
  <2> USE DEF pathVars, streamVars, redialVars
  <2>1. CASE InitialDialSucceeds
    <3>1. mainPc = "dial" /\ UNCHANGED <<receiverPc, reconnectPc, fresh>>
      BY <2>1 DEF InitialDialSucceeds
    <3> QED
      BY <1>0, <3>1 DEF WatchInv, RedialInv
  <2>2. CASE ClosePaths
    BY <1>0, <1>1, <2>2 DEF ClosePaths
  <2>3. CASE StartGoroutines
    BY <1>0, <2>3 DEF StartGoroutines, WatchInv
  <2>4. CASE InitialDialFails \/ SelectDone \/ SelectError
    BY <1>1, <2>4 DEF InitialDialFails, SelectDone, SelectError
  <2> QED
    BY <1>4, <2>1, <2>2, <2>3, <2>4 DEF Main
<1>5. CASE CloseDevice
  BY <1>1, <1>5 DEF CloseDevice, pathVars, streamVars, redialVars
<1>6. ASSUME NEW r \in Streams, Receiver(r)
      PROVE  LiveInv'
  <2>1. UNCHANGED <<reconnectPc, fresh>>
    BY <1>6, ReceiverMoves DEF redialVars
  <2>2. PICK pc :
          /\ receiverPc' = [receiverPc EXCEPT ![r] = pc] /\ receiverPc[r] # "none"
          /\ \/ receiverPc[r] \in {"read", "lock", "write"} /\ UNCHANGED <<paths, stream>>
             \/ pc = "remove" /\ UNCHANGED <<paths, stream>>
             \/ /\ paths' = RemovePath(paths, r) /\ pc \in {"close", "done"}
                /\ UNCHANGED stream
             \/ /\ stream' = [stream EXCEPT ![r] = "closed"] /\ pc = "done"
                /\ UNCHANGED paths
    BY <1>6, ReceiverMoves
  <2>3. \A i \in PathIds : reconnectPc[i] = "spawn" => fresh[i] # r
    BY <2>2 DEF WatchInv
  <2> QED
    BY <1>0, <1>a, <1>b, <2>1, <2>2, <2>3
<1>7. ASSUME NEW i \in PathIds, Reconnect(i)
      PROVE  LiveInv'
  <2>1. CASE RedialSucceeds(i)
    <3>1. /\ reconnectPc[i] = "dial" /\ reconnectPc' = [reconnectPc EXCEPT ![i] = "add"]
          /\ fresh' = [fresh EXCEPT ![i] = used + 1] /\ UNCHANGED <<paths, receiverPc>>
          /\ stream' = [stream EXCEPT ![used + 1] = "open"]
      BY <2>1 DEF RedialSucceeds, ReconnectGoes, pathVars
    <3>2. /\ receiverPc[used + 1] = "none"
          /\ \A j \in PathIds : fresh[j] # used + 1
      <4>1. used + 1 \in Streams /\ ~(used + 1 <= used)
        BY <1>0, <2>1, Numbers DEF RedialSucceeds, TypeOK, Streams
      <4> QED
        BY <1>0, <4>1 DEF FaultInv, ReceiverFault, RedialInv
    <3> QED
      BY <1>0, <1>b, <3>1, <3>2
  <2>2. CASE AddFresh(i)
    BY <1>0, <1>b, <2>2, AddedStream
  <2>3. CASE SpawnReceiver(i)
    <3>1. /\ reconnectPc[i] = "spawn" /\ reconnectPc' = [reconnectPc EXCEPT ![i] = "check"]
          /\ receiverPc' = [receiverPc EXCEPT ![fresh[i]] = "read"]
          /\ fresh' = [fresh EXCEPT ![i] = None] /\ UNCHANGED <<paths, stream>>
      BY <2>3 DEF SpawnReceiver, ReconnectGoes, pathVars, streamVars
    <3> QED
      BY <1>0, <1>b, <3>1
  <2>4. CASE /\ UNCHANGED <<paths, stream, receiverPc, fresh>>
             /\ \E pc : /\ reconnectPc' = [reconnectPc EXCEPT ![i] = pc]
                        /\ pc \notin {"add", "spawn"}
    BY <1>0, <2>4
  <2> QED
    BY <1>7, <2>1, <2>2, <2>3, <2>4, ReconnectMoves
<1>8. CASE UNCHANGED vars
  BY <1>1, <1>8 DEF vars, pathVars, streamVars, redialVars
<1> QED
  BY <1>2, <1>3, <1>4, <1>5, <1>6, <1>7, <1>8 DEF Next

-----------------------------------------------------------------------------
(* Theorems.                                                               *)

(* StreamInv holds at the start, and with IndInv every step preserves it.  *)
THEOREM StreamsInductive == Spec => []StreamInv
<1>1. Init => StreamInv
  <2> SUFFICES ASSUME Init PROVE StreamInv
    OBVIOUS
  <2>1. WatchInv /\ HandInv
    BY DEF Init, WatchInv, HandInv, ActivePathsWatched
  <2>2. NoStreamLeaked
    BY DEF Init, NoStreamLeaked
  <2>3. ReportInv
    BY Counting DEF Init, ReportInv
  <2>4. LiveInv
    BY DEF Init, LiveInv
  <2> QED
    BY <2>1, <2>2, <2>3, <2>4 DEF StreamInv
<1>2. IndInv /\ StreamInv /\ [Next]_vars => StreamInv'
  BY WatchStep, LeakStep, ReportStep, HandStep, LiveStep DEF StreamInv
<1> QED
  BY <1>1, <1>2, Inductive, PTL DEF Spec

(* Every active path has a receiver, or is about to get it: nothing stays  *)
(* in clientPathSet that nobody would take out (receivePathPackets, and    *)
(* the go statements that start it, client.go:465 and 637).                *)
THEOREM PathsWatched == Spec => []ActivePathsWatched
<1>1. StreamInv => ActivePathsWatched
  BY DEF StreamInv, WatchInv
<1> QED
  BY <1>1, StreamsInductive, PTL

(* No stream is leaked: until it is closed it is in the path set, on its   *)
(* way in, or in the hands of the goroutine that is about to close it,     *)
(* whichever of the sender and its receiver takes it out first.            *)
THEOREM StreamsNotLeaked == Spec => []NoStreamLeaked
<1>1. StreamInv => NoStreamLeaked
  BY DEF StreamInv
<1> QED
  BY <1>1, StreamsInductive, PTL

(* errCh has room for every report as long as no path was redialled, for   *)
(* every number of paths (pumpTUN, client.go:451).                         *)
THEOREM ReportsFitErrCh == Spec => []ErrorReportsFit
<1>1. IndInv /\ StreamInv => ErrorReportsFit
  BY ReportsFit DEF StreamInv
<1> QED
  BY <1>1, Inductive, StreamsInductive, PTL

(* The sender implements the safety of Forwarder, failover included:       *)
(* packets leave in the order they were read, each once at most, and none  *)
(* is both framed and counted as dropped (sendTUNPackets, client.go:490).  *)
THEOREM SenderKeepsPromise == Spec => Promise!SafeSpec
<1>1. StreamInv /\ [Next]_vars => [Promise!Next]_Promise!fvars
  BY PromiseNext DEF StreamInv
<1> QED
  BY <1>1, PromiseInit, StreamsInductive, PTL DEF Spec, Promise!SafeSpec

(* The sender drops the packet in its hand only if no receiver reads from  *)
(* a live stream: when the path set is empty, every stream that is being   *)
(* received from has failed (client.go:525-530).                           *)
THEOREM FailoverFindsLivePaths == Spec => NoDropWithLivePath
<1>1. ASSUME StreamInv, [Next]_vars, held # Empty, dropped' # dropped,
             NEW s \in Streams, receiverPc[s] = "read"
      PROVE  ~Readable(s)
  <2>1. CASE PickNone
    <3>1. StreamsOf(paths) = {}
      BY <2>1 DEF PickNone, StreamsOf
    <3> QED
      BY <1>1, <3>1 DEF StreamInv, LiveInv
  <2>2. CASE ReadDenied
    BY <1>1, <2>2 DEF ReadDenied, SenderGoes, StreamInv, HandInv
  <2>3. CASE ~PickNone /\ ~ReadDenied
    <3>1. Sender => dropped' = dropped
      BY <2>3 DEF Sender, SenderReads, SenderRuns, ReadPacket, ReadNothing,
         ReadRetryable, ReadFails, ReadClosed, ReadGivenUp, SenderWakes,
         SenderInterrupted,
         SenderReports, PickPath, WriteSucceeds, WriteFails, MarkSuccess, MarkFailure,
         SenderRemoves, SenderCloses, packetVars
    <3> QED
      BY <1>1, <3>1, OthersLeaveSender
  <2> QED
    BY <2>1, <2>2, <2>3
<1>2. StreamInv /\ [Next]_vars =>
        [held # Empty /\ dropped' # dropped
           => \A s \in Streams : receiverPc[s] = "read" => ~Readable(s)]_vars
  BY <1>1
<1> QED
  BY <1>2, StreamsInductive, PTL DEF Spec, NoDropWithLivePath
=============================================================================
