-------------------------- MODULE ServerTUN_proofs --------------------------
(***************************************************************************)
(* Proofs about ServerTUN for every number of connections, packets and     *)
(* retries: the types, that the session's path set holds the streams that  *)
(* are served and no other, that the forwarder goes round them and keeps   *)
(* the promise of Forwarder, and that no goroutine blocks on a report.     *)
(***************************************************************************)
EXTENDS ServerTUN, PathSet_proofs, FunctionTheorems, FiniteSetTheorems

(* A connection has a handler from its accept on, and only its handler     *)
(* closes its stream.                                                      *)
HandlerInv ==
  \A c \in Conns :
    /\ c > used => handlerPc[c] = "none"
    /\ stream[c] = "unused" <=> handlerPc[c] = "none"
    /\ stream[c] = "closed" => handlerPc[c] = "done"

(* A handler adds its stream once, and takes it out before it closes it.   *)
SetInv ==
  /\ StreamsDistinct(paths)
  /\ \A c \in StreamsOf(paths) : handlerPc[c] \in {"read", "lock", "write", "remove"}
  /\ HealthyPathsServe

(* The forwarder has a packet and a path when it uses them, and has seen   *)
(* the stream fail when it takes it out.                                   *)
ForwarderInv ==
  /\ forwarderPc \in {"pick", "write", "drop"} <=> held # Empty
  /\ forwarderPc \in {"write", "drop"} =>
       target.stream \in Conns /\ stream[target.stream] # "unused"
  /\ forwarderPc = "drop" => ~Writable(target.stream)

(* Every goroutine that reports does so once, and then it is done.         *)
Reported(i)  == IF i \in PathIds /\ listenerPc[i] = "done" THEN 1 ELSE 0
Reporting(i) == IF i \in PathIds /\ listenerPc[i] = "report" THEN 1 ELSE 0
ReportInv ==
  errCount <= Reported(0) + Reported(1) + (IF forwarderPc = "done" THEN 1 ELSE 0)

IndInv == TypeOK /\ HandlerInv /\ SetInv /\ ForwarderInv /\ ReportInv

-----------------------------------------------------------------------------
(* Types.                                                                  *)

Path == [id : PathIds, stream : Conns]

LEMMA Numbers ==
  /\ MaxConns \in Nat /\ MaxPackets \in Nat /\ MaxRetries \in Nat
  /\ PathIds \in {{0}, {0, 1}} /\ 0 \in PathIds /\ Empty \notin Packets
<1>1. NPaths = 1 \/ NPaths = 2
  BY NPathsAssumption
<1>2. 0..0 = {0} /\ 0..1 = {0, 1}
  OBVIOUS
<1> QED
  BY <1>1, <1>2, MaxConnsAssumption, MaxPacketsAssumption, MaxRetriesAssumption
     DEF PathIds, Packets, Empty

LEMMA TakesKeepsTypes ==
  ASSUME TypeOK, NEW c, Takes(c)
  PROVE  /\ paths' \in Seq(Path)
         /\ next' \in Nat /\ (next' = 0 \/ next' < Len(paths'))
         /\ seen' \in [Conns -> SUBSET Conns]
<1>1. /\ paths \in Seq(Path) /\ seen \in [Conns -> SUBSET Conns]
      /\ next \in Nat /\ (next = 0 \/ next < Len(paths))
  BY DEF TypeOK, Path
<1>2. /\ paths' = RemovePath(paths, c) /\ next' = NextAfterRemove(paths, next, c)
      /\ seen' = seen \/ seen' = [d \in Conns |-> {}]
  BY DEF Takes
<1>3. paths' \in Seq(Path)
  BY <1>1, <1>2, RemovePathProperties DEF Path
<1>4. next' \in Nat /\ (next' = 0 \/ next' < Len(paths'))
  BY <1>1, <1>2, NextAfterRemoveInRange DEF Path
<1>5. seen' \in [Conns -> SUBSET Conns]
  BY <1>1, <1>2
<1> QED
  BY <1>3, <1>4, <1>5

(* writeNextPath takes a path of the set and stays inside the slice.       *)
LEMMA PickedPath ==
  ASSUME TypeOK, PickPath
  PROVE  /\ target' \in Path /\ target'.stream \in StreamsOf(paths)
         /\ next' \in Nat /\ next' < Len(paths)
         /\ seen' \in [Conns -> SUBSET Conns]
<1> DEFINE turn == next % Len(paths)
<1>1. /\ paths \in Seq(Path) /\ paths # << >> /\ next \in Nat
      /\ seen \in [Conns -> SUBSET Conns]
  BY DEF TypeOK, Path, PickPath
<1>2. Len(paths) \in Nat \ {0} /\ DOMAIN paths = 1..Len(paths)
  BY <1>1, LenProperties, EmptySeq
<1>3. turn \in 0..(Len(paths) - 1)
  BY <1>1, <1>2, ModIsIndex
<1>4. target' = paths[turn + 1] /\ next' = (turn + 1) % Len(paths)
      /\ seen' = Picked(target'.stream)
  BY DEF PickPath, PathAt, NextAfter
<1> HIDE DEF turn
<1>5. next' \in Nat /\ next' < Len(paths)
  <2>1. turn + 1 \in Nat
    BY <1>2, <1>3
  <2>2. next' \in 0..(Len(paths) - 1)
    BY <1>2, <1>4, <2>1, ModIsIndex
  <2> QED
    BY <1>2, <2>2
<1>6. turn + 1 \in DOMAIN paths
  BY <1>2, <1>3
<1>7. target' \in Path
  BY <1>1, <1>2, <1>4, <1>6, ElementOfSeq
<1>8. target'.stream \in StreamsOf(paths)
  BY <1>4, <1>6 DEF StreamsOf
<1>9. seen' \in [Conns -> SUBSET Conns]
  <2>1. target'.stream \in Conns
    BY <1>7 DEF Path
  <2> QED
    BY <1>1, <1>4, <2>1 DEF Picked
<1> QED
  BY <1>5, <1>7, <1>8, <1>9

LEMMA TypeInit == Init => TypeOK
<1> SUFFICES ASSUME Init PROVE TypeOK
  OBVIOUS
<1>1. << >> \in Seq(Path) /\ << >> \in Seq(Packets)
  OBVIOUS
<1>2. cancelled \in BOOLEAN /\ deviceOpen \in BOOLEAN
  BY Zenon DEF Init
<1>3. /\ mainPc = "select" /\ errCount = 0 /\ used = 0 /\ paths = << >> /\ next = 0
      /\ forwarderPc = "read" /\ held = Empty /\ target = NoPath /\ retries = 0
      /\ taken = 0 /\ sent = << >> /\ dropped = {}
  BY DEF Init
<1>4. /\ listenerPc \in [PathIds -> ListenerPcs] /\ pathOf \in [Conns -> PathIds]
      /\ stream \in [Conns -> {"unused", "open", "eof", "broken", "closed"}]
      /\ handlerPc \in [Conns -> HandlerPcs] /\ seen \in [Conns -> SUBSET Conns]
  BY Numbers DEF Init, ListenerPcs, HandlerPcs
<1> QED
  BY <1>1, <1>2, <1>3, <1>4, Numbers DEF TypeOK, ForwarderPcs, Path, ErrChCapacity

LEMMA TypeMain ==
  ASSUME TypeOK, Environment \/ Main \/ CloseDevice
  PROVE  TypeOK'
<1> USE DEF TypeOK, mainVars, connVars, sessionVars, forwarderVars, packetVars,
            MainOnly, ErrChCapacity
<1>1. CASE Interrupt
  BY <1>1 DEF Interrupt
<1>2. ASSUME NEW c \in Conns, StreamEnds(c) \/ StreamBreaks(c) PROVE TypeOK'
  BY <1>2 DEF StreamEnds, StreamBreaks, StreamChanges
<1>3. CASE SelectDone
  BY <1>3 DEF SelectDone
<1>4. CASE SelectError
  BY <1>4 DEF SelectError
<1>5. CASE MainCloses
  BY <1>5 DEF MainCloses
<1>6. CASE MainCancels
  BY <1>6 DEF MainCancels
<1>7. CASE CloseDevice
  BY <1>7 DEF CloseDevice
<1> QED
  BY <1>1, <1>2, <1>3, <1>4, <1>5, <1>6, <1>7 DEF Environment, Main

LEMMA TypeListener ==
  ASSUME TypeOK, NEW i \in PathIds, Listener(i)
  PROVE  TypeOK'
<1> USE DEF TypeOK, mainVars, connVars, sessionVars, forwarderVars, packetVars,
            ListenerGoes, ListenerOnly, ListenerPcs
<1>1. CASE Listens(i) \/ ListenFails(i) \/ ListenerStops(i) \/ AcceptFails(i)
  BY <1>1 DEF Listens, ListenFails, ListenerStops, AcceptFails
<1>2. CASE ListenerReports(i)
  BY <1>2 DEF ListenerReports, ErrChCapacity
<1>3. CASE Accepts(i)
  <2>1. used + 1 \in Conns /\ used' \in 0..MaxConns
    BY <1>3, Numbers DEF Accepts, Conns
  <2> QED
    BY <1>3, <2>1 DEF Accepts, HandlerPcs
<1> QED
  BY <1>1, <1>2, <1>3 DEF Listener, ListenerRuns

LEMMA TypeHandler ==
  ASSUME TypeOK, NEW c \in Conns, Handler(c)
  PROVE  TypeOK'
<1> USE DEF mainVars, connVars, sessionVars, forwarderVars, packetVars, HandlerGoes,
            HandlerOnly, HandlerPcs
<1>1. CASE \/ NoStream(c) \/ StreamFails(c) \/ WriteDevice(c) \/ WriteDeviceFails(c)
           \/ LockDevice(c) \/ StreamArrives(c) \/ ReceiveFrame(c)
  BY <1>1 DEF TypeOK, NoStream, StreamFails, WriteDevice, WriteDeviceFails, LockDevice,
              StreamArrives, ReceiveFrame
<1>2. CASE Joins(c)
  <2>1. paths \in Seq(Path) /\ [id |-> pathOf[c], stream |-> c] \in Path
    BY DEF TypeOK, Path
  <2>2. paths' \in Seq(Path) /\ Len(paths') = Len(paths) + 1
    BY <1>2, <2>1, AppendProperties DEF Joins
  <2>3. Len(paths) \in Nat
    BY <2>1, LenProperties
  <2>4. next' \in Nat /\ (next' = 0 \/ next' < Len(paths'))
    BY <1>2, <2>2, <2>3 DEF Joins, TypeOK
  <2> QED
    BY <1>2, <2>2, <2>4 DEF Joins, TypeOK, Path
<1>3. CASE Leaves(c)
  <2>1. Takes(c)
    BY <1>3 DEF Leaves
  <2> QED
    BY <1>3, <2>1, TakesKeepsTypes DEF Leaves, TypeOK, Path
<1>4. CASE Closes(c)
  BY <1>4 DEF Closes, TypeOK
<1> QED
  BY <1>1, <1>2, <1>3, <1>4 DEF Handler, HandlerRuns

LEMMA TypeForwarder ==
  ASSUME TypeOK, ForwarderInv, Forwarder
  PROVE  TypeOK'
<1> USE Numbers DEF mainVars, connVars, sessionVars, forwarderVars, packetVars,
                    ForwarderGoes, ForwarderOnly, ForwarderPcs
<1>1. CASE ReadPacket \/ ReadDenied
  <2>1. taken + 1 \in Packets /\ taken' \in 0..MaxPackets
    BY <1>1 DEF ReadPacket, ReadDenied, TypeOK, Packets
  <2> QED
    BY <1>1, <2>1 DEF ReadPacket, ReadDenied, TypeOK
<1>2. CASE ReadRetryable
  <2>1. retries \in 0..MaxRetries /\ retries < MaxRetries /\ retries' = retries + 1
    BY <1>2 DEF ReadRetryable, TypeOK
  <2>2. retries' \in 0..MaxRetries
    BY <2>1, Numbers, SMT
  <2> QED
    BY <1>2, <2>2 DEF ReadRetryable, TypeOK
<1>3. CASE ReadNothing
  BY <1>3 DEF ReadNothing, TypeOK
<1>12. CASE ReadClosed \/ ReadGivenUp
  BY <1>12 DEF ReadClosed, ReadGivenUp, TypeOK
<1>11. CASE ReadFails
  BY <1>11 DEF ReadFails, TypeOK
<1>4. CASE ForwarderWakes \/ ForwarderInterrupted
  BY <1>4 DEF ForwarderWakes, ForwarderInterrupted, TypeOK
<1>5. CASE ForwarderReports
  BY <1>5 DEF ForwarderReports, TypeOK, ErrChCapacity
<1>6. CASE PickPath
  <2>1. paths' = paths /\ UNCHANGED <<held, retries, packetVars>>
    BY <1>6 DEF PickPath
  <2> QED
    BY <1>6, <2>1, PickedPath DEF PickPath, TypeOK, Path
<1>7. CASE PickNone
  BY <1>7 DEF PickNone, TypeOK, ForwarderInv
<1>8. CASE WriteSucceeds
  <2>1. sent' \in Seq(Packets)
    BY <1>8, AppendProperties DEF WriteSucceeds, TypeOK, ForwarderInv
  <2> QED
    BY <1>8, <2>1 DEF WriteSucceeds, TypeOK
<1>9. CASE WriteFails
  BY <1>9 DEF WriteFails, TypeOK
<1>10. CASE DropsPath
  <2>1. Takes(target.stream)
    BY <1>10 DEF DropsPath
  <2> QED
    BY <1>10, <2>1, TakesKeepsTypes DEF DropsPath, TypeOK, Path, ForwarderInv
<1> QED
  BY <1>1, <1>2, <1>3, <1>4, <1>5, <1>6, <1>7, <1>8, <1>9, <1>10, <1>11,
     <1>12 DEF Forwarder, ForwarderReads, ForwarderRuns

LEMMA TypeNext ==
  ASSUME TypeOK, ForwarderInv, [Next]_vars
  PROVE  TypeOK'
<1>1. CASE UNCHANGED vars
  BY <1>1 DEF vars, mainVars, connVars, sessionVars, forwarderVars, packetVars, TypeOK
<1> QED
  BY <1>1, TypeMain, TypeListener, TypeHandler, TypeForwarder DEF Next

-----------------------------------------------------------------------------
(* Handlers and their streams.                                             *)

LEMMA ForwarderLeavesHandlers ==
  ASSUME Forwarder
  PROVE  UNCHANGED <<listenerPc, connVars>>
BY DEF Forwarder, ForwarderReads, ForwarderRuns, ReadPacket, ReadDenied, ReadNothing,
       ReadRetryable, ReadFails, ReadClosed, ReadGivenUp, ForwarderWakes,
       ForwarderInterrupted,
       ForwarderReports, PickPath, PickNone, WriteSucceeds, WriteFails, DropsPath,
       ForwarderOnly, connVars

LEMMA HandlerNext ==
  ASSUME TypeOK, HandlerInv, [Next]_vars
  PROVE  HandlerInv'
<1> USE DEF HandlerInv, TypeOK, mainVars, connVars, sessionVars, forwarderVars, packetVars
<1>1. ASSUME NEW i \in PathIds, Accepts(i)
      PROVE  HandlerInv'
  <2>1. used + 1 \in Conns /\ used' = used + 1
    BY <1>1, Numbers DEF Accepts, Conns
  <2> QED
    BY <1>1, <2>1 DEF Accepts, Conns
<1>2. ASSUME NEW i \in PathIds, ListenerRuns(i) \/ AcceptFails(i)
      PROVE  HandlerInv'
  BY <1>2 DEF ListenerRuns, AcceptFails, Listens, ListenFails, ListenerStops,
              ListenerReports, ListenerGoes, ListenerOnly
<1>3. ASSUME NEW c \in Conns, Handler(c)
      PROVE  HandlerInv'
  <2>1. CASE Closes(c)
    BY <1>3, <2>1 DEF Closes, HandlerGoes
  <2>2. CASE Joins(c) \/ Leaves(c)
    BY <1>3, <2>2 DEF Joins, Leaves, HandlerGoes
  <2>3. CASE \/ NoStream(c) \/ StreamFails(c) \/ WriteDevice(c) \/ WriteDeviceFails(c)
             \/ LockDevice(c) \/ StreamArrives(c) \/ ReceiveFrame(c)
    BY <1>3, <2>3 DEF NoStream, StreamFails, WriteDevice, WriteDeviceFails, LockDevice,
                      StreamArrives, ReceiveFrame, HandlerGoes, HandlerOnly
  <2> QED
    BY <1>3, <2>1, <2>2, <2>3 DEF Handler, HandlerRuns
<1>4. ASSUME NEW c \in Conns, StreamEnds(c) \/ StreamBreaks(c)
      PROVE  HandlerInv'
  BY <1>4 DEF StreamEnds, StreamBreaks, StreamChanges
<1>5. CASE UNCHANGED connVars
  BY <1>5
<1>6. CASE Interrupt \/ Main \/ CloseDevice
  BY <1>5, <1>6 DEF Interrupt, Main, SelectDone, SelectError, MainCloses, MainCancels,
                    CloseDevice, MainOnly
<1>7. CASE Forwarder
  BY <1>5, <1>7, ForwarderLeavesHandlers
<1> QED
  BY <1>1, <1>2, <1>3, <1>4, <1>5, <1>6, <1>7 DEF Next, Environment, Listener, vars

-----------------------------------------------------------------------------
(* The path set.                                                           *)

SetFrame == <<paths, stream, handlerPc>>

StreamsUnchanged ==
  /\ StreamsOf(paths') = StreamsOf(paths)
  /\ StreamsDistinct(paths') = StreamsDistinct(paths)

LEMMA StreamsAreConns ==
  ASSUME TypeOK
  PROVE  StreamsOf(paths) \subseteq Conns
<1>1. paths \in Seq(Path)
  BY DEF TypeOK, Path
<1>2. \A k \in DOMAIN paths : paths[k] \in Path
  BY <1>1, LenProperties, ElementOfSeq
<1> QED
  BY <1>2 DEF StreamsOf, Path

LEMMA SetUnchanged ==
  ASSUME SetInv, UNCHANGED SetFrame
  PROVE  SetInv'
BY DEF SetInv, HealthyPathsServe, SetFrame, StreamsDistinct, StreamsOf

(* A path may be taken out of the set when its handler is past reading or  *)
(* its stream has failed.                                                  *)
LEMMA SetTakes ==
  ASSUME TypeOK, SetInv, NEW c \in Conns, Takes(c), stream' = stream,
         NEW pc, handlerPc' = [handlerPc EXCEPT ![c] = pc],
         pc = "close" \/ (pc = handlerPc[c] /\ ~Writable(c))
  PROVE  SetInv'
<1>1. /\ paths \in Seq([id : PathIds, stream : Conns])
      /\ handlerPc \in [Conns -> HandlerPcs] /\ paths' = RemovePath(paths, c)
  BY DEF TypeOK, Takes
<1>2. /\ StreamsDistinct(paths') /\ c \notin StreamsOf(paths')
      /\ StreamsOf(paths') \subseteq StreamsOf(paths)
      /\ StreamsOf(paths) \ {c} \subseteq StreamsOf(paths')
  BY <1>1, RemovePathProperties DEF SetInv
<1>3. StreamsOf(paths) \subseteq Conns
  BY StreamsAreConns
<1>4. \A d \in StreamsOf(paths') : handlerPc'[d] \in {"read", "lock", "write", "remove"}
  BY <1>1, <1>2, <1>3 DEF SetInv
<1>5. HealthyPathsServe'
  BY <1>1, <1>2 DEF SetInv, HealthyPathsServe, Writable
<1> QED
  BY <1>2, <1>4, <1>5 DEF SetInv

LEMMA SetJoins ==
  ASSUME TypeOK, SetInv, NEW c \in Conns, Joins(c)
  PROVE  SetInv'
<1> DEFINE path == [id |-> pathOf[c], stream |-> c]
<1>1. /\ paths \in Seq(Path) /\ path \in Path
      /\ paths' = Append(paths, path) /\ handlerPc \in [Conns -> HandlerPcs]
      /\ handlerPc[c] = "add" /\ handlerPc' = [handlerPc EXCEPT ![c] = "read"]
      /\ stream' = stream
  BY DEF TypeOK, Joins, HandlerGoes, Path
<1>2. /\ Len(paths) \in Nat /\ DOMAIN paths = 1..Len(paths)
      /\ DOMAIN paths' = 1..(Len(paths) + 1)
      /\ paths'[Len(paths) + 1] = path
      /\ \A k \in 1..Len(paths) : paths'[k] = paths[k]
  BY <1>1, LenProperties, AppendProperties
<1>3. c \notin StreamsOf(paths)
  BY <1>1 DEF SetInv
<1>4. StreamsOf(paths') = StreamsOf(paths) \cup {c}
  <2>1. StreamsOf(paths') \subseteq StreamsOf(paths) \cup {c}
    BY <1>2 DEF StreamsOf
  <2>2. StreamsOf(paths) \subseteq StreamsOf(paths')
    BY <1>2 DEF StreamsOf
  <2>3. c \in StreamsOf(paths')
    <3>1. Len(paths) + 1 \in DOMAIN paths' /\ paths'[Len(paths) + 1].stream = c
      BY <1>2
    <3> QED
      BY <3>1 DEF StreamsOf
  <2> QED
    BY <2>1, <2>2, <2>3
<1>5. StreamsDistinct(paths')
  <2> SUFFICES ASSUME NEW k \in DOMAIN paths', NEW l \in DOMAIN paths', k # l
               PROVE  paths'[k].stream # paths'[l].stream
    BY DEF StreamsDistinct
  <2>1. \A m \in 1..Len(paths) : paths[m].stream # c
    BY <1>2, <1>3 DEF StreamsOf
  <2>2. CASE k \in 1..Len(paths) /\ l \in 1..Len(paths)
    BY <1>2, <2>2 DEF SetInv, StreamsDistinct
  <2>3. CASE k = Len(paths) + 1
    BY <1>2, <2>1, <2>3
  <2>4. CASE l = Len(paths) + 1
    BY <1>2, <2>1, <2>4
  <2> QED
    BY <1>2, <2>2, <2>3, <2>4
<1>6. StreamsOf(paths) \subseteq Conns
  BY StreamsAreConns
<1>7. \A d \in StreamsOf(paths') : handlerPc'[d] \in {"read", "lock", "write", "remove"}
  BY <1>1, <1>4, <1>6 DEF SetInv
<1>8. HealthyPathsServe'
  BY <1>1, <1>4 DEF SetInv, HealthyPathsServe
<1> QED
  BY <1>5, <1>7, <1>8 DEF SetInv

LEMMA SetNext ==
  ASSUME TypeOK, HandlerInv, SetInv, ForwarderInv, [Next]_vars
  PROVE  SetInv'
<1> USE DEF SetFrame, mainVars, connVars, sessionVars, forwarderVars, packetVars
<1>0. /\ handlerPc \in [Conns -> HandlerPcs]
      /\ stream \in [Conns -> {"unused", "open", "eof", "broken", "closed"}]
      /\ StreamsOf(paths) \subseteq Conns
  BY StreamsAreConns DEF TypeOK
<1>1. ASSUME NEW i \in PathIds, Accepts(i)
      PROVE  SetInv'
  <2>1. used + 1 \in Conns /\ handlerPc[used + 1] = "none"
    BY <1>1, Numbers DEF Accepts, Conns, HandlerInv, TypeOK
  <2>2. used + 1 \notin StreamsOf(paths)
    BY <2>1 DEF SetInv
  <2>3. /\ paths' = paths /\ stream' = [stream EXCEPT ![used + 1] = "open"]
        /\ handlerPc' = [handlerPc EXCEPT ![used + 1] = "accept"]
    BY <1>1 DEF Accepts
  <2>4. StreamsUnchanged
    BY <2>3 DEF StreamsUnchanged
  <2> QED
    BY <1>0, <2>1, <2>2, <2>3, <2>4 DEF SetInv, HealthyPathsServe, StreamsUnchanged
<1>2. ASSUME NEW i \in PathIds, ListenerRuns(i) \/ AcceptFails(i)
      PROVE  SetInv'
  BY <1>2, SetUnchanged DEF ListenerRuns, AcceptFails, Listens, ListenFails,
     ListenerStops, ListenerReports, ListenerGoes, ListenerOnly
<1>3. ASSUME NEW c \in Conns, Handler(c)
      PROVE  SetInv'
  <2>1. CASE Joins(c)
    BY <2>1, SetJoins
  <2>2. CASE Leaves(c)
    BY <2>2, SetTakes DEF Leaves, HandlerGoes
  <2>3. CASE Closes(c)
    <3>1. /\ handlerPc[c] = "close" /\ paths' = paths
          /\ handlerPc' = [handlerPc EXCEPT ![c] = "done"]
          /\ stream' = [stream EXCEPT ![c] = "closed"]
      BY <2>3 DEF Closes, HandlerGoes
    <3>2. c \notin StreamsOf(paths)
      BY <3>1 DEF SetInv
    <3>3. StreamsUnchanged
      BY <3>1 DEF StreamsUnchanged
    <3> QED
      BY <1>0, <3>1, <3>2, <3>3 DEF SetInv, HealthyPathsServe, StreamsUnchanged
  <2>4. CASE \/ NoStream(c) \/ StreamFails(c) \/ WriteDevice(c) \/ WriteDeviceFails(c)
             \/ LockDevice(c) \/ StreamArrives(c) \/ ReceiveFrame(c)
    <3>1. /\ paths' = paths /\ stream' = stream
          /\ \E pc : /\ handlerPc' = [handlerPc EXCEPT ![c] = pc]
                    /\ \/ handlerPc[c] = "accept" /\ pc \in {"add", "close"}
                       \/ /\ handlerPc[c] \in {"read", "lock", "write"}
                          /\ pc \in {"read", "lock", "write", "remove"}
      BY <2>4 DEF NoStream, StreamFails, WriteDevice, WriteDeviceFails, LockDevice,
                  StreamArrives, ReceiveFrame, HandlerGoes, HandlerOnly
    <3>2. StreamsUnchanged
      BY <3>1 DEF StreamsUnchanged
    <3> QED
      BY <1>0, <3>1, <3>2 DEF SetInv, HealthyPathsServe, StreamsUnchanged
  <2> QED
    BY <1>3, <2>1, <2>2, <2>3, <2>4 DEF Handler, HandlerRuns
<1>4. ASSUME NEW c \in Conns, StreamEnds(c) \/ StreamBreaks(c)
      PROVE  SetInv'
  <2>1. /\ paths' = paths /\ handlerPc' = handlerPc
        /\ \E to \in {"eof", "broken"} : stream' = [stream EXCEPT ![c] = to]
    BY <1>4 DEF StreamEnds, StreamBreaks, StreamChanges
  <2>2. StreamsUnchanged
    BY <2>1 DEF StreamsUnchanged
  <2> QED
    BY <1>0, <2>1, <2>2 DEF SetInv, HealthyPathsServe, StreamsUnchanged
<1>5. CASE Interrupt \/ Main \/ CloseDevice
  BY <1>5, SetUnchanged DEF Interrupt, Main, SelectDone, SelectError, MainCloses,
     MainCancels, CloseDevice, MainOnly
<1>6. CASE DropsPath
  <2>1. target.stream \in Conns /\ ~Writable(target.stream)
    BY <1>6 DEF DropsPath, ForwarderGoes, ForwarderInv
  <2>2. /\ Takes(target.stream) /\ stream' = stream
        /\ handlerPc' = [handlerPc EXCEPT ![target.stream] = handlerPc[target.stream]]
    BY <1>0, <1>6, <2>1 DEF DropsPath
  <2> QED
    BY <2>1, <2>2, SetTakes
<1>7. CASE Forwarder /\ ~DropsPath
  BY <1>7, SetUnchanged DEF Forwarder, ForwarderReads, ForwarderRuns, ReadPacket,
     ReadDenied, ReadNothing, ReadRetryable, ReadFails, ReadClosed, ReadGivenUp,
     ForwarderWakes,
     ForwarderInterrupted, ForwarderReports, PickPath, PickNone, WriteSucceeds,
     WriteFails, ForwarderOnly
<1>8. CASE UNCHANGED vars
  BY <1>8, SetUnchanged DEF vars
<1> QED
  BY <1>1, <1>2, <1>3, <1>4, <1>5, <1>6, <1>7, <1>8 DEF Next, Environment, Listener

-----------------------------------------------------------------------------
(* The forwarder.                                                          *)

(* A stream that the forwarder has in hand keeps its connection, and does  *)
(* not come back once it has failed.                                       *)
LEMMA FailuresStay ==
  ASSUME TypeOK, HandlerInv, [Next]_vars, NEW c \in Conns, stream[c] # "unused"
  PROVE  stream'[c] # "unused" /\ (~Writable(c) => ~Writable(c)')
<1> USE DEF TypeOK, mainVars, connVars, Writable
<1>1. ASSUME NEW i \in PathIds, Accepts(i)
      PROVE  stream'[c] = stream[c]
  <2>1. used + 1 \in Conns /\ handlerPc[used + 1] = "none"
    BY <1>1, Numbers DEF Accepts, Conns, HandlerInv
  <2>2. stream[used + 1] = "unused" /\ stream' = [stream EXCEPT ![used + 1] = "open"]
    BY <1>1, <2>1 DEF HandlerInv, Accepts
  <2> QED
    BY <2>1, <2>2
<1>2. ASSUME NEW d \in Conns, StreamEnds(d) \/ StreamBreaks(d)
      PROVE  stream'[c] # "unused" /\ (~Writable(c) => ~Writable(c)')
  BY <1>2 DEF StreamEnds, StreamBreaks, StreamChanges
<1>3. ASSUME NEW d \in Conns, Closes(d)
      PROVE  stream'[c] # "unused" /\ (~Writable(c) => ~Writable(c)')
  BY <1>3 DEF Closes
<1>4. ASSUME NEW i \in PathIds, ListenerRuns(i) \/ AcceptFails(i)
      PROVE  stream' = stream
  BY <1>4 DEF ListenerRuns, AcceptFails, Listens, ListenFails, ListenerStops,
              ListenerReports, ListenerOnly
<1>5. ASSUME NEW d \in Conns, Handler(d), ~Closes(d)
      PROVE  stream' = stream
  BY <1>5 DEF Handler, HandlerRuns, NoStream, Joins, StreamFails, WriteDevice,
              WriteDeviceFails, Leaves, LockDevice, StreamArrives, ReceiveFrame, HandlerOnly
<1>6. CASE Interrupt \/ Main \/ CloseDevice
  BY <1>6 DEF Interrupt, Main, SelectDone, SelectError, MainCloses, MainCancels,
              CloseDevice, MainOnly
<1>7. CASE Forwarder
  BY <1>7, ForwarderLeavesHandlers
<1>8. CASE UNCHANGED vars
  BY <1>8 DEF vars
<1> QED
  BY <1>1, <1>2, <1>3, <1>4, <1>5, <1>6, <1>7, <1>8 DEF Next, Environment, Listener

LEMMA OthersLeaveForwarder ==
  ASSUME [Next]_vars, ~Forwarder
  PROVE  UNCHANGED <<forwarderPc, held, target, packetVars>>
<1> USE DEF forwarderVars, packetVars
<1>1. CASE Environment
  BY <1>1 DEF Environment, Interrupt, StreamEnds, StreamBreaks, StreamChanges
<1>2. CASE Main \/ CloseDevice
  BY <1>2 DEF Main, SelectDone, SelectError, MainCloses, MainCancels, CloseDevice, MainOnly
<1>3. ASSUME NEW i \in PathIds, Listener(i)
      PROVE  UNCHANGED <<forwarderPc, held, target, packetVars>>
  BY <1>3 DEF Listener, ListenerRuns, Accepts, AcceptFails, Listens, ListenFails,
              ListenerStops, ListenerReports, ListenerOnly
<1>4. ASSUME NEW c \in Conns, Handler(c)
      PROVE  UNCHANGED <<forwarderPc, held, target, packetVars>>
  BY <1>4 DEF Handler, HandlerRuns, NoStream, Joins, StreamFails, WriteDevice, Closes,
              WriteDeviceFails, Leaves, LockDevice, StreamArrives, ReceiveFrame, HandlerOnly
<1> QED
  BY <1>1, <1>2, <1>3, <1>4 DEF Next, vars

LEMMA ForwarderNext ==
  ASSUME TypeOK, HandlerInv, SetInv, ForwarderInv, [Next]_vars
  PROVE  ForwarderInv'
<1> USE DEF ForwarderInv
<1>1. CASE ~Forwarder
  BY <1>1, OthersLeaveForwarder, FailuresStay
<1>2. CASE Forwarder
  <2> USE DEF ForwarderGoes
  <2>1. stream' = stream
    BY <1>2, ForwarderLeavesHandlers DEF connVars
  <2>2. CASE PickPath
    <3>1. target'.stream \in Conns /\ target'.stream \in StreamsOf(paths)
      BY <2>2, PickedPath, StreamsAreConns
    <3>2. handlerPc[target'.stream] # "none"
      BY <3>1 DEF SetInv
    <3>3. stream[target'.stream] # "unused"
      BY <3>1, <3>2 DEF HandlerInv
    <3> QED
      BY <2>1, <2>2, <3>1, <3>3 DEF PickPath
  <2>3. CASE WriteFails
    BY <2>1, <2>3 DEF WriteFails, ForwarderOnly, Writable
  <2>4. CASE ReadPacket
    <3>1. held' # Empty
      BY <2>4, Numbers DEF ReadPacket, TypeOK, Empty
    <3> QED
      BY <2>4, <3>1 DEF ReadPacket
  <2>5. CASE ReadDenied \/ ReadNothing \/ ReadGivenUp \/ ReadRetryable \/ ReadFails
    BY <2>5 DEF ReadDenied, ReadNothing, ReadGivenUp, ReadRetryable, ReadFails
  <2>6. CASE (ForwarderRuns \/ WriteSucceeds) /\ ~PickPath /\ ~WriteFails
    BY <2>6 DEF ForwarderRuns, ReadClosed, ReadGivenUp, ForwarderWakes,
       ForwarderInterrupted,
                ForwarderReports, PickNone, WriteSucceeds, DropsPath
  <2> QED
    BY <1>2, <2>2, <2>3, <2>4, <2>5, <2>6 DEF Forwarder, ForwarderReads
<1> QED
  BY <1>1, <1>2

-----------------------------------------------------------------------------
(* Reports.                                                                *)

LEMMA ReportNext ==
  ASSUME TypeOK, ReportInv, [Next]_vars
  PROVE  ReportInv'
<1> USE DEF ReportInv, Reported, mainVars, forwarderVars
<1>0. /\ errCount \in Nat /\ listenerPc \in [PathIds -> ListenerPcs]
      /\ PathIds \subseteq {0, 1}
  BY Numbers DEF TypeOK, ErrChCapacity
<1>1. CASE UNCHANGED <<errCount, listenerPc, forwarderPc>>
  BY <1>1
<1>2. CASE SelectError
  BY <1>0, <1>2 DEF SelectError, MainOnly
<1>3. CASE Environment \/ SelectDone \/ MainCloses \/ MainCancels \/ CloseDevice
  <2>1. UNCHANGED <<errCount, listenerPc, forwarderPc>>
    BY <1>3 DEF Environment, Interrupt, StreamEnds, StreamBreaks, StreamChanges, SelectDone,
                MainCloses, MainCancels, CloseDevice, MainOnly
  <2> QED
    BY <1>1, <2>1
<1>4. ASSUME NEW i \in PathIds, Listener(i)
      PROVE  ReportInv'
  <2>1. CASE Accepts(i)
    BY <1>1, <2>1 DEF Accepts
  <2>2. CASE ListenerReports(i)
    BY <1>0, <2>2 DEF ListenerReports, ListenerGoes
  <2>3. CASE Listens(i) \/ ListenFails(i) \/ ListenerStops(i) \/ AcceptFails(i)
    <3>1. /\ errCount' = errCount /\ forwarderPc' = forwarderPc
          /\ listenerPc[i] \in {"listen", "accept"}
          /\ \E pc : listenerPc' = [listenerPc EXCEPT ![i] = pc]
      BY <2>3 DEF Listens, ListenFails, ListenerStops, AcceptFails, ListenerGoes,
                  ListenerOnly
    <3> QED
      BY <1>0, <3>1
  <2> QED
    BY <1>4, <2>1, <2>2, <2>3 DEF Listener, ListenerRuns
<1>5. ASSUME NEW c \in Conns, Handler(c)
      PROVE  ReportInv'
  <2>1. UNCHANGED <<errCount, listenerPc, forwarderPc>>
    BY <1>5 DEF Handler, HandlerRuns, NoStream, Joins, StreamFails, WriteDevice, Closes,
                WriteDeviceFails, Leaves, LockDevice, StreamArrives, ReceiveFrame,
                HandlerOnly
  <2> QED
    BY <1>1, <2>1
<1>6. CASE Forwarder
  <2> USE DEF ForwarderGoes
  <2>1. listenerPc' = listenerPc /\ forwarderPc # "done"
    BY <1>6, ForwarderLeavesHandlers DEF Forwarder, ForwarderReads, ForwarderRuns,
       ReadPacket, ReadDenied, ReadNothing, ReadRetryable, ReadFails, ReadClosed,
       ReadGivenUp,
       ForwarderWakes, ForwarderInterrupted, ForwarderReports, PickPath, PickNone,
       WriteSucceeds, WriteFails, DropsPath
  <2>2. CASE ForwarderReports
    BY <1>0, <2>1, <2>2 DEF ForwarderReports
  <2>3. CASE ~ForwarderReports
    <3>1. errCount' = errCount
      BY <1>6, <2>3 DEF Forwarder, ForwarderReads, ForwarderRuns, ReadPacket, ReadDenied,
         ReadNothing, ReadRetryable, ReadFails, ReadClosed, ReadGivenUp,
         ForwarderWakes,
         ForwarderInterrupted, PickPath, PickNone, WriteSucceeds, WriteFails, DropsPath,
         ForwarderOnly
    <3> QED
      BY <1>0, <2>1, <3>1
  <2> QED
    BY <2>2, <2>3
<1>7. CASE UNCHANGED vars
  BY <1>1, <1>7 DEF vars
<1> QED
  BY <1>2, <1>3, <1>4, <1>5, <1>6, <1>7 DEF Next, Main

(* A set of listeners is counted one by one.                               *)
LEMMA CountListeners ==
  ASSUME NEW S \in SUBSET PathIds
  PROVE  Cardinality(S) = (IF 0 \in S THEN 1 ELSE 0) + (IF 1 \in S THEN 1 ELSE 0)
<1>1. S \in {{}, {0}, {1}, {0, 1}}
  BY Numbers
<1>2. Cardinality({}) = 0 /\ Cardinality({0}) = 1 /\ Cardinality({1}) = 1
  BY FS_EmptySet, FS_Singleton
<1>3. Cardinality({0, 1}) = 2
  <2>1. IsFiniteSet({0}) /\ Cardinality({0}) = 1 /\ {0, 1} = {0} \cup {1}
    BY FS_Singleton
  <2>2. Cardinality({0} \cup {1}) = Cardinality({0}) + 1
    BY <2>1, FS_AddElement
  <2> QED
    BY <2>1, <2>2
<1> QED
  BY <1>1, <1>2, <1>3

LEMMA ReportsFit ==
  ASSUME TypeOK, ReportInv
  PROVE  NoReportBlocks
<1> DEFINE S == {i \in PathIds : listenerPc[i] = "report"}
<1>1. Cardinality(S) = Reporting(0) + Reporting(1)
  BY CountListeners DEF Reporting
<1> HIDE DEF S
<1>2. /\ Reported(0) + Reporting(0) <= 1 /\ Reported(1) + Reporting(1) <= 1
      /\ \A i \in {0, 1} : Reported(i) \in {0, 1} /\ Reporting(i) \in {0, 1}
  BY DEF Reported, Reporting
<1>3. errCount \in Nat
  BY DEF TypeOK, ErrChCapacity
<1>4. errCount + Cardinality(S) + (IF forwarderPc = "report" THEN 1 ELSE 0) <= 3
  BY <1>1, <1>2, <1>3 DEF ReportInv
<1> QED
  BY <1>4 DEF NoReportBlocks, ErrChCapacity, S

-----------------------------------------------------------------------------
(* The invariant holds for every instance.                                 *)

LEMMA IndInit == Init => IndInv
<1> SUFFICES ASSUME Init PROVE IndInv
  OBVIOUS
<1>1. /\ used = 0 /\ paths = << >> /\ forwarderPc = "read" /\ errCount = 0
      /\ stream = [c \in Conns |-> "unused"] /\ handlerPc = [c \in Conns |-> "none"]
      /\ listenerPc = [i \in PathIds |-> "listen"]
  BY DEF Init
<1>2. HandlerInv
  BY <1>1 DEF HandlerInv
<1>3. SetInv
  <2>1. StreamsOf(paths) = {} /\ StreamsDistinct(paths)
    BY <1>1 DEF StreamsOf, StreamsDistinct
  <2> QED
    BY <1>1, <2>1 DEF SetInv, HealthyPathsServe
<1>4. ForwarderInv
  <2>1. held = Empty
    BY DEF Init
  <2> QED
    BY <1>1, <2>1 DEF ForwarderInv
<1>5. ReportInv
  BY <1>1 DEF ReportInv, Reported
<1> QED
  BY <1>2, <1>3, <1>4, <1>5, TypeInit DEF IndInv

(* The inductive invariant of the server (runTUNServer and what it starts). *)
THEOREM Inductive == Spec => []IndInv
<1>1. IndInv /\ [Next]_vars => IndInv'
  BY TypeNext, HandlerNext, SetNext, ForwarderNext, ReportNext DEF IndInv
<1> QED
  BY <1>1, IndInit, PTL DEF Spec

(* Every variable keeps its type: the rotation stays inside the slice that *)
(* shrinks under it, and errCh within its capacity.                        *)
THEOREM TypeCorrect == Spec => []TypeOK
<1>1. IndInv => TypeOK
  BY DEF IndInv
<1> QED
  BY <1>1, Inductive, PTL

LEMMA StreamCount ==
  ASSUME TypeOK, StreamsDistinct(paths)
  PROVE  Cardinality(StreamsOf(paths)) = Len(paths)
<1> DEFINE f == [k \in 1..Len(paths) |-> paths[k].stream]
<1>1. Len(paths) \in Nat /\ DOMAIN paths = 1..Len(paths)
  BY LenProperties DEF TypeOK
<1>2. f \in Bijection(1..Len(paths), StreamsOf(paths))
  <2>1. f \in [1..Len(paths) -> StreamsOf(paths)]
    BY <1>1 DEF StreamsOf
  <2>2. \A k, l \in 1..Len(paths) : f[k] = f[l] => k = l
    BY <1>1 DEF StreamsDistinct
  <2>3. \A s \in StreamsOf(paths) : \E k \in 1..Len(paths) : f[k] = s
    BY <1>1 DEF StreamsOf
  <2> QED
    BY <2>1, <2>2, <2>3, Fun_IsBij
<1>3. ExistsBijection(1..Len(paths), StreamsOf(paths))
  BY <1>2 DEF ExistsBijection
<1> QED
  BY <1>1, <1>3, FS_CountingElements

(* The session's path set holds no stream twice and none that is closed,   *)
(* and each of its streams has a handler that is going to take it out      *)
(* (handleTUNQUICConnection, server.go:228-273; removePath, 343-359).      *)
THEOREM StreamsAreServed == Spec => []PathsServed
<1>1. IndInv => PathsServed
  <2> SUFFICES ASSUME IndInv PROVE PathsServed
    OBVIOUS
  <2>1. Cardinality(StreamsOf(paths)) = Len(paths)
    BY StreamCount DEF IndInv, SetInv
  <2>2. \A c \in StreamsOf(paths) :
          handlerPc[c] \in {"read", "lock", "write", "remove"} /\ stream[c] # "closed"
    BY StreamsAreConns DEF IndInv, SetInv, HandlerInv
  <2> QED
    BY <2>1, <2>2 DEF PathsServed
<1> QED
  BY <1>1, Inductive, PTL

(* A live stream that is read from is in the set: no step of the forwarder *)
(* or of another handler takes it out.                                     *)
THEOREM LiveStreamsStay == Spec => []HealthyPathsServe
<1>1. IndInv => HealthyPathsServe
  BY DEF IndInv, SetInv
<1> QED
  BY <1>1, Inductive, PTL

(* errCh has room for every report there will ever be (server.go:125).     *)
THEOREM ReportsNeverBlock == Spec => []NoReportBlocks
<1>1. IndInv => NoReportBlocks
  BY ReportsFit DEF IndInv
<1> QED
  BY <1>1, Inductive, PTL

-----------------------------------------------------------------------------
(* The refinement of Forwarder.                                            *)

LEMMA PromiseInit == Init => Promise!Init
BY DEF Init, Promise!Init, Promise!Nothing, Empty

LEMMA PromiseNext ==
  ASSUME IndInv, [Next]_vars
  PROVE  [Promise!Next]_Promise!fvars
<1> USE DEF Promise!fvars, Promise!Nothing, Empty, packetVars, ForwarderGoes
<1>1. CASE ~Forwarder
  BY <1>1, OthersLeaveForwarder
<1>2. CASE ReadPacket
  <2>1. held = Empty
    BY <1>2 DEF ReadPacket, IndInv, ForwarderInv
  <2> QED
    BY <1>2, <2>1 DEF ReadPacket, Promise!Next, Promise!Accept
<1>3. CASE ReadDenied
  <2>1. held = Empty
    BY <1>3 DEF ReadDenied, IndInv, ForwarderInv
  <2> QED
    BY <1>3, <2>1 DEF ReadDenied, Promise!Next, Promise!Refuse
<1>4. CASE WriteSucceeds
  <2>1. held # Empty
    BY <1>4 DEF WriteSucceeds, IndInv, ForwarderInv
  <2> QED
    BY <1>4, <2>1 DEF WriteSucceeds, Promise!Next, Promise!Deliver
<1>5. CASE PickNone \/ DropsPath
  <2>1. held # Empty
    BY <1>5 DEF PickNone, DropsPath, IndInv, ForwarderInv
  <2> QED
    BY <1>5, <2>1 DEF PickNone, DropsPath, Promise!Next, Promise!GiveUp
<1>6. CASE ReadNothing \/ ReadRetryable \/ ReadFails \/ ReadClosed \/ ReadGivenUp
  BY <1>6 DEF ReadNothing, ReadRetryable, ReadFails, ReadClosed, ReadGivenUp
<1>7. CASE ForwarderWakes \/ ForwarderInterrupted \/ ForwarderReports
  BY <1>7 DEF ForwarderWakes, ForwarderInterrupted, ForwarderReports
<1>8. CASE PickPath \/ WriteFails
  BY <1>8 DEF PickPath, WriteFails
<1> QED
  BY <1>1, <1>2, <1>3, <1>4, <1>5, <1>6, <1>7, <1>8
     DEF Forwarder, ForwarderReads, ForwarderRuns

(* The forwarder implements the promise of Forwarder: packets leave in the *)
(* order they were read, each once at most, and what is not framed is      *)
(* counted as dropped (forwardDevicePackets, server.go:369-435).           *)
THEOREM ForwarderKeepsPromise == Spec => ForwardsAtMostOnce
<1>1. IndInv /\ [Next]_vars => [Promise!Next]_Promise!fvars
  BY PromiseNext
<1>2. Spec => Promise!SafeSpec
  BY <1>1, PromiseInit, Inductive, PTL DEF Spec, Promise!SafeSpec
<1> QED
  BY <1>2 DEF ForwardsAtMostOnce

-----------------------------------------------------------------------------
(* The rotation.                                                           *)

(* The place of position k in the order in which the forwarder will come   *)
(* to it.  A stream that went while another waited comes after that one.   *)
Turn(k) == IF k > next THEN k ELSE k + Len(paths)
TurnInv ==
  /\ \A s \in Conns : seen[s] \subseteq StreamsOf(paths)
  /\ \A s \in Conns : s \notin StreamsOf(paths) => seen[s] = {}
  /\ \A k, l \in 1..Len(paths) :
       paths[l].stream \in seen[paths[k].stream] => Turn(k) < Turn(l)

LEMMA PathFacts ==
  ASSUME TypeOK
  PROVE  /\ Len(paths) \in Nat /\ DOMAIN paths = 1..Len(paths)
         /\ \A k \in 1..Len(paths) : paths[k].stream \in StreamsOf(paths)
         /\ \A k \in 1..Len(paths) : paths[k].stream \in Conns
         /\ next \in Nat /\ (next = 0 \/ next < Len(paths))
         /\ seen \in [Conns -> SUBSET Conns]
<1>1. paths \in Seq([id : PathIds, stream : Conns])
  BY DEF TypeOK
<1>2. Len(paths) \in Nat /\ DOMAIN paths = 1..Len(paths)
  BY <1>1, LenProperties
<1>3. \A k \in 1..Len(paths) : paths[k].stream \in StreamsOf(paths)
  BY <1>2 DEF StreamsOf
<1>4. StreamsOf(paths) \subseteq Conns
  BY StreamsAreConns
<1> QED
  BY <1>2, <1>3, <1>4 DEF TypeOK

LEMMA PickedTurn ==
  ASSUME TypeOK, PickPath
  PROVE  /\ next + 1 \in 1..Len(paths) /\ target'.stream = paths[next + 1].stream
         /\ next' = (IF next + 1 < Len(paths) THEN next + 1 ELSE 0)
         /\ seen' = Picked(target'.stream) /\ paths' = paths
<1>1. /\ paths # << >> /\ paths \in Seq([id : PathIds, stream : Conns])
      /\ target' = PathAt(paths, next % Len(paths))
      /\ next' = NextAfter(paths, next % Len(paths))
      /\ seen' = Picked(target'.stream) /\ paths' = paths
  BY DEF PickPath, TypeOK
<1>2. Len(paths) \in Nat \ {0} /\ next \in 0..(Len(paths) - 1)
  BY <1>1, PathFacts, EmptySeq
<1>3. next % Len(paths) = next
  BY <1>2, ModOfIndex
<1>4. (next + 1) % Len(paths) = IF next + 1 < Len(paths) THEN next + 1 ELSE 0
  <2>1. CASE next + 1 < Len(paths)
    <3>1. next + 1 \in 0..(Len(paths) - 1)
      BY <1>2, <2>1
    <3> QED
      BY <1>2, <2>1, <3>1, ModOfIndex
  <2>2. CASE ~(next + 1 < Len(paths))
    <3>1. next + 1 = 0 + Len(paths) /\ 0 \in 0..(Len(paths) - 1)
      BY <1>2, <2>2
    <3>2. (0 + Len(paths)) % Len(paths) = 0
      BY <1>2, <3>1, ModOfIndex
    <3> QED
      BY <2>2, <3>1, <3>2
  <2> QED
    BY <2>1, <2>2
<1> QED
  BY <1>1, <1>2, <1>3, <1>4 DEF PathAt, NextAfter

(* The stream that goes is last in line from then on.                      *)
LEMMA TurnPick ==
  ASSUME TypeOK, SetInv, TurnInv, PickPath
  PROVE  TurnInv'
<1>0. /\ Len(paths) \in Nat /\ next \in Nat /\ seen \in [Conns -> SUBSET Conns]
      /\ \A k \in 1..Len(paths) : paths[k].stream \in StreamsOf(paths)
      /\ \A k \in 1..Len(paths) : paths[k].stream \in Conns
  BY PathFacts
<1>1. /\ next + 1 \in 1..Len(paths) /\ target'.stream = paths[next + 1].stream
      /\ next' = (IF next + 1 < Len(paths) THEN next + 1 ELSE 0)
      /\ seen' = Picked(paths[next + 1].stream) /\ paths' = paths
  BY PickedTurn
<1>2. /\ \A s \in Conns : seen'[s] \subseteq StreamsOf(paths')
      /\ \A s \in Conns : s \notin StreamsOf(paths') => seen'[s] = {}
  BY <1>0, <1>1 DEF TurnInv, Picked
<1>3. ASSUME NEW k \in 1..Len(paths), NEW l \in 1..Len(paths),
             paths[l].stream \in seen'[paths[k].stream]
      PROVE  Turn(k)' < Turn(l)'
  <2>1. k # next + 1
    BY <1>0, <1>1, <1>3 DEF Picked
  <2>2. paths[l].stream \in seen[paths[k].stream] \/ l = next + 1
    <3>1. \/ paths[l].stream \in seen[paths[k].stream]
          \/ paths[l].stream = paths[next + 1].stream
      BY <1>0, <1>1, <1>3 DEF Picked
    <3> QED
      BY <1>1, <3>1, PathFacts DEF SetInv, StreamsDistinct
  <2>3. CASE l = next + 1
    BY <1>0, <1>1, <2>1, <2>3 DEF Turn
  <2>4. CASE paths[l].stream \in seen[paths[k].stream]
    <3>1. Turn(k) < Turn(l)
      BY <2>4 DEF TurnInv
    <3> QED
      BY <1>0, <1>1, <2>1, <3>1 DEF Turn
  <2> QED
    BY <2>2, <2>3, <2>4
<1> QED
  BY <1>1, <1>2, <1>3 DEF TurnInv

(* A stream that joins has waited for nobody, and nobody has seen it go.   *)
LEMMA TurnJoins ==
  ASSUME TypeOK, SetInv, TurnInv, NEW c \in Conns, Joins(c)
  PROVE  TurnInv'
<1> DEFINE path == [id |-> pathOf[c], stream |-> c]
<1>0. /\ Len(paths) \in Nat /\ next \in Nat /\ DOMAIN paths = 1..Len(paths)
      /\ \A k \in 1..Len(paths) : paths[k].stream \in StreamsOf(paths)
      /\ \A k \in 1..Len(paths) : paths[k].stream \in Conns
  BY PathFacts
<1>1. /\ paths \in Seq(Path) /\ path \in Path /\ path.stream = c
      /\ paths' = Append(paths, path) /\ handlerPc[c] = "add"
      /\ next' = next /\ seen' = seen
  BY DEF TypeOK, Joins, HandlerGoes, Path
<1> HIDE DEF path
<1>2. /\ Len(paths') = Len(paths) + 1 /\ DOMAIN paths' = 1..(Len(paths) + 1)
      /\ paths'[Len(paths) + 1] = path
      /\ \A k \in 1..Len(paths) : paths'[k] = paths[k]
  BY <1>1, LenProperties, AppendProperties
<1>3. c \notin StreamsOf(paths)
  BY <1>1 DEF SetInv
<1>4. StreamsOf(paths) \subseteq StreamsOf(paths')
  BY <1>0, <1>2 DEF StreamsOf
<1>5. ASSUME NEW k \in 1..Len(paths'), NEW l \in 1..Len(paths'),
             paths'[l].stream \in seen[paths'[k].stream]
      PROVE  Turn(k)' < Turn(l)'
  <2>1. k # Len(paths) + 1 /\ l # Len(paths) + 1
    <3>1. seen[c] = {} /\ \A s \in Conns : c \notin seen[s]
      BY <1>3 DEF TurnInv
    <3>2. k # Len(paths) + 1
      BY <1>1, <1>2, <1>5, <3>1
    <3>3. k \in 1..Len(paths)
      BY <1>0, <1>2, <3>2
    <3>4. paths'[k].stream \in Conns
      BY <1>0, <1>2, <3>3
    <3> QED
      BY <1>1, <1>2, <1>5, <3>1, <3>2, <3>4
  <2>2. k \in 1..Len(paths) /\ l \in 1..Len(paths)
    BY <1>0, <1>2, <2>1
  <2>3. Turn(k) < Turn(l)
    BY <1>2, <1>5, <2>2 DEF TurnInv
  <2> QED
    BY <1>0, <1>1, <1>2, <2>2, <2>3 DEF Turn
<1> QED
  BY <1>1, <1>4, <1>5 DEF TurnInv

(* A departure starts the count again.                                     *)
LEMMA TurnTakes ==
  ASSUME TypeOK, SetInv, TurnInv, NEW c \in Conns, Takes(c)
  PROVE  TurnInv'
<1>1. CASE paths' = paths
  <2>1. c \notin StreamsOf(paths)
    <3>1. paths \in Seq([id : PathIds, stream : Conns])
      BY DEF TypeOK
    <3>2. c \notin StreamsOf(RemovePath(paths, c))
      BY <3>1, RemovePathProperties DEF SetInv
    <3> QED
      BY <1>1, <3>2 DEF Takes
  <2> QED
    BY <1>1, <2>1 DEF Takes, NextAfterRemove, TurnInv, Turn
<1>2. CASE paths' # paths
  <2>1. seen' = [d \in Conns |-> {}]
    BY <1>2 DEF Takes
  <2>2. \A k \in 1..Len(paths') : paths'[k].stream \in Conns
    <3>1. paths' \in Seq(Path)
      BY TakesKeepsTypes
    <3>2. \A k \in 1..Len(paths') : paths'[k] \in Path
      BY <3>1, ElementOfSeq
    <3> QED
      BY <3>2 DEF Path
  <2> QED
    BY <2>1, <2>2 DEF TurnInv
<1> QED
  BY <1>1, <1>2

LEMMA TurnNext ==
  ASSUME IndInv, TurnInv, [Next]_vars
  PROVE  TurnInv'
<1> USE DEF mainVars, connVars, sessionVars, forwarderVars, packetVars
<1>0. TypeOK /\ SetInv /\ ForwarderInv
  BY DEF IndInv
<1>1. ASSUME UNCHANGED <<paths, next, seen>> PROVE TurnInv'
  BY <1>1 DEF TurnInv, Turn
<1>2. CASE PickPath
  BY <1>0, <1>2, TurnPick
<1>3. ASSUME NEW c \in Conns, Joins(c) PROVE TurnInv'
  BY <1>0, <1>3, TurnJoins
<1>4. ASSUME NEW c \in Conns, Leaves(c) PROVE TurnInv'
  BY <1>0, <1>4, TurnTakes DEF Leaves
<1>5. CASE DropsPath
  <2>1. target.stream \in Conns /\ Takes(target.stream)
    BY <1>0, <1>5 DEF DropsPath, ForwarderGoes, ForwarderInv
  <2> QED
    BY <1>0, <2>1, TurnTakes
<1>6. CASE Forwarder /\ ~PickPath /\ ~DropsPath
  BY <1>1, <1>6 DEF Forwarder, ForwarderReads, ForwarderRuns, ReadPacket, ReadDenied,
     ReadNothing, ReadRetryable, ReadFails, ReadClosed, ReadGivenUp, ForwarderWakes,
     ForwarderInterrupted, ForwarderReports, PickNone, WriteSucceeds, WriteFails,
     ForwarderOnly
<1>7. ASSUME NEW c \in Conns, Handler(c), ~Joins(c), ~Leaves(c) PROVE TurnInv'
  BY <1>1, <1>7 DEF Handler, HandlerRuns, NoStream, StreamFails, WriteDevice, Closes,
     WriteDeviceFails, LockDevice, StreamArrives, ReceiveFrame, HandlerOnly
<1>8. ASSUME NEW i \in PathIds, Listener(i) PROVE TurnInv'
  BY <1>1, <1>8 DEF Listener, ListenerRuns, Accepts, AcceptFails, Listens, ListenFails,
     ListenerStops, ListenerReports, ListenerOnly
<1>9. CASE Environment \/ Main \/ CloseDevice \/ UNCHANGED vars
  BY <1>1, <1>9 DEF Environment, Interrupt, StreamEnds, StreamBreaks, StreamChanges,
     Main, SelectDone, SelectError, MainCloses, MainCancels, CloseDevice, MainOnly, vars
<1> QED
  BY <1>2, <1>3, <1>4, <1>5, <1>6, <1>7, <1>8, <1>9 DEF Next

(* The forwarder goes round: between two departures it picks no stream     *)
(* twice while another one waits, whatever streams join in between         *)
(* (writeNextPath, server.go:413-421).                                     *)
THEOREM ForwarderGoesRound == Spec => RoundRobin
<1>1. Init => TurnInv
  BY DEF Init, TurnInv, StreamsOf
<1>2. IndInv /\ TurnInv /\ [Next]_vars => TurnInv'
  BY TurnNext
<1>3. Spec => []TurnInv
  BY <1>1, <1>2, Inductive, PTL DEF Spec
<1>4. ASSUME IndInv, TurnInv, [Next]_vars, NEW s \in StreamsOf(paths),
             forwarderPc = "pick", forwarderPc' = "write", s # target'.stream
      PROVE  target'.stream \notin seen[s]
  <2>1. PickPath
    <3>1. Forwarder
      BY <1>4, OthersLeaveForwarder
    <3> QED
      BY <1>4, <3>1 DEF Forwarder, ForwarderReads, ForwarderRuns, ForwarderGoes,
         ReadPacket, ReadDenied, ReadNothing, ReadRetryable, ReadFails,
         ReadClosed, ReadGivenUp,
         ForwarderWakes, ForwarderInterrupted, ForwarderReports, PickNone, WriteSucceeds,
         WriteFails, DropsPath
  <2>2. TypeOK
    BY <1>4 DEF IndInv
  <2>3. PICK k \in 1..Len(paths) : paths[k].stream = s
    BY <2>2, PathFacts DEF StreamsOf
  <2>4. next + 1 \in 1..Len(paths) /\ target'.stream = paths[next + 1].stream
    BY <2>1, <2>2, PickedTurn
  <2>5. Turn(next + 1) <= Turn(k)
    BY <2>2, <2>4, PathFacts DEF Turn
  <2>6. Turn(next + 1) \in Nat /\ Turn(k) \in Nat
    BY <2>2, <2>4, PathFacts DEF Turn
  <2> QED
    BY <1>4, <2>3, <2>4, <2>5, <2>6 DEF TurnInv
<1>5. IndInv /\ TurnInv /\ [Next]_vars =>
        [\A s \in StreamsOf(paths) :
           forwarderPc = "pick" /\ forwarderPc' = "write" /\ s # target'.stream
             => target'.stream \notin seen[s]]_vars
  BY <1>4
<1> QED
  BY <1>3, <1>5, Inductive, PTL DEF Spec, RoundRobin
=============================================================================
