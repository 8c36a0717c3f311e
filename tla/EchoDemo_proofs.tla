--------------------------- MODULE EchoDemo_proofs ---------------------------
(***************************************************************************)
(* Proofs about EchoDemo for every set of configurations, every count of   *)
(* requests and every number of sequence numbers: the types, that accepted *)
(* replies answer their own requests, that the client closes what it has   *)
(* opened, and that no end runs without the files it is configured with.   *)
(***************************************************************************)
EXTENDS EchoDemo, SequenceTheorems, TLAPS

PathLists == {<< >>, <<0>>, <<1>>, <<0, 1>>}

(* The client dials the configured servers in their order, all of them     *)
(* before the first request, and the scheduler turns among them.           *)
DialInv ==
  /\ cc.servers \in PathLists /\ cc.count \in Int
  /\ dialled \in PathLists /\ turn \in Nat /\ (turn = 0 \/ turn < Len(dialled))
  /\ Len(dialled) <= Len(cc.servers)
  /\ \A k \in 1..Len(dialled) : dialled[k] = cc.servers[k]
  /\ clientPc \in {"dial", "send", "wait"} => ClientAccepts(cc)
  /\ clientPc \in {"send", "wait"} => dialled # << >>
  /\ path \in PathIds /\ requests \in Nat
  /\ requests <= (IF cc.count > 0 THEN cc.count ELSE 0)

(* The program counters, and the ends of the connections.                  *)
PcInv ==
  /\ clientPc \in {"start", "dial", "send", "wait", "close", "done"}
  /\ serverPc \in {"start", "select", "returned"} /\ cancelled \in BOOLEAN
  /\ errCount \in 0..ErrChCapacity
  /\ clientEnd \in [PathIds -> {"none", "open", "broken", "closed"}]
  /\ serverEnd \in [PathIds -> {"none", "open", "broken", "closed"}]
  /\ listener \in [PathIds -> {"off", "listen", "accept", "report", "done"}]
  /\ handler \in [PathIds -> {"none", "queued", "accept", "read", "reply", "done"}]

(* One packet at most is under way: the latest request or its reply, on    *)
(* the path the client waits for; none when the client is about to send.   *)
Reply == [seq |-> requests % SeqMod, n |-> requests, virtual |-> sc.virtual,
          client |-> sc.client]
FlightInv ==
  /\ up \in [PathIds -> {<< >>, <<Request(requests)>>}]
  /\ down \in [PathIds -> {<< >>, <<Reply>>}]
  /\ \A p \in PathIds :
       /\ up[p] = << >> \/ down[p] = << >>
       /\ handler[p] = "reply" => up[p] # << >>
       /\ clientPc \in {"start", "dial", "send"} => up[p] = << >> /\ down[p] = << >>
       /\ up[p] # << >> \/ down[p] # << >> => p = path

(* The replies accepted so far are those of all requests but the one that  *)
(* is waited for.                                                          *)
AnswerInv ==
  /\ answered \in Seq(Nat)
  /\ \A k \in 1..Len(answered) : answered[k] = k
  /\ clientPc \in {"start", "dial", "send", "wait"} => result = "none"
  /\ clientPc \in {"start", "dial", "send"} => Len(answered) = requests
  /\ clientPc = "wait" => Len(answered) = requests - 1
  /\ result = "ok" => Len(answered) = cc.count

(* The client has a connection on the paths it has dialled only.           *)
EndInv ==
  \A p \in PathIds :
    /\ clientEnd[p] \in {"open", "broken"} => p \in Range(dialled)
    /\ clientPc \in {"start", "done"} => clientEnd[p] \in {"none", "closed"}

(* Whoever dials has a sound configuration and a server that satisfies it,  *)
(* a listener has a sound one, and a handler has a client that satisfies it. *)
CheckInv ==
  /\ dialled # << >> => ClientAccepts(cc) /\ ServerVerified(cc, sc)
  /\ \A p \in PathIds :
       /\ listener[p] # "off" => ServerAccepts(sc)
       /\ handler[p] \in {"none", "done"} \/ ClientVerified(cc, sc)

IndInv == DialInv /\ PcInv /\ FlightInv /\ AnswerInv /\ EndInv /\ CheckInv

-----------------------------------------------------------------------------
(* The two servers are dialled one after the other.                        *)
LEMMA BothServers == Append(<<0>>, 1) = <<0, 1>>
<1>1. <<0>> \in Seq(Nat) /\ <<0, 1>> \in Seq(Nat)
  OBVIOUS
<1>2. Append(<<0>>, 1) \in Seq(Nat) /\ Len(Append(<<0>>, 1)) = 2
  BY <1>1
<1>3. \A i \in 1..2 : Append(<<0>>, 1)[i] = <<0, 1>>[i]
  BY <1>1
<1> QED
  BY <1>1, <1>2, <1>3, SeqEqual

LEMMA IndInit == Init => IndInv
<1> SUFFICES ASSUME Init PROVE IndInv
  OBVIOUS
<1>1. PICK config \in Configs : cc = config[1] /\ sc = config[2]
  BY DEF Init
<1>2. cc.servers \in PathLists /\ cc.count \in Int
  BY <1>1, ConfigsAssumption DEF PathLists
<1>3. DialInv
  <2>1. dialled = << >> /\ turn = 0 /\ path = 0 /\ requests = 0 /\ clientPc = "start"
    BY DEF Init
  <2>2. Len(cc.servers) \in Nat
    BY <1>2 DEF PathLists
  <2> QED
    BY <1>2, <2>1, <2>2 DEF DialInv, PathLists, PathIds
<1>4. PcInv
  <2>1. cancelled \in BOOLEAN
    BY DEF Init
  <2>2. /\ clientPc = "start" /\ serverPc = "start" /\ errCount = 0
        /\ clientEnd \in [PathIds -> {"none", "open", "broken", "closed"}]
        /\ serverEnd \in [PathIds -> {"none", "open", "broken", "closed"}]
        /\ listener \in [PathIds -> {"off", "listen", "accept", "report", "done"}]
        /\ handler \in [PathIds -> {"none", "queued", "accept", "read", "reply", "done"}]
    BY DEF Init
  <2> QED
    BY <2>1, <2>2 DEF PcInv, ErrChCapacity
<1>5. FlightInv
  BY DEF Init, FlightInv
<1>6. AnswerInv
  BY DEF Init, AnswerInv
<1>7. EndInv /\ CheckInv
  BY DEF Init, EndInv, CheckInv
<1> QED
  BY <1>3, <1>4, <1>5, <1>6, <1>7 DEF IndInv

(* Each part is kept by every step.                                        *)
LEMMA KeepsDialled ==
  ASSUME IndInv, Next
  PROVE  DialInv'
<1> USE DEF clientVars, netVars, serverVars
<1>1. DialInv
  BY DEF IndInv
<1>2. CASE ClientStarts
  BY <1>1, <1>2 DEF DialInv, ClientStarts, ClientGoes, ClientOnly, Returns
<1>3. CASE DialSucceeds
  <2>1. dialled = << >> \/ (dialled = <<0>> /\ cc.servers = <<0, 1>>)
    <3>1. /\ dialled \in PathLists /\ cc.servers \in PathLists
          /\ Len(dialled) < Len(cc.servers)
          /\ dialled # << >> => dialled[1] = cc.servers[1]
      BY <1>1, <1>3 DEF DialInv, DialSucceeds, PathLists
    <3> QED
      BY <3>1 DEF PathLists
  <2>2. /\ dialled' \in PathLists /\ Len(dialled') = Len(dialled) + 1
        /\ Len(dialled') <= Len(cc.servers)
        /\ \A k \in 1..Len(dialled') : dialled'[k] = cc.servers[k]
    <3>1. CASE dialled = << >>
      <4>1. cc.servers \in {<<0>>, <<1>>, <<0, 1>>}
        BY <1>1, <1>3, <3>1 DEF DialInv, DialSucceeds, PathLists
      <4>2. dialled' = Append(<< >>, cc.servers[1])
        BY <1>3, <3>1 DEF DialSucceeds, NextServer
      <4>3. dialled' = <<0>> \/ dialled' = <<1>>
        BY <4>1, <4>2
      <4>4. dialled'[1] = cc.servers[1]
        BY <4>1, <4>2
      <4> QED
        BY <3>1, <4>1, <4>3, <4>4 DEF PathLists
    <3>2. CASE dialled = <<0>> /\ cc.servers = <<0, 1>>
      <4>1. NextServer = 1
        BY <3>2 DEF NextServer
      <4>2. dialled' = Append(<<0>>, 1)
        BY <1>3, <3>2, <4>1 DEF DialSucceeds
      <4>3. dialled' = <<0, 1>>
        BY <4>2, BothServers
      <4> QED
        <5>1. dialled' = cc.servers /\ dialled' \in PathLists
          BY <3>2, <4>3 DEF PathLists
        <5>2. Len(dialled) = 1 /\ Len(cc.servers) = 2
          BY <3>2
        <5> QED
          BY <5>1, <5>2
    <3> QED
      BY <2>1, <3>1, <3>2
  <2>3. /\ turn \in Nat /\ (turn = 0 \/ turn < Len(dialled'))
        /\ Len(dialled) \in Nat
    BY <1>1, <2>2 DEF DialInv, PathLists
  <2> QED
    BY <1>1, <1>3, <2>2, <2>3 DEF DialInv, DialSucceeds
<1>4. CASE DialFails
  BY <1>1, <1>4 DEF DialInv, DialFails, ClientGoes, ClientOnly, Returns
<1>5. CASE AllDialled
  BY <1>1, <1>5 DEF DialInv, AllDialled, ClientGoes, ClientOnly, Returns, ClientAccepts, PathLists
<1>6. CASE SendRequest
  BY <1>1, <1>6 DEF DialInv, SendRequest, NextTurn, PathLists, PathIds
<1>7. CASE AllSent \/ ReadFails \/ TimesOut
  BY <1>1, <1>7 DEF DialInv, AllSent, ReadFails, TimesOut, ClientGoes, ClientOnly, Returns
<1>8. CASE ReceiveReply
  BY <1>1, <1>8 DEF DialInv, ReceiveReply
<1>9. CASE ClientCloses
  BY <1>1, <1>9 DEF DialInv, ClientCloses, ClientGoes
<1>10. CASE ServerMain \/ Interrupt
  BY <1>1, <1>10 DEF DialInv, ServerMain, Interrupt, ServerStarts, SelectError, SelectDone,
                     ServerOnly
<1>11. ASSUME NEW p \in PathIds,
              Listener(p) \/ ListenFails(p) \/ AcceptFails(p)
       PROVE  DialInv'
  BY <1>1, <1>11 DEF DialInv, Listener, ListenFails, AcceptFails, Listens, ListenerStops,
     Accepts, Reports, ListenerGoes, ServerOnly
<1>12. ASSUME NEW p \in PathIds, Handler(p) \/ LoseConnection(p)
       PROVE  DialInv'
  BY <1>1, <1>12 DEF DialInv, Handler, StreamArrives, NoStream, HandlerFails, ReadRequest,
     WriteReply, HandlerGoes, HandlerEnds, LoseConnection
<1> QED
  BY <1>2, <1>3, <1>4, <1>5, <1>6, <1>7, <1>8, <1>9, <1>10, <1>11, <1>12 DEF Next, Client

LEMMA KeepsPcs ==
  ASSUME IndInv, Next
  PROVE  PcInv'
<1> USE DEF clientVars, netVars, serverVars
<1>1. PcInv
  BY DEF IndInv
<1>2. CASE ClientStarts \/ DialFails \/ AllDialled \/ AllSent \/ ReadFails \/ TimesOut
  BY <1>1, <1>2 DEF PcInv, ClientStarts, DialFails, AllDialled, AllSent, ReadFails, TimesOut,
     ClientGoes, ClientOnly
<1>3. CASE DialSucceeds
  BY <1>1, <1>3 DEF PcInv, DialSucceeds
<1>4. CASE SendRequest
  BY <1>1, <1>4 DEF PcInv, SendRequest
<1>5. CASE ReceiveReply
  BY <1>1, <1>5 DEF PcInv, ReceiveReply
<1>6. CASE ClientCloses
  BY <1>1, <1>6 DEF PcInv, ClientCloses, ClientGoes
<1>7. CASE ServerMain \/ Interrupt
  <2>1. cancelled' \in BOOLEAN
    BY <1>1, <1>7 DEF PcInv, ServerMain, Interrupt, ServerStarts, SelectError, SelectDone
  <2>2. errCount' \in 0..ErrChCapacity
    BY <1>1, <1>7 DEF PcInv, ServerMain, Interrupt, ServerStarts, SelectError, SelectDone,
       ErrChCapacity
  <2>3. /\ serverPc' \in {"start", "select", "returned"}
        /\ listener' \in [PathIds -> {"off", "listen", "accept", "report", "done"}]
    BY <1>1, <1>7 DEF PcInv, ServerMain, Interrupt, ServerStarts, SelectError, SelectDone
  <2>4. UNCHANGED <<clientPc, clientEnd, serverEnd, handler>>
    BY <1>7 DEF ServerMain, Interrupt, ServerStarts, SelectError, SelectDone, ServerOnly
  <2> QED
    BY <1>1, <2>1, <2>2, <2>3, <2>4 DEF PcInv
<1>8. ASSUME NEW p \in PathIds,
             Listener(p) \/ ListenFails(p) \/ AcceptFails(p)
      PROVE  PcInv'
  BY <1>1, <1>8 DEF PcInv, Listener, ListenFails, AcceptFails, Listens, ListenerStops,
     Accepts, Reports, ListenerGoes, ServerOnly, ErrChCapacity
<1>9. ASSUME NEW p \in PathIds, Handler(p)
      PROVE  PcInv'
  BY <1>1, <1>9 DEF PcInv, Handler, StreamArrives, NoStream, HandlerFails, ReadRequest,
     WriteReply, HandlerGoes, HandlerEnds
<1>10. ASSUME NEW p \in PathIds, LoseConnection(p)
       PROVE  PcInv'
  BY <1>1, <1>10 DEF PcInv, LoseConnection, Breaks
<1> QED
  BY <1>2, <1>3, <1>4, <1>5, <1>6, <1>7, <1>8, <1>9, <1>10 DEF Next, Client

LEMMA KeepsEnds ==
  ASSUME IndInv, Next
  PROVE  EndInv'
<1> USE DEF clientVars, netVars, serverVars
<1>1. /\ EndInv /\ dialled \in PathLists
      /\ clientEnd \in [PathIds -> {"none", "open", "broken", "closed"}]
  BY DEF IndInv, DialInv, PcInv
<1>2. CASE ClientStarts
  BY <1>1, <1>2 DEF EndInv, ClientStarts, ClientGoes, ClientOnly, Returns
<1>3. CASE DialSucceeds
  <2>1. /\ Range(dialled) \subseteq Range(dialled') /\ NextServer \in Range(dialled')
        /\ clientPc' = "dial"
    BY <1>1, <1>3 DEF DialSucceeds, PathLists, Range
  <2> QED
    BY <1>1, <1>3, <2>1 DEF EndInv, DialSucceeds
<1>4. CASE DialFails \/ AllDialled \/ AllSent \/ ReadFails \/ TimesOut
  BY <1>1, <1>4 DEF EndInv, DialFails, AllDialled, AllSent, ReadFails, TimesOut,
     ClientGoes, ClientOnly, Returns
<1>5. CASE SendRequest
  BY <1>1, <1>5 DEF EndInv, SendRequest
<1>6. CASE ReceiveReply
  BY <1>1, <1>6 DEF EndInv, ReceiveReply
<1>7. CASE ClientCloses
  BY <1>1, <1>7 DEF EndInv, ClientCloses, ClientGoes
<1>8. CASE ServerMain \/ Interrupt
  BY <1>1, <1>8 DEF EndInv, ServerMain, Interrupt, ServerStarts, SelectError, SelectDone,
     ServerOnly
<1>9. ASSUME NEW p \in PathIds,
             Listener(p) \/ ListenFails(p) \/ AcceptFails(p)
      PROVE  EndInv'
  BY <1>1, <1>9 DEF EndInv, Listener, ListenFails, AcceptFails, Listens, ListenerStops,
     Accepts, Reports, ListenerGoes, ServerOnly
<1>10. ASSUME NEW p \in PathIds, Handler(p)
       PROVE  EndInv'
  BY <1>1, <1>10 DEF EndInv, Handler, StreamArrives, NoStream, HandlerFails, ReadRequest,
     WriteReply, HandlerGoes, HandlerEnds
<1>11. ASSUME NEW p \in PathIds, LoseConnection(p)
       PROVE  EndInv'
  BY <1>1, <1>11 DEF EndInv, LoseConnection, Breaks
<1> QED
  BY <1>2, <1>3, <1>4, <1>5, <1>6, <1>7, <1>8, <1>9, <1>10, <1>11 DEF Next, Client

(* The configuration is checked before the first dial and listener, and    *)
(* the handshake checks each end before anything is served.                *)
LEMMA KeepsChecks ==
  ASSUME IndInv, Next
  PROVE  CheckInv'
<1> USE DEF clientVars, netVars, serverVars
<1>1. /\ CheckInv
      /\ handler \in [PathIds -> {"none", "queued", "accept", "read", "reply", "done"}]
      /\ listener \in [PathIds -> {"off", "listen", "accept", "report", "done"}]
  BY DEF IndInv, PcInv
<1>2. UNCHANGED <<cc, sc>> =>
        UNCHANGED <<ClientAccepts(cc), ServerAccepts(sc), ServerVerified(cc, sc),
                    ClientVerified(cc, sc)>>
  OBVIOUS
<1>3. CASE ClientStarts \/ DialFails \/ AllDialled \/ AllSent \/ ReadFails \/ TimesOut
  <2>1. UNCHANGED <<cc, sc, dialled, listener, handler>>
    BY <1>3 DEF ClientStarts, DialFails, AllDialled, AllSent, ReadFails, TimesOut,
       ClientOnly, Returns
  <2> QED
    BY <1>1, <1>2, <2>1 DEF CheckInv
<1>4. CASE DialSucceeds
  <2>1. ClientAccepts(cc) /\ ServerVerified(cc, sc)
    BY <1>4 DEF IndInv, DialInv, DialSucceeds
  <2>2. \A p \in PathIds : handler'[p] # handler[p] =>
          handler'[p] = "none" \/ ClientVerified(cc, sc)
    BY <1>1, <1>4 DEF DialSucceeds
  <2>3. UNCHANGED <<cc, sc, listener>>
    BY <1>4 DEF DialSucceeds
  <2> QED
    BY <1>1, <1>2, <2>1, <2>2, <2>3 DEF CheckInv
<1>5. CASE SendRequest \/ ReceiveReply \/ ClientCloses
  <2>1. UNCHANGED <<cc, sc, dialled, listener, handler>>
    BY <1>5 DEF SendRequest, ReceiveReply, ClientCloses
  <2> QED
    BY <1>1, <1>2, <2>1 DEF CheckInv
<1>6. CASE ServerStarts
  <2>1. \A p \in PathIds : listener'[p] # listener[p] => ServerAccepts(sc)
    BY <1>6 DEF ServerStarts
  <2>2. UNCHANGED <<cc, sc, dialled, handler>>
    BY <1>6 DEF ServerStarts, ServerOnly
  <2> QED
    BY <1>1, <1>2, <2>1, <2>2 DEF CheckInv
<1>7. CASE SelectError \/ SelectDone \/ Interrupt
  <2>1. UNCHANGED <<cc, sc, dialled, listener, handler>>
    BY <1>7 DEF SelectError, SelectDone, Interrupt, ServerOnly
  <2> QED
    BY <1>1, <1>2, <2>1 DEF CheckInv
<1>8. ASSUME NEW p \in PathIds, Listener(p) \/ ListenFails(p) \/ AcceptFails(p)
      PROVE  CheckInv'
  <2>1. /\ UNCHANGED <<cc, sc, dialled>>
        /\ \A q \in PathIds : handler'[q] = handler[q] \/ handler[q] = "queued"
        /\ \A q \in PathIds : listener'[q] = listener[q] \/ listener[q] # "off"
    BY <1>1, <1>8 DEF Listener, ListenFails, AcceptFails, Listens, ListenerStops, Accepts,
       Reports, ListenerGoes, ServerOnly
  <2> QED
    BY <1>1, <1>2, <2>1 DEF CheckInv
<1>9. ASSUME NEW p \in PathIds, Handler(p)
      PROVE  CheckInv'
  <2>1. /\ UNCHANGED <<cc, sc, dialled, listener>>
        /\ handler[p] \in {"accept", "read", "reply"}
        /\ \A q \in PathIds : q # p => handler'[q] = handler[q]
    BY <1>1, <1>9 DEF Handler, StreamArrives, NoStream, HandlerFails, ReadRequest,
       WriteReply, HandlerGoes, HandlerEnds
  <2> QED
    BY <1>1, <1>2, <2>1 DEF CheckInv
<1>10. ASSUME NEW p \in PathIds, LoseConnection(p)
       PROVE  CheckInv'
  BY <1>1, <1>2, <1>10 DEF CheckInv, LoseConnection
<1> QED
  BY <1>3, <1>4, <1>5, <1>6, <1>7, <1>8, <1>9, <1>10 DEF Next, Client, ServerMain

(* A packet moves from the client to the handler and back.                 *)
LEMMA KeepsFlight ==
  ASSUME IndInv, Next
  PROVE  FlightInv'
<1> USE DEF clientVars, netVars, serverVars
<1>1. /\ FlightInv /\ path \in PathIds /\ requests \in Nat
      /\ handler \in [PathIds -> {"none", "queued", "accept", "read", "reply", "done"}]
  BY DEF IndInv, DialInv, PcInv
<1>2. UNCHANGED <<requests, sc>> => UNCHANGED <<Request(requests), Reply>>
  BY DEF Request, Reply
<1>3. CASE ClientStarts \/ DialFails \/ AllDialled \/ AllSent \/ ReadFails \/ TimesOut
  <2>1. /\ UNCHANGED <<sc, path, requests, up, down, handler>>
        /\ clientPc' \in {"start", "dial", "send"} =>
             clientPc \in {"start", "dial", "send"}
    BY <1>3 DEF ClientStarts, DialFails, AllDialled, AllSent, ReadFails, TimesOut,
       ClientGoes, ClientOnly, Returns
  <2> QED
    BY <1>1, <1>2, <2>1 DEF FlightInv
<1>4. CASE DialSucceeds
  BY <1>1, <1>2, <1>4 DEF FlightInv, DialSucceeds
<1>5. CASE SendRequest
  <2>1. /\ \A p \in PathIds : up[p] = << >> /\ down[p] = << >>
        /\ \A p \in PathIds : handler[p] # "reply" /\ handler'[p] = handler[p]
        /\ clientPc' \in {"wait", "close"} /\ down' = down
    BY <1>1, <1>5 DEF FlightInv, SendRequest
  <2>2. path' \in PathIds
    BY <1>5 DEF IndInv, DialInv, SendRequest, PathLists, PathIds
  <2>3. up' \in [PathIds -> {<< >>, <<Request(requests')>>}]
    <3>1. up = [p \in PathIds |-> << >>]
      BY <1>1, <2>1 DEF FlightInv
    <3>2. Append(<< >>, Request(requests')) = <<Request(requests')>>
      OBVIOUS
    <3> QED
      BY <1>5, <2>2, <3>1, <3>2 DEF SendRequest
  <2>4. \A p \in PathIds : p # path' => up'[p] = << >>
    BY <1>1, <1>5, <2>1 DEF FlightInv, SendRequest
  <2>5. down' \in [PathIds -> {<< >>, <<Reply'>>}]
    BY <1>1, <2>1 DEF FlightInv
  <2> QED
    BY <2>1, <2>2, <2>3, <2>4, <2>5, Zenon DEF FlightInv
<1>6. CASE ReceiveReply
  <2>1. /\ UNCHANGED <<sc, path, requests, up, handler>>
        /\ down' = [down EXCEPT ![path] = Tail(@)] /\ down[path] # << >>
    BY <1>6 DEF ReceiveReply
  <2>2. down[path] = <<Reply>> /\ up[path] = << >>
    BY <1>1, <2>1 DEF FlightInv
  <2>3. Tail(<<Reply>>) = << >>
    OBVIOUS
  <2>4. \A p \in PathIds : down'[p] = << >> /\ up[p] = << >>
    BY <1>1, <2>1, <2>2, <2>3 DEF FlightInv
  <2>5. down' \in [PathIds -> {<< >>, <<Reply>>}]
    BY <1>1, <2>1, <2>2, <2>3 DEF FlightInv
  <2> QED
    BY <1>1, <1>2, <2>1, <2>4, <2>5 DEF FlightInv
<1>7. CASE ClientCloses
  BY <1>1, <1>2, <1>7 DEF FlightInv, ClientCloses, ClientGoes
<1>8. CASE ServerMain \/ Interrupt
  BY <1>1, <1>2, <1>8 DEF FlightInv, ServerMain, Interrupt, ServerStarts, SelectError,
     SelectDone, ServerOnly
<1>9. ASSUME NEW p \in PathIds, Listener(p) \/ ListenFails(p) \/ AcceptFails(p)
      PROVE  FlightInv'
  <2>1. /\ UNCHANGED <<sc, clientPc, path, requests, up, down>>
        /\ \A q \in PathIds : handler'[q] = handler[q] \/ handler'[q] = "accept"
    BY <1>1, <1>9 DEF Listener, ListenFails, AcceptFails, Listens, ListenerStops, Accepts,
       Reports, ListenerGoes, ServerOnly
  <2> QED
    BY <1>1, <1>2, <2>1 DEF FlightInv
<1>10. ASSUME NEW p \in PathIds, Handler(p)
       PROVE  FlightInv'
  <2>1. UNCHANGED <<cc, sc, clientPc, path, requests>>
    BY <1>10 DEF Handler, StreamArrives, NoStream, HandlerFails, ReadRequest,
       WriteReply, HandlerGoes, HandlerEnds
  <2>2. \A q \in PathIds : q # p => handler'[q] = handler[q]
    BY <1>1, <1>10 DEF Handler, StreamArrives, NoStream, HandlerFails, ReadRequest,
       WriteReply, HandlerGoes, HandlerEnds
  <2>3. Tail(<<Request(requests)>>) = << >>
    OBVIOUS
  <2>4. CASE StreamArrives(p) \/ NoStream(p) \/ HandlerFails(p)
    <3>1. UNCHANGED <<up, down>> /\ handler'[p] # "reply"
      BY <1>1, <2>4 DEF StreamArrives, NoStream, HandlerFails, HandlerGoes, HandlerEnds
    <3> QED
      BY <1>1, <1>2, <2>1, <2>2, <3>1 DEF FlightInv
  <2>5. CASE ReadRequest(p)
    <3>1. up[p] = <<Request(requests)>> /\ down[p] = << >>
      BY <1>1, <2>5 DEF FlightInv, ReadRequest
    <3>2. /\ down' = down
          /\ \/ handler'[p] = "reply" /\ up' = up
             \/ handler'[p] = "read" /\ up' = [up EXCEPT ![p] = << >>]
      BY <1>1, <2>3, <2>5, <3>1 DEF ReadRequest, HandlerGoes
    <3>3. CASE handler'[p] = "reply" /\ up' = up
      BY <1>1, <1>2, <2>1, <2>2, <3>1, <3>2, <3>3 DEF FlightInv
    <3>4. CASE handler'[p] = "read" /\ up' = [up EXCEPT ![p] = << >>]
      <4>1. /\ up' \in [PathIds -> {<< >>, <<Request(requests)>>}]
            /\ up'[p] = << >> /\ \A q \in PathIds : q # p => up'[q] = up[q]
        BY <1>1, <3>4 DEF FlightInv
      <4> QED
        BY <1>1, <1>2, <2>1, <2>2, <3>2, <3>4, <4>1 DEF FlightInv
    <3> QED
      BY <3>2, <3>3, <3>4
  <2>6. CASE WriteReply(p)
    <3>1. up[p] = <<Request(requests)>> /\ down[p] = << >> /\ p = path
      BY <1>1, <2>6 DEF FlightInv, WriteReply, HandlerGoes
    <3>2. /\ Head(up[p]).seq = requests % SeqMod /\ Head(up[p]).n = requests
          /\ Append(<< >>, Reply) = <<Reply>>
      BY <3>1 DEF Request
    <3>3. /\ handler'[p] = "read" /\ up' = [up EXCEPT ![p] = << >>]
          /\ down' = [down EXCEPT ![p] = <<Reply>>]
      BY <1>1, <2>3, <2>6, <3>1, <3>2 DEF WriteReply, HandlerGoes, Reply
    <3>4. clientPc \notin {"start", "dial", "send"}
      BY <1>1, <3>1 DEF FlightInv
    <3> QED
      BY <1>1, <1>2, <2>1, <2>2, <3>1, <3>3, <3>4 DEF FlightInv
  <2> QED
    BY <1>10, <2>4, <2>5, <2>6 DEF Handler
<1>11. ASSUME NEW p \in PathIds, LoseConnection(p)
       PROVE  FlightInv'
  BY <1>1, <1>2, <1>11 DEF FlightInv, LoseConnection
<1> QED
  BY <1>3, <1>4, <1>5, <1>6, <1>7, <1>8, <1>9, <1>10, <1>11 DEF Next, Client

(* Each accepted reply is the next one.                                    *)
LEMMA KeepsAnswers ==
  ASSUME IndInv, Next
  PROVE  AnswerInv'
<1> USE DEF clientVars, netVars, serverVars
<1>1. AnswerInv /\ requests \in Nat /\ cc.count \in Int
  BY DEF IndInv, DialInv
<1>2. Len(answered) \in Nat
  BY <1>1 DEF AnswerInv
<1>3. CASE ClientStarts \/ DialFails \/ AllDialled \/ ReadFails \/ TimesOut
  BY <1>1, <1>3 DEF AnswerInv, ClientStarts, DialFails, AllDialled, ReadFails, TimesOut,
     ClientGoes, ClientOnly, Returns
<1>4. CASE DialSucceeds
  BY <1>1, <1>4 DEF AnswerInv, DialSucceeds
<1>5. CASE SendRequest
  BY <1>1, <1>2, <1>5 DEF AnswerInv, SendRequest
<1>6. CASE AllSent
  BY <1>1, <1>6 DEF AnswerInv, AllSent, ClientGoes, ClientOnly, Returns
<1>7. CASE ReceiveReply
  <2>1. Head(down[path]).n = requests
    <3>1. down[path] = <<Reply>>
      BY <1>7 DEF IndInv, DialInv, FlightInv, ReceiveReply
    <3> QED
      BY <3>1 DEF Reply
  <2>2. Len(answered) = requests - 1 /\ result = "none"
    BY <1>1, <1>7 DEF AnswerInv, ReceiveReply
  <2>3. CASE clientPc' = "send" /\ answered' = Append(answered, requests) /\ result' = result
    <3>1. /\ answered' \in Seq(Nat) /\ Len(answered') = requests
          /\ \A k \in 1..Len(answered') : answered'[k] = k
      BY <1>1, <1>2, <2>2, <2>3 DEF AnswerInv
    <3> QED
      BY <1>1, <1>7, <2>2, <2>3, <3>1 DEF AnswerInv, ReceiveReply
  <2>4. CASE clientPc' = "close" /\ answered' = answered /\ result' = "reply"
    BY <1>1, <2>4 DEF AnswerInv
  <2> QED
    BY <1>7, <2>1, <2>3, <2>4 DEF ReceiveReply
<1>8. CASE ClientCloses
  BY <1>1, <1>8 DEF AnswerInv, ClientCloses, ClientGoes
<1>9. CASE ServerMain \/ Interrupt
  BY <1>1, <1>9 DEF AnswerInv, ServerMain, Interrupt, ServerStarts, SelectError, SelectDone,
     ServerOnly
<1>10. ASSUME NEW p \in PathIds, Listener(p) \/ ListenFails(p) \/ AcceptFails(p)
       PROVE  AnswerInv'
  BY <1>1, <1>10 DEF AnswerInv, Listener, ListenFails, AcceptFails, Listens, ListenerStops,
     Accepts, Reports, ListenerGoes, ServerOnly
<1>11. ASSUME NEW p \in PathIds, Handler(p) \/ LoseConnection(p)
       PROVE  AnswerInv'
  BY <1>1, <1>11 DEF AnswerInv, Handler, StreamArrives, NoStream, HandlerFails, ReadRequest,
     WriteReply, HandlerGoes, HandlerEnds, LoseConnection
<1> QED
  BY <1>3, <1>4, <1>5, <1>6, <1>7, <1>8, <1>9, <1>10, <1>11 DEF Next, Client

-----------------------------------------------------------------------------
(* The inductive invariant holds in every state, for every configuration.  *)
THEOREM Inductive == Spec => []IndInv
<1>1. IndInv /\ UNCHANGED vars => IndInv'
  <2> SUFFICES ASSUME IndInv, UNCHANGED vars PROVE IndInv'
    OBVIOUS
  <2> USE DEF vars, clientVars, netVars, serverVars
  <2>1. DialInv' /\ PcInv' /\ AnswerInv' /\ EndInv'
    BY DEF IndInv, DialInv, PcInv, AnswerInv, EndInv
  <2>2. FlightInv'
    BY DEF IndInv, FlightInv, Request, Reply
  <2>3. CheckInv'
    BY DEF IndInv, CheckInv
  <2> QED
    BY <2>1, <2>2, <2>3 DEF IndInv
<1>2. IndInv /\ [Next]_vars => IndInv'
  BY <1>1, KeepsDialled, KeepsPcs, KeepsFlight, KeepsAnswers, KeepsEnds, KeepsChecks
     DEF IndInv
<1> QED
  BY <1>2, IndInit, PTL DEF Spec

(* The scheduler stays inside the paths, and a path carries one packet at  *)
(* most (RoundRobin.Next, RunClient).                                      *)
THEOREM TypeCorrect == Spec => []TypeOK
<1>1. IndInv => TypeOK
  <2> SUFFICES ASSUME IndInv PROVE TypeOK
    OBVIOUS
  <2>1. ASSUME NEW p \in PathIds PROVE Len(up[p]) + Len(down[p]) <= 1
    <3>1. /\ up[p] \in {<< >>, <<Request(requests)>>}
          /\ down[p] \in {<< >>, <<Reply>>}
          /\ up[p] = << >> \/ down[p] = << >>
      BY DEF IndInv, FlightInv
    <3>2. /\ Len(<< >>) = 0 /\ Len(<<Request(requests)>>) = 1
          /\ Len(<<Reply>>) = 1
      OBVIOUS
    <3>3. Len(up[p]) = 0 \/ Len(up[p]) = 1
      BY <3>1, <3>2, Zenon
    <3>4. Len(down[p]) = 0 \/ Len(down[p]) = 1
      BY <3>1, <3>2, Zenon
    <3>5. Len(up[p]) = 0 \/ Len(down[p]) = 0
      BY <3>1, <3>2, Zenon
    <3>6. 0 + 0 <= 1 /\ 0 + 1 <= 1 /\ 1 + 0 <= 1
      OBVIOUS
    <3> QED
      BY <3>3, <3>4, <3>5, <3>6, Zenon
  <2>2. /\ turn = 0 \/ turn < Len(dialled)
        /\ requests \in Nat /\ cc.count \in Int
        /\ requests <= (IF cc.count > 0 THEN cc.count ELSE 0)
    BY DEF IndInv, DialInv
  <2>3. cancelled \in BOOLEAN
    BY DEF IndInv, PcInv
  <2>4. dialled \in {<< >>, <<0>>, <<1>>, <<0, 1>>} /\ path \in PathIds
    BY DEF IndInv, DialInv, PathLists
  <2>5. /\ clientPc \in {"start", "dial", "send", "wait", "close", "done"}
        /\ serverPc \in {"start", "select", "returned"} /\ errCount \in 0..ErrChCapacity
        /\ \A p \in PathIds :
             /\ clientEnd[p] \in {"none", "open", "broken", "closed"}
             /\ serverEnd[p] \in {"none", "open", "broken", "closed"}
             /\ listener[p] \in {"off", "listen", "accept", "report", "done"}
             /\ handler[p] \in {"none", "queued", "accept", "read", "reply", "done"}
    BY DEF IndInv, PcInv
  <2>6. requests \in 0..(IF cc.count > 0 THEN cc.count ELSE 0)
    BY <2>2
  <2> QED
    BY <2>1, <2>2, <2>3, <2>4, <2>5, <2>6 DEF TypeOK
<1> QED
  BY <1>1, Inductive, PTL

(* Every accepted reply answers the request that was waited for, although  *)
(* sequence numbers repeat, and success means all of them                  *)
(* (RunClient, client.go:117-154).                                         *)
THEOREM RepliesInOrder == Spec => []AnswersInOrder
<1>1. IndInv => AnswersInOrder
  BY DEF IndInv, AnswerInv, AnswersInOrder
<1> QED
  BY <1>1, Inductive, PTL

(* A client that has returned has closed every connection it had opened    *)
(* (dialClientPaths, client.go:236-250, and the deferred closeClientPaths). *)
THEOREM EverythingClosed == Spec => []NoConnectionLeft
<1>1. IndInv => NoConnectionLeft
  BY DEF IndInv, EndInv, NoConnectionLeft
<1> QED
  BY <1>1, Inductive, PTL

(* No end runs without what its files ask for: one whose files do not all   *)
(* load starts nothing, and the handshake holds each end to the other's    *)
(* (serverTLSConfig, clientTLSConfig).                                     *)
THEOREM CertificatesEnforced == Spec => []AuthenticatedAsConfigured
<1>1. IndInv => AuthenticatedAsConfigured
  BY DEF IndInv, CheckInv, ClientAccepts, ServerAccepts, KeyPairLoads, ServerVerified,
     ClientVerified, AllLoaded, AuthenticatedAsConfigured
<1> QED
  BY <1>1, Inductive, PTL
=============================================================================
