----------------------------- MODULE ServerTUN -----------------------------
(***************************************************************************)
(* The TUN server: runTUNServer and the goroutines it starts               *)
(* (internal/quictransport/server.go).                                     *)
(*                                                                         *)
(*   main          waits for cancellation or an error; returning, it       *)
(*                 closes the device and then cancels the context          *)
(*   closer        closes the TUN device once the context is cancelled     *)
(*   listener(i)   serveTUNQUICPath: accepts the connections of path i     *)
(*   handler(c)    handleTUNQUICConnection: one stream -> device           *)
(*   forwarder     forwardDevicePackets: device -> the session's streams   *)
(*                                                                         *)
(* One action is what a goroutine does between two accesses to what it     *)
(* shares with another: the session's path set (pathsMu is held for the    *)
(* whole of each access), a stream, the device, errCh, the context.        *)
(*                                                                         *)
(* The server takes a stream out of its set as the client does (PathSet),  *)
(* but it appends every stream that arrives: a client that redials before  *)
(* its old connection has timed out is in the set twice.                   *)
(*                                                                         *)
(* Left out: log lines, packet contents, and the error, RX and receive     *)
(* side drop counters, which nothing here reads back.                      *)
(***************************************************************************)
EXTENDS PathSet, FiniteSets

CONSTANTS
  NPaths,     (* number of listeners                                         *)
  MaxConns,   (* bound: connections ever accepted                            *)
  MaxPackets, (* bound: packets ever read from the device                    *)
  MaxRetries, (* maxRetryablePacketDeviceReads; 100 in the code              *)
  Events      (* bound: what may happen besides connections coming and going *)

ASSUME NPathsAssumption     == NPaths \in 1..2
ASSUME MaxConnsAssumption   == MaxConns \in Nat
ASSUME MaxPacketsAssumption == MaxPackets \in Nat
ASSUME MaxRetriesAssumption == MaxRetries \in Nat

(* "interrupt"      the user stops the server                              *)
(* "end"            a client closes its side of a stream                   *)
(* "inbound"        frames arrive from a client                            *)
(* "device error"   the TUN device fails a read or a write                 *)
(* "listener error" a listener cannot be opened, or fails                  *)
ASSUME EventsAssumption ==
  Events \subseteq {"interrupt", "end", "inbound", "device error", "listener error"}

(* Connections are numbered as they are accepted, and a connection has one *)
(* stream, of the same number.  Packets are numbered as they are read.     *)
PathIds == 0..(NPaths - 1)
Conns   == 1..MaxConns
Packets == 1..MaxPackets

Empty  == 0                              (* no packet                        *)
NoPath == [id |-> 0, stream |-> 0]

(* Mutant: room for the listeners only.                                    *)
ErrChCapacity_NoForwarder == 2

ErrChCapacity == 3

VARIABLES
  mainPc,      (* "select", "close", "cancel" or "returned"                  *)
  cancelled,   (* ctx.Err() # nil                                            *)
  deviceOpen,  (* the TUN file descriptor is open                            *)
  errCount,    (* number of errors in the buffer of errCh                    *)
  listenerPc,  (* per path id                                                *)
  used,        (* number of connections accepted so far                      *)
  pathOf,      (* per connection: the id of the listener that accepted it    *)
  stream,      (* per connection: "unused", "open", "eof" (the client ended  *)
               (* its side), "broken" (the connection is gone) or "closed"   *)
               (* (by the handler)                                           *)
  handlerPc,   (* per connection                                             *)
  paths, next, (* serverTUNSession: paths and nextPath                       *)
  forwarderPc, held, target, retries,
  taken,       (* history: number of packets read from the device            *)
  sent,        (* history: packets in the order their frames were written    *)
  dropped,     (* history: packets counted as dropped                        *)
  seen         (* history: per stream in the set, the streams picked since   *)
               (* it was picked last or joined, or a path left               *)

mainVars      == <<mainPc, cancelled, deviceOpen, errCount>>
connVars      == <<used, pathOf, stream, handlerPc>>
sessionVars   == <<paths, next, seen>>
forwarderVars == <<forwarderPc, held, target, retries>>
packetVars    == <<taken, sent, dropped>>

vars == <<mainVars, listenerPc, connVars, sessionVars, forwarderVars, packetVars>>

ListenerPcs  == {"listen", "accept", "report", "done"}
HandlerPcs   == {"none", "accept", "add", "read", "lock", "write", "remove",
                 "close", "done"}
ForwarderPcs == {"read", "sleep", "report", "pick", "write", "drop", "done"}

TypeOK ==
  /\ mainPc \in {"select", "close", "cancel", "returned"}
  /\ cancelled \in BOOLEAN /\ deviceOpen \in BOOLEAN
  /\ errCount \in 0..ErrChCapacity
  /\ listenerPc \in [PathIds -> ListenerPcs]
  /\ used \in 0..MaxConns
  /\ pathOf \in [Conns -> PathIds]
  /\ stream \in [Conns -> {"unused", "open", "eof", "broken", "closed"}]
  /\ handlerPc \in [Conns -> HandlerPcs]
  /\ paths \in Seq([id : PathIds, stream : Conns])
  /\ next \in Nat /\ (next = 0 \/ next < Len(paths))
  /\ forwarderPc \in ForwarderPcs
  /\ held \in Packets \cup {Empty}
  /\ target \in [id : PathIds, stream : Conns] \cup {NoPath}
  /\ retries \in 0..MaxRetries
  /\ taken \in 0..MaxPackets
  /\ sent \in Seq(Packets)
  /\ dropped \subseteq Packets
  /\ seen \in [Conns -> SUBSET Conns]

(* The listeners and the forwarder have been started.                      *)
Init ==
  /\ mainPc = "select" /\ cancelled = FALSE /\ deviceOpen = TRUE /\ errCount = 0
  /\ listenerPc = [i \in PathIds |-> "listen"]
  /\ used = 0 /\ pathOf = [c \in Conns |-> 0]
  /\ stream = [c \in Conns |-> "unused"] /\ handlerPc = [c \in Conns |-> "none"]
  /\ paths = << >> /\ next = 0
  /\ forwarderPc = "read" /\ held = Empty /\ target = NoPath /\ retries = 0
  /\ taken = 0 /\ sent = << >> /\ dropped = {} /\ seen = [c \in Conns |-> {}]

Readable(c) == stream[c] = "open"
Writable(c) == stream[c] \in {"open", "eof"}

(* removePath: the path of stream c leaves, if it is still in the set.  The *)
(* rotation starts anew for whoever stays.                                 *)
Takes(c) ==
  /\ paths' = RemovePath(paths, c)
  /\ next' = NextAfterRemove(paths, next, c)
  /\ seen' = IF paths' = paths THEN seen ELSE [d \in Conns |-> {}]

-----------------------------------------------------------------------------
(* The environment.                                                        *)

Interrupt ==
  /\ "interrupt" \in Events
  /\ ~cancelled
  /\ cancelled' = TRUE
  /\ UNCHANGED <<mainPc, deviceOpen, errCount, listenerPc, connVars, sessionVars,
                 forwarderVars, packetVars>>

StreamChanges(c, from, to) ==
  /\ stream[c] \in from
  /\ stream' = [stream EXCEPT ![c] = to]
  /\ UNCHANGED <<mainVars, listenerPc, used, pathOf, handlerPc, sessionVars,
                 forwarderVars, packetVars>>

StreamEnds(c)   == "end" \in Events /\ StreamChanges(c, {"open"}, "eof")
StreamBreaks(c) == StreamChanges(c, {"open", "eof"}, "broken")

Environment == Interrupt \/ \E c \in Conns : StreamEnds(c) \/ StreamBreaks(c)

-----------------------------------------------------------------------------
(* main: the loop of runTUNServer, its deferred close, and the deferred    *)
(* cancel of RunServer.                                                    *)

MainOnly == UNCHANGED <<listenerPc, connVars, sessionVars, forwarderVars, packetVars>>

SelectDone ==
  /\ mainPc = "select" /\ cancelled
  /\ mainPc' = "close"
  /\ UNCHANGED <<cancelled, deviceOpen, errCount>> /\ MainOnly

SelectError ==
  /\ mainPc = "select" /\ errCount > 0
  /\ mainPc' = "close" /\ errCount' = errCount - 1
  /\ UNCHANGED <<cancelled, deviceOpen>> /\ MainOnly

MainCloses ==
  /\ mainPc = "close"
  /\ mainPc' = "cancel" /\ deviceOpen' = FALSE
  /\ UNCHANGED <<cancelled, errCount>> /\ MainOnly

(* Mutant: RunServer returns without cancelling the context.               *)
MainCancels_Forgotten ==
  /\ mainPc = "cancel"
  /\ mainPc' = "returned"
  /\ UNCHANGED <<cancelled, deviceOpen, errCount>> /\ MainOnly

MainCancels ==
  /\ mainPc = "cancel"
  /\ mainPc' = "returned" /\ cancelled' = TRUE
  /\ UNCHANGED <<deviceOpen, errCount>> /\ MainOnly

CloseDevice ==
  /\ cancelled /\ deviceOpen
  /\ deviceOpen' = FALSE
  /\ UNCHANGED <<mainPc, cancelled, errCount>> /\ MainOnly

Main == SelectDone \/ SelectError \/ MainCloses \/ MainCancels

-----------------------------------------------------------------------------
(* The listener of path i.                                                 *)

ListenerGoes(i, from, to) ==
  listenerPc[i] = from /\ listenerPc' = [listenerPc EXCEPT ![i] = to]

ListenerOnly == UNCHANGED <<mainVars, connVars, sessionVars, forwarderVars, packetVars>>

Listens(i) == ListenerGoes(i, "listen", "accept") /\ ListenerOnly

ListenFails(i) ==
  /\ "listener error" \in Events
  /\ ListenerGoes(i, "listen", "report")
  /\ ListenerOnly

(* Accept takes a connection that is waiting, also when the context has    *)
(* just been cancelled; a handler is started for it.                       *)
Accepts(i) ==
  /\ listenerPc[i] = "accept" /\ used < MaxConns
  /\ used' = used + 1
  /\ pathOf' = [pathOf EXCEPT ![used + 1] = i]
  /\ stream' = [stream EXCEPT ![used + 1] = "open"]
  /\ handlerPc' = [handlerPc EXCEPT ![used + 1] = "accept"]
  /\ UNCHANGED <<mainVars, listenerPc, sessionVars, forwarderVars, packetVars>>

AcceptFails(i) ==
  /\ "listener error" \in Events
  /\ ListenerGoes(i, "accept", "report") /\ ~cancelled
  /\ ListenerOnly

ListenerStops(i) ==
  /\ ListenerGoes(i, "accept", "done") /\ cancelled
  /\ ListenerOnly

ListenerReports(i) ==
  /\ ListenerGoes(i, "report", "done")
  /\ errCount < ErrChCapacity
  /\ errCount' = errCount + 1
  /\ UNCHANGED <<mainPc, cancelled, deviceOpen, connVars, sessionVars,
                 forwarderVars, packetVars>>

ListenerRuns(i) == Listens(i) \/ ListenFails(i) \/ ListenerStops(i)
                   \/ ListenerReports(i)

Listener(i) == ListenerRuns(i) \/ Accepts(i) \/ AcceptFails(i)

-----------------------------------------------------------------------------
(* The handler of connection c.                                            *)

HandlerGoes(c, from, to) ==
  handlerPc[c] = from /\ handlerPc' = [handlerPc EXCEPT ![c] = to]

HandlerOnly == UNCHANGED <<mainVars, listenerPc, used, pathOf, stream, sessionVars,
                           forwarderVars, packetVars>>

(* AcceptStream returns with the client's first bytes, ...                 *)
StreamArrives(c) ==
  /\ HandlerGoes(c, "accept", "add") /\ Writable(c)
  /\ HandlerOnly

(* ... or fails, and only the connection is closed.                        *)
NoStream(c) ==
  /\ HandlerGoes(c, "accept", "close") /\ (stream[c] = "broken" \/ cancelled)
  /\ HandlerOnly

(* addPath: append, whatever path ids the set has.                         *)
Joins(c) ==
  /\ HandlerGoes(c, "add", "read")
  /\ paths' = Append(paths, [id |-> pathOf[c], stream |-> c])
  /\ UNCHANGED <<mainVars, listenerPc, used, pathOf, stream, next, seen,
                 forwarderVars, packetVars>>

(* A frame arrives and the policy allows it.  (A frame it denies is        *)
(* dropped, and the handler reads the next one.)                           *)
ReceiveFrame(c) ==
  /\ "inbound" \in Events
  /\ HandlerGoes(c, "read", "lock") /\ Readable(c)
  /\ HandlerOnly

(* Mutant: the handler returns without its deferred removePath.            *)
StreamFails_NoRemove(c) ==
  /\ HandlerGoes(c, "read", "close") /\ ~Readable(c)
  /\ HandlerOnly

StreamFails(c) ==
  /\ HandlerGoes(c, "read", "remove") /\ ~Readable(c)
  /\ HandlerOnly

LockDevice(c) ==
  /\ HandlerGoes(c, "lock", "write")
  /\ \A d \in Conns : handlerPc[d] # "write"
  /\ HandlerOnly

WriteDevice(c) ==
  /\ HandlerGoes(c, "write", "read") /\ deviceOpen
  /\ HandlerOnly

(* A failed device write ends this handler and nothing else.               *)
WriteDeviceFails(c) ==
  /\ ~deviceOpen \/ "device error" \in Events
  /\ HandlerGoes(c, "write", "remove")
  /\ HandlerOnly

(* Mutant: the stream is closed before its path is taken out of the set.   *)
Leaves_ClosesFirst(c) ==
  /\ handlerPc[c] = "remove"
  /\ \/ /\ stream[c] # "closed"
        /\ stream' = [stream EXCEPT ![c] = "closed"]
        /\ UNCHANGED <<handlerPc, sessionVars>>
     \/ /\ stream[c] = "closed"
        /\ handlerPc' = [handlerPc EXCEPT ![c] = "close"]
        /\ Takes(c)
        /\ UNCHANGED stream
  /\ UNCHANGED <<mainVars, listenerPc, used, pathOf, forwarderVars, packetVars>>

(* The deferred calls run in reverse: removePath, then the two closes.     *)
Leaves(c) ==
  /\ HandlerGoes(c, "remove", "close")
  /\ Takes(c)
  /\ UNCHANGED <<mainVars, listenerPc, used, pathOf, stream, forwarderVars, packetVars>>

Closes(c) ==
  /\ HandlerGoes(c, "close", "done")
  /\ stream' = [stream EXCEPT ![c] = "closed"]
  /\ UNCHANGED <<mainVars, listenerPc, used, pathOf, sessionVars, forwarderVars,
                 packetVars>>

HandlerRuns(c) == NoStream(c) \/ Joins(c) \/ StreamFails(c) \/ WriteDevice(c)
                  \/ WriteDeviceFails(c) \/ Leaves(c) \/ Closes(c)

Handler(c) == HandlerRuns(c) \/ LockDevice(c) \/ StreamArrives(c) \/ ReceiveFrame(c)

-----------------------------------------------------------------------------
(* The forwarder.                                                          *)

ForwarderGoes(from, to) == forwarderPc = from /\ forwarderPc' = to

ForwarderOnly == UNCHANGED <<mainVars, listenerPc, connVars, sessionVars, target>>

ReadPacket ==
  /\ ForwarderGoes("read", "pick")
  /\ deviceOpen /\ taken < MaxPackets
  /\ taken' = taken + 1 /\ held' = taken + 1 /\ retries' = 0
  /\ UNCHANGED <<sent, dropped>> /\ ForwarderOnly

(* A packet the policy denies is counted as a drop.                        *)
ReadDenied ==
  /\ ForwarderGoes("read", "read")
  /\ deviceOpen /\ taken < MaxPackets
  /\ taken' = taken + 1 /\ dropped' = dropped \cup {taken + 1} /\ retries' = 0
  /\ UNCHANGED <<held, sent>> /\ ForwarderOnly

ReadNothing ==
  /\ ForwarderGoes("read", "read")
  /\ deviceOpen
  /\ retries' = 0
  /\ UNCHANGED <<held, packetVars>> /\ ForwarderOnly

(* The close of the device ends the read, or is found by it.               *)
ReadClosed ==
  /\ ForwarderGoes("read", "done")
  /\ ~deviceOpen
  /\ UNCHANGED <<held, retries, packetVars>> /\ ForwarderOnly

(* After cancellation an error of the device is taken for its close.       *)
ReadGivenUp ==
  /\ "device error" \in Events
  /\ ForwarderGoes("read", "done")
  /\ deviceOpen /\ cancelled
  /\ UNCHANGED <<held, retries, packetVars>> /\ ForwarderOnly

ReadRetryable ==
  /\ "device error" \in Events
  /\ ForwarderGoes("read", "sleep")
  /\ deviceOpen /\ ~cancelled /\ retries < MaxRetries
  /\ retries' = retries + 1
  /\ UNCHANGED <<held, packetVars>> /\ ForwarderOnly

ReadFails ==
  /\ "device error" \in Events
  /\ ForwarderGoes("read", "report")
  /\ deviceOpen /\ ~cancelled
  /\ UNCHANGED <<held, retries, packetVars>> /\ ForwarderOnly

(* sleepContext: the timer, or the context; either when both are ready.    *)
ForwarderWakes ==
  /\ ForwarderGoes("sleep", "read")
  /\ UNCHANGED <<held, retries, packetVars>> /\ ForwarderOnly

ForwarderInterrupted ==
  /\ ForwarderGoes("sleep", "done") /\ cancelled
  /\ UNCHANGED <<held, retries, packetVars>> /\ ForwarderOnly

ForwarderReports ==
  /\ ForwarderGoes("report", "done")
  /\ errCount < ErrChCapacity
  /\ errCount' = errCount + 1
  /\ UNCHANGED <<mainPc, cancelled, deviceOpen, listenerPc, connVars, sessionVars,
                 held, target, retries, packetVars>>

(* The streams that wait while s is picked have seen s go before them.     *)
Picked(s) ==
  [d \in Conns |-> IF d \in StreamsOf(paths) \ {s} THEN seen[d] \cup {s} ELSE {}]

(* Mutant: the first path is picked every time.                            *)
PickPath_NoAdvance ==
  /\ ForwarderGoes("pick", "write")
  /\ paths # << >>
  /\ target' = PathAt(paths, next) /\ seen' = Picked(target'.stream)
  /\ UNCHANGED <<mainVars, listenerPc, connVars, paths, next, held, retries, packetVars>>

(* writeNextPath, up to the release of pathsMu.                            *)
PickPath ==
  /\ ForwarderGoes("pick", "write")
  /\ paths # << >>
  /\ LET turn == next % Len(paths)
     IN  target' = PathAt(paths, turn) /\ next' = NextAfter(paths, turn)
  /\ seen' = Picked(target'.stream)
  /\ UNCHANGED <<mainVars, listenerPc, connVars, paths, held, retries, packetVars>>

(* Mutant: a packet that finds no path is not counted.                     *)
PickNone_Silent ==
  /\ ForwarderGoes("pick", "read")
  /\ paths = << >>
  /\ held' = Empty
  /\ UNCHANGED <<retries, packetVars>> /\ ForwarderOnly

PickNone ==
  /\ ForwarderGoes("pick", "read")
  /\ paths = << >>
  /\ dropped' = dropped \cup {held} /\ held' = Empty
  /\ UNCHANGED <<retries, taken, sent>> /\ ForwarderOnly

(* The write uses the path it picked, in the set or not by now.            *)
WriteSucceeds ==
  /\ ForwarderGoes("write", "read")
  /\ Writable(target.stream)
  /\ sent' = Append(sent, held) /\ held' = Empty
  /\ UNCHANGED <<mainVars, listenerPc, connVars, sessionVars, target, retries,
                 taken, dropped>>

WriteFails ==
  /\ ForwarderGoes("write", "drop")
  /\ ~Writable(target.stream)
  /\ UNCHANGED <<held, retries, packetVars>> /\ ForwarderOnly

(* Mutant: the first path with the id of the failed one is taken out.      *)
DropsPath_ById ==
  /\ ForwarderGoes("drop", "read")
  /\ IF HasPathID(paths, target.id)
     THEN Takes(paths[Min(PositionsOfId(paths, target.id))].stream)
     ELSE UNCHANGED sessionVars
  /\ dropped' = dropped \cup {held} /\ held' = Empty
  /\ UNCHANGED <<mainVars, listenerPc, connVars, target, retries, taken, sent>>

(* The failed path is taken out, by stream, and the packet is dropped: the *)
(* server has no second try.                                               *)
DropsPath ==
  /\ ForwarderGoes("drop", "read")
  /\ Takes(target.stream)
  /\ dropped' = dropped \cup {held} /\ held' = Empty
  /\ UNCHANGED <<mainVars, listenerPc, connVars, target, retries, taken, sent>>

ForwarderReads == ReadPacket \/ ReadDenied \/ ReadNothing \/ ReadGivenUp
                  \/ ReadRetryable \/ ReadFails

ForwarderRuns == ReadClosed \/ ForwarderWakes \/ ForwarderInterrupted
                 \/ ForwarderReports \/ PickPath \/ PickNone \/ WriteFails
                 \/ DropsPath

Forwarder == ForwarderReads \/ WriteSucceeds \/ ForwarderRuns

-----------------------------------------------------------------------------
Next == \/ Environment \/ Main \/ CloseDevice \/ Forwarder
        \/ \E i \in PathIds : Listener(i)
        \/ \E c \in Conns : Handler(c)

(* The Go scheduler runs every goroutine that can run, and sync.Mutex      *)
(* hands itself over to whoever has waited for more than a millisecond.    *)
(* Nothing forces a packet, a frame, a connection or an event to come, nor *)
(* a live client to read what is written to it.  The close of the device   *)
(* ends a read from it (ReadClosed), as runTUNServer counts on.            *)
Fairness ==
  /\ WF_vars(Main) /\ WF_vars(CloseDevice) /\ WF_vars(ForwarderRuns)
  /\ \A i \in PathIds : WF_vars(ListenerRuns(i))
  /\ \A c \in Conns : WF_vars(HandlerRuns(c)) /\ SF_vars(LockDevice(c))

Spec     == Init /\ [][Next]_vars
FairSpec == Spec /\ Fairness

-----------------------------------------------------------------------------
(* Properties.                                                             *)

(* No stream is in the session's set twice, none is after its handler has  *)
(* closed it, and each has a handler that is still going to take it out:   *)
(* handler and forwarder both remove paths, in any order.                  *)
PathsServed ==
  /\ Cardinality(StreamsOf(paths)) = Len(paths)
  /\ \A c \in StreamsOf(paths) :
       handlerPc[c] \in {"read", "lock", "write", "remove"} /\ stream[c] # "closed"

(* A client whose stream is alive and read from gets its share of the      *)
(* packets: nobody takes a live path out, also not when an old connection  *)
(* of the same listener, perhaps of the same client, is found broken.      *)
HealthyPathsServe ==
  \A c \in Conns :
    handlerPc[c] \in {"read", "lock", "write"} /\ stream[c] = "open"
      => c \in StreamsOf(paths)

(* errCh has room for all that will ever be sent, the forwarder and both   *)
(* listeners failing at once while nobody receives included: the server's  *)
(* goroutines never block on a report, before or after main returns.       *)
NoReportBlocks ==
  errCount + Cardinality({i \in PathIds : listenerPc[i] = "report"})
           + (IF forwarderPc = "report" THEN 1 ELSE 0) <= ErrChCapacity

(* Between two departures the forwarder goes round: it picks no stream     *)
(* twice while another one waits, whatever streams join in between.        *)
RoundRobin ==
  [][\A s \in StreamsOf(paths) :
       forwarderPc = "pick" /\ forwarderPc' = "write" /\ s # target'.stream
         => target'.stream \notin seen[s]]_vars

(* The forwarder keeps the promise of the Forwarder: in order, at most     *)
(* once, every packet it has done with framed or counted as dropped.       *)
Promise == INSTANCE Forwarder WITH hand <- held, delivered <- sent,
                                   lost <- dropped
ForwardsAtMostOnce == Promise!SafeSpec

(* A path whose stream has ended or broken leaves the set without the help *)
(* of the forwarder, which may have no packet to find it with.             *)
StalePathLeaves ==
  \A c \in Conns :
    (c \in StreamsOf(paths) /\ ~Readable(c)) ~> c \notin StreamsOf(paths)

(* The server closes its listeners but no connection it has accepted: its  *)
(* handler waits for a frame as long as the client stays connected.        *)
LeftToClient(c) == handlerPc[c] = "read" /\ Readable(c)

(* Once the context is cancelled or main gives up on an error, the device  *)
(* is closed and main, the forwarder and the listeners end, for good, also *)
(* when the forwarder was in the middle of a packet.  Left behind may be,  *)
(* at the mercy of a client that stays connected, its handler, and the     *)
(* forwarder if it is writing a packet that this client does not read.     *)
ServerStops ==
  (cancelled \/ mainPc # "select") ~>
    [](/\ mainPc = "returned" /\ ~deviceOpen
       /\ \/ forwarderPc = "done"
          \/ forwarderPc = "write" /\ LeftToClient(target.stream)
       /\ \A i \in PathIds : listenerPc[i] = "done"
       /\ \A c \in Conns : handlerPc[c] \in {"none", "done"} \/ LeftToClient(c))
=============================================================================
