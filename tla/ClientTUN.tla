----------------------------- MODULE ClientTUN -----------------------------
(***************************************************************************)
(* The TUN client: RunTUNClient's dials and pumpTUN with its goroutines    *)
(* (internal/quictransport/client.go).                                     *)
(*                                                                         *)
(*   main          dials the configured paths in turn, starts the others,  *)
(*                 waits for cancellation or an error, closes the paths    *)
(*   closer        closes the TUN device once the context is cancelled     *)
(*   sender        sendTUNPackets: device -> next path, with failover      *)
(*   receiver(s)   receivePathPackets for stream s: stream -> device       *)
(*   reconnect(i)  reconnectClientPath for path i: redials it when missing *)
(*                                                                         *)
(* One action is what a goroutine does between two accesses to what it     *)
(* shares with another: the path set (each method holds its mutex), a      *)
(* stream, the device, errCh, the context.  Each value a goroutine read    *)
(* from the path set may be stale by the time it acts on it.               *)
(*                                                                         *)
(* Left out: log lines, packet contents, and the error, RX and receive     *)
(* side drop counters, which nothing here reads back.                      *)
(***************************************************************************)
EXTENDS PathSet, FiniteSets

CONSTANTS
  NPaths,     (* number of configured paths; the code allows one or two      *)
  MaxStreams, (* bound: streams ever dialled                                 *)
  MaxPackets, (* bound: packets ever read from the device                    *)
  MaxRetries, (* maxRetryablePacketDeviceReads; 100 in the code              *)
  Events      (* bound: what may happen besides dials and broken connections *)

ASSUME NPathsAssumption     == NPaths \in Nat \ {0}
ASSUME MaxStreamsAssumption == MaxStreams \in Nat
ASSUME MaxPacketsAssumption == MaxPackets \in Nat
ASSUME MaxRetriesAssumption == MaxRetries \in Nat

(* "interrupt"    the user stops the client                                *)
(* "end"          a peer closes its side of a stream, the connection lives *)
(* "inbound"      frames arrive from the server                            *)
(* "device error" the TUN device fails a read or a write                   *)
ASSUME EventsAssumption ==
  Events \subseteq {"interrupt", "end", "inbound", "device error"}

(* Paths are numbered by their place in the list of specs.  Streams are    *)
(* numbered as they are dialled and packets as they are read: a number is  *)
(* never used twice, as a stream object in the code is not.                *)
PathIds == 0..(NPaths - 1)
Streams == 1..MaxStreams
Packets == 1..MaxPackets

Empty  == 0                              (* a packet of length zero, or none *)
None   == 0                              (* no stream                        *)
NoPath == [id |-> 0, stream |-> None]

(* Capacity of errCh.  The reconnect configuration is always present and   *)
(* at most NPaths paths are connected, so the larger number is NPaths.     *)
MaxTUNClientErrors == NPaths
(* Mutant: no room for the sender.                                         *)
ErrChCapacity_NoSender == MaxTUNClientErrors

ErrChCapacity == MaxTUNClientErrors + 1

VARIABLES
  mainPc,     (* "dial", "select", "teardown" or "returned"                  *)
  dialNext,   (* main: the path id to dial next                              *)
  cancelled,  (* ctx.Err() # nil, for the context pumpTUN derives            *)
  deviceOpen, (* the TUN file descriptor is open                             *)
  errCount,   (* number of errors in the buffer of errCh                     *)
  paths, next, cooling,  (* clientPathSet, see PathSet                       *)
  used,       (* number of streams dialled so far                            *)
  stream,     (* per stream: "unused", "open", "eof" (the peer ended its     *)
              (* side: reads fail, writes do not), "broken" (both fail),     *)
              (* "closed" (by this client)                                   *)
  senderPc, held, target, retries,
  receiverPc, (* per stream                                                  *)
  reconnectPc, fresh,    (* per path id; fresh is the stream just dialled    *)
  taken,      (* history: number of packets read from the device             *)
  sent,       (* history: packets in the order their frames were written     *)
  dropped,    (* history: packets counted as dropped                         *)
  late        (* history: streams added after pumpTUN closed its paths       *)

mainVars   == <<mainPc, dialNext>>
ctxVars    == <<cancelled, deviceOpen, errCount>>
pathVars   == <<paths, next, cooling>>
streamVars == <<used, stream>>
senderVars == <<senderPc, held, target, retries>>
redialVars == <<reconnectPc, fresh, late>>
packetVars == <<taken, sent, dropped>>

vars == <<mainVars, ctxVars, pathVars, streamVars, senderVars, receiverPc,
          redialVars, packetVars>>

SenderPcs    == {"idle", "read", "sleep", "report", "pick", "write", "mark",
                 "fail", "remove", "close", "done"}
ReceiverPcs  == {"none", "read", "lock", "write", "report", "remove", "close",
                 "done"}
ReconnectPcs == {"idle", "check", "poll", "dial", "backoff", "add", "spawn",
                 "done"}

TypeOK ==
  /\ mainPc \in {"dial", "select", "teardown", "returned"}
  /\ dialNext \in 0..NPaths
  /\ cancelled \in BOOLEAN
  /\ deviceOpen \in BOOLEAN
  /\ errCount \in 0..ErrChCapacity
  /\ paths \in Seq([id : PathIds, stream : Streams])
  /\ next \in Nat /\ (next = 0 \/ next < Len(paths))
  /\ cooling \subseteq PathIds
  /\ used \in 0..MaxStreams
  /\ stream \in [Streams -> {"unused", "open", "eof", "broken", "closed"}]
  /\ senderPc \in SenderPcs
  /\ held \in Packets \cup {Empty}
  /\ target \in [id : PathIds, stream : Streams] \cup {NoPath}
  /\ retries \in 0..MaxRetries
  /\ receiverPc \in [Streams -> ReceiverPcs]
  /\ reconnectPc \in [PathIds -> ReconnectPcs]
  /\ fresh \in [PathIds -> Streams \cup {None}]
  /\ taken \in 0..MaxPackets
  /\ sent \in Seq(Packets)
  /\ dropped \subseteq Packets
  /\ late \subseteq Streams

Init ==
  /\ mainPc = "dial" /\ dialNext = 0
  /\ cancelled = FALSE /\ deviceOpen = TRUE /\ errCount = 0
  /\ paths = << >> /\ next = 0 /\ cooling = {}
  /\ used = 0 /\ stream = [s \in Streams |-> "unused"]
  /\ senderPc = "idle" /\ held = Empty /\ target = NoPath /\ retries = 0
  /\ receiverPc = [s \in Streams |-> "none"]
  /\ reconnectPc = [i \in PathIds |-> "idle"]
  /\ fresh = [i \in PathIds |-> None]
  /\ taken = 0 /\ sent = << >> /\ dropped = {} /\ late = {}

(* What the network and the peer leave possible on a stream.               *)
Readable(s) == stream[s] = "open"
Writable(s) == stream[s] \in {"open", "eof"}

-----------------------------------------------------------------------------
(* The environment.                                                        *)

(* The user interrupts the program: the parent context is cancelled.       *)
Interrupt ==
  /\ "interrupt" \in Events
  /\ ~cancelled
  /\ cancelled' = TRUE
  /\ UNCHANGED <<mainVars, deviceOpen, errCount, pathVars, streamVars,
                 senderVars, receiverPc, redialVars, packetVars>>

(* The peer closes its side of a stream; the bytes before it are read.     *)
StreamEnds(s) ==
  /\ "end" \in Events
  /\ stream[s] = "open"
  /\ stream' = [stream EXCEPT ![s] = "eof"]
  /\ UNCHANGED <<mainVars, ctxVars, pathVars, used, senderVars, receiverPc,
                 redialVars, packetVars>>

(* The connection under a stream is closed by the peer or times out.       *)
StreamBreaks(s) ==
  /\ stream[s] \in {"open", "eof"}
  /\ stream' = [stream EXCEPT ![s] = "broken"]
  /\ UNCHANGED <<mainVars, ctxVars, pathVars, used, senderVars, receiverPc,
                 redialVars, packetVars>>

(* Time passes a path's cooldownUntil.  The cooldown lasts from 1 s to     *)
(* 16 s, so it may end before or after anything else here happens.         *)
CooldownEnds(i) ==
  /\ i \in cooling
  /\ cooling' = cooling \ {i}
  /\ UNCHANGED <<mainVars, ctxVars, paths, next, streamVars, senderVars,
                 receiverPc, redialVars, packetVars>>

Environment ==
  \/ Interrupt
  \/ \E s \in Streams : StreamEnds(s) \/ StreamBreaks(s)
  \/ \E i \in PathIds : CooldownEnds(i)

-----------------------------------------------------------------------------
(* main: RunTUNClient up to pumpTUN, then pumpTUN itself.                   *)

Dialled(i) == [id |-> i, stream |-> used + 1]

InitialDialSucceeds ==
  /\ mainPc = "dial" /\ dialNext < NPaths
  /\ ~cancelled /\ used < MaxStreams
  /\ used' = used + 1
  /\ stream' = [stream EXCEPT ![used + 1] = "open"]
  /\ paths' = Append(paths, Dialled(dialNext))
  /\ dialNext' = dialNext + 1
  /\ UNCHANGED <<mainPc, ctxVars, next, cooling, senderVars, receiverPc,
                 redialVars, packetVars>>

(* A dial that fails after cancellation ends the dialling.                 *)
InitialDialFails ==
  /\ mainPc = "dial" /\ dialNext < NPaths
  /\ dialNext' = IF cancelled THEN NPaths ELSE dialNext + 1
  /\ UNCHANGED <<mainPc, ctxVars, pathVars, streamVars, senderVars, receiverPc,
                 redialVars, packetVars>>

StartGoroutines ==
  /\ mainPc = "dial" /\ dialNext = NPaths
  /\ mainPc' = "select"
  /\ senderPc' = "read"
  /\ receiverPc' = [s \in Streams |->
                      IF s \in StreamsOf(paths) THEN "read" ELSE receiverPc[s]]
  /\ reconnectPc' = [i \in PathIds |-> "check"]
  /\ UNCHANGED <<dialNext, ctxVars, pathVars, streamVars, held, target, retries,
                 fresh, late, packetVars>>

SelectDone ==
  /\ mainPc = "select" /\ cancelled
  /\ mainPc' = "teardown"
  /\ UNCHANGED <<dialNext, ctxVars, pathVars, streamVars, senderVars,
                 receiverPc, redialVars, packetVars>>

SelectError ==
  /\ mainPc = "select" /\ errCount > 0
  /\ mainPc' = "teardown"
  /\ errCount' = errCount - 1
  /\ cancelled' = TRUE
  /\ UNCHANGED <<dialNext, deviceOpen, pathVars, streamVars, senderVars,
                 receiverPc, redialVars, packetVars>>

(* Mutant: pumpTUN returns without closing its paths.                      *)
ClosePaths_Forgotten ==
  /\ mainPc = "teardown"
  /\ mainPc' = "returned"
  /\ UNCHANGED <<dialNext, ctxVars, pathVars, streamVars, senderVars, receiverPc,
                 redialVars, packetVars>>

(* The deferred close of the paths that are active now.  They stay in the  *)
(* set until their receivers take them out.                                *)
ClosePaths ==
  /\ mainPc = "teardown"
  /\ mainPc' = "returned"
  /\ stream' = [s \in Streams |->
                  IF s \in StreamsOf(paths) THEN "closed" ELSE stream[s]]
  /\ UNCHANGED <<dialNext, ctxVars, pathVars, used, senderVars, receiverPc,
                 redialVars, packetVars>>

(* The goroutine that waits for the context.                               *)
CloseDevice ==
  /\ mainPc # "dial" /\ cancelled /\ deviceOpen
  /\ deviceOpen' = FALSE
  /\ UNCHANGED <<mainVars, cancelled, errCount, pathVars, streamVars,
                 senderVars, receiverPc, redialVars, packetVars>>

Main == \/ InitialDialSucceeds \/ InitialDialFails \/ StartGoroutines
        \/ SelectDone \/ SelectError \/ ClosePaths

-----------------------------------------------------------------------------
(* The sender.                                                             *)

SenderGoes(from, to) == senderPc = from /\ senderPc' = to

(* What a sender step leaves alone when it only reads the device or moves. *)
SenderOnly == UNCHANGED <<mainVars, ctxVars, pathVars, streamVars, target,
                          receiverPc, redialVars>>

(* device.Read returns a packet the policy allows.                         *)
ReadPacket ==
  /\ SenderGoes("read", "pick")
  /\ deviceOpen /\ taken < MaxPackets
  /\ taken' = taken + 1 /\ held' = taken + 1 /\ retries' = 0
  /\ UNCHANGED <<sent, dropped>> /\ SenderOnly

(* A packet the policy denies is counted as a drop.                        *)
ReadDenied ==
  /\ SenderGoes("read", "read")
  /\ deviceOpen /\ taken < MaxPackets
  /\ taken' = taken + 1 /\ dropped' = dropped \cup {taken + 1} /\ retries' = 0
  /\ UNCHANGED <<held, sent>> /\ SenderOnly

(* n = 0 with no error: read again.                                        *)
ReadNothing ==
  /\ SenderGoes("read", "read")
  /\ deviceOpen
  /\ retries' = 0
  /\ UNCHANGED <<held, packetVars>> /\ SenderOnly

(* The close of the device ends the read, or is found by it.               *)
ReadClosed ==
  /\ SenderGoes("read", "done")
  /\ ~deviceOpen
  /\ UNCHANGED <<held, retries, packetVars>> /\ SenderOnly

(* After cancellation an error of the device is taken for its close.       *)
ReadGivenUp ==
  /\ "device error" \in Events
  /\ SenderGoes("read", "done")
  /\ deviceOpen /\ cancelled
  /\ UNCHANGED <<held, retries, packetVars>> /\ SenderOnly

ReadRetryable ==
  /\ "device error" \in Events
  /\ SenderGoes("read", "sleep")
  /\ deviceOpen /\ ~cancelled /\ retries < MaxRetries
  /\ retries' = retries + 1
  /\ UNCHANGED <<held, packetVars>> /\ SenderOnly

ReadFails ==
  /\ "device error" \in Events
  /\ SenderGoes("read", "report")
  /\ deviceOpen /\ ~cancelled
  /\ UNCHANGED <<held, retries, packetVars>> /\ SenderOnly

(* sleepContext: the timer, or the context; either when both are ready.    *)
SenderWakes ==
  /\ SenderGoes("sleep", "read")
  /\ UNCHANGED <<held, retries, packetVars>> /\ SenderOnly

SenderInterrupted ==
  /\ SenderGoes("sleep", "done") /\ cancelled
  /\ UNCHANGED <<held, retries, packetVars>> /\ SenderOnly

(* errCh <- err blocks while the buffer is full.                           *)
SenderReports ==
  /\ SenderGoes("report", "done")
  /\ errCount < ErrChCapacity
  /\ errCount' = errCount + 1
  /\ UNCHANGED <<mainVars, cancelled, deviceOpen, pathVars, streamVars, held,
                 target, retries, receiverPc, redialVars, packetVars>>

PickPath ==
  /\ SenderGoes("pick", "write")
  /\ paths # << >>
  /\ LET index == NextIndex(paths, next, cooling)
     IN  /\ target' = PathAt(paths, index)
         /\ next' = NextAfter(paths, index)
  /\ UNCHANGED <<mainVars, ctxVars, paths, cooling, streamVars, held, retries,
                 receiverPc, redialVars, packetVars>>

PickNone ==
  /\ SenderGoes("pick", "read")
  /\ paths = << >>
  /\ dropped' = dropped \cup ({held} \ {Empty}) /\ held' = Empty
  /\ UNCHANGED <<retries, taken, sent>> /\ SenderOnly

(* Mutant: no break after a successful write.                              *)
WriteSucceeds_NoBreak ==
  /\ SenderGoes("write", "pick")
  /\ held # Empty /\ Writable(target.stream)
  /\ sent' = Append(sent, held)
  /\ UNCHANGED <<mainVars, ctxVars, pathVars, streamVars, held, target, retries,
                 receiverPc, redialVars, taken, dropped>>

(* Both writes of the frame are accepted by the stream.                    *)
WriteSucceeds ==
  /\ SenderGoes("write", "mark")
  /\ held # Empty /\ Writable(target.stream)
  /\ sent' = Append(sent, held) /\ held' = Empty
  /\ UNCHANGED <<mainVars, ctxVars, pathVars, streamVars, target, retries,
                 receiverPc, redialVars, taken, dropped>>

(* WriteFrame refuses an empty packet whatever the state of the stream.    *)
WriteFails ==
  /\ SenderGoes("write", "fail")
  /\ held = Empty \/ ~Writable(target.stream)
  /\ UNCHANGED <<held, retries, packetVars>> /\ SenderOnly

(* markSuccess forgets the failures and the cooldown of the path id.       *)
MarkSuccess ==
  /\ SenderGoes("mark", "read")
  /\ cooling' = cooling \ {target.id}
  /\ target' = NoPath
  /\ UNCHANGED <<mainVars, ctxVars, paths, next, streamVars, held, retries,
                 receiverPc, redialVars, packetVars>>

(* markFailure goes by the path's id: if the path has been replaced since  *)
(* it was picked, the new stream starts in cooldown.                       *)
MarkFailure ==
  /\ SenderGoes("fail", "remove")
  /\ cooling' = cooling \cup {target.id}
  /\ UNCHANGED <<mainVars, ctxVars, paths, next, streamVars, held, target,
                 retries, receiverPc, redialVars, packetVars>>

(* Mutant: the path is removed by its id, whatever its stream is now.      *)
SenderRemoves_ById ==
  LET hit == {s \in Streams :
                \E k \in PositionsOfId(paths, target.id) : paths[k].stream = s}
      s   == IF hit = {} THEN None ELSE Min(hit)
  IN  /\ senderPc = "remove"
      /\ senderPc' = IF hit = {} THEN "pick" ELSE "close"
      /\ paths' = RemovePath(paths, s)
      /\ next' = NextAfterRemove(paths, next, s)
      /\ UNCHANGED <<mainVars, ctxVars, cooling, streamVars, held, target,
                     retries, receiverPc, redialVars, packetVars>>

(* Mutant: the removed path is not closed.                                 *)
SenderRemoves_NoClose ==
  /\ SenderGoes("remove", "pick")
  /\ paths' = RemovePath(paths, target.stream)
  /\ next' = NextAfterRemove(paths, next, target.stream)
  /\ UNCHANGED <<mainVars, ctxVars, cooling, streamVars, held, target, retries,
                 receiverPc, redialVars, packetVars>>

(* Mutant: the packet is dropped after a failed write, not retried.        *)
SenderRemoves_NoRetry ==
  /\ SenderGoes("remove", "read")
  /\ paths' = RemovePath(paths, target.stream)
  /\ next' = NextAfterRemove(paths, next, target.stream)
  /\ dropped' = dropped \cup {held} /\ held' = Empty
  /\ UNCHANGED <<mainVars, ctxVars, cooling, streamVars, target, retries,
                 receiverPc, redialVars, taken, sent>>

SenderRemoves ==
  /\ senderPc = "remove"
  /\ senderPc' = IF target.stream \in StreamsOf(paths) THEN "close" ELSE "pick"
  /\ paths' = RemovePath(paths, target.stream)
  /\ next' = NextAfterRemove(paths, next, target.stream)
  /\ UNCHANGED <<mainVars, ctxVars, cooling, streamVars, held, target, retries,
                 receiverPc, redialVars, packetVars>>

SenderCloses ==
  /\ SenderGoes("close", "pick")
  /\ stream' = [stream EXCEPT ![target.stream] = "closed"]
  /\ UNCHANGED <<mainVars, ctxVars, pathVars, used, held, target, retries,
                 receiverPc, redialVars, packetVars>>

SenderReads == ReadPacket \/ ReadDenied \/ ReadNothing \/ ReadGivenUp
               \/ ReadRetryable \/ ReadFails

SenderRuns == ReadClosed \/ SenderWakes \/ SenderInterrupted \/ SenderReports
              \/ PickPath \/ PickNone \/ WriteFails \/ MarkSuccess
              \/ MarkFailure \/ SenderRemoves \/ SenderCloses

Sender == SenderReads \/ WriteSucceeds \/ SenderRuns

-----------------------------------------------------------------------------
(* The receiver of stream s.                                               *)

ReceiverGoes(s, from, to) ==
  receiverPc[s] = from /\ receiverPc' = [receiverPc EXCEPT ![s] = to]

ReceiverOnly == UNCHANGED <<mainVars, ctxVars, pathVars, streamVars, senderVars,
                            redialVars, packetVars>>

(* A frame arrives and the policy allows it.  (A frame it denies is        *)
(* dropped, and the receiver reads the next one.)                          *)
ReceiveFrame(s) ==
  /\ "inbound" \in Events
  /\ ReceiverGoes(s, "read", "lock") /\ Readable(s)
  /\ ReceiverOnly

(* Mutant: the receiver ends without the deferred remove.                  *)
ReceiveFails_NoRemove(s) ==
  /\ ReceiverGoes(s, "read", "done") /\ ~Readable(s)
  /\ ReceiverOnly

(* Any error, a graceful end included, ends the loop; the deferred remove  *)
(* follows.                                                                *)
ReceiveFails(s) ==
  /\ ReceiverGoes(s, "read", "remove") /\ ~Readable(s)
  /\ ReceiverOnly

LockDevice(s) ==
  /\ ReceiverGoes(s, "lock", "write")
  /\ \A r \in Streams : receiverPc[r] # "write"
  /\ ReceiverOnly

WriteDevice(s) ==
  /\ ReceiverGoes(s, "write", "read") /\ deviceOpen
  /\ ReceiverOnly

(* After cancellation, or on a closed device, the error is not reported.   *)
WriteDeviceClosed(s) ==
  /\ ReceiverGoes(s, "write", "remove") /\ (cancelled \/ ~deviceOpen)
  /\ ReceiverOnly

WriteDeviceFails(s) ==
  /\ "device error" \in Events
  /\ ReceiverGoes(s, "write", "report") /\ ~cancelled /\ deviceOpen
  /\ ReceiverOnly

ReceiverReports(s) ==
  /\ ReceiverGoes(s, "report", "remove")
  /\ errCount < ErrChCapacity
  /\ errCount' = errCount + 1
  /\ UNCHANGED <<mainVars, cancelled, deviceOpen, pathVars, streamVars,
                 senderVars, redialVars, packetVars>>

ReceiverRemoves(s) ==
  /\ ReceiverGoes(s, "remove", IF s \in StreamsOf(paths) THEN "close" ELSE "done")
  /\ paths' = RemovePath(paths, s)
  /\ next' = NextAfterRemove(paths, next, s)
  /\ UNCHANGED <<mainVars, ctxVars, cooling, streamVars, senderVars, redialVars,
                 packetVars>>

ReceiverCloses(s) ==
  /\ ReceiverGoes(s, "close", "done")
  /\ stream' = [stream EXCEPT ![s] = "closed"]
  /\ UNCHANGED <<mainVars, ctxVars, pathVars, used, senderVars, redialVars,
                 packetVars>>

ReceiverReads(s) == ReceiveFrame(s) \/ WriteDeviceFails(s)

ReceiverRuns(s) == ReceiveFails(s) \/ WriteDevice(s) \/ WriteDeviceClosed(s)
                   \/ ReceiverReports(s) \/ ReceiverRemoves(s)
                   \/ ReceiverCloses(s)

Receiver(s) == ReceiverReads(s) \/ LockDevice(s) \/ ReceiverRuns(s)

-----------------------------------------------------------------------------
(* The reconnect goroutine of path i.                                      *)

ReconnectGoes(i, from, to) ==
  reconnectPc[i] = from /\ reconnectPc' = [reconnectPc EXCEPT ![i] = to]

ReconnectOnly == UNCHANGED <<mainVars, ctxVars, pathVars, streamVars, senderVars,
                             receiverPc, fresh, late, packetVars>>

(* The test of the context and of the path set at the top of the loop.     *)
CheckPresent(i) ==
  /\ ReconnectGoes(i, "check", "poll")
  /\ ~cancelled /\ HasPathID(paths, i)
  /\ ReconnectOnly

CheckMissing(i) ==
  /\ ReconnectGoes(i, "check", "dial")
  /\ ~cancelled /\ ~HasPathID(paths, i)
  /\ ReconnectOnly

(* The loop ends at its top, in either sleep, or on a failed dial.         *)
ReconnectStops(i) ==
  /\ reconnectPc[i] \in {"check", "poll", "backoff", "dial"} /\ cancelled
  /\ reconnectPc' = [reconnectPc EXCEPT ![i] = "done"]
  /\ ReconnectOnly

(* The sleep of minDelay while the path is present, or the backoff delay.  *)
ReconnectWakes(i) ==
  /\ reconnectPc[i] \in {"poll", "backoff"}
  /\ reconnectPc' = [reconnectPc EXCEPT ![i] = "check"]
  /\ ReconnectOnly

RedialFails(i) ==
  /\ ReconnectGoes(i, "dial", "backoff") /\ ~cancelled
  /\ ReconnectOnly

RedialSucceeds(i) ==
  /\ ReconnectGoes(i, "dial", "add")
  /\ ~cancelled /\ used < MaxStreams
  /\ used' = used + 1
  /\ stream' = [stream EXCEPT ![used + 1] = "open"]
  /\ fresh' = [fresh EXCEPT ![i] = used + 1]
  /\ UNCHANGED <<mainVars, ctxVars, pathVars, senderVars, receiverPc, late,
                 packetVars>>

(* add, and the close of the stream it replaced, if any.                   *)
AddFresh(i) ==
  LET path == [id |-> i, stream |-> fresh[i]]
  IN  /\ ReconnectGoes(i, "add", "spawn")
      /\ paths' = AddPath(paths, path)
      /\ stream' = [s \in Streams |-> IF s \in Replaced(paths, path)
                                      THEN "closed" ELSE stream[s]]
      /\ late' = IF mainPc = "returned" THEN late \cup {fresh[i]} ELSE late
      /\ UNCHANGED <<mainVars, ctxVars, next, cooling, used, senderVars,
                     receiverPc, fresh, packetVars>>

(* Mutant: the goroutine returns once it has redialled its path.           *)
SpawnReceiver_Returns(i) ==
  /\ ReconnectGoes(i, "spawn", "done")
  /\ receiverPc' = [receiverPc EXCEPT ![fresh[i]] = "read"]
  /\ fresh' = [fresh EXCEPT ![i] = None]
  /\ UNCHANGED <<mainVars, ctxVars, pathVars, streamVars, senderVars, late,
                 packetVars>>

(* go receivePathPackets, and back to the top of the loop.                 *)
SpawnReceiver(i) ==
  /\ ReconnectGoes(i, "spawn", "check")
  /\ receiverPc' = [receiverPc EXCEPT ![fresh[i]] = "read"]
  /\ fresh' = [fresh EXCEPT ![i] = None]
  /\ UNCHANGED <<mainVars, ctxVars, pathVars, streamVars, senderVars, late,
                 packetVars>>

ReconnectRuns(i) == CheckPresent(i) \/ CheckMissing(i) \/ ReconnectStops(i)
                    \/ ReconnectWakes(i) \/ RedialFails(i) \/ AddFresh(i)
                    \/ SpawnReceiver(i)

Reconnect(i) == ReconnectRuns(i) \/ RedialSucceeds(i)

-----------------------------------------------------------------------------
Next ==
  \/ Environment
  \/ Main
  \/ CloseDevice
  \/ Sender
  \/ \E s \in Streams : Receiver(s)
  \/ \E i \in PathIds : Reconnect(i)

(* The Go scheduler runs every goroutine that can run, timers fire and     *)
(* dials return.  A read from the device or from an open stream may block  *)
(* for ever, and so may a write to an open stream whose peer does not      *)
(* read: nothing is assumed of them, except that the close of the device   *)
(* ends a read from it (ReadClosed), as pumpTUN counts on.  The device     *)
(* mutex is handed to a waiter in the end, and a server that can be        *)
(* reached often enough is reached.                                        *)
Fairness ==
  /\ WF_vars(Main) /\ WF_vars(CloseDevice) /\ WF_vars(SenderRuns)
  /\ \A s \in Streams : WF_vars(ReceiverRuns(s)) /\ SF_vars(LockDevice(s))
  /\ \A i \in PathIds : WF_vars(ReconnectRuns(i)) /\ SF_vars(RedialSucceeds(i))

Spec     == Init /\ [][Next]_vars
FairSpec == Spec /\ Fairness

(* With peers that read: a stream that stays open accepts a frame in the   *)
(* end.                                                                    *)
ForwardSpec == FairSpec /\ WF_vars(WriteSucceeds)

-----------------------------------------------------------------------------
(* Properties.                                                             *)

(* The path set never holds two paths of one id or one stream twice,       *)
(* although hasPathID and add are separate calls with a dial in between:   *)
(* only the goroutine of an id adds it.  hasPathID and remove rely on it.  *)
UniquePaths == Distinct(paths)

Watched(s) == receiverPc[s] \in {"read", "lock", "write", "report", "remove"}

(* Once the goroutines run, each active path has a receiver that is going  *)
(* to take it out when its stream ends, or its reconnect goroutine is just *)
(* about to start one.  A path nobody watches would stay in the set, and   *)
(* keep being picked or block a redial, after it died.                     *)
ActivePathsWatched ==
  mainPc # "dial" =>
    \A s \in StreamsOf(paths) :
      Watched(s) \/ \E i \in PathIds : reconnectPc[i] = "spawn" /\ fresh[i] = s

(* A stream that has not been closed is in the path set, or on its way in, *)
(* or the one goroutine that took it out is about to close it: no stream   *)
(* and no connection is leaked, and none is alive but out of rotation.     *)
NoStreamLeaked ==
  \A s \in Streams :
    stream[s] \in {"open", "eof", "broken"} =>
      \/ s \in StreamsOf(paths)
      \/ \E i \in PathIds : reconnectPc[i] = "add" /\ fresh[i] = s
      \/ senderPc = "close" /\ target.stream = s
      \/ receiverPc[s] = "close"

(* A stream leaves the path set only after it failed, unless the client is *)
(* shutting down.  A failed write is acted upon several steps later, when  *)
(* the path may have been redialled under the same id: the healthy new     *)
(* stream must stay.                                                       *)
OnlyBrokenPathsRemoved ==
  [][\A s \in StreamsOf(paths) \ StreamsOf(paths') :
        stream[s] # "open" \/ cancelled \/ errCount > 0]_vars

(* The sender gives up the packet in its hand only when no receiver is     *)
(* reading from a live stream: failover never loses a packet that another  *)
(* connected path could have carried, short of a shutdown.                 *)
NoDropWithLivePath ==
  [][held # Empty /\ dropped' # dropped
       => \A s \in Streams : receiverPc[s] = "read" => ~Readable(s)]_vars

(* errCh has room for every goroutine that will ever send to it as long as *)
(* no path has been redialled (each redial adds a receiver, and the        *)
(* capacity does not grow): then reporting an error blocks nobody.         *)
ErrorReportsFit ==
  used <= NPaths =>
    errCount + Cardinality({s \in Streams : receiverPc[s] = "report"})
             + (IF senderPc = "report" THEN 1 ELSE 0) <= ErrChCapacity

(* The sender keeps the promise of the Forwarder, failover included: a     *)
(* packet is framed in full on at most one stream, packets are framed in   *)
(* the order they were read, a framed packet is not counted as dropped,    *)
(* and the retry loop ends for each packet.                                *)
Promise == INSTANCE Forwarder WITH hand <- held, delivered <- sent,
                                   lost <- dropped
ForwardsAtMostOnce == Promise!Spec

(* A path that is missing, because its first dial failed or since it was   *)
(* lost, is redialled and becomes active again when its server can be      *)
(* reached, however often that happens, unless the client is cancelled.    *)
(* Only the bound excuses it: another path may take the last stream.       *)
MissingPathReturns ==
  \A i \in PathIds :
    (mainPc = "select" /\ ~HasPathID(paths, i) /\ used < MaxStreams)
      ~> \/ HasPathID(paths, i) \/ cancelled
         \/ \E j \in PathIds \ {i} : fresh[j] = MaxStreams

Ended(pc)    == pc \in {"idle", "none", "done"}
BlockedOn(pc) == pc = "report" /\ errCount = ErrChCapacity

(* Nothing ends a write to a stream that was added after pumpTUN had       *)
(* closed its paths, as long as the peer keeps it alive and does not read. *)
StuckOnLateStream ==
  senderPc = "write" /\ target.stream \in late /\ Writable(target.stream)

(* After cancellation pumpTUN returns, the device is closed, and every     *)
(* goroutine ends, wherever it was, in a failover or in a write that a     *)
(* stalled peer has blocked too.  The code has three exceptions: one that  *)
(* blocks on a full errCh nobody reads any more, and the receiver and the  *)
(* sender of a stream that was added after pumpTUN had closed its paths.   *)
ShutdownCompletes ==
  cancelled ~>
    /\ mainPc = "returned" /\ ~deviceOpen
    /\ Ended(senderPc) \/ BlockedOn(senderPc) \/ StuckOnLateStream
    /\ \A i \in PathIds : Ended(reconnectPc[i])
    /\ \A s \in Streams :
         Ended(receiverPc[s]) \/ BlockedOn(receiverPc[s]) \/ s \in late
=============================================================================
