------------------------------- MODULE Tunnel -------------------------------
(***************************************************************************)
(* A TUN client and a TUN server joined by streams, down to the writes a   *)
(* frame is made of: WriteFrame and ReadFrame (framing.go) as the writing  *)
(* and reading goroutines of both ends use them (client.go, server.go).    *)
(*                                                                         *)
(* A frame is a header and Parts pieces of payload.  A stream carries them *)
(* in order, holds Window of them at most (the peer's flow control) and    *)
(* may break, for each end at a time of its own, at any point of a frame.  *)
(* The reader knows pieces only by their position.                         *)
(*                                                                         *)
(* What ClientTUN and ServerTUN say about the path sets is left out here:  *)
(* the writer picks any stream of its set, and takes out a failed one and  *)
(* goes on in one step.  No network is configured for the packet policy    *)
(* (Packets), and a client whose device fails shuts down (ClientTUN).      *)
(***************************************************************************)
EXTENDS Naturals, Sequences, FiniteSets

CONSTANTS
  NPaths,      (* configured paths of the client                             *)
  MaxStreams,  (* bound: streams ever dialled                                *)
  MaxPackets,  (* bound: packets ever read from the device of each end       *)
  Parts,       (* pieces of a payload                                        *)
  Window       (* pieces in a stream that have not been read                 *)

ASSUME SizesAssumption ==
  /\ NPaths \in Nat \ {0} /\ MaxStreams \in Nat
  /\ Parts \in Nat \ {0} /\ Window \in Nat \ {0}

Ends    == {"client", "server"}
Streams == 1..MaxStreams

ASSUME MaxPacketsAssumption == MaxPackets \in [Ends -> Nat]

Peer(e) == IF e = "client" THEN "server" ELSE "client"

VARIABLES
  end,      (* per end and stream: "unused", "open", "broken", or "closed"   *)
            (* by this end                                                   *)
  wire,     (* per end and stream: pieces it has written, not read yet       *)
  paths,    (* per end: the streams in its path set                          *)
  taken,    (* per end: number of packets read from its device               *)
  writer,   (* per end: the packet it is writing, 0 if none, the stream, and *)
            (* the number of pieces written                                  *)
  reader,   (* per end and stream: "none", "read" or "done"                  *)
  got,      (* per end and stream: the pieces of the frame being read        *)
  arrived,  (* history, per end: packets it has written to its device        *)
  dropped   (* history, per end: packets it has counted as dropped           *)

vars == <<end, wire, paths, taken, writer, reader, got, arrived, dropped>>

Idle        == [packet |-> 0, stream |-> 0, pieces |-> 0]
Piece(p, k) == [packet |-> p, part |-> k]
Frame(p)    == [k \in 1..(Parts + 1) |-> Piece(p, k - 1)]

Init ==
  /\ end = [e \in Ends |-> [s \in Streams |-> "unused"]]
  /\ wire = [e \in Ends |-> [s \in Streams |-> << >>]]
  /\ paths = [e \in Ends |-> {}] /\ taken = [e \in Ends |-> 0]
  /\ writer = [e \in Ends |-> Idle]
  /\ reader = [e \in Ends |-> [s \in Streams |-> "none"]]
  /\ got = [e \in Ends |-> [s \in Streams |-> << >>]]
  /\ arrived = [e \in Ends |-> << >>] /\ dropped = [e \in Ends |-> {}]

-----------------------------------------------------------------------------
(* The streams.                                                            *)

(* The client dials a path that is missing; a receiver starts.             *)
Dial(s) ==
  /\ end["client"][s] = "unused" /\ \A r \in 1..(s - 1) : end["client"][r] # "unused"
  /\ Cardinality(paths["client"]) < NPaths
  /\ end' = [e \in Ends |-> [end[e] EXCEPT ![s] = "open"]]
  /\ paths' = [paths EXCEPT !["client"] = @ \cup {s}]
  /\ reader' = [reader EXCEPT !["client"][s] = "read"]
  /\ UNCHANGED <<wire, taken, writer, got, arrived, dropped>>

(* The server learns of a stream from its first bytes; a handler starts.   *)
AcceptStream(s) ==
  /\ end["server"][s] = "open" /\ reader["server"][s] = "none"
  /\ wire["client"][s] # << >>
  /\ paths' = [paths EXCEPT !["server"] = @ \cup {s}]
  /\ reader' = [reader EXCEPT !["server"][s] = "read"]
  /\ UNCHANGED <<end, wire, taken, writer, got, arrived, dropped>>

Broken(e, s) ==
  /\ end[e][s] = "open"
  /\ end' = [end EXCEPT ![e][s] = "broken"]
  /\ UNCHANGED <<wire, paths, taken, writer, reader, got, arrived, dropped>>

(* A connection fails at one end, and the other end learns that its peer   *)
(* has closed it or is gone.                                               *)
Breaks(e, s)  == Broken(e, s)
Notices(e, s) == Broken(e, s) /\ end[Peer(e)][s] # "open"

-----------------------------------------------------------------------------
(* The writer of end e: sendTUNPackets and forwardDevicePackets.           *)

(* The packet p starts on a stream of the set, or is dropped without one.  *)
Starts(e, p, set) ==
  IF set = {}
  THEN writer' = [writer EXCEPT ![e] = Idle]
       /\ dropped' = [dropped EXCEPT ![e] = @ \cup {p}]
  ELSE /\ \E s \in set :
            writer' = [writer EXCEPT ![e] = [packet |-> p, stream |-> s, pieces |-> 0]]
       /\ UNCHANGED dropped

TakePacket(e) ==
  /\ writer[e] = Idle /\ taken[e] < MaxPackets[e]
  /\ taken' = [taken EXCEPT ![e] = @ + 1]
  /\ Starts(e, taken[e] + 1, paths[e])
  /\ UNCHANGED <<end, wire, paths, reader, got, arrived>>

(* Mutant: one piece more than the header says.                            *)
IsLast_Late(k) == k > Parts

IsLast(k) == k = Parts

(* WriteFrame: a Write blocks while the peer gives no room.                *)
WritePiece(e) ==
  LET w == writer[e] IN
  /\ w # Idle /\ end[e][w.stream] = "open"
  /\ Len(wire[e][w.stream]) < Window
  /\ wire' = [wire EXCEPT ![e][w.stream] = Append(@, Piece(w.packet, w.pieces))]
  /\ writer' = [writer EXCEPT ![e] =
                  IF IsLast(w.pieces) THEN Idle ELSE [w EXCEPT !.pieces = @ + 1]]
  /\ UNCHANGED <<end, paths, taken, reader, got, arrived, dropped>>

(* Mutant: the next stream gets what is left of the frame.                 *)
WriteFails_Resumes(e) ==
  LET w == writer[e] IN
  /\ w # Idle /\ end[e][w.stream] # "open"
  /\ paths' = [paths EXCEPT ![e] = @ \ {w.stream}]
  /\ IF e = "client" /\ paths'[e] # {}
     THEN \E s \in paths'[e] : writer' = [writer EXCEPT ![e].stream = s]
     ELSE writer' = [writer EXCEPT ![e] = Idle]
  /\ UNCHANGED <<end, wire, taken, reader, got, arrived, dropped>>

(* The client closes the stream it takes out and starts the packet anew on *)
(* another; the server drops the packet.                                   *)
WriteFails(e) ==
  LET w == writer[e] IN
  /\ w # Idle /\ end[e][w.stream] # "open"
  /\ paths' = [paths EXCEPT ![e] = @ \ {w.stream}]
  /\ IF e = "client" THEN Starts(e, w.packet, paths'[e]) ELSE Starts(e, w.packet, {})
  /\ IF e = "client" /\ w.stream \in paths[e]
     THEN end' = [end EXCEPT ![e][w.stream] = "closed"] ELSE UNCHANGED end
  /\ UNCHANGED <<wire, taken, reader, got, arrived>>

-----------------------------------------------------------------------------
(* The reader of stream s at end e: receivePathPackets and                 *)
(* handleTUNQUICConnection.                                                *)

Reads(e, s) == reader[e][s] = "read" /\ end[e][s] = "open" /\ Len(got[e][s]) <= Parts

ReadPiece(e, s) ==
  /\ Reads(e, s) /\ wire[Peer(e)][s] # << >>
  /\ got' = [got EXCEPT ![e][s] = Append(@, Head(wire[Peer(e)][s]))]
  /\ wire' = [wire EXCEPT ![Peer(e)][s] = Tail(@)]
  /\ UNCHANGED <<end, paths, taken, writer, reader, arrived, dropped>>

(* Mutant: a frame is what has come when the stream ends.                  *)
HasFrame_Short(e, s) ==
  /\ reader[e][s] = "read"
  /\ Len(got[e][s]) > 0 /\ (Len(got[e][s]) > Parts \/ end[e][s] # "open")

HasFrame(e, s) == reader[e][s] = "read" /\ Len(got[e][s]) = Parts + 1

(* The frame is written to the device.                                     *)
StorePacket(e, s) ==
  /\ HasFrame(e, s)
  /\ got' = [got EXCEPT ![e][s] = << >>]
  /\ arrived' = [arrived EXCEPT ![e] = Append(@, got[e][s][1].packet)]
  /\ UNCHANGED <<end, wire, paths, taken, writer, reader, dropped>>

(* Mutant: the server's handler ends without closing its connection.       *)
Leaves_Open(e, s) ==
  /\ paths' = [paths EXCEPT ![e] = @ \ {s}]
  /\ reader' = [reader EXCEPT ![e][s] = "done"]
  /\ end' = IF e = "client" /\ s \in paths[e]
            THEN [end EXCEPT ![e][s] = "closed"] ELSE end

(* The deferred calls: the server closes its connection, the client does   *)
(* unless the path has been taken out by somebody else, who closes it.     *)
Leaves(e, s) ==
  /\ paths' = [paths EXCEPT ![e] = @ \ {s}]
  /\ reader' = [reader EXCEPT ![e][s] = "done"]
  /\ end' = IF e = "server" \/ s \in paths[e]
            THEN [end EXCEPT ![e][s] = "closed"] ELSE end

ReadFails(e, s) ==
  /\ reader[e][s] = "read" /\ end[e][s] # "open" /\ ~HasFrame(e, s)
  /\ Leaves(e, s)
  /\ got' = [got EXCEPT ![e][s] = << >>]
  /\ UNCHANGED <<wire, taken, writer, arrived, dropped>>

(* The server's device refuses the packet, and its handler ends.           *)
StoreFails(s) ==
  /\ HasFrame("server", s)
  /\ Leaves("server", s)
  /\ got' = [got EXCEPT !["server"][s] = << >>]
  /\ UNCHANGED <<wire, taken, writer, arrived, dropped>>

-----------------------------------------------------------------------------
Next ==
  \/ \E s \in Streams : Dial(s) \/ AcceptStream(s) \/ StoreFails(s)
  \/ \E e \in Ends : TakePacket(e) \/ WritePiece(e) \/ WriteFails(e)
  \/ \E e \in Ends, s \in Streams :
       Breaks(e, s) \/ ReadPiece(e, s) \/ StorePacket(e, s) \/ ReadFails(e, s)

(* Goroutines run when they can, and an end notices, by CONNECTION_CLOSE   *)
(* or its idle timeout, that the other one is gone.  No connection has to  *)
(* break, and nothing makes packets or redials come.                       *)
Fairness ==
  \A e \in Ends :
    /\ WF_vars(WritePiece(e)) /\ WF_vars(WriteFails(e))
    /\ \A s \in Streams :
         /\ WF_vars(ReadPiece(e, s)) /\ WF_vars(ReadFails(e, s))
         /\ WF_vars(StorePacket(e, s)) /\ WF_vars(Notices(e, s))
         /\ WF_vars(AcceptStream(s))

Spec == Init /\ [][Next]_vars /\ Fairness

-----------------------------------------------------------------------------
(* No frame is longer than its header says, no stream fuller than its      *)
(* window, and the writer has a stream exactly while it has a packet.      *)
TypeOK ==
  /\ end \in [Ends -> [Streams -> {"unused", "open", "broken", "closed"}]]
  /\ \A e \in Ends :
       /\ paths[e] \subseteq Streams
       /\ reader[e] \in [Streams -> {"none", "read", "done"}]
       /\ taken[e] \in 0..MaxPackets[e]
       /\ writer[e] = Idle \/ /\ writer[e].packet \in 1..taken[e]
                              /\ writer[e].stream \in Streams
                              /\ writer[e].pieces \in 0..Parts
       /\ \A s \in Streams : Len(wire[e][s]) <= Window /\ Len(got[e][s]) <= Parts + 1

(* Whatever a reader takes for a frame is a whole frame of one packet,     *)
(* although the writer may have stopped between any two pieces, started    *)
(* the packet again elsewhere, and others write to other streams.          *)
FramesIntact ==
  \A e \in Ends, s \in Streams :
    HasFrame(e, s) => \E p \in 1..taken[Peer(e)] : got[e][s] = Frame(p)

(* Each direction is a Link: a packet that was tried on several streams    *)
(* arrives once, and never after it has been counted as dropped.           *)
Upward   == INSTANCE Link WITH offered <- taken["client"], arrived <- arrived["server"],
                               dropped <- dropped["client"]
Downward == INSTANCE Link WITH offered <- taken["server"], arrived <- arrived["client"],
                               dropped <- dropped["server"]
CarriesPackets == Upward!Spec /\ Downward!Spec

(* A writer that waits for room gets on: its reader reads on, or has ended *)
(* and closed the connection.  Neither end waits for the other in a circle *)
(* although both may be writing to a full stream.                          *)
NobodyStalls == \A e \in Ends : writer[e] # Idle ~> writer[e] = Idle
=============================================================================
