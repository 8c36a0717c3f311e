---------------------------- MODULE Tunnel_proofs ----------------------------
(***************************************************************************)
(* Proofs about Tunnel for every number of streams, packets, pieces and    *)
(* every window: no frame is taken apart or glued together.                *)
(***************************************************************************)
EXTENDS Tunnel, SequenceTheorems, TLAPS

Pieces == [packet : Nat, part : 0..Parts]

(* g is a frame as far as it has been read.                                *)
Begun(g) == \A i \in 1..Len(g) : g[i] = Piece(g[1].packet, i - 1)

(* b may come after a in a stream.                                         *)
Follows(a, b) == IF a.part = Parts THEN b.part = 0
                                   ELSE b = Piece(a.packet, a.part + 1)

(* The wire q goes on where g ends.                                        *)
Continues(g, q) ==
  /\ q # << >> => IF Len(g) \in 1..Parts THEN q[1] = Piece(g[1].packet, Len(g))
                                         ELSE q[1].part = 0
  /\ \A i \in 1..(Len(q) - 1) : Follows(q[i], q[i + 1])

(* The last piece of a stream, and what its writer comes to write.         *)
LastPiece(g, q) ==
  IF q # << >> THEN q[Len(q)] ELSE IF g # << >> THEN g[Len(g)] ELSE Piece(0, Parts)
Ready(a, packet, pieces) ==
  IF pieces = 0 THEN a.part = Parts ELSE a = Piece(packet, pieces - 1)

-----------------------------------------------------------------------------
(* Facts about sequences of pieces.                                        *)

LEMMA PartsFact == Parts \in Nat \ {0} /\ Window \in Nat \ {0} /\ MaxStreams \in Nat
BY SizesAssumption

LEMMA PieceFact ==
  ASSUME NEW p \in Nat, NEW k \in 0..Parts
  PROVE  Piece(p, k) \in Pieces /\ Piece(p, k).packet = p /\ Piece(p, k).part = k
BY DEF Piece, Pieces

LEMMA LastFact ==
  ASSUME NEW g \in Seq(Pieces), NEW q \in Seq(Pieces)
  PROVE  LastPiece(g, q) \in Pieces
<1>1. Len(g) \in Nat /\ Len(q) \in Nat
  BY LenProperties
<1>2. q # << >> => Len(q) \in 1..Len(q)
  BY <1>1, EmptySeq
<1>3. g # << >> => Len(g) \in 1..Len(g)
  BY <1>1, EmptySeq
<1>4. Piece(0, Parts) \in Pieces
  BY PieceFact, PartsFact
<1> QED
  BY <1>2, <1>3, <1>4, ElementOfSeq DEF LastPiece

LEMMA AppendFact ==
  ASSUME NEW q \in Seq(Pieces), NEW x \in Pieces
  PROVE  /\ Len(Append(q, x)) = Len(q) + 1 /\ Append(q, x)[Len(q) + 1] = x
         /\ \A i \in 1..Len(q) : Append(q, x)[i] = q[i]
         /\ Len(q) \in Nat
BY AppendProperties, LenProperties

(* The writer writes the piece it is ready for.                            *)
LEMMA WriteContinues ==
  ASSUME NEW g \in Seq(Pieces), NEW q \in Seq(Pieces), Len(g) <= Parts + 1,
         Begun(g), Continues(g, q),
         NEW p \in Nat, NEW k \in 0..Parts, Ready(LastPiece(g, q), p, k)
  PROVE  /\ Continues(g, Append(q, Piece(p, k)))
         /\ LastPiece(g, Append(q, Piece(p, k))) = Piece(p, k)
<1> DEFINE more == Append(q, Piece(p, k))
<1>1. /\ Len(g) \in Nat /\ Len(q) \in Nat /\ Piece(p, k) \in Pieces
      /\ Parts \in Nat \ {0} /\ Piece(p, k).packet = p /\ Piece(p, k).part = k
  BY LenProperties, PieceFact, PartsFact
<1>2. /\ Len(more) = Len(q) + 1 /\ more[Len(q) + 1] = Piece(p, k)
      /\ \A i \in 1..Len(q) : more[i] = q[i]
      /\ more \in Seq(Pieces)
  BY <1>1, AppendProperties
<1> SUFFICES Continues(g, more) /\ LastPiece(g, more) = Piece(p, k)
  OBVIOUS
<1> HIDE DEF more
<1>3. more # << >>
  BY <1>1, <1>2, EmptySeq
<1>4. LastPiece(g, more) = Piece(p, k)
  BY <1>2, <1>3 DEF LastPiece
<1>5. CASE q = << >>
  <2>1. Len(q) = 0 /\ more[1] = Piece(p, k) /\ Len(more) = 1
    BY <1>2, <1>5, EmptySeq
  <2>2. CASE Len(g) \in 1..Parts
    <3>1. LastPiece(g, q) = g[Len(g)] /\ g[Len(g)] = Piece(g[1].packet, Len(g) - 1)
      BY <1>1, <1>5, <2>2, EmptySeq DEF LastPiece, Begun
    <3>2. g[1] \in Pieces
      BY <1>1, <2>2, ElementOfSeq
    <3>3. g[1].packet \in Nat
      BY <3>2 DEF Pieces
    <3>4. /\ LastPiece(g, q).part = Len(g) - 1 /\ LastPiece(g, q).packet = g[1].packet
          /\ Len(g) - 1 # Parts
      BY <1>1, <2>2, <3>1, <3>3, PieceFact
    <3>5. k # 0 /\ LastPiece(g, q) = Piece(p, k - 1)
      BY <3>4 DEF Ready
    <3>6. k - 1 = Len(g) - 1 /\ p = g[1].packet
      BY <1>1, <3>4, <3>5, PieceFact
    <3> QED
      BY <1>1, <1>3, <1>4, <2>1, <2>2, <3>6 DEF Continues
  <2>3. CASE Len(g) \notin 1..Parts
    <3>1. LastPiece(g, q).part = Parts
      <4>1. CASE g = << >>
        BY <1>1, <1>5, <4>1, PieceFact DEF LastPiece
      <4>2. CASE g # << >>
        <5>1. Len(g) = Parts + 1
          BY <1>1, <2>3, <4>2, EmptySeq
        <5>2. g[Len(g)] = Piece(g[1].packet, Parts) /\ g[1] \in Pieces
          BY <1>1, <5>1, ElementOfSeq DEF Begun
        <5>3. g[1].packet \in Nat
          BY <5>2 DEF Pieces
        <5> QED
          BY <1>1, <1>5, <4>2, <5>2, <5>3, PieceFact DEF LastPiece
      <4> QED
        BY <4>1, <4>2
    <3>2. k = 0
      <4>1. ASSUME k # 0 PROVE FALSE
        <5>1. LastPiece(g, q).part = k - 1
          BY <1>1, <4>1, PieceFact DEF Ready
        <5> QED
          BY <1>1, <3>1, <5>1
      <4> QED
        BY <4>1
    <3> QED
      BY <1>1, <1>3, <1>4, <2>1, <2>3, <3>2 DEF Continues
  <2> QED
    BY <2>2, <2>3
<1>6. CASE q # << >>
  <2>1. Len(q) \in 1..Len(q) /\ q[Len(q)] \in Pieces /\ LastPiece(g, q) = q[Len(q)]
    BY <1>1, <1>6, EmptySeq, ElementOfSeq DEF LastPiece
  <2>2. Follows(q[Len(q)], Piece(p, k))
    <3>1. CASE k = 0
      BY <1>1, <2>1, <3>1 DEF Ready, Follows
    <3>2. CASE k # 0
      <4>1. q[Len(q)] = Piece(p, k - 1) /\ k - 1 \in 0..Parts
        BY <1>1, <2>1, <3>2 DEF Ready
      <4>2. q[Len(q)].part = k - 1 /\ q[Len(q)].packet = p
        BY <4>1, PieceFact
      <4> QED
        BY <1>1, <4>2 DEF Follows
    <3> QED
      BY <3>1, <3>2
  <2>3. ASSUME NEW i \in 1..(Len(more) - 1)
        PROVE  Follows(more[i], more[i + 1])
    <3>1. CASE i = Len(q)
      BY <1>1, <1>2, <2>1, <2>2, <3>1
    <3>2. CASE i # Len(q)
      <4>1. i \in 1..(Len(q) - 1) /\ i \in 1..Len(q) /\ i + 1 \in 1..Len(q)
        BY <1>1, <1>2, <3>2
      <4> QED
        BY <1>2, <4>1 DEF Continues
    <3> QED
      BY <3>1, <3>2
  <2>4. more[1] = q[1]
    BY <1>1, <1>2, <2>1
  <2> QED
    BY <1>4, <1>6, <2>3, <2>4 DEF Continues
<1> QED
  BY <1>5, <1>6

(* The reader takes the next piece, as long as its frame is not complete.  *)
LEMMA ReadContinues ==
  ASSUME NEW g \in Seq(Pieces), NEW q \in Seq(Pieces), Len(g) <= Parts,
         Begun(g), Continues(g, q), q # << >>
  PROVE  /\ Append(g, Head(q)) \in Seq(Pieces) /\ Tail(q) \in Seq(Pieces)
         /\ Len(Append(g, Head(q))) = Len(g) + 1 /\ Len(Tail(q)) = Len(q) - 1
         /\ Begun(Append(g, Head(q))) /\ Continues(Append(g, Head(q)), Tail(q))
         /\ LastPiece(Append(g, Head(q)), Tail(q)) = LastPiece(g, q)
<1> DEFINE more == Append(g, q[1])
           rest == Tail(q)
<1>1. /\ Len(g) \in Nat /\ Len(q) \in Nat \ {0} /\ Parts \in Nat \ {0}
      /\ Head(q) = q[1] /\ q[1] \in Pieces
  BY LenProperties, EmptySeq, PartsFact, ElementOfSeq, HeadTailProperties
<1>2. /\ Len(more) = Len(g) + 1 /\ more[Len(g) + 1] = q[1] /\ more \in Seq(Pieces)
      /\ \A i \in 1..Len(g) : more[i] = g[i]
  BY <1>1, AppendProperties
<1>3. /\ rest \in Seq(Pieces) /\ Len(rest) = Len(q) - 1
      /\ \A i \in 1..(Len(q) - 1) : rest[i] = q[i + 1]
  BY <1>1, HeadTailProperties
<1> SUFFICES Begun(more) /\ Continues(more, rest) /\ LastPiece(more, rest) = LastPiece(g, q)
  BY <1>1, <1>2, <1>3
<1> HIDE DEF more, rest
<1>4. /\ q[1].part = Len(g) /\ q[1].packet \in Nat
      /\ q[1] = Piece(more[1].packet, Len(g))
  <2>1. CASE Len(g) = 0
    <3>1. more[1] = q[1] /\ q[1].part = 0
      BY <1>1, <1>2, <2>1 DEF Continues
    <3> QED
      BY <1>1, <2>1, <3>1 DEF Pieces, Piece
  <2>2. CASE Len(g) # 0
    <3>1. Len(g) \in 1..Parts /\ more[1] = g[1] /\ g[1] \in Pieces
      BY <1>1, <1>2, <2>2, ElementOfSeq
    <3>2. q[1] = Piece(g[1].packet, Len(g)) /\ g[1].packet \in Nat
      BY <3>1 DEF Continues, Pieces
    <3> QED
      BY <1>1, <3>1, <3>2, PieceFact
  <2> QED
    BY <2>1, <2>2
<1>5. Begun(more)
  <2>1. Len(g) # 0 => more[1] = g[1]
    BY <1>1, <1>2
  <2> QED
    BY <1>1, <1>2, <1>4, <2>1 DEF Begun
<1>6. Continues(more, rest)
  <2>1. ASSUME rest # << >>
        PROVE  IF Len(more) \in 1..Parts THEN rest[1] = Piece(more[1].packet, Len(more))
                                         ELSE rest[1].part = 0
    <3>1. Len(q) - 1 \in 1..(Len(q) - 1)
      BY <1>1, <1>3, <2>1, EmptySeq
    <3>2. rest[1] = q[2] /\ Follows(q[1], q[2])
      BY <1>1, <1>3, <3>1 DEF Continues
    <3>3. CASE Len(g) = Parts
      BY <1>1, <1>2, <1>4, <3>2, <3>3 DEF Follows
    <3>4. CASE Len(g) # Parts
      <4>1. q[2] = Piece(q[1].packet, Len(g) + 1)
        BY <1>4, <3>2, <3>4 DEF Follows
      <4>2. q[1].packet = more[1].packet
        BY <1>4 DEF Piece
      <4> QED
        BY <1>1, <1>2, <3>2, <3>4, <4>1, <4>2
    <3> QED
      BY <3>3, <3>4
  <2>2. ASSUME NEW i \in 1..(Len(rest) - 1)
        PROVE  Follows(rest[i], rest[i + 1])
    <3>1. /\ i \in 1..(Len(q) - 1) /\ i + 1 \in 1..(Len(q) - 1)
          /\ rest[i] = q[i + 1] /\ rest[i + 1] = q[i + 2]
      BY <1>1, <1>3
    <3>2. Follows(q[i + 1], q[(i + 1) + 1])
      BY <3>1 DEF Continues
    <3> QED
      BY <3>1, <3>2
  <2> QED
    BY <2>1, <2>2 DEF Continues
<1>7. LastPiece(more, rest) = LastPiece(g, q)
  <2>1. CASE rest = << >>
    <3>1. Len(q) = 1 /\ more # << >>
      BY <1>1, <1>2, <1>3, <2>1, EmptySeq
    <3> QED
      BY <1>1, <1>2, <2>1, <3>1 DEF LastPiece
  <2>2. CASE rest # << >>
    <3>1. Len(q) - 1 \in 1..(Len(q) - 1)
      BY <1>1, <1>3, <2>2, EmptySeq
    <3>2. rest[Len(rest)] = q[Len(q)]
      BY <1>1, <1>3, <3>1
    <3> QED
      BY <2>2, <3>2 DEF LastPiece
  <2> QED
    BY <2>1, <2>2
<1> QED
  BY <1>5, <1>6, <1>7

(* A complete frame is taken from the reader's buffer.                     *)
LEMMA StoreContinues ==
  ASSUME NEW g \in Seq(Pieces), NEW q \in Seq(Pieces), Len(g) = Parts + 1,
         Begun(g), Continues(g, q)
  PROVE  /\ Begun(<< >>) /\ Continues(<< >>, q)
         /\ LastPiece(<< >>, q).part = LastPiece(g, q).part
         /\ LastPiece(<< >>, q) = LastPiece(g, q) \/ LastPiece(g, q).part = Parts
<1>1. Parts \in Nat \ {0} /\ Len(g) \notin 1..Parts /\ g # << >> /\ g[1] \in Pieces
  BY PartsFact, EmptySeq, ElementOfSeq
<1>2. Len(<< >>) = 0
  OBVIOUS
<1>3. g[Len(g)] = Piece(g[1].packet, Parts)
  BY <1>1 DEF Begun
<1>4. g[Len(g)].part = Parts /\ Piece(0, Parts).part = Parts
  BY <1>1, <1>3, PieceFact DEF Piece
<1>5. Begun(<< >>) /\ Continues(<< >>, q)
  BY <1>1, <1>2 DEF Begun, Continues
<1>6. CASE q # << >>
  BY <1>5, <1>6 DEF LastPiece
<1>7. CASE q = << >>
  BY <1>1, <1>4, <1>5, <1>7 DEF LastPiece
<1> QED
  BY <1>6, <1>7

-----------------------------------------------------------------------------
(* Types.                                                                  *)

States   == {"unused", "open", "broken", "closed"}
Readers  == {"none", "read", "done"}
Writing  == [packet : Nat, stream : Nat, pieces : 0..Parts]

Types ==
  /\ end \in [Ends -> [Streams -> States]] /\ reader \in [Ends -> [Streams -> Readers]]
  /\ wire \in [Ends -> [Streams -> Seq(Pieces)]] /\ got \in [Ends -> [Streams -> Seq(Pieces)]]
  /\ paths \in [Ends -> SUBSET Streams] /\ taken \in [Ends -> Nat]
  /\ writer \in [Ends -> Writing]
  /\ arrived \in [Ends -> Seq(Nat)] /\ dropped \in [Ends -> SUBSET Nat]
  /\ \A e \in Ends :
       /\ taken[e] <= MaxPackets[e]
       /\ writer[e] # Idle => writer[e].packet \in 1..taken[e] /\ writer[e].stream \in Streams
       /\ \A s \in Streams : Len(wire[e][s]) <= Window /\ Len(got[e][s]) <= Parts + 1

LEMMA EndFacts ==
  /\ \A e \in Ends : Peer(e) \in Ends /\ Peer(Peer(e)) = e /\ Peer(e) # e
  /\ "client" \in Ends /\ "server" \in Ends /\ Peer("client") = "server"
  /\ Idle \in Writing /\ Idle.stream = 0 /\ 0 \notin Streams /\ Streams \subseteq Nat
  /\ Idle.packet = 0 /\ Idle.pieces = 0
BY PartsFact DEF Ends, Peer, Idle, Writing, Streams

(* What Starts may do to the writer and the drops of an end.               *)
LEMMA StartsFact ==
  ASSUME Types, NEW e \in Ends, NEW p \in Nat, NEW S \in SUBSET Streams, Starts(e, p, S)
  PROVE  /\ writer' \in [Ends -> Writing] /\ dropped' \in [Ends -> SUBSET Nat]
         /\ \A f \in Ends : f # e => writer'[f] = writer[f] /\ dropped'[f] = dropped[f]
         /\ \/ /\ writer'[e] = Idle /\ S = {}
               /\ dropped'[e] = dropped[e] \cup {p}
            \/ /\ writer'[e].packet = p /\ writer'[e].stream \in S
               /\ writer'[e].pieces = 0 /\ dropped'[e] = dropped[e]
<1>1. CASE S = {}
  <2>1. /\ writer' = [writer EXCEPT ![e] = Idle]
        /\ dropped' = [dropped EXCEPT ![e] = dropped[e] \cup {p}]
    BY <1>1 DEF Starts
  <2> QED
    BY <1>1, <2>1, EndFacts DEF Types
<1>2. CASE S # {}
  <2>1. PICK s \in S :
          writer' = [writer EXCEPT ![e] = [packet |-> p, stream |-> s, pieces |-> 0]]
    BY <1>2 DEF Starts
  <2>2. dropped' = dropped
    BY <1>2 DEF Starts
  <2>3. [packet |-> p, stream |-> s, pieces |-> 0] \in Writing /\ s \in Nat
    BY EndFacts, PartsFact DEF Writing
  <2> QED
    BY <2>1, <2>2, <2>3 DEF Types
<1> QED
  BY <1>1, <1>2

LEMMA TypesInit == Init => Types
<1> SUFFICES ASSUME Init PROVE Types
  OBVIOUS
<1>1. << >> \in Seq(Pieces) /\ << >> \in Seq(Nat) /\ Len(<< >>) = 0
  OBVIOUS
<1> QED
  BY <1>1, EndFacts, PartsFact, MaxPacketsAssumption DEF Init, Types, States, Readers

LEMMA TypesStreams ==
  ASSUME Types, NEW s \in Streams, Dial(s) \/ AcceptStream(s) \/ StoreFails(s)
  PROVE  Types'
<1>0. << >> \in Seq(Pieces) /\ Len(<< >>) = 0 /\ Parts \in Nat
  BY PartsFact
<1>1. CASE Dial(s)
  BY <1>1, EndFacts DEF Dial, Types, States, Readers
<1>2. CASE AcceptStream(s)
  BY <1>2, EndFacts DEF AcceptStream, Types, Readers
<1>3. CASE StoreFails(s)
  <2>1. /\ paths' = [paths EXCEPT !["server"] = paths["server"] \ {s}]
        /\ reader' = [reader EXCEPT !["server"][s] = "done"]
        /\ end' = [end EXCEPT !["server"][s] = "closed"]
        /\ got' = [got EXCEPT !["server"][s] = << >>]
        /\ UNCHANGED <<wire, taken, writer, arrived, dropped>>
    BY <1>3 DEF StoreFails, Leaves
  <2>2. /\ paths' \in [Ends -> SUBSET Streams] /\ reader' \in [Ends -> [Streams -> Readers]]
        /\ end' \in [Ends -> [Streams -> States]]
    BY <2>1 DEF Types, States, Readers
  <2>3. /\ got' \in [Ends -> [Streams -> Seq(Pieces)]]
        /\ \A e \in Ends, r \in Streams : Len(got'[e][r]) <= Parts + 1
    <3>1. \A e \in Ends, r \in Streams :
            got'[e][r] = IF e = "server" /\ r = s THEN << >> ELSE got[e][r]
      BY <2>1 DEF Types
    <3>2. got' \in [Ends -> [Streams -> Seq(Pieces)]]
      BY <1>0, <2>1 DEF Types
    <3> QED
      BY <1>0, <3>1, <3>2 DEF Types
  <2> QED
    BY <2>1, <2>2, <2>3 DEF Types
<1> QED
  BY <1>1, <1>2, <1>3

LEMMA TypesWriter ==
  ASSUME Types, NEW e \in Ends, TakePacket(e) \/ WritePiece(e) \/ WriteFails(e)
  PROVE  Types'
<1>0. /\ Parts \in Nat \ {0} /\ Window \in Nat \ {0} /\ MaxPackets \in [Ends -> Nat]
      /\ paths[e] \in SUBSET Streams /\ taken[e] \in Nat /\ writer[e] \in Writing
  BY PartsFact, MaxPacketsAssumption DEF Types
<1>1. CASE TakePacket(e)
  <2>1. /\ taken' = [taken EXCEPT ![e] = taken[e] + 1] /\ taken[e] < MaxPackets[e]
        /\ Starts(e, taken[e] + 1, paths[e])
        /\ UNCHANGED <<end, wire, paths, reader, got, arrived>>
    BY <1>1 DEF TakePacket
  <2>2. /\ writer' \in [Ends -> Writing] /\ dropped' \in [Ends -> SUBSET Nat]
        /\ \A f \in Ends : f # e => writer'[f] = writer[f]
        /\ \/ writer'[e] = Idle
           \/ writer'[e].packet = taken[e] + 1 /\ writer'[e].stream \in Streams
    BY <1>0, <2>1, StartsFact
  <2>3. taken' \in [Ends -> Nat] /\ \A f \in Ends : taken[f] <= taken'[f]
    BY <2>1 DEF Types
  <2>4. \A f \in Ends : taken'[f] <= MaxPackets[f]
    BY <1>0, <2>1 DEF Types
  <2>5. ASSUME NEW f \in Ends, writer'[f] # Idle
        PROVE  writer'[f].packet \in 1..taken'[f] /\ writer'[f].stream \in Streams
    <3>1. CASE f = e
      BY <1>0, <2>1, <2>2, <2>5, <3>1 DEF Types
    <3>2. CASE f # e
      BY <2>2, <2>3, <2>5, <3>2 DEF Types
    <3> QED
      BY <3>1, <3>2
  <2> QED
    BY <2>1, <2>2, <2>3, <2>4, <2>5 DEF Types
<1>2. CASE WritePiece(e)
  <2> DEFINE w == writer[e]
             s == w.stream
  <2>1. /\ w # Idle /\ Len(wire[e][s]) < Window
        /\ wire' = [wire EXCEPT ![e][s] = Append(wire[e][s], Piece(w.packet, w.pieces))]
        /\ writer' = [writer EXCEPT ![e] =
                        IF w.pieces = Parts THEN Idle ELSE [w EXCEPT !.pieces = w.pieces + 1]]
        /\ UNCHANGED <<end, paths, taken, reader, got, arrived, dropped>>
    BY <1>2 DEF WritePiece, IsLast
  <2>2. s \in Streams /\ Piece(w.packet, w.pieces) \in Pieces
    BY <1>0, <2>1, PieceFact DEF Types, Writing
  <2>3. /\ Append(wire[e][s], Piece(w.packet, w.pieces)) \in Seq(Pieces)
        /\ Len(Append(wire[e][s], Piece(w.packet, w.pieces))) = Len(wire[e][s]) + 1
        /\ Len(wire[e][s]) \in Nat
    BY <2>2, AppendProperties, LenProperties DEF Types
  <2>4. /\ wire' \in [Ends -> [Streams -> Seq(Pieces)]]
        /\ \A f \in Ends, r \in Streams : Len(wire'[f][r]) <= Window
    BY <1>0, <2>1, <2>2, <2>3 DEF Types
  <2>5. /\ writer' \in [Ends -> Writing]
        /\ \A f \in Ends : writer'[f] # Idle =>
             /\ writer'[f].packet = writer[f].packet /\ writer'[f].stream = writer[f].stream
             /\ writer[f] # Idle
    <3>1. CASE w.pieces = Parts
      BY <1>0, <2>1, <3>1, EndFacts DEF Types
    <3>2. CASE w.pieces # Parts
      <4>1. w.pieces + 1 \in 0..Parts /\ w.packet \in Nat /\ w.stream \in Nat
        BY <1>0, <3>2 DEF Writing
      <4>2. /\ [w EXCEPT !.pieces = w.pieces + 1] \in Writing
            /\ [w EXCEPT !.pieces = w.pieces + 1].packet = w.packet
            /\ [w EXCEPT !.pieces = w.pieces + 1].stream = w.stream
        BY <1>0, <4>1 DEF Writing
      <4>3. writer' = [writer EXCEPT ![e] = [w EXCEPT !.pieces = w.pieces + 1]]
        BY <2>1, <3>2
      <4> QED
        BY <2>1, <4>2, <4>3 DEF Types
    <3> QED
      BY <3>1, <3>2
  <2> QED
    BY <2>1, <2>4, <2>5 DEF Types
<1>3. CASE WriteFails(e)
  <2> DEFINE w == writer[e]
             S == IF e = "client" THEN paths[e] \ {w.stream} ELSE {}
  <2>1. /\ w # Idle /\ paths' = [paths EXCEPT ![e] = paths[e] \ {w.stream}]
        /\ Starts(e, w.packet, S)
        /\ end' = [end EXCEPT ![e][w.stream] = "closed"] \/ end' = end
        /\ UNCHANGED <<wire, taken, reader, got, arrived>>
    BY <1>0, <1>3, EndFacts DEF WriteFails, Types
  <2>2. w.packet \in 1..taken[e] /\ w.packet \in Nat /\ S \in SUBSET Streams
    BY <1>0, <2>1 DEF Types, Writing
  <2>3. /\ writer' \in [Ends -> Writing] /\ dropped' \in [Ends -> SUBSET Nat]
        /\ \A f \in Ends : f # e => writer'[f] = writer[f]
        /\ \/ writer'[e] = Idle
           \/ writer'[e].packet = w.packet /\ writer'[e].stream \in Streams
    BY <2>1, <2>2, StartsFact
  <2>4. end' \in [Ends -> [Streams -> States]] /\ paths' \in [Ends -> SUBSET Streams]
    <3>1. end' \in [Ends -> [Streams -> States]]
      <4>1. CASE end' = end
        BY <4>1 DEF Types
      <4>2. CASE end' = [end EXCEPT ![e][w.stream] = "closed"]
        BY <4>2 DEF Types, States
      <4> QED
        BY <2>1, <4>1, <4>2
    <3>2. paths' \in [Ends -> SUBSET Streams]
      BY <1>0, <2>1 DEF Types
    <3> QED
      BY <3>1, <3>2
  <2> QED
    BY <2>1, <2>2, <2>3, <2>4 DEF Types
<1> QED
  BY <1>1, <1>2, <1>3

LEMMA TypesReader ==
  ASSUME Types, NEW e \in Ends, NEW s \in Streams,
         Broken(e, s) \/ ReadPiece(e, s) \/ StorePacket(e, s) \/ ReadFails(e, s)
  PROVE  Types'
<1>0. << >> \in Seq(Pieces) /\ Len(<< >>) = 0 /\ Parts \in Nat \ {0}
  BY PartsFact
<1>1. CASE Broken(e, s)
  BY <1>1 DEF Broken, Types, States
<1>2. CASE ReadPiece(e, s)
  <2> DEFINE g == got[e][s]
             q == wire[Peer(e)][s]
  <2>1. /\ Len(g) <= Parts /\ q # << >>
        /\ got' = [got EXCEPT ![e][s] = Append(g, Head(q))]
        /\ wire' = [wire EXCEPT ![Peer(e)][s] = Tail(q)]
        /\ UNCHANGED <<end, paths, taken, writer, reader, arrived, dropped>>
    BY <1>2 DEF ReadPiece, Reads
  <2>2. g \in Seq(Pieces) /\ q \in Seq(Pieces) /\ Peer(e) \in Ends
    BY EndFacts DEF Types
  <2>3. /\ Append(g, Head(q)) \in Seq(Pieces) /\ Tail(q) \in Seq(Pieces)
        /\ Len(Append(g, Head(q))) = Len(g) + 1 /\ Len(Tail(q)) = Len(q) - 1
        /\ Len(g) \in Nat /\ Len(q) \in Nat
    BY <2>1, <2>2, AppendProperties, HeadTailProperties, LenProperties
  <2>4. /\ got' \in [Ends -> [Streams -> Seq(Pieces)]]
        /\ \A f \in Ends, r \in Streams : Len(got'[f][r]) <= Parts + 1
    <3>1. Len(g) + 1 <= Parts + 1
      BY <1>0, <2>1, <2>3
    <3> QED
      BY <2>1, <2>3, <3>1 DEF Types
  <2>5. /\ wire' \in [Ends -> [Streams -> Seq(Pieces)]]
        /\ \A f \in Ends, r \in Streams : Len(wire'[f][r]) <= Window
    BY <2>1, <2>2, <2>3, PartsFact DEF Types
  <2> QED
    BY <2>1, <2>4, <2>5 DEF Types
<1>3. CASE StorePacket(e, s)
  <2>1. got[e][s] \in Seq(Pieces) /\ Len(got[e][s]) = Parts + 1
    BY <1>3 DEF StorePacket, HasFrame, Types
  <2>2. got[e][s][1] \in Pieces
    BY <1>0, <2>1, ElementOfSeq
  <2>3. Append(arrived[e], got[e][s][1].packet) \in Seq(Nat)
    BY <2>2, AppendProperties DEF Types, Pieces
  <2> QED
    BY <1>0, <1>3, <2>3 DEF StorePacket, Types
<1>4. CASE ReadFails(e, s)
  BY <1>0, <1>4 DEF ReadFails, Leaves, Types, States, Readers
<1> QED
  BY <1>1, <1>2, <1>3, <1>4

LEMMA TypesNext == Types /\ [Next]_vars => Types'
<1>1. Types /\ UNCHANGED vars => Types'
  BY DEF vars, Types
<1> QED
  BY <1>1, TypesStreams, TypesWriter, TypesReader DEF Next, Breaks

-----------------------------------------------------------------------------
(* Streams that have not been dialled.                                     *)

Unused(s) == end["client"][s] = "unused"
FreshInv ==
  \A s \in Streams : Unused(s) =>
    \A e \in Ends :
      /\ end[e][s] = "unused" /\ reader[e][s] = "none"
      /\ wire[e][s] = << >> /\ got[e][s] = << >>
      /\ s \notin paths[e] /\ writer[e].stream # s

LEMMA FreshStreams ==
  ASSUME Types, FreshInv, NEW s \in Streams, Dial(s) \/ AcceptStream(s) \/ StoreFails(s)
  PROVE  FreshInv'
<1> USE EndFacts DEF FreshInv, Unused, Types
<1>1. CASE Dial(s)
  BY <1>1 DEF Dial
<1>2. CASE AcceptStream(s)
  BY <1>2 DEF AcceptStream
<1>3. CASE StoreFails(s)
  <2>1. reader["server"][s] = "read"
    BY <1>3 DEF StoreFails, HasFrame
  <2>2. ~Unused(s)
    BY <2>1
  <2> QED
    BY <1>3, <2>2 DEF StoreFails, Leaves
<1> QED
  BY <1>1, <1>2, <1>3

LEMMA FreshWriter ==
  ASSUME Types, FreshInv, NEW e \in Ends, TakePacket(e) \/ WritePiece(e) \/ WriteFails(e)
  PROVE  FreshInv'
<1>0. /\ paths[e] \in SUBSET Streams /\ taken[e] \in Nat
      /\ writer[e] \in Writing /\ writer[e].packet \in Nat
  BY DEF Types, Writing
<1>1. CASE TakePacket(e)
  <2>1. Starts(e, taken[e] + 1, paths[e]) /\ UNCHANGED <<end, wire, paths, reader, got>>
    BY <1>1 DEF TakePacket
  <2>2. /\ \A f \in Ends : f # e => writer'[f] = writer[f]
        /\ writer'[e].stream = 0 \/ writer'[e].stream \in paths[e]
    BY <1>0, <2>1, StartsFact, EndFacts
  <2> QED
    BY <2>1, <2>2, EndFacts DEF FreshInv, Unused
<1>2. CASE WritePiece(e)
  <2>1. /\ end[e][writer[e].stream] = "open" /\ writer[e] # Idle
        /\ wire' = [wire EXCEPT ![e][writer[e].stream] =
                      Append(@, Piece(writer[e].packet, writer[e].pieces))]
        /\ UNCHANGED <<end, paths, reader, got>>
        /\ writer' = [writer EXCEPT ![e] = IF writer[e].pieces = Parts THEN Idle
                                           ELSE [writer[e] EXCEPT !.pieces = @ + 1]]
    BY <1>2 DEF WritePiece, IsLast
  <2>2. writer[e].stream \in Streams /\ ~Unused(writer[e].stream)
    BY <2>1 DEF Types, FreshInv
  <2>3. /\ \A f \in Ends : f # e => writer'[f] = writer[f]
        /\ writer'[e].stream = 0 \/ writer'[e].stream = writer[e].stream
    BY <1>0, <2>1, EndFacts DEF Types, Writing
  <2>4. \A f \in Ends, s \in Streams : Unused(s) => wire'[f][s] = wire[f][s]
    BY <2>1, <2>2 DEF Types
  <2> QED
    BY <2>1, <2>3, <2>4, EndFacts DEF FreshInv, Unused
<1>3. CASE WriteFails(e)
  <2> DEFINE S == IF e = "client" THEN paths[e] \ {writer[e].stream} ELSE {}
  <2>1. /\ writer[e] # Idle /\ paths' = [paths EXCEPT ![e] = paths[e] \ {writer[e].stream}]
        /\ Starts(e, writer[e].packet, S) /\ S \in SUBSET Streams
        /\ end' = [end EXCEPT ![e][writer[e].stream] = "closed"] \/ end' = end
        /\ UNCHANGED <<wire, reader, got>>
    BY <1>0, <1>3, EndFacts DEF WriteFails, Types
  <2>2. /\ \A f \in Ends : f # e => writer'[f] = writer[f]
        /\ writer'[e].stream = 0 \/ writer'[e].stream \in S
    BY <1>0, <2>1, StartsFact, EndFacts
  <2>3. writer[e].stream \in Streams /\ ~Unused(writer[e].stream)
    BY <2>1 DEF Types, FreshInv
  <2>4. /\ \A s \in Streams : Unused(s)' => Unused(s)
        /\ \A f \in Ends, s \in Streams : Unused(s) => end'[f][s] = end[f][s]
    <3>1. CASE end' = end
      BY <3>1 DEF Unused
    <3>2. CASE end' = [end EXCEPT ![e][writer[e].stream] = "closed"]
      BY <2>3, <3>2, EndFacts DEF Unused, Types
    <3> QED
      BY <2>1, <3>1, <3>2
  <2>5. \A f \in Ends : paths'[f] \subseteq paths[f]
    BY <2>1 DEF Types
  <2> QED
    BY <2>1, <2>2, <2>4, <2>5, EndFacts DEF FreshInv
<1> QED
  BY <1>1, <1>2, <1>3

LEMMA FreshReader ==
  ASSUME Types, FreshInv, NEW e \in Ends, NEW s \in Streams,
         Broken(e, s) \/ ReadPiece(e, s) \/ StorePacket(e, s) \/ ReadFails(e, s)
  PROVE  FreshInv'
<1> DEFINE Same(r) == \A f \in Ends :
      /\ end'[f][r] = end[f][r] /\ reader'[f][r] = reader[f][r]
      /\ wire'[f][r] = wire[f][r] /\ got'[f][r] = got[f][r]
<1>1. ~Unused(s) /\ Peer(e) \in Ends
  BY EndFacts DEF FreshInv, Broken, ReadPiece, Reads, StorePacket, HasFrame, ReadFails
<1>2. writer' = writer /\ \A f \in Ends : paths'[f] \subseteq paths[f]
  BY DEF Broken, ReadPiece, StorePacket, ReadFails, Leaves, Types
<1>3. \A r \in Streams \ {s} : Same(r)
  <2>1. CASE Broken(e, s)
    BY <2>1 DEF Broken, Types
  <2>2. CASE ReadPiece(e, s)
    BY <1>1, <2>2 DEF ReadPiece, Types
  <2>3. CASE StorePacket(e, s)
    BY <2>3 DEF StorePacket, Types
  <2>4. CASE ReadFails(e, s)
    BY <2>4 DEF ReadFails, Leaves, Types
  <2> QED
    BY <2>1, <2>2, <2>3, <2>4
<1>4. ~Unused(s)'
  <2>1. CASE Broken(e, s)
    BY <1>1, <2>1, EndFacts DEF Broken, Unused, Types
  <2>2. CASE ReadPiece(e, s)
    BY <1>1, <2>2 DEF ReadPiece, Unused
  <2>3. CASE StorePacket(e, s)
    BY <1>1, <2>3 DEF StorePacket, Unused
  <2>4. CASE ReadFails(e, s)
    BY <1>1, <2>4, EndFacts DEF ReadFails, Leaves, Unused, Types
  <2> QED
    BY <2>1, <2>2, <2>3, <2>4
<1> QED
  BY <1>2, <1>3, <1>4, EndFacts DEF FreshInv, Unused

LEMMA FreshNext == Types /\ FreshInv /\ [Next]_vars => FreshInv'
<1>1. FreshInv /\ UNCHANGED vars => FreshInv'
  BY DEF vars, FreshInv, Unused
<1> QED
  BY <1>1, FreshStreams, FreshWriter, FreshReader DEF Next, Breaks
-----------------------------------------------------------------------------
(* What is in a stream from the writer of end e to the reader of the other *)
(* end, until that reader has ended: the rest of the frame that is being   *)
(* read, whole frames, and the pieces its writer has written of the last.  *)

Slot(e, s)  == IF writer[e].stream = s THEN writer[e].pieces ELSE 0
Known(e, q) == \A i \in 1..Len(q) : q[i].packet \in 1..taken[e]

FrameAt(e, s) ==
  LET g == got[Peer(e)][s]
      q == wire[e][s]
  IN  reader[Peer(e)][s] # "done" =>
        /\ Begun(g) /\ Continues(g, q) /\ Known(e, g) /\ Known(e, q)
        /\ end[e][s] = "open" => Ready(LastPiece(g, q), writer[e].packet, Slot(e, s))
FrameInv == \A e \in Ends, s \in Streams : FrameAt(e, s)

LEMMA KnownGrows ==
  ASSUME NEW e, NEW q \in Seq(Pieces), NEW x \in Pieces,
         Known(e, q), x.packet \in 1..taken[e]
  PROVE  Known(e, Append(q, x))
<1>1. PICK n \in Nat : n = Len(q)
  OBVIOUS
<1>2. PICK a : a = Append(q, x)
  OBVIOUS
<1>3. Len(a) = n + 1 /\ a[n + 1] = x /\ \A i \in 1..n : a[i] = q[i]
  BY <1>1, <1>2, AppendFact
<1>4. ASSUME NEW i \in 1..Len(a) PROVE a[i].packet \in 1..taken[e]
  <2>1. CASE i \in 1..n
    BY <1>1, <1>3, <2>1 DEF Known
  <2>2. CASE i = n + 1
    BY <1>3, <2>2, Zenon
  <2>3. i \in 1..n \/ i = n + 1
    BY <1>1, <1>3
  <2> QED
    BY <2>1, <2>2, <2>3
<1> QED
  BY <1>2, <1>4 DEF Known

(* A step that leaves the stream and the writer's place in it as they are. *)
LEMMA FrameStays ==
  ASSUME Types, NEW e \in Ends, NEW s \in Streams, FrameAt(e, s),
         got'[Peer(e)][s] = got[Peer(e)][s], wire'[e][s] = wire[e][s],
         reader'[Peer(e)][s] # "done" => reader[Peer(e)][s] # "done",
         taken[e] <= taken'[e], taken'[e] \in Nat,
         end'[e][s] = "open" =>
           /\ end[e][s] = "open" /\ Slot(e, s)' = Slot(e, s)
           /\ Slot(e, s) = 0 \/ writer'[e].packet = writer[e].packet
  PROVE  FrameAt(e, s)'
<1> DEFINE g == got[Peer(e)][s]
           q == wire[e][s]
<1> SUFFICES ASSUME reader'[Peer(e)][s] # "done"
             PROVE  /\ Begun(g) /\ Continues(g, q) /\ Known(e, g)' /\ Known(e, q)'
                    /\ end'[e][s] = "open" =>
                         Ready(LastPiece(g, q), writer'[e].packet, Slot(e, s)')
  BY DEF FrameAt, Begun, Continues, LastPiece, Ready, Known
<1>1. /\ Begun(g) /\ Continues(g, q) /\ Known(e, g) /\ Known(e, q)
      /\ end[e][s] = "open" => Ready(LastPiece(g, q), writer[e].packet, Slot(e, s))
  BY DEF FrameAt
<1>2. taken[e] \in Nat
  BY DEF Types
<1>3. Known(e, g)' /\ Known(e, q)'
  BY <1>1, <1>2 DEF Known
<1>4. end'[e][s] = "open" => Ready(LastPiece(g, q), writer'[e].packet, Slot(e, s)')
  BY <1>1 DEF Ready
<1> QED
  BY <1>1, <1>3, <1>4

(* A step that changes the stream, seen from the state it leads to.        *)
LEMMA FrameSet ==
  ASSUME NEW e \in Ends, NEW s \in Streams, NEW g, NEW q,
         got'[Peer(e)][s] = g, wire'[e][s] = q, taken' = taken,
         Begun(g), Continues(g, q), Known(e, g), Known(e, q),
         end'[e][s] = "open" => Ready(LastPiece(g, q), writer'[e].packet, Slot(e, s)')
  PROVE  FrameAt(e, s)'
<1>1. Known(e, g)' /\ Known(e, q)'
  BY DEF Known
<1> QED
  BY <1>1 DEF FrameAt, Begun, Continues, Known, Ready, LastPiece

LEMMA FrameInit == Init => FrameInv
<1> SUFFICES ASSUME Init, NEW e \in Ends, NEW s \in Streams PROVE FrameAt(e, s)
  BY DEF FrameInv
<1>1. got[Peer(e)][s] = << >> /\ wire[e][s] = << >> /\ end[e][s] = "unused"
  BY EndFacts DEF Init
<1> QED
  BY <1>1 DEF FrameAt, Begun, Continues, Known

(* The reader of s at end e has ended; only its end of s may be closed.    *)
LEMMA FrameEnds ==
  ASSUME Types, FrameInv, NEW e \in Ends, NEW s \in Streams,
         reader' = [reader EXCEPT ![e][s] = "done"], got' = [got EXCEPT ![e][s] = << >>],
         end' = end \/ end' = [end EXCEPT ![e][s] = "closed"],
         UNCHANGED <<wire, taken, writer>>
  PROVE  FrameInv'
<1> SUFFICES ASSUME NEW f \in Ends, NEW r \in Streams PROVE FrameAt(f, r)'
  BY DEF FrameInv
<1>1. CASE Peer(f) = e /\ r = s
  BY <1>1 DEF FrameAt, Types
<1>2. CASE ~(Peer(f) = e /\ r = s)
  <2>1. /\ got'[Peer(f)][r] = got[Peer(f)][r]
        /\ reader'[Peer(f)][r] = reader[Peer(f)][r]
    BY <1>2, EndFacts DEF Types
  <2>2. end'[f][r] = "open" => end[f][r] = "open"
    <3>1. CASE end' = end
      BY <3>1
    <3>2. CASE end' = [end EXCEPT ![e][s] = "closed"]
      BY <3>2 DEF Types
    <3> QED
      BY <3>1, <3>2
  <2>3. Slot(f, r)' = Slot(f, r) /\ taken[f] \in Nat
    BY DEF Slot, Types
  <2> QED
    BY <2>1, <2>2, <2>3, FrameStays DEF FrameInv
<1> QED
  BY <1>1, <1>2

LEMMA FrameStreams ==
  ASSUME Types, FreshInv, FrameInv, NEW s \in Streams,
         Dial(s) \/ AcceptStream(s) \/ StoreFails(s)
  PROVE  FrameInv'
<1>1. CASE Dial(s)
  <2> SUFFICES ASSUME NEW f \in Ends, NEW r \in Streams PROVE FrameAt(f, r)'
    BY DEF FrameInv
  <2>1. /\ end' = [e \in Ends |-> [end[e] EXCEPT ![s] = "open"]] /\ Unused(s)
        /\ reader' = [reader EXCEPT !["client"][s] = "read"]
        /\ UNCHANGED <<wire, got, taken, writer>>
    BY <1>1 DEF Dial, Unused
  <2>2. CASE r = s
    <3>1. /\ got[Peer(f)][s] = << >> /\ wire[f][s] = << >> /\ writer[f].stream # s
      BY <2>1, EndFacts DEF FreshInv
    <3>2. /\ got'[Peer(f)][s] = << >> /\ wire'[f][s] = << >> /\ Slot(f, s)' = 0
      BY <2>1, <3>1 DEF Slot
    <3>3. Begun(<< >>) /\ Continues(<< >>, << >>) /\ Known(f, << >>)'
      BY DEF Begun, Continues, Known
    <3>4. LastPiece(<< >>, << >>).part = Parts
      BY PieceFact, PartsFact DEF LastPiece
    <3>5. Ready(LastPiece(<< >>, << >>), writer'[f].packet, 0)
      BY <3>4 DEF Ready
    <3> QED
      BY <2>2, <3>2, <3>3, <3>5 DEF FrameAt, Begun, Continues, Known, Ready, LastPiece
  <2>3. CASE r # s
    <3>1. end'[f][r] = end[f][r] /\ reader'[Peer(f)][r] = reader[Peer(f)][r]
      BY <2>1, <2>3, EndFacts DEF Types
    <3>2. Slot(f, r)' = Slot(f, r) /\ taken[f] \in Nat
      BY <2>1 DEF Slot, Types
    <3> QED
      BY <2>1, <3>1, <3>2, FrameStays DEF FrameInv
  <2> QED
    BY <2>2, <2>3
<1>2. CASE AcceptStream(s)
  <2> SUFFICES ASSUME NEW f \in Ends, NEW r \in Streams PROVE FrameAt(f, r)'
    BY DEF FrameInv
  <2>1. /\ reader["server"][s] = "none" /\ reader' = [reader EXCEPT !["server"][s] = "read"]
        /\ UNCHANGED <<end, wire, got, taken, writer>>
    BY <1>2 DEF AcceptStream
  <2>2. reader'[Peer(f)][r] # "done" => reader[Peer(f)][r] # "done"
    BY <2>1, EndFacts DEF Types
  <2>3. Slot(f, r)' = Slot(f, r) /\ taken[f] \in Nat
    BY <2>1 DEF Slot, Types
  <2> QED
    BY <2>1, <2>2, <2>3, FrameStays DEF FrameInv
<1>3. CASE StoreFails(s)
  BY <1>3, FrameEnds, EndFacts DEF StoreFails, Leaves
<1> QED
  BY <1>1, <1>2, <1>3

LEMMA FrameWriter ==
  ASSUME Types, FrameInv, NEW e \in Ends, TakePacket(e) \/ WritePiece(e) \/ WriteFails(e)
  PROVE  FrameInv'
<1> SUFFICES ASSUME NEW f \in Ends, NEW r \in Streams PROVE FrameAt(f, r)'
  BY DEF FrameInv
<1>0. /\ paths[e] \in SUBSET Streams /\ taken[e] \in Nat /\ taken[f] \in Nat
      /\ writer[e] \in Writing /\ writer[e].packet \in Nat /\ FrameAt(f, r)
  BY DEF Types, Writing, FrameInv
<1>1. CASE TakePacket(e)
  <2>1. /\ Starts(e, taken[e] + 1, paths[e]) /\ writer[e] = Idle
        /\ taken' = [taken EXCEPT ![e] = taken[e] + 1]
        /\ UNCHANGED <<end, wire, reader, got>>
    BY <1>1 DEF TakePacket
  <2>2. /\ \A d \in Ends : d # e => writer'[d] = writer[d]
        /\ writer'[e].pieces = 0
    BY <1>0, <2>1, StartsFact, EndFacts
  <2>3. taken'[f] \in Nat /\ taken[f] <= taken'[f]
    BY <1>0, <2>1 DEF Types
  <2>4. Slot(f, r)' = Slot(f, r) /\ (f # e \/ Slot(f, r) = 0)
    BY <2>1, <2>2, EndFacts DEF Slot
  <2> QED
    BY <1>0, <2>1, <2>2, <2>3, <2>4, FrameStays
<1>2. CASE WritePiece(e)
  <2> DEFINE w == writer[e]
             x == Piece(w.packet, w.pieces)
  <2>1. /\ w # Idle /\ end[e][w.stream] = "open"
        /\ wire' = [wire EXCEPT ![e][w.stream] = Append(wire[e][w.stream], x)]
        /\ writer' = [writer EXCEPT ![e] =
                        IF w.pieces = Parts THEN Idle ELSE [w EXCEPT !.pieces = w.pieces + 1]]
        /\ UNCHANGED <<end, taken, reader, got>>
    BY <1>2 DEF WritePiece, IsLast
  <2>2. /\ w.stream \in Streams /\ w.pieces \in 0..Parts /\ w.packet \in 1..taken[e]
        /\ Parts \in Nat \ {0}
    BY <1>0, <2>1, PartsFact DEF Types, Writing
  <2>3. CASE f = e /\ r = w.stream
    <3> DEFINE g == got[Peer(e)][w.stream]
               q == wire[e][w.stream]
    <3>0. Peer(e) \in Ends /\ w.stream \in Streams
      BY <2>2, EndFacts
    <3>1. g \in Seq(Pieces) /\ q \in Seq(Pieces) /\ Len(g) <= Parts + 1
      BY <3>0 DEF Types
    <3> SUFFICES ASSUME reader[Peer(e)][w.stream] # "done"
                 PROVE  /\ Begun(g) /\ Continues(g, Append(q, x)) /\ Known(e, g)
                        /\ Known(e, Append(q, x))
                        /\ Ready(LastPiece(g, Append(q, x)), writer'[e].packet, Slot(e, r)')
      <4>1. wire'[e][w.stream] = Append(q, x)
        BY <2>1, <2>2 DEF Types
      <4> QED
        BY <2>1, <2>3, <4>1 DEF FrameAt, Begun, Continues, Known, Ready, LastPiece
    <3>2. /\ Begun(g) /\ Continues(g, q) /\ Known(e, g) /\ Known(e, q)
          /\ Ready(LastPiece(g, q), w.packet, w.pieces)
      BY <1>0, <2>1, <2>3 DEF FrameAt, Slot
    <3>3. Continues(g, Append(q, x)) /\ LastPiece(g, Append(q, x)) = x
      BY <1>0, <2>2, <3>1, <3>2, WriteContinues
    <3>4. x \in Pieces /\ x.packet = w.packet /\ x.part = w.pieces
      BY <1>0, <2>2, PieceFact
    <3>5. Known(e, Append(q, x))
      <4>1. x.packet \in 1..taken[e]
        BY <2>2, <3>4
      <4> QED
        BY <3>1, <3>2, <3>4, <4>1, KnownGrows
    <3>6. Ready(x, writer'[e].packet, Slot(e, r)')
      <4>1. CASE w.pieces = Parts
        <5>1. writer'[e] = Idle
          BY <2>1, <4>1 DEF Types
        <5>2. Slot(e, r)' = 0
          BY <5>1, EndFacts DEF Slot
        <5> QED
          BY <3>4, <4>1, <5>2 DEF Ready
      <4>2. CASE w.pieces # Parts
        <5>1. writer'[e] = [w EXCEPT !.pieces = w.pieces + 1]
          BY <2>1, <4>2 DEF Types
        <5>2. writer'[e].packet = w.packet /\ Slot(e, r)' = w.pieces + 1
          BY <1>0, <2>3, <5>1 DEF Slot, Writing
        <5> QED
          BY <2>2, <5>2 DEF Ready
      <4> QED
        BY <4>1, <4>2
    <3> QED
      BY <3>2, <3>3, <3>5, <3>6
  <2>4. CASE ~(f = e /\ r = w.stream)
    <3>1. wire'[f][r] = wire[f][r]
      BY <2>1, <2>2, <2>4 DEF Types
    <3>2. Slot(f, r)' = Slot(f, r) /\ (f # e \/ Slot(f, r) = 0)
      <4>1. CASE f # e
        BY <2>1, <4>1 DEF Slot, Types
      <4>2. CASE f = e
        <5>1. writer'[e].stream = 0 \/ writer'[e].stream = w.stream
          BY <1>0, <2>1, EndFacts DEF Types, Writing
        <5> QED
          BY <2>4, <4>2, <5>1, EndFacts DEF Slot
      <4> QED
        BY <4>1, <4>2
    <3>3. f # e => writer'[f] = writer[f]
      BY <2>1 DEF Types
    <3> QED
      BY <1>0, <2>1, <3>1, <3>2, <3>3, FrameStays
  <2> QED
    BY <2>3, <2>4
<1>3. CASE WriteFails(e)
  <2> DEFINE w == writer[e]
             S == IF e = "client" THEN paths[e] \ {w.stream} ELSE {}
  <2>0. /\ w # Idle /\ end[e][w.stream] # "open" /\ S \in SUBSET Streams
        /\ end' = [end EXCEPT ![e][w.stream] = "closed"] \/ end' = end
        /\ UNCHANGED <<wire, taken, reader, got>>
    BY <1>0, <1>3 DEF WriteFails
  <2>1. Starts(e, w.packet, S)
    BY <1>0, <1>3 DEF WriteFails, Types
  <2>2. /\ \A d \in Ends : d # e => writer'[d] = writer[d]
        /\ writer'[e].pieces = 0
    BY <1>0, <2>0, <2>1, StartsFact, EndFacts
  <2>3. end'[f][r] = "open" => end[f][r] = "open" /\ ~(f = e /\ r = w.stream)
    <3>1. CASE end' = end
      BY <2>0, <3>1
    <3>2. CASE end' = [end EXCEPT ![e][w.stream] = "closed"]
      BY <2>0, <3>2 DEF Types
    <3> QED
      BY <2>0, <3>1, <3>2
  <2>4. ASSUME end'[f][r] = "open"
        PROVE  Slot(f, r)' = Slot(f, r) /\ (f # e \/ Slot(f, r) = 0)
    BY <2>2, <2>3, <2>4 DEF Slot
  <2> QED
    BY <1>0, <2>0, <2>2, <2>3, <2>4, FrameStays
<1> QED
  BY <1>1, <1>2, <1>3

LEMMA FrameReader ==
  ASSUME Types, FrameInv, NEW e \in Ends, NEW s \in Streams,
         Broken(e, s) \/ ReadPiece(e, s) \/ StorePacket(e, s) \/ ReadFails(e, s)
  PROVE  FrameInv'
<1> DEFINE p == Peer(e)
           g == got[e][s]
           q == wire[p][s]
<1>0. /\ p \in Ends /\ Peer(p) = e /\ FrameAt(p, s)
      /\ \A f \in Ends : taken[f] \in Nat /\ taken[f] <= taken[f]
  BY EndFacts DEF FrameInv, Types
<1>1. g \in Seq(Pieces) /\ q \in Seq(Pieces) /\ Len(g) \in Nat /\ Len(q) \in Nat
  BY <1>0, LenProperties DEF Types
<1>2. CASE Broken(e, s)
  <2> SUFFICES ASSUME NEW f \in Ends, NEW r \in Streams PROVE FrameAt(f, r)'
    BY DEF FrameInv
  <2>1. end' = [end EXCEPT ![e][s] = "broken"] /\ UNCHANGED <<wire, taken, writer, reader, got>>
    BY <1>2 DEF Broken
  <2>2. end'[f][r] = "open" => end[f][r] = "open"
    BY <2>1 DEF Types
  <2>3. Slot(f, r)' = Slot(f, r)
    BY <2>1 DEF Slot
  <2> QED
    BY <1>0, <2>1, <2>2, <2>3, FrameStays DEF FrameInv
<1>3. CASE ReadPiece(e, s)
  <2>1. /\ reader[e][s] = "read" /\ Len(g) <= Parts /\ q # << >>
        /\ got' = [got EXCEPT ![e][s] = Append(g, Head(q))]
        /\ wire' = [wire EXCEPT ![p][s] = Tail(q)]
        /\ UNCHANGED <<end, taken, writer, reader>>
    BY <1>3 DEF ReadPiece, Reads
  <2>2. /\ Begun(g) /\ Continues(g, q) /\ Known(p, g) /\ Known(p, q)
        /\ end[p][s] = "open" => Ready(LastPiece(g, q), writer[p].packet, Slot(p, s))
    BY <1>0, <2>1 DEF FrameAt
  <2>3. /\ Len(Append(g, Head(q))) = Len(g) + 1 /\ Len(Tail(q)) = Len(q) - 1
        /\ Begun(Append(g, Head(q))) /\ Continues(Append(g, Head(q)), Tail(q))
        /\ LastPiece(Append(g, Head(q)), Tail(q)) = LastPiece(g, q)
    BY <1>1, <2>1, <2>2, ReadContinues
  <2>4. Known(p, Append(g, Head(q))) /\ Known(p, Tail(q))
    <3>1. /\ Len(q) \in Nat \ {0} /\ Head(q) = q[1]
          /\ \A i \in 1..(Len(q) - 1) : Tail(q)[i] = q[i + 1]
      BY <1>1, <2>1, EmptySeq, HeadTailProperties
    <3>2. q[1] \in Pieces
      BY <1>1, <3>1, ElementOfSeq
    <3>3. /\ Append(g, Head(q))[Len(g) + 1] = q[1]
          /\ \A i \in 1..Len(g) : Append(g, Head(q))[i] = g[i]
      BY <1>1, <3>1, <3>2, AppendFact
    <3>4. Known(p, Tail(q))
      BY <1>1, <2>2, <2>3, <3>1 DEF Known
    <3>5. ASSUME NEW i \in 1..Len(Append(g, Head(q)))
          PROVE  Append(g, Head(q))[i].packet \in 1..taken[p]
      <4>1. CASE i \in 1..Len(g)
        BY <2>2, <3>3, <4>1 DEF Known
      <4>2. CASE i = Len(g) + 1
        BY <2>2, <3>1, <3>3, <4>2 DEF Known
      <4> QED
        BY <1>1, <2>3, <4>1, <4>2
    <3> QED
      BY <3>4, <3>5 DEF Known
  <2>5. FrameAt(p, s)'
    <3>1. got'[e][s] = Append(g, Head(q)) /\ wire'[p][s] = Tail(q) /\ Slot(p, s)' = Slot(p, s)
      BY <1>0, <2>1 DEF Types, Slot
    <3> QED
      BY <1>0, <2>1, <2>2, <2>3, <2>4, <3>1, FrameSet
  <2>6. ASSUME NEW f \in Ends, NEW r \in Streams, ~(f = p /\ r = s)
        PROVE  FrameAt(f, r)'
    <3>0. Peer(f) \in Ends /\ ~(Peer(f) = e /\ r = s)
      BY <2>6, EndFacts
    <3>1. got'[Peer(f)][r] = got[Peer(f)][r] /\ wire'[f][r] = wire[f][r]
      <4>1. got'[Peer(f)][r] = got[Peer(f)][r]
        BY <2>1, <3>0 DEF Types
      <4>2. wire'[f][r] = wire[f][r]
        BY <1>0, <2>1, <2>6 DEF Types
      <4> QED
        BY <4>1, <4>2
    <3>2. Slot(f, r)' = Slot(f, r)
      BY <2>1 DEF Slot
    <3> QED
      BY <1>0, <2>1, <3>1, <3>2, FrameStays DEF FrameInv
  <2> QED
    BY <2>5, <2>6 DEF FrameInv
<1>4. CASE StorePacket(e, s)
  <2>1. /\ reader[e][s] = "read" /\ Len(g) = Parts + 1
        /\ got' = [got EXCEPT ![e][s] = << >>]
        /\ UNCHANGED <<end, wire, taken, writer, reader>>
    BY <1>4 DEF StorePacket, HasFrame
  <2>2. /\ Begun(g) /\ Continues(g, q) /\ Known(p, q)
        /\ end[p][s] = "open" => Ready(LastPiece(g, q), writer[p].packet, Slot(p, s))
    BY <1>0, <2>1 DEF FrameAt
  <2>3. /\ Begun(<< >>) /\ Continues(<< >>, q)
        /\ LastPiece(<< >>, q).part = LastPiece(g, q).part
        /\ LastPiece(<< >>, q) = LastPiece(g, q) \/ LastPiece(g, q).part = Parts
    BY <1>1, <2>1, <2>2, StoreContinues
  <2>4. Slot(p, s) \in 0..Parts /\ writer[p].packet \in Nat /\ Parts \in Nat
    BY <1>0, PartsFact DEF Slot, Types, Writing
  <2>5. end[p][s] = "open" => Ready(LastPiece(<< >>, q), writer[p].packet, Slot(p, s))
    <3>1. CASE Slot(p, s) = 0
      BY <2>2, <2>3, <3>1 DEF Ready
    <3>2. CASE Slot(p, s) # 0
      <4>1. Slot(p, s) - 1 \in 0..Parts /\ Slot(p, s) - 1 # Parts
        BY <2>4, <3>2
      <4>2. Piece(writer[p].packet, Slot(p, s) - 1).part # Parts
        BY <2>4, <4>1, PieceFact
      <4> QED
        BY <2>2, <2>3, <3>2, <4>2 DEF Ready
    <3> QED
      BY <3>1, <3>2
  <2>6. FrameAt(p, s)'
    <3>1. got'[e][s] = << >> /\ Slot(p, s)' = Slot(p, s)
      BY <1>0, <2>1 DEF Types, Slot
    <3>2. Known(p, << >>)
      BY DEF Known
    <3> QED
      BY <1>0, <2>1, <2>2, <2>3, <2>5, <3>1, <3>2
      DEF FrameAt, Begun, Continues, Known, Ready, LastPiece
  <2>7. ASSUME NEW f \in Ends, NEW r \in Streams, ~(f = p /\ r = s)
        PROVE  FrameAt(f, r)'
    <3>1. got'[Peer(f)][r] = got[Peer(f)][r]
      BY <1>0, <2>1, <2>7, EndFacts DEF Types
    <3>2. Slot(f, r)' = Slot(f, r)
      BY <2>1 DEF Slot
    <3> QED
      BY <1>0, <2>1, <3>1, <3>2, FrameStays DEF FrameInv
  <2> QED
    BY <2>6, <2>7 DEF FrameInv
<1>5. CASE ReadFails(e, s)
  BY <1>5, FrameEnds DEF ReadFails, Leaves
<1> QED
  BY <1>2, <1>3, <1>4, <1>5

LEMMA FrameNext == Types /\ FreshInv /\ FrameInv /\ [Next]_vars => FrameInv'
<1>1. FrameInv /\ UNCHANGED vars => FrameInv'
  BY DEF vars, FrameInv, FrameAt, Begun, Continues, Known, Ready, LastPiece, Slot
<1> QED
  BY <1>1, FrameStreams, FrameWriter, FrameReader DEF Next, Breaks

-----------------------------------------------------------------------------
(* Which packets have their last piece in a stream, and where a packet can *)
(* be: in one stream, among those that have arrived, among those that are  *)
(* dropped, or in the writer's hand.                                       *)

Ended(q) == {q[i].packet : i \in {j \in 1..Len(q) : q[j].part = Parts}}
Once(q)  == \A i, j \in 1..Len(q) :
  q[i].part = Parts /\ q[j].part = Parts /\ q[i].packet = q[j].packet => i = j
EndOf(x) == IF x.part = Parts THEN {x.packet} ELSE {}

(* For one writing end: W and G are the pieces on the way and with the     *)
(* readers, C has arrived, D is dropped, n were taken, p is in the hand.   *)
Carried(W, G, C, D, n, p) ==
  /\ \A s \in Streams :
       /\ Once(W[s]) /\ Ended(G[s]) \cap Ended(W[s]) = {}
       /\ Ended(G[s]) \cup Ended(W[s]) \subseteq (1..n) \ (C \cup D \cup {p})
       /\ \A r \in Streams \ {s} :
            (Ended(G[r]) \cup Ended(W[r])) \cap (Ended(G[s]) \cup Ended(W[s])) = {}
  /\ C \subseteq 1..n /\ D \subseteq 1..n
  /\ C \cap D = {} /\ p \notin C /\ p \notin D

Came(e)    == {arrived[e][i] : i \in 1..Len(arrived[e])}
CarryAt(e) == Carried(wire[e], got[Peer(e)], Came(Peer(e)), dropped[e], taken[e],
                      writer[e].packet)
CarryInv   == \A e \in Ends : CarryAt(e)

LEMMA EndedAppend ==
  ASSUME NEW q \in Seq(Pieces), NEW x \in Pieces
  PROVE  /\ Ended(Append(q, x)) = Ended(q) \cup EndOf(x)
         /\ Once(q) /\ EndOf(x) \cap Ended(q) = {} => Once(Append(q, x))
<1> DEFINE more == Append(q, x)
<1>1. /\ Len(more) = Len(q) + 1 /\ more[Len(q) + 1] = x /\ Len(q) \in Nat
      /\ \A i \in 1..Len(q) : more[i] = q[i]
  BY AppendFact
<1> HIDE DEF more
<1>2. Ended(more) = Ended(q) \cup EndOf(x)
  <2>1. ASSUME NEW i \in 1..Len(more), more[i].part = Parts
        PROVE  more[i].packet \in Ended(q) \cup EndOf(x)
    <3>1. CASE i = Len(q) + 1
      BY <1>1, <2>1, <3>1 DEF EndOf
    <3>2. CASE i # Len(q) + 1
      <4>1. i \in 1..Len(q)
        BY <1>1, <3>2
      <4> QED
        BY <1>1, <2>1, <4>1 DEF Ended
    <3> QED
      BY <3>1, <3>2
  <2>2. ASSUME NEW i \in 1..Len(q), q[i].part = Parts
        PROVE  q[i].packet \in Ended(more)
    <3>1. i \in 1..Len(more) /\ more[i] = q[i]
      BY <1>1
    <3> QED
      BY <2>2, <3>1 DEF Ended
  <2>3. EndOf(x) \subseteq Ended(more)
    <3>1. Len(q) + 1 \in 1..Len(more)
      BY <1>1
    <3> QED
      BY <1>1, <3>1 DEF Ended, EndOf
  <2> QED
    BY <2>1, <2>2, <2>3 DEF Ended
<1>3. ASSUME Once(q), EndOf(x) \cap Ended(q) = {},
             NEW i \in 1..Len(more), NEW j \in 1..Len(more), i < j,
             more[i].part = Parts, more[j].part = Parts, more[i].packet = more[j].packet
      PROVE  FALSE
  <2>1. i \in 1..Len(q) /\ more[i] = q[i]
    BY <1>1, <1>3
  <2>2. CASE j \in 1..Len(q)
    BY <1>1, <1>3, <2>1, <2>2 DEF Once
  <2>3. CASE j = Len(q) + 1
    <3>1. q[i].packet \in EndOf(x)
      BY <1>1, <1>3, <2>1, <2>3 DEF EndOf
    <3>2. q[i].packet \in Ended(q)
      BY <1>3, <2>1 DEF Ended
    <3> QED
      BY <1>3, <3>1, <3>2
  <2> QED
    BY <1>1, <2>2, <2>3
<1>4. Once(q) /\ EndOf(x) \cap Ended(q) = {} => Once(more)
  <2> SUFFICES ASSUME Once(q), EndOf(x) \cap Ended(q) = {},
                      NEW i \in 1..Len(more), NEW j \in 1..Len(more),
                      more[i].part = Parts, more[j].part = Parts,
                      more[i].packet = more[j].packet
               PROVE  i = j
    BY DEF Once
  <2>1. ~(i < j) /\ ~(j < i)
    BY <1>3
  <2> QED
    BY <1>1, <2>1
<1> QED
  BY <1>2, <1>4 DEF more

LEMMA EndedTail ==
  ASSUME NEW q \in Seq(Pieces), q # << >>
  PROVE  /\ Head(q) \in Pieces /\ Ended(q) = Ended(Tail(q)) \cup EndOf(Head(q))
         /\ Once(q) => Once(Tail(q)) /\ EndOf(Head(q)) \cap Ended(Tail(q)) = {}
<1> DEFINE rest == Tail(q)
<1>1. /\ Len(q) \in Nat \ {0} /\ Head(q) = q[1] /\ 1 \in 1..Len(q)
      /\ Len(rest) = Len(q) - 1 /\ \A i \in 1..(Len(q) - 1) : rest[i] = q[i + 1]
  BY LenProperties, EmptySeq, HeadTailProperties
<1>2. Head(q) \in Pieces
  BY <1>1, ElementOfSeq
<1> HIDE DEF rest
<1>3. Ended(q) = Ended(rest) \cup EndOf(Head(q))
  <2>1. ASSUME NEW i \in 1..Len(q), q[i].part = Parts
        PROVE  q[i].packet \in Ended(rest) \cup EndOf(Head(q))
    <3>1. CASE i = 1
      BY <1>1, <2>1, <3>1 DEF EndOf
    <3>2. CASE i # 1
      <4>1. i - 1 \in 1..Len(rest) /\ rest[i - 1] = q[(i - 1) + 1] /\ (i - 1) + 1 = i
        BY <1>1, <3>2
      <4> QED
        BY <2>1, <4>1 DEF Ended
    <3> QED
      BY <3>1, <3>2
  <2>2. ASSUME NEW i \in 1..Len(rest), rest[i].part = Parts
        PROVE  rest[i].packet \in Ended(q)
    <3>1. i + 1 \in 1..Len(q) /\ rest[i] = q[i + 1]
      BY <1>1
    <3> QED
      BY <2>2, <3>1 DEF Ended
  <2>3. EndOf(Head(q)) \subseteq Ended(q)
    BY <1>1 DEF EndOf, Ended
  <2> QED
    BY <2>1, <2>2, <2>3 DEF Ended
<1>4. ASSUME Once(q) PROVE Once(rest)
  <2> SUFFICES ASSUME NEW i \in 1..Len(rest), NEW j \in 1..Len(rest),
                      rest[i].part = Parts, rest[j].part = Parts,
                      rest[i].packet = rest[j].packet
               PROVE  i = j
    BY DEF Once
  <2>1. /\ i + 1 \in 1..Len(q) /\ rest[i] = q[i + 1]
        /\ j + 1 \in 1..Len(q) /\ rest[j] = q[j + 1]
    BY <1>1
  <2>2. i + 1 = j + 1
    BY <1>4, <2>1 DEF Once
  <2> QED
    BY <2>2
<1>5. ASSUME Once(q) PROVE EndOf(Head(q)) \cap Ended(rest) = {}
  <2> SUFFICES ASSUME NEW i \in 1..Len(rest), rest[i].part = Parts, q[1].part = Parts,
                      rest[i].packet = q[1].packet
               PROVE  FALSE
    BY <1>1 DEF Ended, EndOf
  <2>1. i + 1 \in 1..Len(q) /\ rest[i] = q[i + 1]
    BY <1>1
  <2>2. i + 1 = 1
    BY <1>1, <1>5, <2>1 DEF Once
  <2> QED
    BY <2>2
<1> QED
  BY <1>2, <1>3, <1>4, <1>5 DEF rest

(* What each kind of step does to the whereabouts.                         *)
Wires == [Streams -> Seq(Pieces)]

(* A packet is taken, and dropped at once if there is no path.             *)
LEMMA CarryTake ==
  ASSUME NEW W, NEW G, NEW C, NEW D, NEW n \in Nat, Carried(W, G, C, D, n, 0)
  PROVE  /\ Carried(W, G, C, D, n + 1, n + 1)
         /\ Carried(W, G, C, D \cup {n + 1}, n + 1, 0)
<1>1. /\ 1..n \subseteq 1..(n + 1) /\ n + 1 \in 1..(n + 1)
      /\ n + 1 \notin 1..n /\ 0 \notin 1..(n + 1)
  OBVIOUS
<1>2. ASSUME NEW s \in Streams
      PROVE  Ended(G[s]) \cup Ended(W[s]) \subseteq (1..n) \ (C \cup D)
  BY DEF Carried
<1>3. Carried(W, G, C, D, n + 1, n + 1)
  BY <1>1, <1>2, Zenon DEF Carried
<1>4. Carried(W, G, C, D \cup {n + 1}, n + 1, 0)
  BY <1>1, <1>2, Zenon DEF Carried
<1> QED
  BY <1>3, <1>4

(* The writer gives up the packet in its hand.                             *)
LEMMA CarryGiveUp ==
  ASSUME NEW W, NEW G, NEW C, NEW D, NEW n \in Nat, NEW p \in 1..n,
         Carried(W, G, C, D, n, p)
  PROVE  Carried(W, G, C, D \cup {p}, n, 0)
BY DEF Carried

LEMMA CarryWrite ==
  ASSUME NEW W \in Wires, NEW V, NEW G, NEW C, NEW D, NEW n \in Nat, NEW p \in 1..n,
         NEW s \in Streams, NEW k \in 0..Parts, Carried(W, G, C, D, n, p),
         V[s] = Append(W[s], Piece(p, k)), \A r \in Streams \ {s} : V[r] = W[r]
  PROVE  Carried(V, G, C, D, n, IF k = Parts THEN 0 ELSE p)
<1> DEFINE x == Piece(p, k)
<1>0. x \in Pieces /\ x.packet = p /\ x.part = k
  BY PieceFact
<1>1. x \in Pieces /\ EndOf(x) = IF k = Parts THEN {p} ELSE {}
  BY <1>0 DEF EndOf
<1>2. W[s] \in Seq(Pieces) /\ V[s] = Append(W[s], x) /\ \A r \in Streams \ {s} : V[r] = W[r]
  BY DEF Wires
<1>3. /\ Ended(V[s]) = Ended(W[s]) \cup EndOf(x)
      /\ Once(W[s]) /\ EndOf(x) \cap Ended(W[s]) = {} => Once(V[s])
  BY <1>1, <1>2, EndedAppend
<1> HIDE DEF x
<1>4. \A r \in Streams : p \notin Ended(G[r]) \cup Ended(W[r])
  BY DEF Carried
<1>5. Once(V[s])
  BY <1>1, <1>3, <1>4 DEF Carried
<1>6. \A r \in Streams :
        Ended(V[r]) = IF r = s THEN Ended(W[s]) \cup EndOf(x) ELSE Ended(W[r])
  BY <1>2, <1>3
<1>7. CASE k = Parts
  <2>1. \A r \in Streams : Ended(V[r]) \subseteq Ended(W[r]) \cup {p}
    BY <1>1, <1>6, <1>7
  <2>2. \A r \in Streams \ {s} : Ended(V[r]) = Ended(W[r])
    BY <1>6
  <2>3. p \notin C /\ p \notin D /\ 0 \notin 1..n
    BY DEF Carried
  <2>4. ASSUME NEW r \in Streams
        PROVE  /\ Once(V[r]) /\ Ended(G[r]) \cap Ended(V[r]) = {}
               /\ Ended(G[r]) \cup Ended(V[r]) \subseteq (1..n) \ (C \cup D \cup {0})
    <3>1. /\ Once(W[r]) /\ Ended(G[r]) \cap Ended(W[r]) = {}
          /\ Ended(G[r]) \cup Ended(W[r]) \subseteq (1..n) \ (C \cup D)
      BY DEF Carried
    <3>2. Once(V[r])
      BY <1>2, <1>5, <3>1
    <3>3. p \notin Ended(G[r])
      BY <1>4
    <3> QED
      BY <2>1, <2>3, <3>1, <3>2, <3>3
  <2>5. ASSUME NEW r \in Streams, NEW t \in Streams \ {r}
        PROVE  (Ended(G[t]) \cup Ended(V[t])) \cap (Ended(G[r]) \cup Ended(V[r])) = {}
    <3>1. (Ended(G[t]) \cup Ended(W[t])) \cap (Ended(G[r]) \cup Ended(W[r])) = {}
      BY DEF Carried
    <3>2. t # s \/ r # s
      OBVIOUS
    <3> QED
      BY <1>4, <2>1, <2>2, <3>1, <3>2
  <2>6. Carried(V, G, C, D, n, 0)
    BY <2>3, <2>4, <2>5 DEF Carried
  <2> QED
    BY <1>7, <2>6
<1>8. CASE k # Parts
  <2>1. \A r \in Streams : Ended(V[r]) = Ended(W[r])
    BY <1>1, <1>6, <1>8
  <2>2. Carried(V, G, C, D, n, p)
    BY <1>2, <1>5, <2>1 DEF Carried
  <2> QED
    BY <1>8, <2>2
<1> QED
  BY <1>7, <1>8

LEMMA CarryRead ==
  ASSUME NEW W \in Wires, NEW G \in Wires, NEW V, NEW H, NEW C, NEW D, NEW n \in Nat,
         NEW p, NEW s \in Streams, W[s] # << >>, Carried(W, G, C, D, n, p),
         V[s] = Tail(W[s]), H[s] = Append(G[s], Head(W[s])),
         \A r \in Streams \ {s} : V[r] = W[r] /\ H[r] = G[r]
  PROVE  Carried(V, H, C, D, n, p)
<1>1. W[s] \in Seq(Pieces) /\ G[s] \in Seq(Pieces)
  BY DEF Wires
<1>2. /\ Head(W[s]) \in Pieces /\ Once(V[s])
      /\ Ended(W[s]) = Ended(V[s]) \cup EndOf(Head(W[s]))
      /\ EndOf(Head(W[s])) \cap Ended(V[s]) = {}
  BY <1>1, EndedTail DEF Carried
<1>3. Ended(H[s]) = Ended(G[s]) \cup EndOf(Head(W[s]))
  BY <1>1, <1>2, EndedAppend
<1>4. Ended(H[s]) \cap Ended(V[s]) = {}
  BY <1>2, <1>3 DEF Carried
<1>5. \A r \in Streams : Ended(H[r]) \cup Ended(V[r]) = Ended(G[r]) \cup Ended(W[r])
  BY <1>2, <1>3
<1> QED
  BY <1>2, <1>4, <1>5 DEF Carried

(* A reader ends.                                                          *)
LEMMA CarryReset ==
  ASSUME NEW W, NEW G, NEW H, NEW C, NEW D, NEW n, NEW p,
         NEW s \in Streams, Carried(W, G, C, D, n, p),
         H[s] = << >>, \A r \in Streams \ {s} : H[r] = G[r]
  PROVE  Carried(W, H, C, D, n, p)
<1>1. Ended(<< >>) = {}
  BY DEF Ended
<1> QED
  BY <1>1 DEF Carried

(* A reader gives its frame to the device.                                 *)
LEMMA CarryArrive ==
  ASSUME NEW W, NEW G, NEW H, NEW C, NEW D, NEW n, NEW p,
         NEW s \in Streams, Carried(W, G, C, D, n, p),
         H[s] = << >>, \A r \in Streams \ {s} : H[r] = G[r],
         NEW q \in Ended(G[s]), NEW A, A = C \cup {q}
  PROVE  Carried(W, H, A, D, n, p)
<1>1. Carried(W, H, C, D, n, p)
  BY CarryReset
<1>2. q \in (1..n) \ (C \cup D \cup {p})
  BY DEF Carried
<1>3. \A r \in Streams : q \notin Ended(H[r]) \cup Ended(W[r])
  <2>1. Ended(<< >>) = {}
    BY DEF Ended
  <2> QED
    BY <2>1 DEF Carried
<1>4. ASSUME NEW r \in Streams
      PROVE  Ended(H[r]) \cup Ended(W[r]) \subseteq (1..n) \ (A \cup D \cup {p})
  BY <1>1, <1>3 DEF Carried
<1>5. /\ A \subseteq 1..n /\ A \cap D = {} /\ p \notin A
      /\ D \subseteq 1..n /\ p \notin D
  BY <1>1, <1>2 DEF Carried
<1> QED
  BY <1>1, <1>4, <1>5 DEF Carried

(* What one step does to one direction is what Link allows.                *)
OpenAt(e) == {p \in (1..taken[e]) \ dropped[e] :
                \A i \in DOMAIN arrived[Peer(e)] : arrived[Peer(e)][i] # p}
LinkStep(e) ==
  \/ taken'[e] = taken[e] /\ arrived'[Peer(e)] = arrived[Peer(e)] /\ dropped'[e] = dropped[e]
  \/ /\ taken'[e] = taken[e] + 1 /\ arrived'[Peer(e)] = arrived[Peer(e)]
     /\ dropped'[e] = dropped[e] \/ dropped'[e] = dropped[e] \cup {taken'[e]}
  \/ \E p \in OpenAt(e) :
       /\ taken'[e] = taken[e]
       /\ \/ /\ arrived'[Peer(e)] = Append(arrived[Peer(e)], p) /\ dropped'[e] = dropped[e]
          \/ /\ dropped'[e] = dropped[e] \cup {p} /\ arrived'[Peer(e)] = arrived[Peer(e)]

LEMMA CarryFacts ==
  ASSUME Types, NEW e \in Ends
  PROVE  /\ wire[e] \in Wires /\ got[Peer(e)] \in Wires
         /\ taken[e] \in Nat /\ writer[e] \in Writing
         /\ arrived[Peer(e)] \in Seq(Nat) /\ Len(arrived[Peer(e)]) \in Nat
         /\ DOMAIN arrived[Peer(e)] = 1..Len(arrived[Peer(e)])
         /\ OpenAt(e) = (1..taken[e]) \ (dropped[e] \cup Came(Peer(e)))
<1>1. Peer(e) \in Ends
  BY EndFacts
<1>2. /\ arrived[Peer(e)] \in Seq(Nat) /\ Len(arrived[Peer(e)]) \in Nat
      /\ DOMAIN arrived[Peer(e)] = 1..Len(arrived[Peer(e)])
  BY <1>1, LenProperties DEF Types
<1>3. OpenAt(e) = (1..taken[e]) \ (dropped[e] \cup Came(Peer(e)))
  BY <1>2 DEF OpenAt, Came
<1> QED
  BY <1>1, <1>2, <1>3 DEF Types, Wires

(* Steps that touch no piece and no account of the direction from end e.   *)
LEMMA CarrySame ==
  ASSUME CarryInv, NEW e \in Ends,
         wire'[e] = wire[e], got'[Peer(e)] = got[Peer(e)],
         taken'[e] = taken[e], writer'[e].packet = writer[e].packet,
         arrived'[Peer(e)] = arrived[Peer(e)], dropped'[e] = dropped[e]
  PROVE  CarryAt(e)' /\ LinkStep(e)
BY DEF CarryInv, CarryAt, Came, LinkStep

LEMMA CarryInit == Init => CarryInv
<1> SUFFICES ASSUME Init, NEW e \in Ends PROVE CarryAt(e)
  BY DEF CarryInv
<1>1. /\ \A s \in Streams : wire[e][s] = << >> /\ got[Peer(e)][s] = << >>
      /\ arrived[Peer(e)] = << >> /\ dropped[e] = {} /\ taken[e] = 0
      /\ writer[e].packet = 0
  BY EndFacts DEF Init
<1>2. Ended(<< >>) = {} /\ Once(<< >>) /\ Came(Peer(e)) = {}
  BY <1>1 DEF Ended, Once, Came
<1> QED
  BY <1>1, <1>2 DEF CarryAt, Carried

LEMMA CarryStreams ==
  ASSUME Types, CarryInv, NEW s \in Streams, Dial(s) \/ AcceptStream(s) \/ StoreFails(s),
         NEW e \in Ends
  PROVE  CarryAt(e)' /\ LinkStep(e)
<1>1. CASE Dial(s) \/ AcceptStream(s)
  BY <1>1, CarrySame DEF Dial, AcceptStream
<1>2. CASE StoreFails(s)
  <2>1. /\ got' = [got EXCEPT !["server"][s] = << >>]
        /\ UNCHANGED <<wire, taken, writer, arrived, dropped>>
    BY <1>2 DEF StoreFails
  <2>2. CASE e = "client"
    <3>1. /\ got'[Peer(e)][s] = << >>
          /\ \A r \in Streams \ {s} : got'[Peer(e)][r] = got[Peer(e)][r]
      BY <2>1, <2>2, EndFacts DEF Types
    <3>2. Carried(wire[e], got'[Peer(e)], Came(Peer(e)), dropped[e], taken[e],
                  writer[e].packet)
      BY <3>1, CarryFacts, CarryReset DEF CarryInv, CarryAt
    <3> QED
      BY <2>1, <3>2 DEF CarryAt, Came, LinkStep
  <2>3. CASE e = "server"
    <3>1. got'[Peer(e)] = got[Peer(e)]
      BY <2>1, <2>3, EndFacts DEF Types, Peer
    <3> QED
      BY <2>1, <3>1, CarrySame
  <2> QED
    BY <2>2, <2>3 DEF Ends
<1> QED
  BY <1>1, <1>2

LEMMA CarryWriter ==
  ASSUME Types, CarryInv, NEW f \in Ends, TakePacket(f) \/ WritePiece(f) \/ WriteFails(f),
         NEW e \in Ends
  PROVE  CarryAt(e)' /\ LinkStep(e)
<1> DEFINE W == wire[e]
           G == got[Peer(e)]
           C == Came(Peer(e))
           D == dropped[e]
           n == taken[e]
           w == writer[e]
<1>0. /\ W \in Wires /\ G \in Wires /\ n \in Nat /\ w \in Writing /\ w.packet \in Nat
      /\ Carried(W, G, C, D, n, w.packet) /\ paths[e] \in SUBSET Streams
  BY CarryFacts DEF Writing, CarryInv, CarryAt, Types
<1>1. CASE e # f
  <2>1. /\ wire'[e] = wire[e] /\ taken'[e] = taken[e] /\ UNCHANGED <<got, arrived>>
    BY <1>1 DEF TakePacket, WritePiece, WriteFails, Types
  <2>2. writer'[e] = writer[e] /\ dropped'[e] = dropped[e]
    <3>1. CASE TakePacket(f)
      <4>1. Starts(f, taken[f] + 1, paths[f]) /\ taken[f] + 1 \in Nat
            /\ paths[f] \in SUBSET Streams
        BY <3>1 DEF TakePacket, Types
      <4> QED
        BY <1>1, <4>1, StartsFact
    <3>2. CASE WritePiece(f)
      BY <1>1, <3>2 DEF WritePiece, Types
    <3>3. CASE WriteFails(f)
      <4>1. /\ paths'[f] = paths[f] \ {writer[f].stream}
            /\ Starts(f, writer[f].packet, IF f = "client" THEN paths'[f] ELSE {})
        BY <3>3 DEF WriteFails, Types
      <4>2. /\ writer[f].packet \in Nat
            /\ (IF f = "client" THEN paths'[f] ELSE {}) \in SUBSET Streams
        BY <4>1 DEF Types, Writing
      <4> QED
        BY <1>1, <4>1, <4>2, StartsFact
    <3> QED
      BY <3>1, <3>2, <3>3
  <2> QED
    BY <2>1, <2>2, CarrySame
<1>2. CASE TakePacket(e)
  <2>1. /\ w = Idle /\ w.packet = 0 /\ Starts(e, n + 1, paths[e])
        /\ taken'[e] = n + 1 /\ UNCHANGED <<wire, got, arrived>>
    BY <1>2, EndFacts DEF TakePacket, Types
  <2>2. \/ writer'[e].packet = 0 /\ dropped'[e] = D \cup {n + 1}
        \/ writer'[e].packet = n + 1 /\ dropped'[e] = D
    BY <1>0, <2>1, StartsFact, EndFacts
  <2>3. Carried(W, G, C, D, n, 0)
    BY <1>0, <2>1
  <2>4. /\ Carried(W, G, C, D, n + 1, n + 1)
        /\ Carried(W, G, C, D \cup {n + 1}, n + 1, 0)
    BY <1>0, <2>3, CarryTake
  <2>5. Carried(W, G, C, dropped'[e], n + 1, writer'[e].packet)
    BY <2>2, <2>4
  <2> QED
    BY <2>1, <2>2, <2>5 DEF CarryAt, Came, LinkStep
<1>3. CASE WritePiece(e)
  <2> DEFINE s == w.stream
             h == IF w.pieces = Parts THEN 0 ELSE w.packet
  <2>1. /\ w # Idle /\ UNCHANGED <<taken, got, arrived, dropped>>
        /\ wire' = [wire EXCEPT ![e][s] = Append(wire[e][s], Piece(w.packet, w.pieces))]
        /\ writer' = [writer EXCEPT ![e] =
                        IF w.pieces = Parts THEN Idle ELSE [w EXCEPT !.pieces = w.pieces + 1]]
    BY <1>3 DEF WritePiece, IsLast
  <2>2. s \in Streams /\ w.packet \in 1..n /\ w.pieces \in 0..Parts
    BY <1>0, <2>1 DEF Types, Writing
  <2>3. /\ wire'[e][s] = Append(W[s], Piece(w.packet, w.pieces))
        /\ \A r \in Streams \ {s} : wire'[e][r] = W[r]
    BY <2>1, <2>2 DEF Types
  <2>4. writer'[e].packet = h
    BY <1>0, <2>1, EndFacts DEF Types, Writing
  <2>5. Carried(wire'[e], G, C, D, n, h)
    BY <1>0, <2>2, <2>3, CarryWrite
  <2> HIDE DEF h
  <2> QED
    BY <2>1, <2>4, <2>5 DEF CarryAt, Came, LinkStep
<1>4. CASE WriteFails(e)
  <2> DEFINE S == IF e = "client" THEN paths[e] \ {w.stream} ELSE {}
  <2>1. /\ w # Idle /\ Starts(e, w.packet, S) /\ S \in SUBSET Streams
        /\ UNCHANGED <<wire, taken, got, arrived>>
    BY <1>0, <1>4 DEF WriteFails, Types
  <2>2. w.packet \in 1..n
    BY <2>1 DEF Types
  <2>3. \/ writer'[e].packet = 0 /\ dropped'[e] = D \cup {w.packet}
        \/ writer'[e].packet = w.packet /\ dropped'[e] = D
    BY <1>0, <2>1, StartsFact, EndFacts
  <2>4. Carried(W, G, C, dropped'[e], n, writer'[e].packet)
    BY <1>0, <2>2, <2>3, CarryGiveUp
  <2>5. w.packet \in OpenAt(e)
    BY <1>0, <2>2, CarryFacts DEF Carried
  <2> QED
    BY <2>1, <2>3, <2>4, <2>5 DEF CarryAt, Came, LinkStep
<1> QED
  BY <1>1, <1>2, <1>3, <1>4

LEMMA CarryReader ==
  ASSUME Types, FrameInv, CarryInv, NEW f \in Ends, NEW s \in Streams,
         Broken(f, s) \/ ReadPiece(f, s) \/ StorePacket(f, s) \/ ReadFails(f, s),
         NEW e \in Ends
  PROVE  CarryAt(e)' /\ LinkStep(e)
<1> DEFINE W == wire[e]
           G == got[Peer(e)]
           C == Came(Peer(e))
           D == dropped[e]
           n == taken[e]
           p == writer[e].packet
<1>0. /\ W \in Wires /\ G \in Wires /\ n \in Nat /\ Carried(W, G, C, D, n, p)
      /\ Peer(e) \in Ends /\ Peer(Peer(e)) = e /\ f \in {e, Peer(e)}
  BY CarryFacts DEF CarryInv, CarryAt, Ends, Peer
<1>1. CASE Broken(f, s)
  BY <1>1, CarrySame DEF Broken
<1>2. CASE f # Peer(e)
  <2>1. /\ wire'[e] = wire[e] /\ got'[Peer(e)] = got[Peer(e)]
        /\ arrived'[Peer(e)] = arrived[Peer(e)] /\ UNCHANGED <<taken, writer, dropped>>
    BY <1>0, <1>2, EndFacts DEF Broken, ReadPiece, StorePacket, ReadFails, Types
  <2> QED
    BY <2>1, CarrySame
<1>3. CASE f = Peer(e) /\ ReadPiece(f, s)
  <2>1. /\ W[s] # << >> /\ UNCHANGED <<taken, writer, arrived, dropped>>
        /\ got'[Peer(e)][s] = Append(G[s], Head(W[s])) /\ wire'[e][s] = Tail(W[s])
        /\ \A r \in Streams \ {s} : wire'[e][r] = W[r] /\ got'[Peer(e)][r] = G[r]
    BY <1>0, <1>3 DEF ReadPiece, Types
  <2>2. Carried(wire'[e], got'[Peer(e)], C, D, n, p)
    <3> HIDE DEF W, G, C, D, n, p
    <3> QED
      BY <1>0, <2>1, CarryRead, Zenon
  <2> QED
    BY <2>1, <2>2 DEF CarryAt, Came, LinkStep
<1>4. CASE f = Peer(e) /\ ReadFails(f, s)
  <2>1. /\ got'[Peer(e)][s] = << >> /\ \A r \in Streams \ {s} : got'[Peer(e)][r] = G[r]
        /\ UNCHANGED <<wire, taken, writer, arrived, dropped>>
    BY <1>0, <1>4 DEF ReadFails, Types
  <2>2. Carried(W, got'[Peer(e)], C, D, n, p)
    BY <1>0, <2>1, CarryReset
  <2> QED
    BY <2>1, <2>2 DEF CarryAt, Came, LinkStep
<1>5. CASE f = Peer(e) /\ StorePacket(f, s)
  <2> DEFINE q == G[s][1].packet
  <2>1. /\ reader[Peer(e)][s] = "read" /\ Len(G[s]) = Parts + 1
        /\ got'[Peer(e)][s] = << >> /\ \A r \in Streams \ {s} : got'[Peer(e)][r] = G[r]
        /\ arrived'[Peer(e)] = Append(arrived[Peer(e)], q)
        /\ UNCHANGED <<wire, taken, writer, dropped>>
    BY <1>0, <1>5 DEF StorePacket, HasFrame, Types
  <2>2. q \in Ended(G[s])
    <3>1. Begun(G[s]) /\ Parts \in Nat /\ G[s] \in Seq(Pieces)
      BY <1>0, <2>1, PartsFact DEF FrameInv, FrameAt, Wires
    <3>2. G[s][Parts + 1] = Piece(q, Parts) /\ Parts + 1 \in 1..Len(G[s])
      BY <2>1, <3>1 DEF Begun
    <3>3. q \in Nat
      <4>1. G[s][1] \in Pieces
        BY <2>1, <3>1, ElementOfSeq
      <4> QED
        BY <4>1 DEF Pieces
    <3>4. G[s][Parts + 1].part = Parts /\ G[s][Parts + 1].packet = q
      BY <3>1, <3>2, <3>3, PieceFact
    <3> QED
      BY <3>2, <3>4 DEF Ended
  <2> HIDE DEF q
  <2>3. q \in (1..n) \ (C \cup D)
    BY <1>0, <2>1, <2>2 DEF Carried
  <2>4. Came(Peer(e))' = C \cup {q}
    <3> DEFINE a == arrived[Peer(e)]
    <3>1. a \in Seq(Nat) /\ Len(a) \in Nat /\ q \in Nat
      BY <1>0, <2>3, CarryFacts
    <3>2. /\ Len(Append(a, q)) = Len(a) + 1 /\ Append(a, q)[Len(a) + 1] = q
          /\ \A i \in 1..Len(a) : Append(a, q)[i] = a[i]
      BY <3>1, AppendProperties
    <3>3. Came(Peer(e))' = {Append(a, q)[i] : i \in 1..(Len(a) + 1)}
      BY <2>1, <3>2 DEF Came
    <3>4. C = {a[i] : i \in 1..Len(a)}
      BY DEF Came
    <3> HIDE DEF a, C
    <3>5. \A i \in 1..(Len(a) + 1) : Append(a, q)[i] \in C \cup {q}
      BY <3>1, <3>2, <3>4
    <3>6. \A i \in 1..Len(a) : a[i] \in {Append(a, q)[j] : j \in 1..(Len(a) + 1)}
      BY <3>1, <3>2
    <3>7. q \in {Append(a, q)[j] : j \in 1..(Len(a) + 1)}
      BY <3>1, <3>2
    <3> QED
      BY <3>3, <3>4, <3>5, <3>6, <3>7
  <2>5. q \in OpenAt(e)
    BY <2>3, CarryFacts
  <2>6. Carried(W, got'[Peer(e)], Came(Peer(e))', D, n, p)
    BY <1>0, <2>1, <2>2, <2>4, CarryArrive
  <2> QED
    BY <2>1, <2>5, <2>6 DEF CarryAt, LinkStep
<1> QED
  BY <1>0, <1>1, <1>2, <1>3, <1>4, <1>5

LEMMA CarryNext ==
  ASSUME Types, FrameInv, CarryInv, [Next]_vars
  PROVE  CarryInv' /\ \A e \in Ends : LinkStep(e)
<1> SUFFICES ASSUME NEW e \in Ends PROVE CarryAt(e)' /\ LinkStep(e)
  BY DEF CarryInv
<1>1. CASE UNCHANGED vars
  BY <1>1, CarrySame DEF vars
<1> QED
  BY <1>1, CarryStreams, CarryWriter, CarryReader DEF Next, Breaks

-----------------------------------------------------------------------------
(* The theorems.                                                           *)

LEMMA TypesGive == Types => TypeOK
<1> SUFFICES ASSUME Types, NEW e \in Ends
             PROVE  /\ paths[e] \subseteq Streams
                    /\ reader[e] \in [Streams -> {"none", "read", "done"}]
                    /\ taken[e] \in 0..MaxPackets[e]
                    /\ writer[e] = Idle \/ /\ writer[e].packet \in 1..taken[e]
                                           /\ writer[e].stream \in Streams
                                           /\ writer[e].pieces \in 0..Parts
                    /\ \A s \in Streams :
                         Len(wire[e][s]) <= Window /\ Len(got[e][s]) <= Parts + 1
  BY DEF Types, TypeOK, States
<1>1. taken[e] \in 0..MaxPackets[e]
  BY MaxPacketsAssumption DEF Types
<1>2. writer[e].pieces \in 0..Parts
  BY DEF Types, Writing
<1> QED
  BY <1>1, <1>2 DEF Types, Readers

LEMMA FramesGive == Types /\ FrameInv => FramesIntact
<1> SUFFICES ASSUME Types, FrameInv, NEW e \in Ends, NEW s \in Streams, HasFrame(e, s)
             PROVE  \E p \in 1..taken[Peer(e)] : got[e][s] = Frame(p)
  BY DEF FramesIntact
<1> DEFINE g == got[e][s]
<1>1. g \in Seq(Pieces) /\ Len(g) = Parts + 1 /\ Parts \in Nat
  BY PartsFact DEF HasFrame, Types
<1>2. Begun(g) /\ Known(Peer(e), g)
  BY EndFacts DEF FrameInv, FrameAt, HasFrame
<1>3. g[1].packet \in 1..taken[Peer(e)]
  BY <1>1, <1>2 DEF Known
<1>4. g = [i \in 1..(Parts + 1) |-> g[i]]
  BY <1>1, ElementOfSeq
<1>5. g = Frame(g[1].packet)
  BY <1>1, <1>2, <1>4 DEF Begun, Frame
<1> QED
  BY <1>3, <1>5

(* What always holds together: types, streams, frames and whereabouts.     *)
IndInv == Types /\ FreshInv /\ FrameInv /\ CarryInv

(* The inductive invariant of Tunnel: streams are empty until they are     *)
(* dialled, each carries whole frames up to where its writer is, and every *)
(* packet is in one place.                                                 *)
THEOREM TunnelInductive == Spec => []IndInv
<1>1. Init => IndInv
  <2>1. Init => FreshInv
    BY DEF Init, FreshInv, Unused, Idle, Streams
  <2> QED
    BY <2>1, TypesInit, FrameInit, CarryInit DEF IndInv
<1>2. IndInv /\ [Next]_vars => IndInv'
  BY TypesNext, FreshNext, FrameNext, CarryNext DEF IndInv
<1> QED
  BY <1>1, <1>2, PTL DEF Spec

(* The types of Tunnel's variables, for any windows, pieces and number of  *)
(* packets and streams: no reader holds more than a frame, no stream more  *)
(* than its window, and a writer has a stream while it has a packet.       *)
THEOREM TunnelTypeOK == Spec => []TypeOK
BY TunnelInductive, TypesGive, PTL DEF IndInv

(* Whatever a reader takes for a frame is a whole frame of one packet that *)
(* the other end has read from its device: the reader knows pieces only by *)
(* position, and a stream is given up with the frame it breaks.            *)
THEOREM FramesStayIntact == Spec => []FramesIntact
BY TunnelInductive, FramesGive, PTL DEF IndInv

LEMMA LinkUp ==
  ASSUME LinkStep("client")
  PROVE  [Upward!Next]_(Upward!lvars)
<1> USE EndFacts DEF Upward!lvars
<1>1. CASE UNCHANGED <<taken["client"], arrived["server"], dropped["client"]>>
  BY <1>1
<1>2. CASE /\ taken'["client"] = taken["client"] + 1
           /\ arrived'["server"] = arrived["server"]
           /\ \/ dropped'["client"] = dropped["client"]
              \/ dropped'["client"] = dropped["client"] \cup {taken'["client"]}
  BY <1>2 DEF Upward!Next, Upward!Offer, Upward!OfferDropped
<1>3. ASSUME NEW p \in OpenAt("client"), taken'["client"] = taken["client"],
             \/ /\ arrived'["server"] = Append(arrived["server"], p)
                /\ dropped'["client"] = dropped["client"]
             \/ /\ dropped'["client"] = dropped["client"] \cup {p}
                /\ arrived'["server"] = arrived["server"]
      PROVE  Upward!Next
  <2>1. p \in Upward!Open
    BY DEF OpenAt, Upward!Open
  <2> QED
    BY <1>3, <2>1 DEF Upward!Next, Upward!Arrive, Upward!Drop
<1> QED
  BY <1>1, <1>2, <1>3 DEF LinkStep

LEMMA LinkDown ==
  ASSUME LinkStep("server")
  PROVE  [Downward!Next]_(Downward!lvars)
<1>0. Peer("server") = "client"
  BY DEF Peer
<1> USE <1>0 DEF Downward!lvars
<1>1. CASE UNCHANGED <<taken["server"], arrived["client"], dropped["server"]>>
  BY <1>1
<1>2. CASE /\ taken'["server"] = taken["server"] + 1
           /\ arrived'["client"] = arrived["client"]
           /\ \/ dropped'["server"] = dropped["server"]
              \/ dropped'["server"] = dropped["server"] \cup {taken'["server"]}
  BY <1>2 DEF Downward!Next, Downward!Offer, Downward!OfferDropped
<1>3. ASSUME NEW p \in OpenAt("server"), taken'["server"] = taken["server"],
             \/ /\ arrived'["client"] = Append(arrived["client"], p)
                /\ dropped'["server"] = dropped["server"]
             \/ /\ dropped'["server"] = dropped["server"] \cup {p}
                /\ arrived'["client"] = arrived["client"]
      PROVE  Downward!Next
  <2>1. p \in Downward!Open
    BY DEF OpenAt, Downward!Open
  <2> QED
    BY <1>3, <2>1 DEF Downward!Next, Downward!Arrive, Downward!Drop
<1> QED
  BY <1>1, <1>2, <1>3 DEF LinkStep

(* Each direction of the tunnel keeps the promise of Link: a packet that   *)
(* was tried on several streams, some of which broke in the middle of it,  *)
(* arrives at most once, and never if its sender counts it as dropped.     *)
THEOREM TunnelCarriesPackets == Spec => CarriesPackets
<1>1. Init => Upward!Init /\ Downward!Init
  BY EndFacts DEF Init, Upward!Init, Downward!Init
<1>2. IndInv /\ [Next]_vars => [Upward!Next]_(Upward!lvars) /\ [Downward!Next]_(Downward!lvars)
  BY CarryNext, LinkUp, LinkDown, EndFacts DEF IndInv
<1>3. Spec => Upward!Spec
  BY <1>1, <1>2, TunnelInductive, PTL DEF Spec, Upward!Spec
<1>4. Spec => Downward!Spec
  BY <1>1, <1>2, TunnelInductive, PTL DEF Spec, Downward!Spec
<1> QED
  BY <1>3, <1>4, PTL DEF CarriesPackets
=============================================================================
