------------------------------ MODULE Packets ------------------------------
(***************************************************************************)
(* What the two ends do with the bytes of a packet: the parsers, builders  *)
(* and the checksum of internal/packet, the parser of packet_policy.go and *)
(* the client's check of an echo reply (client.go, validateEchoReply), as  *)
(* operators, and one echo exchange between a client and a server.         *)
(*                                                                         *)
(* A packet is a sequence of bytes; data[k] in the code is f[k + 1] here.  *)
(* Either end must cope with whatever bytes the other one sends.  A packet *)
(* may be damaged on its way, and what arrives may have been made by       *)
(* another program, with checksums that are right.                         *)
(***************************************************************************)
EXTENDS Integers, Sequences

CONSTANTS
  Requests,  (* what clients ask: [virtual, client, id, seq, payload]        *)
  Offsets,   (* bound: what is added to a byte that changes                  *)
  MaxTotal   (* longest packet that is built; 65535 in the code              *)

Byte      == 0..255
Uint16    == {w \in Nat : w < 65536}
Addresses == [1..4 -> Byte]

ASSUME MaxTotalAssumption == MaxTotal \in Uint16 /\ MaxTotal >= 28
ASSUME OffsetsAssumption  == Offsets \subseteq Byte \ {0}
ASSUME RequestsAssumption ==
  Requests \subseteq [virtual : Addresses, client : Addresses, id : Uint16,
                      seq : Uint16, payload : Seq(Byte)]

VARIABLES
  asked,    (* the request's parameters, which are the client's              *)
  frame,    (* the packet under way                                          *)
  at,       (* "to server", "to client" or how it ended: "refused",          *)
            (* "ignored", "accepted"                                         *)
  changed   (* history: what has become of the packet sent on each leg: "no" *)
            (* change, "damaged" or "rebuilt"                                *)

vars == <<asked, frame, at, changed>>

Legs == {"to server", "to client"}

EchoReply   == 0
EchoRequest == 8
ICMP        == 1
HeaderMin   == 20
DefaultTTL  == 64

Word(f, i)    == 256 * f[i] + f[i + 1]
BytesOf(w)    == <<w \div 256, w % 256>>
From(f, i, n) == SubSeq(f, i, i + n - 1)

-----------------------------------------------------------------------------
(* The checksum.                                                           *)

(* Mutant: the last byte of an odd number is the low half of its word.     *)
Weighted_OddLow(f, i) == IF i % 2 = 1 /\ i < Len(f) THEN 256 * f[i] ELSE f[i]

(* The high byte of a word comes first.                                    *)
Weighted(f, i) == IF i % 2 = 1 THEN 256 * f[i] ELSE f[i]

(* The sums of the first bytes, and of all of them.                        *)
WordSums(f) ==
  LET sum[k \in 0..Len(f)] == IF k = 0 THEN 0 ELSE sum[k - 1] + Weighted(f, k)
  IN  sum
WordSum(f) == WordSums(f)[Len(f)]

(* The carries are added until there are none.                             *)
CarryAdded(sum) == (sum % 65536) + (sum \div 65536)
Fold[sum \in Nat] == IF sum \in Uint16 THEN sum ELSE Fold[CarryAdded(sum)]

(* Mutant: the carries are added once.                                     *)
Folded_Once(sum) == CarryAdded(sum)

Folded(sum) == Fold[sum]

Checksum(f) == 65535 - Folded(WordSum(f))

-----------------------------------------------------------------------------
(* Parsing.                                                                *)

HeaderLen(f)   == 4 * (f[1] % 16)
TotalLen(f)    == Word(f, 3)
Source(f)      == From(f, 13, 4)
Destination(f) == From(f, 17, 4)

(* ParseIPv4Packet succeeds, ...                                           *)
IsIPv4ICMP(f) ==
  /\ Len(f) >= HeaderMin
  /\ f[1] \div 16 = 4
  /\ HeaderLen(f) >= HeaderMin /\ Len(f) >= HeaderLen(f)
  /\ TotalLen(f) >= HeaderLen(f) /\ TotalLen(f) <= Len(f)
  /\ f[10] = ICMP

(* ... and its Payload.                                                    *)
IPPayload(f) == SubSeq(f, HeaderLen(f) + 1, TotalLen(f))

(* ParseICMPPacket.                                                        *)
IsICMP(p) == Len(p) >= 8
ICMPOf(p) == [type |-> p[1], code |-> p[2], id |-> Word(p, 5), seq |-> Word(p, 7),
              payload |-> SubSeq(p, 9, Len(p))]

(* Mutant: a packet longer than what has arrived has endpoints.            *)
HasEndpoints_Cut(f) ==
  /\ Len(f) >= 20
  /\ f[1] \div 16 = 4
  /\ HeaderLen(f) >= 20 /\ Len(f) >= HeaderLen(f)
  /\ TotalLen(f) >= HeaderLen(f)

(* ipv4Endpoints has a parser of its own.                                  *)
HasEndpoints(f) ==
  /\ Len(f) >= 20
  /\ f[1] \div 16 = 4
  /\ HeaderLen(f) >= 20 /\ Len(f) >= HeaderLen(f)
  /\ TotalLen(f) >= HeaderLen(f) /\ TotalLen(f) <= Len(f)

-----------------------------------------------------------------------------
(* Building.                                                               *)

(* The checksum is taken over the message with zeroes in its place.        *)
Summed(f, at0) ==
  LET sum == BytesOf(Checksum(f)) IN [f EXCEPT ![at0] = sum[1], ![at0 + 1] = sum[2]]

ICMPMessage(type, id, seq, payload) ==
  Summed(<<type, 0, 0, 0>> \o BytesOf(id) \o BytesOf(seq) \o payload, 3)

(* buildIPv4ICMPPacket, for a message that fits.                           *)
Fits(message) == HeaderMin + Len(message) <= MaxTotal
IPv4Packet(source, destination, message) ==
  Summed(<<69, 0>> \o BytesOf(HeaderMin + Len(message))
           \o <<0, 0, 0, 0, DefaultTTL, ICMP, 0, 0>> \o source \o destination, 11)
    \o message

RequestOf(q) == ICMPMessage(EchoRequest, q.id, q.seq, q.payload)
ReplyOf(q)   == IPv4Packet(q.virtual, q.client,
                           ICMPMessage(EchoReply, q.id, q.seq, q.payload))

(* BuildICMPEchoReply succeeds, ...                                        *)
Answers(f, q) ==
  /\ IsIPv4ICMP(f) /\ Destination(f) = q.virtual
  /\ IsICMP(IPPayload(f)) /\ ICMPOf(IPPayload(f)).type = EchoRequest
  /\ Fits(IPPayload(f))

(* Mutant: the reply keeps the checksum of the request.                    *)
AnswerTo_KeepsChecksum(f, q) ==
  IPv4Packet(q.virtual, q.client, [IPPayload(f) EXCEPT ![1] = EchoReply, ![2] = 0])

(* ... and returns this.                                                   *)
AnswerTo(f, q) ==
  LET request == ICMPOf(IPPayload(f))
  IN  IPv4Packet(q.virtual, q.client,
                 ICMPMessage(EchoReply, request.id, request.seq, request.payload))

-----------------------------------------------------------------------------
(* Judging.                                                                *)

(* Mutant: the code is not looked at.                                      *)
IsReplyTo_AnyCode(f, q) ==
  /\ Len(f) >= 20 /\ Checksum(From(f, 1, 20)) = 0
  /\ IsIPv4ICMP(f) /\ Source(f) = q.virtual /\ Destination(f) = q.client
  /\ Checksum(IPPayload(f)) = 0 /\ IsICMP(IPPayload(f))
  /\ [ICMPOf(IPPayload(f)) EXCEPT !.code = 0] =
       [type |-> EchoReply, code |-> 0, id |-> q.id, seq |-> q.seq, payload |-> q.payload]

(* validateEchoReply finds nothing wrong.                                  *)
IsReplyTo(f, q) ==
  /\ Len(f) >= 20 /\ Checksum(From(f, 1, 20)) = 0
  /\ IsIPv4ICMP(f) /\ Source(f) = q.virtual /\ Destination(f) = q.client
  /\ Checksum(IPPayload(f)) = 0 /\ IsICMP(IPPayload(f))
  /\ ICMPOf(IPPayload(f)) = [type |-> EchoReply, code |-> 0, id |-> q.id,
                             seq |-> q.seq, payload |-> q.payload]

-----------------------------------------------------------------------------
(* One exchange.                                                           *)

Init ==
  /\ asked \in Requests
  /\ changed = [leg \in Legs |-> "no"]
  /\ IF Fits(RequestOf(asked))
     THEN at = "to server"
          /\ frame = IPv4Packet(asked.client, asked.virtual, RequestOf(asked))
     ELSE at = "refused" /\ frame = << >>

(* The header is one word longer.                                          *)
Widened(f, n) ==
  <<f[1] + 1, 0>> \o BytesOf(n) \o SubSeq(f, 5, 20) \o <<1, 1, 1, 1>>
    \o SubSeq(f, 21, Len(f))

(* The network damages a packet: one byte differs, the end is missing or   *)
(* there is more, or the above.                                            *)
Near(f) ==
  {[f EXCEPT ![i] = (@ + d) % 256] : i \in DOMAIN f, d \in Offsets}
    \cup {SubSeq(f, 1, n) : n \in {0, 4, 19, 20, Len(f) - 1}}
    \cup {Append(f, 1)}
    \cup {Widened(f, n) : n \in {Len(f) + 4} \cap Uint16}

(* The message is one byte longer.                                         *)
Extended(f, n) == SubSeq(f, 1, 2) \o BytesOf(n) \o SubSeq(f, 5, Len(f)) \o <<1>>

(* Both sums are taken anew, of the first 20 bytes and of the others.      *)
Resummed(f) ==
  Summed([SubSeq(f, 1, 20) EXCEPT ![11] = 0, ![12] = 0], 11)
    \o Summed([SubSeq(f, 21, Len(f)) EXCEPT ![3] = 0, ![4] = 0], 3)

(* Another program has built a packet, of the same or other fields and     *)
(* with right sums, or with the other zero as the sum of the message.      *)
Rebuilt(f) ==
  LET others == Near(f) \cup {Extended(f, n) : n \in {Len(f) + 1} \cap Uint16}
  IN  {Resummed(g) : g \in {h \in others : Len(h) >= 24}}
        \cup {[f EXCEPT ![23] = 255, ![24] = 255]}

Change(kind, packets) ==
  /\ at \in Legs /\ changed[at] = "no"
  /\ frame' \in packets /\ changed' = [changed EXCEPT ![at] = kind]
  /\ UNCHANGED <<asked, at>>

Damage  == Change("damaged", Near(frame))
Rebuild == Change("rebuilt", Rebuilt(frame))

(* handleQUICStream, for one frame.                                        *)
Serve ==
  /\ at = "to server"
  /\ IF Answers(frame, asked)
     THEN at' = "to client" /\ frame' = AnswerTo(frame, asked)
     ELSE at' = "ignored" /\ UNCHANGED frame
  /\ UNCHANGED <<asked, changed>>

(* The client, for one reply.                                              *)
Judge ==
  /\ at = "to client"
  /\ at' = IF IsReplyTo(frame, asked) THEN "accepted" ELSE "refused"
  /\ UNCHANGED <<asked, frame, changed>>

Next == Damage \/ Rebuild \/ Serve \/ Judge

Spec == Init /\ [][Next]_vars

-----------------------------------------------------------------------------
(* Everything that is built is made of bytes: no header field overflows.   *)
TypeOK ==
  /\ asked \in Requests
  /\ changed \in [Legs -> {"no", "damaged", "rebuilt"}]
  /\ at \in {"to server", "to client", "refused", "ignored", "accepted"}
  /\ frame \in Seq(Byte)

(* The same bytes, but for a checksum of zero, which may be 0 or 65535.    *)
SameMessage(m, n) ==
  /\ Len(m) = Len(n)
  /\ \A i \in DOMAIN m : i \notin {3, 4} => m[i] = n[i]
  /\ Word(m, 3) % 65535 = Word(n, 3) % 65535

(* Whatever is accepted, its message and its addresses are those of the    *)
(* reply that the server builds for this request.  A client reads nothing  *)
(* else of the header but its sum, so a packet built by somebody else may  *)
(* have another TTL, another ID or options; one that was only damaged is   *)
(* accepted only if it is the reply, byte for byte, up to what follows the *)
(* total length.                                                           *)
AcceptsOnlyItsReply ==
  at = "accepted" =>
    /\ Source(frame) = asked.virtual /\ Destination(frame) = asked.client
    /\ SameMessage(IPPayload(frame), IPPayload(ReplyOf(asked)))
    /\ changed["to client"] # "rebuilt" =>
         Len(frame) >= TotalLen(frame) /\ From(frame, 1, TotalLen(frame)) = ReplyOf(asked)

(* A request that reaches the server as it was built is answered and the   *)
(* answer is accepted, for every identifier, sequence and payload.         *)
UnchangedIsAccepted ==
  (\A leg \in Legs : changed[leg] = "no") =>
    at # "ignored" /\ (at = "refused" => ~Fits(RequestOf(asked)))

(* The policy's parser and the packet parser agree on every packet of the  *)
(* one protocol the latter knows: what the policy judges is what the other *)
(* end parses.                                                             *)
ParsersAgree ==
  IsIPv4ICMP(frame) <=> HasEndpoints(frame) /\ frame[10] = ICMP

(* RFC 1071: the one's complement of the one's complement sum of the words *)
(* of the message, which is padded with a zero byte if its length is odd.  *)
PaddedWord(f, k) == 256 * f[2 * k - 1] + IF 2 * k <= Len(f) THEN f[2 * k] ELSE 0
OnesPlus(a, b)   == IF a + b > 65535 THEN a + b - 65535 ELSE a + b
WordCount(f)     == (Len(f) + 1) \div 2
OnesSums(f) ==
  LET sum[k \in 0..WordCount(f)] ==
        IF k = 0 THEN 0 ELSE OnesPlus(sum[k - 1], PaddedWord(f, k))
  IN  sum

(* Checksum is that sum for every packet on its way.                       *)
ChecksumIsOnesComplement ==
  Checksum(frame) = 65535 - OnesSums(frame)[WordCount(frame)]
=============================================================================
