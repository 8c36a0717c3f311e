# mvp-vpn-lite in TLA+

mvp-vpn-lite carries IPv4 packets between two TUN devices over one or two QUIC
connections ("paths"). A client reads packets from its device, frames them and
writes each to one path; a server does the same in the other direction. Paths
fail, and the client redials them. Without TUN there is a demo mode: the client
sends ICMP echo requests and a server answers them. This directory models that
system in TLA+, checks it with TLC on small instances, and proves with TLAPS
what matters most for instances of every size.

All code references are to `src/`; `client.go`, `server.go`, `framing.go`,
`packet_policy.go` and `device_errors.go` are in `internal/quictransport/`.

## The system

| Component | State | Operations | Modelled |
|---|---|---|---|
| Client TUN pump (`client.go:183-205, 448-639`) | context, TUN device, `errCh`, the goroutines | initial dials, `pumpTUN`, `sendTUNPackets`, `receivePathPackets`, `reconnectClientPath` | `ClientTUN` |
| Client path set (`client.go:303-439`) | `paths`, `next`, `health` under one mutex | `add`, `nextPath`, `remove`, `hasPathID`, `markSuccess`, `markFailure`, `snapshot` | `PathSet` |
| Reconnect timing (`client.go:592-699`) | `reconnectBackoff`, the timers | `next`, `reset`, `sleepContext`, `normalizeTUNReconnectIntervals` | `Reconnect` |
| Counters (`internal/stats/stats.go`) | six atomic counters | `AddRX/TX/Drop/Error`, `Snapshot`, `LogEvery` | `Counters` |
| TUN server (`server.go:116-145, 180-273, 307-431`) | session: `paths`, `nextPath`, device; `errCh`, context | accept, `addPath`, `removePath`, `writeNextPath`, `writeDevice`, `forwardDevicePackets` | `ServerTUN` |
| Cooldowns (`client.go:316-322, 395-439`) | per path id: failures in a row, end of the cooldown | `markSuccess`, `markFailure`, `isCoolingDown`, `clientPathCooldown` | `PathHealth` |
| Framing (`framing.go`) | none; the streams hold pieces of frames | `WriteFrame` (two writes), `ReadFrame` | `Tunnel`; one step in `ClientTUN` and `ServerTUN` |
| Demo client (`client.go:72-155, 236-250, 701-714`) | paths, scheduler, sequence, deadline | dial, request, reply, close | `EchoDemo` |
| Demo server (`server.go:48-104, 147-178, 212-226, 275-305`) | context, `errCh` | listen, accept, answer | `EchoDemo` |
| Round robin (`internal/multipath`) | `next` | `Next` | `EchoDemo` |
| TLS settings (`tls.go`) | none | load, refuse, require | `EchoDemo`, by outcome |
| Packet policy, IPv4, ICMP, checksum, `validateEchoReply` | none | pure functions on bytes | `Packets`; the policy's verdict is a free choice in the TUN models |
| TUN device, environment, flags, build info, scripts | none of interest | I/O, parsing, formatting | no |

How they interact. `pumpTUN` starts one sender, one receiver for each connected
path, one reconnect goroutine for each configured path, and one goroutine that
closes the device when the context is cancelled. They share the path set (each
method is atomic, a sequence of calls is not), the streams, the device (writes
are under a second mutex), the buffered channel `errCh`, and the context. The
first error in `errCh`, or the user, ends the client. The server keeps a
session that the handlers of all connections and one forwarder share in the
same way. Counters are shared by everything.

What is hard. Everything a goroutine reads from the path set may be stale when
it acts on it: between `nextPath`, a failed write, `markFailure` and `remove`
the path may have been removed by its receiver and redialled under the same id
(`client.go:526-541`). Looking for a path and adding it are two calls with a
dial between them (`611-633`). The sender and the receiver of a failed stream
both try to take it out (`536`, `552`). A cancellation meets every goroutine in
every state, and the close of the paths works on a snapshot (`455`). `errCh` is
sized once although each redial adds a receiver (`451`). Redials run on timers
with an exponential backoff (`655-664`). Snapshots of the counters are taken
field by field (`stats.go:55-64`). On the server the handler and the forwarder
both take out a failed path (`server.go:242`, `424`) while others join under
the same listener id, the slice shrinks under the rotation (`349-354`), and an
error of any goroutine brings everything down through two calls in `main`.

What makes each component correct. Path set: no id and no stream twice, `next`
inside the slice, a healthy path before one in cooldown. Client: a healthy path
is never taken out, a dead one is always taken out and its stream closed, each
packet is framed at most once and in order and is dropped only without a live
path, a lost path comes back, a shutdown ends every goroutine. Reconnect: delays
in the configured range, doubled from failure to failure and reset by success.
Counters: no count lost or made up. Server: the same promise of the forwarder
(without the second try), live streams in the rotation and dead ones out of it,
turns in order, every goroutine released at the end. Framing: a reader takes
only whole frames of one packet, wherever the writer stopped. Tunnel: each
direction delivers a packet at most once and never after counting it as
dropped, and no writer waits for ever. Cooldown: a path whose writes fail rests,
and never for too long. Demo: each accepted reply answers its own request,
the client always returns and closes what it has opened, the server ends with
all its goroutines, an end whose certificate files do not load starts nothing and
those that load are enforced. Packets: whatever bytes arrive, a client accepts no
other message and no other addresses than those of its reply, and refuses no
reply of the server; both parsers agree.

## Modules

**PathSet** has the methods of `clientPathSet` as operators on `paths` (a
sequence of `[id, stream]` records, the slice), `next` and `cooling` (the ids
whose cooldown is running). There is no recursion: a linear scan is the minimum
of the set of positions it would stop at.

**ClientTUN** is the client. Each goroutine has a program counter; an action is
what it does between two accesses to shared things.

| Goroutine | Actions |
|---|---|
| main | `InitialDialSucceeds/Fails`, `StartGoroutines`, `SelectDone`, `SelectError`, `ClosePaths` |
| closer | `CloseDevice` |
| sender | `ReadPacket`, `ReadDenied`, `ReadNothing`, `ReadRetryable`, `ReadFails`, `ReadClosed`, `ReadGivenUp`, `SenderWakes`, `SenderInterrupted`, `SenderReports`, `PickPath`, `PickNone`, `WriteSucceeds`, `WriteFails`, `MarkSuccess`, `MarkFailure`, `SenderRemoves`, `SenderCloses` |
| receiver of stream s | `ReceiveFrame`, `ReceiveFails`, `LockDevice`, `WriteDevice`, `WriteDeviceClosed`, `WriteDeviceFails`, `ReceiverReports`, `ReceiverRemoves`, `ReceiverCloses` |
| reconnect of path i | `CheckPresent`, `CheckMissing`, `ReconnectStops`, `ReconnectWakes`, `RedialFails`, `RedialSucceeds`, `AddFresh`, `SpawnReceiver` |
| environment | `Interrupt`, `StreamEnds`, `StreamBreaks`, `CooldownEnds` |

A stream is its number in the order of dials and is "open", "eof" (the peer
ended its side; writes still succeed), "broken" or "closed" (by this client). A
connection breaks at any moment. Cooldowns (1 to 16 s, `client.go:431-439`) end
at any moment. Packets are numbers in the order they are read. The policy may
deny any packet. A frame is written and read in one step: between the two
writes of a frame (`framing.go:24-28`) the writer touches nothing shared.
Log lines and the counters are left out, except drops, which are a set.
The code tells two ends of a read from the device apart only by what it knows
(`494-498`), the model by what happened: `ReadClosed` needs the device closed,
`ReadGivenUp` is an error of an open device that comes after the cancellation.

**Forwarder** is the abstract promise of a sender: accept the next packet,
refuse it, deliver it at the end of what has been delivered, or give it up; a
packet in hand is settled in the end. `ClientTUN` implements it under
`hand <- held, delivered <- sent, lost <- dropped`.

**ServerTUN** is the server, from the moment its goroutines are started.

| Goroutine | Actions |
|---|---|
| main | `SelectDone`, `SelectError`, `MainCloses` (the deferred close of the device), `MainCancels` (the deferred cancel of `RunServer`) |
| closer | `CloseDevice` |
| listener of path i | `Listens`, `ListenFails`, `Accepts`, `AcceptFails`, `ListenerStops`, `ListenerReports` |
| handler of connection c | `StreamArrives`, `NoStream`, `Joins`, `ReceiveFrame`, `StreamFails`, `LockDevice`, `WriteDevice`, `WriteDeviceFails`, `Leaves`, `Closes` |
| forwarder | `ReadPacket`, `ReadDenied`, `ReadNothing`, `ReadRetryable`, `ReadFails`, `ReadClosed`, `ReadGivenUp`, `ForwarderWakes`, `ForwarderInterrupted`, `ForwarderReports`, `PickPath`, `PickNone`, `WriteSucceeds`, `WriteFails`, `DropsPath` |
| environment | `Interrupt`, `StreamEnds`, `StreamBreaks` |

`removePath` corrects `nextPath` only when it falls off the end of the slice
(`server.go:349-354`), so a path may be passed over once for each departure;
`RoundRobin` says that this is all. The module uses `RemovePath` and
`NextAfterRemove` of `PathSet`, because `removePath` of the server has the same
lines as `remove` of the client; it adds with `Append`, and picks with a plain
rotation. A connection is its number in the order of
accepts and has one stream. `seen` is a history variable for `RoundRobin`. It
implements the safety part of `Forwarder`.

**Reconnect** is one reconnect goroutine with time in ticks: the backoff and
both sleeps, for every pair of flags. `ClientTUN` has the same loop without
time; `PathFails` stands for the goroutines that remove the path.

**Counters** has goroutines that count with atomic additions while others load
a snapshot, one field per step. A counter has `Modulus` values
(2^64 in the code) and wraps.

**PathHealth** extends `Reconnect` with the cooldown of the same path: failures
in a row, their cooldown of 1, 2, 4, 8 or 16 ticks, and a sender that writes,
fails, marks (`MarkFailure`) and removes (`SenderRemoves`) in separate steps, with
redials and failures noticed by the receiver (`PathFails`) before, between and
after them. The other path is a Boolean: active and not cooling, or not.
A failure that the receiver notices gives no cooldown (`client.go:559-567`): the
model has that, and `RestsAfterFailure` speaks of failed writes only.

**Link** is the abstract promise of one direction of a tunnel: what arrives was
offered, at most once, and is never also counted as dropped. Packets may get
lost, and may overtake each other on different paths.

**Tunnel** joins the two ends. A frame is a header and `Parts` pieces; a stream
holds `Window` pieces (flow control), and breaks for each end at a moment of its
own, between any two pieces. `WritePiece` and `ReadPiece` are the two `Write`s of
`WriteFrame` and the `ReadFull`s of `ReadFrame`; `WriteFails` starts the packet again
on another path (client) or drops it (server); `AcceptStream` needs the client's
first bytes, as QUIC announces a stream with them. It leaves out what the path
sets decide (any stream of the set may be picked), as `ClientTUN` and
`ServerTUN` have that. It implements `Link` twice, once for each direction.

**EchoDemo** is the demo client and the demo server with their configurations,
connections that fail at either end, the stream deadline, the round robin and
sequence numbers modulo `SeqMod`. A request is its sequence number with, as a
history, its true number.

| Part | Actions |
|---|---|
| client | `ClientStarts`, `DialSucceeds`, `DialFails`, `AllDialled`, `SendRequest`, `ReceiveReply`, `ReadFails`, `TimesOut`, `AllSent`, `ClientCloses` |
| server main | `ServerStarts`, `SelectError`, `SelectDone` |
| listener p | `Listens`, `ListenFails`, `Accepts`, `AcceptFails`, `ListenerStops`, `Reports` |
| handler p | `StreamArrives`, `NoStream`, `ReadRequest`, `WriteReply`, `HandlerFails` |
| environment | `Interrupt`, `LoseConnection` |

**Packets** has the bytes: the checksum, both IPv4 parsers, the builders and
`validateEchoReply` as operators, and one exchange in which the packet of each leg
may be replaced once. `Damage` leaves its checksums as they were (`Near`: one byte
differs, the end is missing or there is more, or the header is a word longer).
`Rebuild` is another program that sends such a packet with right checksums
(`Rebuilt`): with another TTL or ID, a longer header, a longer message or the other
zero for its checksum. `validateEchoReply` (`client.go:716-759`) reads of the header
only what the parser does, the addresses and the sum, so a reply with another TTL
is accepted, and `AcceptsOnlyItsReply` says what is not: another message or other
addresses, and for a packet that was not rebuilt any other byte.
The loops of `Checksum` are recursive functions: `WordSums(f)[k]` is the sum of the
first `k` bytes, `Fold` adds the carries until there are none. `OnesSums` is the
reference they are compared with: word by word, the carry added at each step.
A request is answered whatever its ICMP checksum: `BuildICMPEchoReply` does not look
at it (`icmp.go:85-109`), and neither does the model.

## Runs

| Run | Instance | Question |
|---|---|---|
| `client_failover` | 2 paths, 3 streams, 2 packets; streams end and break | `TypeOK`, `UniquePaths`, `ActivePathsWatched`, `NoStreamLeaked`, `OnlyBrokenPathsRemoved`, `NoDropWithLivePath` |
| `client_forward` | 1 path, 3 streams, 2 packets, streams end and break, fairness, peers that read | `ForwardsAtMostOnce` (refinement), `MissingPathReturns` |
| `client_shutdown` | 1 path, 2 streams, 1 packet, every event, fairness | `ErrorReportsFit`, `ShutdownCompletes` |
| `server_session` | 2 listeners, 3 connections, 3 packets; streams end and break | `TypeOK`, `PathsServed`, `HealthyPathsServe`, `RoundRobin`, `ForwardsAtMostOnce` (refinement) |
| `server_stop` | 2 listeners, 1 connection, 1 packet, every event, fairness | `NoReportBlocks`, `ServerStops`, `StalePathLeaves` |
| `tunnel_frames` | 2 paths, 2 streams, 2 packets up and 1 down, 3 pieces a frame, fairness | `TypeOK`, `FramesIntact`, `CarriesPackets` (refinement), `NobodyStalls` |
| `echo_demo` | 3 requests over 2 paths, 2 sequence numbers; 76 configurations, fairness | `TypeOK`, `AnswersInOrder`, `NoConnectionLeft`, `AuthenticatedAsConfigured`, `ClientReturns`, `DemoServerStops` |
| `packets_exchange` | 60 requests, every byte changed in 4 ways, damaged or rebuilt, on each leg | `TypeOK`, `AcceptsOnlyItsReply`, `UnchangedIsAccepted`, `ParsersAgree`, `ChecksumIsOnesComplement` |
| `reconnect_timing` | flags from -1 to 9 ticks, with the writes of a sender | `TypeOK`, `BackoffSchedule`, `RedialInTime`, `RestsAfterFailure`, `AvoidedAtMost` |
| `reconnect_minimum` | the same flags | `MinimumRetryDelay`: violated |
| `counters_fields` | 2 writers, 2 operations each, counters modulo 16 | `SnapshotFieldsReal` |
| `counters_snapshot` | the same | `SnapshotIsPointInTime`: violated |

Bounds, and why they are enough.

- `NPaths`: the code has one or two paths (`clientPathSpecs`), so 2 is all of it.
- `MaxStreams`: 3 streams with 2 paths is the smallest instance in which a
  stream is replaced while a goroutine still holds the old one and the other
  path lives. With one path, 3 streams (`client_forward`) are two redials: the
  path may be lost in every step of the reconnect goroutine, twice, and a packet
  may fail on one stream and go out on the next. `MissingPathReturns` excuses
  only a path whose stream, the last one, another path has taken, so nothing is
  excused while this path has a stream to spare. Failover from one path to another
  is in `client_failover` and, for any number of paths, in the theorem
  `SenderKeepsPromise`. In the shutdown run the second
  stream is the redial, which makes a late stream, a stale target and a full
  `errCh` possible. When the streams are used up, a redial only fails, which the
  network can do at any moment. In `Tunnel` 2 streams are a first try and a
  second one.
- `MaxPackets`: 3 packets are three picks of a rotation; 2 packets tell a
  duplicate, a loss and a change of order apart; 1 brings the sender and the
  forwarder into every step of a failover for a shutdown to meet them there.
  `Tunnel` needs one packet against the direction of the others for both ends to
  write at the same time.
- `MaxConns`: 3 connections are a full rotation with one that leaves and one that
  comes late; with 2 listeners two of them always share an id. One connection
  in `server_stop`, whose question is the other goroutines: it is a client that
  stays, leaves or stalls. That a handler gets the device mutex in the end when
  others want it too is the strong fairness of `LockDevice`; with one handler
  nobody else holds it. The client's receivers of an old and a new stream compete
  for theirs in `client_shutdown`.
- `MaxRetries`: 100 in the code; 1 has both sides of the comparison.
- `Events`: each run allows what its question is about. Breaking connections,
  failing dials and passing time are always possible. A failover run without
  shutdowns and a shutdown run with everything cover what one run of all events
  could not within reasonable time.
- One path in the shutdown run of the client: each configured path has its own
  slot in `errCh`, so a second one adds a report and its room alike. The server's
  capacity is a constant, 3, so `server_stop` has both listeners.
- `Parts`, `Window`: a header and two pieces, so a frame can stop before, inside
  and after its payload; room for one piece, so that every write has to wait.
- `Configs`, `SeqMod`: each setting that is checked is wrong once, and all
  combinations of certificates and CAs meet; with 2 sequence numbers the third
  request repeats the number of the first.
- Packets: numbers at both ends of their range, payloads of odd and even length
  and too long, a sum that needs two foldings, and a change in each byte, at the
  end, in the length of the header and of the message, with the checksums as they
  were or taken anew. `Offsets` change the lowest, a middle and the highest bit of
  a byte. One change on each leg; `AcceptedMessage` is proved of every packet that
  may arrive.
- `Durations`, `MaxFailures`, `Width`: 1 to 9 ticks with a backoff of up to five
  failures passes every clamp; the assumption `NoOverflowAssumption` says that
  the double of an interval fits its type (146 years in the code). Cooldowns have
  their real lengths, and a row of six failures passes the limit of five.
- `Modulus`: counters of 16 values wrap within the run's operations (64 bits would
  not), 2 writers interleave on the same field.

`CHECK_DEADLOCK FALSE` is given where the program or the exchange comes to its
end: `client_shutdown`, `server_stop`, `echo_demo`, `packets_exchange`,
and `tunnel_frames`, where streams and packets are used up.

**What the violated runs show.** `SnapshotIsPointInTime` states the comment
on the type (`stats.go:21`, "a stable point-in-time copy"): a reader that loads
field by field can combine a packet count with the byte count of another
moment. `MinimumRetryDelay` states the help text of the flag
(`cmd/client/main.go:38`): the success branch of the reconnect loop has no
sleep (`client.go:632-638`), so a path that is removed again before the loop
looks at the set is redialled at once.

**The exceptions in `ShutdownCompletes`** are reachable, and TLC shows each of
them when it is taken out of the property. Once a path has been redialled there
is one receiver more than `errCh` has room for, and it or the sender may block for
ever on a full `errCh` that nobody reads after `pumpTUN` has returned (`451`, `512`,
`583`). A dial that returns after `pumpTUN` closed its snapshot of the
path set adds a stream that nothing closes (`633` after `455`); its receiver
reads until the peer goes away or the process ends. The sender may have picked
that stream before it looks at the device again, and waits in its write if the
peer is alive and does not read (`StuckOnLateStream`). A write on any other stream
is ended by `ClosePaths`. In the program all three end with the process, as
`RunTUNClient` returns to `main`.

**The exceptions in `ServerStops`**: a handler whose client stays connected goes
on waiting for a frame, since the server closes its listeners and its device but
no accepted connection, and a forwarder that is writing to such a client goes on
waiting for it to read. Both are released by the client's idle timeout or close,
or when the process ends.

## Fairness

`FairSpec` is weak fairness of the steps of each goroutine that do not wait for
the outside: the Go scheduler is preemptive and runs what can run, timers fire,
a dial returns with success or failure (it has a handshake timeout and the
context), a listener notices the cancelled context. The server is given no
fairness for connections, streams or frames that may arrive. Nothing is assumed
of a read from an open stream or from an open device, of an interrupt, of errors,
of connections breaking. A blocked read of the device ends in one way that can be
relied on, its close (`ReadClosed`), and only `CloseDevice` (on the server also
`MainCloses`) closes it: a cancellation alone releases nobody there. That the
close ends the read is an assumption about the device, and the one that `pumpTUN`
and `runTUNServer` are written on; the device is an `os.File` over `unix.Open`
(`tun_linux.go:24-33`), and whether a read that has begun is woken is up to the
Go runtime and the kernel, outside these models. Two steps have strong fairness.
`LockDevice`: Go's mutex hands over to a waiter that has starved.
`RedialSucceeds(i)`: a server that can be reached often enough is reached; it is
the condition of `MissingPathReturns`, not a fact of the code.

A write on an open stream waits for a peer that may never read, and has no
deadline: no fairness is given to it, so that shutdowns meet blocked writes. Only
`ForwardSpec`, for `ForwardsAtMostOnce`, adds that a stream that stays open accepts
a write in the end. `Tunnel` does not assume that but shows it (`NobodyStalls`),
for two ends that run this program: there a write waits for room, and is fair only
once there is room.

In `Tunnel` and `EchoDemo` fairness is weak, and for goroutines, timers and for
`Notices`: an end whose peer has closed the connection or is gone learns of it,
by the peer's message or by the idle timeout (`client.go:290-295`; quic-go has a
default on the server). The deadline of the demo client's stream
(`client.go:126-129`) is why its wait always ends. No connection has to break,
no device has to deliver, nobody has to interrupt.

## Proofs

`PathSet_proofs` begins with what is common to the proofs about numbers: a
non-empty set of naturals has a least element (`LeastNumber`, from their
well-founded order), so an induction over the members of a set is an argument
about its least exception (`SetInduction`), and a function that is defined by
recursion exists and obeys its equation (`RecursionExists`, `Recursion`). The
rest proves what the operators return and preserve for path sets of any size:
cutting one element out of a sequence (`RemoveAtProperties`), `RemovePathProperties`
(a set without duplicate streams, `StreamsDistinct`, has the removed one no more),
`NextAfterRemoveInRange`, `AddPathProperties`, and the theorem
`NextIndexPrefersWarm`: `nextPath` never indexes outside the slice, and picks a
path in cooldown only when all of them are.

`ClientTUN_proofs` proves, for every `NPaths`, `MaxStreams`, `MaxPackets`,
`MaxRetries` and `Events` that satisfy the named assumptions of `ClientTUN`:

- `TypeCorrect`: `Spec => []TypeOK`.
- `PathsUnique`: `Spec => []UniquePaths`.
- `OnlyBrokenRemoved`: `Spec => OnlyBrokenPathsRemoved`.

None of the three is inductive alone. `IndInv` is `TypeOK` with two more parts.
`RedialInv` is the argument for `PathsUnique`: only the reconnect goroutine of
an id adds that id; while it is between its look and its add the id stays
missing, because others only remove; the stream it adds is the newest number
and no other goroutine's. `FaultInv` is the argument for `OnlyBrokenRemoved`:
who is on its way to remove a stream has seen it fail (or a shutdown has begun),
and a failed stream never becomes healthy (lemma `FailuresStay`), however late
the removal. `FaultInv` also has what type correctness of the sender needs: it
holds a packet and a real target whenever it is about to use one. `Inductive`
proves `Spec => []IndInv` from one lemma per part and component; each theorem
then follows.

The same module builds on that with a second invariant, `StreamInv`, for the same
constants (`StreamsInductive`):

- `PathsWatched`: `Spec => []ActivePathsWatched`. `WatchInv` adds that no receiver
  runs before main starts them and that a stream on its way in has none yet.
- `StreamsNotLeaked`: `Spec => []NoStreamLeaked`, an invariant that needs only the
  others beside it: the sender and the receiver of a stream may both try to take
  it out, `remove` tells one of them that it did, and that one closes it.
- `ReportsFitErrCh`: `Spec => []ErrorReportsFit`. `ReportInv` counts: there are
  never more errors in `errCh` than goroutines past their loops, and those are
  none of the goroutines that still report. Before a redial there is at most one
  receiver per configured path, so all reports fit.
- `SenderKeepsPromise`: `Spec => Promise!SafeSpec`, the safety of `Forwarder`.
  `HandInv` says in which program counters the sender holds a packet.
- `FailoverFindsLivePaths`: `Spec => NoDropWithLivePath`. `LiveInv` says that a live
  stream with a running receiver is in the path set: only its own receiver takes
  out a stream that has not failed.

`ServerTUN_proofs` is for every `MaxConns`, `MaxPackets` and `MaxRetries`, and for
the one or two listeners the code has:

- `TypeCorrect`: `Spec => []TypeOK`.
- `StreamsAreServed`: `Spec => []PathsServed`.
- `LiveStreamsStay`: `Spec => []HealthyPathsServe`.
- `ReportsNeverBlock`: `Spec => []NoReportBlocks`.
- `ForwarderKeepsPromise`: `Spec => ForwardsAtMostOnce`, all of the refinement of
  `Forwarder` that the server's runs check.
- `ForwarderGoesRound`: `Spec => RoundRobin`, from an invariant of its own,
  `TurnInv`: number the positions of the slice in the order in which the rotation
  will reach them; a stream that went while another waited has the larger number.

`IndInv` has one part per argument. `HandlerInv`: a connection has a handler from
its accept on, and only that handler closes its stream. `SetInv`: the handler adds
its stream once and takes it out before it closes it, so the set holds what is
being served. `ForwarderInv`: the forwarder holds a packet exactly while it looks
for a path, writes, or takes a path out, and it takes out only a stream it has
seen fail. `ReportInv`: each listener and the forwarder report once at most and
are done then, so `errCh`, with a place for each, is never full when one reports.

`PathHealth_proofs` is about `Reconnect` and `PathHealth`, for all flags, defaults
and widths that satisfy the assumptions of `Reconnect` (the only one that is not
a matter of course is `NoOverflowAssumption`: twice the maximum delay is still a
duration, so the doubling does not wrap before it is clamped):

- `DelaysInRange`: `Spec => []TypeOK`, and `RedialsInTime`:
  `Spec => []RedialInTime`. `DelayInv` is `TypeOK` with `WaitInv`: while the
  goroutine sleeps, the rest of its timer and the time the path has been missing
  add up to at most the delay it chose, which is the minimum or the backoff.
- `DelaysDouble`: `Spec => []BackoffSchedule`. `ScheduleInit` and `ScheduleNext` carry
  it from failure to failure; `DoubledValues` is what they need of the recursive
  function `Doubled`: each power of two is twice the one before, and positive.
- `HealthImplementsReconnect`: `HealthSpec => Spec`. The sender beside the
  goroutine does to the path set what any other goroutine may do, so both
  theorems above hold next to the writes as well.
- `NobodyIsAvoidedForLong`: `HealthSpec => []AvoidedAtMost`, and
  `FailedPathsRest`: `HealthSpec => RestsAfterFailure`. `HealthInv` squeezes the
  cooldown: what is left of it and the time since the last failed write add up to
  at least what the row of failures earns and to at most the longest entry.

`EchoDemo_proofs` is for every set of configurations, every count of requests and
every `SeqMod`:

- `TypeCorrect`: `Spec => []TypeOK`.
- `RepliesInOrder`: `Spec => []AnswersInOrder`.
- `EverythingClosed`: `Spec => []NoConnectionLeft`.
- `CertificatesEnforced`: `Spec => []AuthenticatedAsConfigured`.

`IndInv` has one part for each argument. `FlightInv` is the one for the order of
replies: at most one packet is under way, the latest request or its reply, on the
path the client waits for, so a sequence number that repeats after `SeqMod`
requests cannot be taken for an older one; `AnswerInv` then counts the answers
against the requests. `EndInv` says that only paths that were dialled have an end
to close. `CheckInv` ties what was dialled, what listens and what is handled back
to the two gates of each end, the check of its own configuration (`ClientAccepts`,
`ServerAccepts`) and the handshake: `CertificatesEnforced` needs both, since a
handshake would not notice a file that was silently passed over. `Inductive`
proves `Spec => []IndInv`.

`Counters_proofs` proves `FieldsAreReal`, `Spec => []SnapshotFieldsReal`, for any
number of writers and readers, all sizes and every `Modulus`. `SnapInv` says that
a snapshot under way has each field it has loaded from its own history, which
ends in the present values; `OwedInv` that the second half of `addPacket` goes to
a field.

`Tunnel_proofs` is for every number of paths, streams and packets, every `Parts`
and every `Window`: `TunnelTypeOK` (`Spec => []TypeOK`) and `FramesStayIntact`
(`Spec => []FramesIntact`), and `TunnelCarriesPackets` (`Spec => CarriesPackets`, the
refinement of `Link` in both directions). `FrameInv` describes a stream from its writer to its
reader: the reader has the beginning of one frame, the stream goes on where that
ends, each piece follows the one before it (`Continues`), and while the stream is
open its writer is ready for the piece that comes next (`Ready`), which is a header
unless it is in the middle of a frame there. A writer that leaves a frame unfinished
never returns to that stream, as its end is no longer open. The lemmas
`WriteContinues`, `ReadContinues` and `StoreContinues` are about sequences of pieces
alone. `FreshInv` says that a stream is empty until it is dialled. `CarryInv` is for
the refinement: a packet is in one place. A writer gives up a stream before it tries
the packet on another one, so of all the streams it was tried on only the last can
ever hold its last piece; a whole frame therefore arrives once, and not after its
writer has counted it as dropped. `TunnelInductive` proves `Spec => []IndInv`, and
each step of the tunnel is a step of `Link`, or of no interest to it, by one lemma
for each kind of action (streams, writer, reader).

`Packets_proofs` is about packets of every length and content, and every set of
requests and offsets. First the operators:

- `ChecksumOnesComplement`: `Checksum` is the one's complement sum of RFC 1071 for
  every sequence of bytes. Call `r` a representative of a sum `s` if it has 16 bits,
  is `s` modulo 65535, and is zero only if `s` is (`Represents`). There is exactly
  one (`RepresentsUnique`, `RepresentativeExists`), folding finds it
  (`FoldRepresents`, since a fold makes the sum smaller and leaves it the same modulo
  65535), and so does adding in one's complement (`SumsAgree`).
- `SumFitsIn32Bits`: the sum of a frame of at most 65535 bytes is below 2^32. The
  model adds numbers without bound, the code adds `uint32`: they are the same.
- `AcceptedMessage`: for every sequence of bytes, whoever made it, that passes
  `IsReplyTo`, its addresses and its message are those of the reply. The fields give
  all of the message but its checksum, and a right checksum is determined by the
  rest up to the choice of the two zeros (`SumIsDetermined`).
- `ChecksumsDetect`: a packet that came from a built one by a step of `Near`, and whose
  checksums of header and payload are right, still holds what was built. What is
  built has checksum zero (`SummedProperties`), so another packet with checksum zero
  has a sum that differs by a multiple of 65535: one byte moves it by at most 65280,
  a longer header by 260 (`OneByteDetected`, `HeaderGrows`).

Then the exchange: `PacketsTypeOK`, `OnlyTheReplyIsAccepted`
(`Spec => []AcceptsOnlyItsReply`), `UnchangedExchangeSucceeds`
(`Spec => []UnchangedIsAccepted`), `ChecksumOfFrame`
(`Spec => []ChecksumIsOnesComplement`) and `TheParsersAgree`. The first takes what it
says of every accepted packet from `AcceptedMessage`, and what it says of one that
was only damaged from `ChecksumsDetect`.
`UnderWay` is what makes them inductive: a request under way fits into a packet, an
unchanged frame is the one its sender builds, and what reaches the client was built
as a reply to some request, since the server answers a changed one too, or is such
a reply damaged, or comes from elsewhere. The lemmas `MessageProperties` and `PacketProperties` give every
byte of what is built, `SaidIsParsed` and `BuiltIsParsed` that the parsers find in it
what was put in. No theorem says that the checks notice every damage, which no
checksum of 16 bits could: the part about damaged packets is about one place.

Only model-checked: what needs fairness, which is beyond the prover. These are
`MissingPathReturns`, `ShutdownCompletes`, `StalePathLeaves`, `ServerStops`,
`NobodyStalls`, `ClientReturns`, `DemoServerStops`, and the liveness half of
`ForwardsAtMostOnce` for `ClientTUN`. Every safety property of the passing runs is a
theorem.

## Plan

Done: every component above that has a model, and a proof of each of its safety
properties. Next: lemmas towards the liveness properties that need no fairness to
state, such as that a redial of a missing path is always under way.

## Not modelled

- The TUN device (`internal/tun`) is a file descriptor; its outcomes are choices
  in the models.
- `internal/envconfig`, `cmd/client` and `cmd/server` convert text to settings and
  call one of the functions modelled here; what they can pass on is the set of
  inputs of `Reconnect` and `EchoDemo`.
- The generation of a self-signed certificate (`server.go:442-487`) is a sequence
  of library calls; `EchoDemo` has what it results in.
- The refusal of a frame header with length zero or above 65535
  (`framing.go:38-44`): no writer of this program makes one. A stream that ends
  between a header and its payload is an error for `ReadFrame`, as in `Tunnel`;
  whether it is logged as graceful is left out.
- Text: log lines, the rendering of statistics, the parsing of a CIDR.
- The context of the demo client: once its paths are dialled `RunClient` does not
  look at it (`client.go:117-152`), although `docs/architecture.md:127` says that
  cancellation is driven by the context; a client that waits for a reply ends at
  its deadline. `EchoDemo` has the code's behaviour, so no action cancels the
  client there, apart from a dial that fails.
- QUIC is external: the models use only what the code uses of it, streams that
  are reliable and ordered until they break, and have limited room.
