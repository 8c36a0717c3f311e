------------------------------ MODULE EchoDemo ------------------------------
(***************************************************************************)
(* The demo mode: RunClient (internal/quictransport/client.go), which      *)
(* sends echo requests over its paths in turn, and RunServer with          *)
(* serveQUICPath and handleQUICStream (server.go), which answer them; with *)
(* the checks of their configurations (tls.go) and the scheduler           *)
(* (internal/multipath).                                                   *)
(*                                                                         *)
(* A connection has the number of its path and carries one stream.  Each   *)
(* end of it fails at a moment of its own.  What is in a packet is left to *)
(* Packets: a request is its sequence number, and n tells which one it     *)
(* really is.  The client's context ends its dials, which may fail anyway; *)
(* its loop does not look at it.                                           *)
(***************************************************************************)
EXTENDS Integers, Sequences, Functions

CONSTANTS
  Configs,  (* of a client and a server: <<[servers, count, virtual, client, *)
            (* ca, cert], [listens, virtual, client, cert, clientCA]>>       *)
  SeqMod    (* number of sequence numbers; 2^16 in the code                  *)

ASSUME SeqModAssumption == SeqMod \in Nat \ {0}

(* A CA file is "none", "bad" or "good"; a certificate with its key is     *)
(* "none", "half" (one of the two files), "bad", "other" (signed by        *)
(* another CA) or "good".  An address is "bad" if it is not IPv4.          *)
PathIds == {0, 1}
ASSUME ConfigsAssumption ==
  \A config \in Configs :
    LET c == config[1]
        s == config[2]
    IN  /\ {c.servers, s.listens} \subseteq {<< >>, <<0>>, <<1>>, <<0, 1>>}
        /\ c.count \in Int
        /\ {c.ca, s.clientCA} \subseteq {"none", "bad", "good"}
        /\ {c.cert, s.cert} \subseteq {"none", "half", "bad", "other", "good"}

ErrChCapacity == 2

VARIABLES
  cc, sc,      (* the configurations                                         *)
  clientPc,    (* "start", "dial", "send", "wait", "close", "done"           *)
  result,      (* what RunClient returns; "none" while it runs               *)
  dialled,     (* paths of the client                                        *)
  turn,        (* RoundRobin.next                                            *)
  path,        (* the path of the request that is waited for                 *)
  requests,    (* i: number of requests sent                                 *)
  answered,    (* history: the requests whose replies were accepted          *)
  clientEnd, serverEnd,
               (* per path: "none", "open", "broken", "closed" by this end   *)
  up, down,    (* per path: requests and replies under way                   *)
  serverPc,    (* "start", "select", "returned"                              *)
  cancelled,   (* the server's context                                       *)
  errCount,    (* errors in the server's errCh                               *)
  listener,    (* per path: "off", "listen", "accept", "report", "done"      *)
  handler      (* per path: "none", "queued", "accept", "read", "reply",     *)
               (* "done"                                                     *)

clientVars == <<clientPc, result, dialled, turn, path, requests, answered>>
netVars    == <<clientEnd, serverEnd, up, down>>
serverVars == <<serverPc, cancelled, errCount, listener, handler>>
vars == <<cc, sc, clientVars, netVars, serverVars>>

Init ==
  /\ \E config \in Configs : cc = config[1] /\ sc = config[2]
  /\ clientPc = "start" /\ result = "none" /\ dialled = << >> /\ turn = 0 /\ path = 0
  /\ requests = 0 /\ answered = << >>
  /\ clientEnd = [p \in PathIds |-> "none"] /\ serverEnd = [p \in PathIds |-> "none"]
  /\ up = [p \in PathIds |-> << >>] /\ down = [p \in PathIds |-> << >>]
  /\ serverPc = "start" /\ cancelled = FALSE /\ errCount = 0
  /\ listener = [p \in PathIds |-> "off"] /\ handler = [p \in PathIds |-> "none"]

-----------------------------------------------------------------------------
(* The configurations: RunClient and RunServer up to their first dial and  *)
(* listener, clientTLSConfig, serverTLSConfig and loadCertPool.            *)

(* Mutant: a certificate without its key, or the reverse, is passed over,  *)
(* and the end goes on as if it had been given neither.                    *)
KeyPairLoads_HalfIsNone(cert) == cert \in {"none", "half", "good", "other"}

KeyPairLoads(cert) == cert \in {"none", "good", "other"}

ClientAccepts(c) ==
  /\ c.servers # << >> /\ c.virtual # "bad" /\ c.client # "bad" /\ c.count > 0
  /\ c.ca # "bad" /\ KeyPairLoads(c.cert)

ServerAccepts(s) ==
  /\ s.listens # << >> /\ s.virtual # "bad" /\ s.client # "bad"
  /\ KeyPairLoads(s.cert) /\ s.clientCA # "bad"

(* The handshake.  Without a CA the client takes any certificate, without  *)
(* certificate files the server makes one that no CA has signed.           *)
ServerVerified(c, s) == c.ca = "none" \/ s.cert = "good"
ClientVerified(c, s) == s.clientCA = "none" \/ c.cert = "good"

-----------------------------------------------------------------------------
(* RunClient.                                                              *)

ClientGoes(from, to) == clientPc = from /\ clientPc' = to
ClientOnly == UNCHANGED <<cc, sc, netVars, serverVars>>

Returns(why) == result' = why /\ UNCHANGED <<dialled, turn, path, requests, answered>>

ClientStarts ==
  /\ ClientGoes("start", IF ClientAccepts(cc) THEN "dial" ELSE "done")
  /\ Returns(IF ClientAccepts(cc) THEN "none" ELSE "config")
  /\ ClientOnly

NextServer == cc.servers[Len(dialled) + 1]

(* With TLS 1.3 a client is connected before the server has looked at its  *)
(* certificate; the server breaks the connection if it does not like it.   *)
DialSucceeds ==
  /\ clientPc = "dial" /\ Len(dialled) < Len(cc.servers)
  /\ listener[NextServer] = "accept" /\ ServerVerified(cc, sc)
  /\ dialled' = Append(dialled, NextServer)
  /\ clientEnd' = [clientEnd EXCEPT ![NextServer] = "open"]
  /\ LET ok == ClientVerified(cc, sc)
     IN  /\ serverEnd' = [serverEnd EXCEPT ![NextServer] = IF ok THEN "open" ELSE "closed"]
         /\ handler' = [handler EXCEPT ![NextServer] = IF ok THEN "queued" ELSE "none"]
  /\ UNCHANGED <<cc, sc, clientPc, result, turn, path, requests, answered, up, down,
                 serverPc, cancelled, errCount, listener>>

(* Mutant: the paths dialled before are not closed.                        *)
DialFails_Leaks ==
  /\ Len(dialled) < Len(cc.servers)
  /\ ClientGoes("dial", "done") /\ Returns("dial")
  /\ ClientOnly

(* dialClientPaths closes what it has and gives up.                        *)
DialFails ==
  /\ Len(dialled) < Len(cc.servers)
  /\ ClientGoes("dial", "close") /\ Returns("dial")
  /\ ClientOnly

AllDialled ==
  /\ Len(dialled) = Len(cc.servers)
  /\ ClientGoes("dial", "send") /\ Returns("none")
  /\ ClientOnly

(* Mutant: the scheduler does not wrap.                                    *)
NextTurn_NoWrap == turn + 1

(* RoundRobin.Next.                                                        *)
NextTurn == (turn + 1) % Len(dialled)

Request(n) == [seq |-> n % SeqMod, n |-> n]

SendRequest ==
  /\ clientPc = "send" /\ requests < cc.count
  /\ path' = dialled[turn + 1] /\ turn' = NextTurn /\ requests' = requests + 1
  /\ IF clientEnd[path'] = "open"
     THEN /\ clientPc' = "wait" /\ up' = [up EXCEPT ![path'] = Append(@, Request(requests'))]
          /\ UNCHANGED result
     ELSE clientPc' = "close" /\ result' = "write" /\ UNCHANGED up
  /\ UNCHANGED <<cc, sc, dialled, answered, clientEnd, serverEnd, down, serverVars>>

AllSent ==
  /\ requests = cc.count
  /\ ClientGoes("send", "close") /\ Returns("ok")
  /\ ClientOnly

(* validateEchoReply.                                                      *)
Valid(reply) ==
  /\ reply.virtual = cc.virtual /\ reply.client = cc.client
  /\ reply.seq = requests % SeqMod

ReceiveReply ==
  /\ clientPc = "wait" /\ clientEnd[path] = "open" /\ down[path] # << >>
  /\ down' = [down EXCEPT ![path] = Tail(@)]
  /\ IF Valid(Head(down[path]))
     THEN /\ clientPc' = "send" /\ answered' = Append(answered, Head(down[path]).n)
          /\ UNCHANGED result
     ELSE clientPc' = "close" /\ result' = "reply" /\ UNCHANGED answered
  /\ UNCHANGED <<cc, sc, dialled, turn, path, requests, clientEnd, serverEnd, up,
                 serverVars>>

ReadFails ==
  /\ clientEnd[path] # "open"
  /\ ClientGoes("wait", "close") /\ Returns("read")
  /\ ClientOnly

(* Mutant: the client goes on with the next request.                       *)
TimesOut_GoesOn ==
  /\ ClientGoes("wait", "send") /\ Returns("none")
  /\ ClientOnly

(* Mutant: no deadline is set, so a lost answer is waited for.             *)
TimesOut_Never == clientPc = "none" /\ UNCHANGED vars

(* The deadline of the stream passes.                                      *)
TimesOut ==
  /\ ClientGoes("wait", "close") /\ Returns("read")
  /\ ClientOnly

ClientCloses ==
  /\ ClientGoes("close", "done")
  /\ clientEnd' = [p \in PathIds |-> IF p \in Range(dialled) THEN "closed" ELSE clientEnd[p]]
  /\ UNCHANGED <<cc, sc, result, dialled, turn, path, requests, answered, serverEnd, up,
                 down, serverVars>>

Client == ClientStarts \/ DialSucceeds \/ DialFails \/ AllDialled \/ SendRequest
          \/ AllSent \/ ReceiveReply \/ ReadFails \/ TimesOut \/ ClientCloses

-----------------------------------------------------------------------------
(* The network.                                                            *)

Breaks(p) ==
  \/ /\ clientEnd[p] = "open"
     /\ clientEnd' = [clientEnd EXCEPT ![p] = "broken"] /\ UNCHANGED serverEnd
  \/ /\ serverEnd[p] = "open"
     /\ serverEnd' = [serverEnd EXCEPT ![p] = "broken"] /\ UNCHANGED clientEnd

LoseConnection(p) ==
  /\ Breaks(p)
  /\ UNCHANGED <<cc, sc, clientVars, up, down, serverVars>>

(* The end whose peer is gone learns of it, by a message or its timeout.   *)
Notices(p) ==
  /\ {clientEnd[p], serverEnd[p]} \cap {"broken", "closed"} # {}
  /\ LoseConnection(p)

-----------------------------------------------------------------------------
(* RunServer.                                                              *)

ServerOnly == UNCHANGED <<cc, sc, clientVars, netVars>>

ServerStarts ==
  /\ serverPc = "start"
  /\ IF ServerAccepts(sc)
     THEN /\ serverPc' = "select"
          /\ listener' = [p \in PathIds |-> IF p \in Range(sc.listens) THEN "listen" ELSE "off"]
     ELSE serverPc' = "returned" /\ UNCHANGED listener
  /\ UNCHANGED <<cancelled, errCount, handler>> /\ ServerOnly

Interrupt ==
  /\ serverPc = "select" /\ ~cancelled /\ cancelled' = TRUE
  /\ UNCHANGED <<serverPc, errCount, listener, handler>> /\ ServerOnly

(* Mutant: the server returns without its deferred cancel.                 *)
SelectError_NoCancel ==
  /\ serverPc = "select" /\ errCount > 0
  /\ serverPc' = "returned" /\ errCount' = errCount - 1
  /\ UNCHANGED <<cancelled, listener, handler>> /\ ServerOnly

SelectError ==
  /\ serverPc = "select" /\ errCount > 0
  /\ serverPc' = "returned" /\ errCount' = errCount - 1 /\ cancelled' = TRUE
  /\ UNCHANGED <<listener, handler>> /\ ServerOnly

SelectDone ==
  /\ serverPc = "select" /\ cancelled
  /\ serverPc' = "returned"
  /\ UNCHANGED <<cancelled, errCount, listener, handler>> /\ ServerOnly

ListenerGoes(p, from, to) ==
  /\ listener[p] = from /\ listener' = [listener EXCEPT ![p] = to]
  /\ UNCHANGED <<serverPc, cancelled>> /\ ServerOnly

(* serveQUICPath; a cancellation is reported like an error.                *)
Listens(p)      == ListenerGoes(p, "listen", "accept") /\ UNCHANGED <<errCount, handler>>
ListenFails(p)  == ListenerGoes(p, "listen", "report") /\ UNCHANGED <<errCount, handler>>
AcceptFails(p)  == ListenerGoes(p, "accept", "report") /\ UNCHANGED <<errCount, handler>>
ListenerStops(p) == cancelled /\ AcceptFails(p)

Accepts(p) ==
  /\ ListenerGoes(p, "accept", "accept") /\ handler[p] = "queued"
  /\ handler' = [handler EXCEPT ![p] = "accept"] /\ UNCHANGED errCount

Reports(p) ==
  /\ ListenerGoes(p, "report", "done") /\ errCount < ErrChCapacity
  /\ errCount' = errCount + 1 /\ UNCHANGED handler

Listener(p) == Listens(p) \/ ListenerStops(p) \/ Accepts(p) \/ Reports(p)

HandlerGoes(p, from, to) ==
  /\ handler[p] = from /\ handler' = [handler EXCEPT ![p] = to]
  /\ UNCHANGED <<cc, sc, clientVars, clientEnd, serverPc, cancelled, errCount, listener>>

StreamArrives(p) ==
  /\ HandlerGoes(p, "accept", "read")
  /\ serverEnd[p] = "open" /\ up[p] # << >>
  /\ UNCHANGED <<serverEnd, up, down>>

(* The deferred calls of handleQUICConnection close what there is.         *)
HandlerEnds(p, from) ==
  /\ HandlerGoes(p, from, "done")
  /\ serverEnd' = [serverEnd EXCEPT ![p] = "closed"]
  /\ UNCHANGED <<up, down>>

NoStream(p)     == (serverEnd[p] # "open" \/ cancelled) /\ HandlerEnds(p, "accept")
HandlerFails(p) == serverEnd[p] # "open" /\ \E from \in {"read", "reply"} : HandlerEnds(p, from)

(* A request for another address is dropped without an answer.             *)
ReadRequest(p) ==
  /\ HandlerGoes(p, "read", IF cc.virtual = sc.virtual THEN "reply" ELSE "read")
  /\ serverEnd[p] = "open" /\ up[p] # << >>
  /\ up' = IF cc.virtual = sc.virtual THEN up ELSE [up EXCEPT ![p] = Tail(@)]
  /\ UNCHANGED <<serverEnd, down>>

WriteReply(p) ==
  /\ HandlerGoes(p, "reply", "read") /\ serverEnd[p] = "open"
  /\ up' = [up EXCEPT ![p] = Tail(@)]
  /\ down' = [down EXCEPT ![p] = Append(@,
       [seq |-> Head(up[p]).seq, n |-> Head(up[p]).n, virtual |-> sc.virtual,
        client |-> sc.client])]
  /\ UNCHANGED serverEnd

Handler(p) == StreamArrives(p) \/ NoStream(p) \/ HandlerFails(p) \/ ReadRequest(p)
              \/ WriteReply(p)

ServerMain == ServerStarts \/ SelectError \/ SelectDone

-----------------------------------------------------------------------------
(* Everything may stop in the end.                                         *)
Next ==
  \/ Client \/ ServerMain \/ Interrupt
  \/ \E p \in PathIds : \/ Listener(p) \/ ListenFails(p) \/ AcceptFails(p)
                         \/ Handler(p) \/ LoseConnection(p)

(* Goroutines run when they can, a dial ends, time passes, and a failed    *)
(* connection is noticed.  Nothing makes errors or interrupts come.        *)
Fairness ==
  /\ WF_vars(Client) /\ WF_vars(ServerMain)
  /\ \A p \in PathIds : WF_vars(Listener(p)) /\ WF_vars(Handler(p)) /\ WF_vars(Notices(p))

Spec == Init /\ [][Next]_vars /\ Fairness

-----------------------------------------------------------------------------
(* The scheduler stays inside the paths, and a path carries one packet at  *)
(* a time, a request or its reply.                                         *)
TypeOK ==
  /\ clientPc \in {"start", "dial", "send", "wait", "close", "done"}
  /\ dialled \in {<< >>, <<0>>, <<1>>, <<0, 1>>}
  /\ turn = 0 \/ turn < Len(dialled)
  /\ path \in PathIds /\ requests \in 0..(IF cc.count > 0 THEN cc.count ELSE 0)
  /\ serverPc \in {"start", "select", "returned"} /\ cancelled \in BOOLEAN
  /\ errCount \in 0..ErrChCapacity
  /\ \A p \in PathIds :
       /\ clientEnd[p] \in {"none", "open", "broken", "closed"}
       /\ serverEnd[p] \in {"none", "open", "broken", "closed"}
       /\ listener[p] \in {"off", "listen", "accept", "report", "done"}
       /\ handler[p] \in {"none", "queued", "accept", "read", "reply", "done"}
       /\ Len(up[p]) + Len(down[p]) <= 1

(* Each accepted reply answers the request it was waited for, although     *)
(* sequence numbers repeat and two paths deliver in any order, and a run   *)
(* that returns no error has had every answer.                             *)
AnswersInOrder ==
  /\ \A k \in DOMAIN answered : answered[k] = k
  /\ result = "ok" => Len(answered) = cc.count

(* A client that has returned, with whatever result, leaves no connection. *)
NoConnectionLeft ==
  clientPc = "done" => \A p \in PathIds : clientEnd[p] \in {"none", "closed"}

(* Whoever names a file gets what it is for, or nothing starts: no end     *)
(* falls back on running without it.  An end whose files are not all there *)
(* and readable dials nothing and listens on nothing; a client with a CA   *)
(* file sends to no server without a certificate of that CA; a server with *)
(* one serves no client without, although with TLS 1.3 that client is      *)
(* connected and may have sent its request.                                *)
AllLoaded(cert, ca) == cert \notin {"half", "bad"} /\ ca # "bad"
AuthenticatedAsConfigured ==
  /\ dialled # << >> => AllLoaded(cc.cert, cc.ca) /\ (cc.ca # "none" => sc.cert = "good")
  /\ \A p \in PathIds :
       /\ listener[p] # "off" => AllLoaded(sc.cert, sc.clientCA)
       /\ handler[p] \notin {"none", "done"} /\ sc.clientCA # "none" => cc.cert = "good"

(* RunClient returns, also if no answer comes, the server drops the        *)
(* request or the connection dies without a word.                          *)
ClientReturns == <>(clientPc = "done")

(* A server that is cancelled or has had an error ends with all its        *)
(* goroutines.  Main reads errCh once, and every listener reports, also    *)
(* when it is only cancelled.  The handlers do not look at the context:    *)
(* they end because the client ends and closes its connections.            *)
DemoServerStops ==
  (cancelled \/ serverPc = "returned") ~>
    [](/\ serverPc = "returned"
       /\ \A p \in PathIds : /\ listener[p] \in {"off", "done"}
                              /\ handler[p] \in {"none", "queued", "done"})
=============================================================================
