------------------------------- MODULE Tunnel -------------------------------
(***************************************************************************)
(* The CONNECT tunnels of internal/proxy/proxy.go, from the start of the    *)
(* program to its end (server.go).  handleConnect takes the connection over *)
(* from the HTTP server, and runs a second HTTP server on it, over TLS.     *)
(* That server accepts the connection from a listenList that holds nothing *)
(* else, serves it in a goroutine of its own and is done at once;          *)
(* handleConnect waits for the goroutine, through a channel that            *)
(* connWait.Close closes, because its deferred calls close the connection. *)
(*                                                                         *)
(* The Go servers are modelled by what they do with the listener and the   *)
(* connection; the requests in a tunnel are ProxyCache's subject.          *)
(***************************************************************************)
EXTENDS Certs

CONSTANTS
  HostOf,   \* caller -> the host of its CONNECT
  SnisOf    \* caller -> the names its client may ask for in the handshake, None for none

ASSUME PeerAssumption ==
  HostOf \in [Callers -> Names] /\ SnisOf \in [Callers -> SUBSET (Names \union {None})]

\* One tunnel per caller of LeafCert: handleConnect calls it for the CONNECT, and the
\* goroutine that serves the connection, started later, during the TLS handshake.
Tunnels == Callers

VARIABLES
  srv,    \* the program: "starting", "running", "draining" or "exited"
  tun     \* per tunnel, see NoTunnel

vars == <<certVars, srv, tun>>

NoCert == [cert |-> None, began |-> 0]

NoTunnel == [
  h      |-> "none",    \* where handleConnect is
  host   |-> None,      \* of the CONNECT
  own    |-> NoCert,    \* the certificate made for the CONNECT
  raw    |-> "open",    \* the connection
  cs     |-> 0,         \* connections in the listenList
  closes |-> 0,         \* how often connWait.Close closed the channel
  conn   |-> "none",    \* where the goroutine that serves the connection is
  sni    |-> None,      \* the name the client asked for in the handshake
  shown  |-> NoCert,    \* the certificate it was shown
  client |-> "there"]

\* Definitions marked "Mutant" are changed forms of the one that follows, which a
\* bug in the code could have; nothing uses them.

Set(t, x) == tun' = [tun EXCEPT ![t] = x]

\* The handler returns and its locals are gone; what the client does next does not
\* concern it.  A connection it took over is closed by the deferred calls.
Return(t, raw) ==
  Set(t, [NoTunnel EXCEPT !.h = "returned", !.raw = raw, !.closes = tun[t].closes,
                          !.conn = tun[t].conn, !.client = "gone"])
Handler(t, l) == tun' = [tun EXCEPT ![t].h = l]

-----------------------------------------------------------------------------
(* runServer *)

Running == srv # "exited"

\* The CA is there before the proxy accepts anything.
StartServer ==
  /\ srv = "starting" /\ CAGen
  /\ srv' = "running"
  /\ UNCHANGED tun

Signal == srv = "running" /\ srv' = "draining" /\ UNCHANGED <<certVars, tun>>

\* The end of the main goroutine is the end of all others.
Exit == srv' = "exited" /\ tun' = [t \in Tunnels |-> NoTunnel] /\ CertExit

\* Shutdown waits for the connections that the HTTP server still holds, a taken-over one
\* not being among them, but not longer than five seconds: the program may end wherever
\* its tunnels are.
Shutdown == srv = "draining" /\ Exit

\* Two calls of LeafCert that meet at the map may end the program.
Abort == MapRace /\ Exit

-----------------------------------------------------------------------------
(* handleConnect *)

\* Any other request, on a connection that the HTTP server keeps; upstream may take any
\* time to answer it, unless the client leaves, which cancels the request.
PlainRequest(t) ==
  /\ srv = "running" /\ tun[t].h = "none"
  /\ Handler(t, "plain")
  /\ UNCHANGED <<certVars, srv>>

PlainCancel(t) ==
  /\ tun[t].h = "plain" /\ tun[t].client = "gone"
  /\ Return(t, "open")
  /\ UNCHANGED <<certVars, srv>>

PlainRespond(t) ==
  /\ tun[t].h = "plain"
  /\ Return(t, "open")
  /\ UNCHANGED <<certVars, srv>>

\* A CONNECT without a token or without a host gets an error response; for another one
\* LeafCert is asked for a certificate.
Connect(t) ==
  /\ srv = "running" /\ tun[t].h = "none"
  /\ \/ Return(t, "open") /\ UNCHANGED call
     \/ /\ LeafCert(t, HostOf[t])
        /\ Set(t, [tun[t] EXCEPT !.h = "cert", !.host = HostOf[t]])
  /\ UNCHANGED <<ca, leafs, serial, now, certObs, srv>>

\* LeafCert returned to its caller.
Taken(t) == /\ call' = [call EXCEPT ![t] = NoCall]
            /\ UNCHANGED <<ca, leafs, serial, now, certObs, srv>>
Handed(t) == [cert |-> call[t].cert, began |-> call[t].began]

GotHostCert(t) ==
  /\ tun[t].h = "cert" /\ Answered(t) /\ Taken(t)
  /\ IF call[t].cert = None
       THEN Return(t, "open")
       ELSE Set(t, [tun[t] EXCEPT !.h = "hijack", !.own = Handed(t)])

\* The connection is taken over, the 200 sent and the listener made.  Or the 200 cannot be
\* sent, and the deferred call closes the connection; or it cannot be taken over, which is
\* not noticed: the handler panics, and the HTTP server closes the connection.
Hijack(t) ==
  /\ tun[t].h = "hijack"
  /\ \/ Set(t, [tun[t] EXCEPT !.h = "serve", !.cs = 1])
     \/ Return(t, "closed")
  /\ UNCHANGED <<certVars, srv>>

\* Mutant: the listenList keeps what it hands out.
AcceptAgain(t) ==
  /\ tun[t].h = "serve" /\ tun[t].cs > 0
  /\ tun' = [tun EXCEPT ![t].conn = "handshake"]
  /\ UNCHANGED <<certVars, srv>>

\* Serve accepts the connection and starts its goroutine ...
Accept(t) ==
  /\ tun[t].h = "serve" /\ tun[t].cs > 0
  /\ Set(t, [tun[t] EXCEPT !.cs = @ - 1, !.conn = "handshake"])
  /\ UNCHANGED <<certVars, srv>>

\* Mutant: listenList.Close also closes a connection that was accepted.
ServeEndsClosing(t) ==
  /\ tun[t].h = "serve" /\ tun[t].cs = 0
  /\ Set(t, [tun[t] EXCEPT !.h = "wait", !.raw = "closed", !.closes = @ + 1])
  /\ UNCHANGED <<certVars, srv>>

\* ... and ends when the next Accept fails: it closes the listener, and listenList.Close
\* the connections that were not accepted.
ServeEnds(t) ==
  /\ tun[t].h = "serve" /\ tun[t].cs = 0
  /\ Set(t, [tun[t] EXCEPT !.h = "wait", !.closes = @ + tun[t].cs])
  /\ UNCHANGED <<certVars, srv>>

\* Mutant: handleConnect returns when Serve does.
WaitNot(t) ==
  /\ tun[t].h = "wait"
  /\ Return(t, "closed")
  /\ UNCHANGED <<certVars, srv>>

Wait(t) ==
  /\ tun[t].h = "wait" /\ tun[t].closes > 0
  /\ Return(t, "closed")
  /\ UNCHANGED <<certVars, srv>>

-----------------------------------------------------------------------------
(* The goroutine that serves the connection *)

Broken(t) == tun[t].client = "gone" \/ tun[t].raw = "closed"

\* The client says hello.  Without a name it is shown the certificate made for the
\* CONNECT; with one, GetCertificate asks for it.
Handshake(t, sni) ==
  /\ tun[t].conn = "handshake" /\ ~Broken(t)
  /\ IF sni = None
       THEN /\ Set(t, [tun[t] EXCEPT !.conn = "serving", !.shown = tun[t].own])
            /\ UNCHANGED call
       ELSE /\ Set(t, [tun[t] EXCEPT !.conn = "cert", !.sni = sni])
            /\ LeafCert(t, sni)
  /\ UNCHANGED <<ca, leafs, serial, now, certObs, srv>>

GotLeaf(t) ==
  /\ tun[t].conn = "cert" /\ Answered(t) /\ Taken(t)
  /\ Set(t, [tun[t] EXCEPT !.conn = IF call[t].cert = None THEN "closing" ELSE "serving",
                           !.shown = Handed(t)])

\* A request was answered, and the connection is not kept.  Other requests leave it as
\* it is; upstream may take any time to answer one.
LastResponse(t) ==
  /\ tun[t].conn = "serving" /\ ~Broken(t)
  /\ tun' = [tun EXCEPT ![t].conn = "closing"]
  /\ UNCHANGED <<certVars, srv>>

\* A read finds the connection at its end, and a request that is waiting for upstream
\* is cancelled.
Hangup(t) ==
  /\ tun[t].conn \in {"handshake", "serving"} /\ Broken(t)
  /\ tun' = [tun EXCEPT ![t].conn = "closing"]
  /\ UNCHANGED <<certVars, srv>>

\* Mutant: connWait.Close closes the connection, not the channel.
ConnDoneSilent(t) ==
  /\ tun[t].conn = "closing"
  /\ tun' = [tun EXCEPT ![t].conn = "closed"]
  /\ UNCHANGED <<certVars, srv>>

\* connWait.Close, at the end of the goroutine, closes the channel ...
ConnDone(t) ==
  /\ tun[t].conn = "closing"
  /\ Set(t, [tun[t] EXCEPT !.conn = "closed", !.closes = @ + 1])
  /\ UNCHANGED <<certVars, srv>>

\* ... and then the connection, which handleConnect may have closed in between.
ConnClose(t) ==
  /\ tun[t].conn = "closed"
  /\ Set(t, [tun[t] EXCEPT !.conn = "done", !.raw = "closed"])
  /\ UNCHANGED <<certVars, srv>>

ClientLeaves(t) ==
  /\ tun[t].h # "none" /\ tun[t].client = "there"
  /\ tun' = [tun EXCEPT ![t].client = "gone"]
  /\ UNCHANGED <<certVars, srv>>

-----------------------------------------------------------------------------
Init == CertInit /\ srv = "starting" /\ tun = [t \in Tunnels |-> NoTunnel]

HandlerStep(t) ==
  \/ PlainCancel(t) \/ GotHostCert(t) \/ Hijack(t)
  \/ Accept(t) \/ ServeEnds(t) \/ Wait(t)

CallStep(t) == LeafStep(t) /\ UNCHANGED <<srv, tun>>

ConnStep(t) == GotLeaf(t) \/ Hangup(t) \/ ConnDone(t) \/ ConnClose(t)

TunnelStep(t) == HandlerStep(t) \/ CallStep(t) \/ ConnStep(t)

Peer(t) ==
  \/ Connect(t) \/ PlainRequest(t) \/ PlainRespond(t)
  \/ \E n \in SnisOf[t] : Handshake(t, n)
  \/ LastResponse(t) \/ ClientLeaves(t)

Next ==
  /\ Running
  /\ \/ StartServer \/ Signal \/ Shutdown \/ Abort
     \/ Tick /\ UNCHANGED <<srv, tun>>
     \/ \E t \in Tunnels : TunnelStep(t) \/ Peer(t)

\* Goroutines of the program keep running where they do not wait for a client or for
\* upstream.  A client need not say or do anything, and an upstream need not answer: the
\* proxy's http.Client has no timeout.
Spec ==
  /\ Init /\ [][Next]_vars
  /\ \A t \in Tunnels : WF_vars(Running /\ TunnelStep(t))

-----------------------------------------------------------------------------
(* Properties *)

Handling == {"none", "plain", "cert", "hijack", "serve", "wait", "returned"}
Serving  == {"none", "handshake", "cert", "serving", "closing", "closed", "done"}
Shown    == [cert : CertSet \union {None}, began : 0..Horizon]

\* Type invariant; a tunnel's two goroutines are never in LeafCert together.
TypeOK ==
  /\ CertsOK
  /\ srv \in {"starting", "running", "draining", "exited"}
  /\ tun \in [Tunnels -> [h : Handling, host : Names \union {None}, own : Shown,
                          raw : {"open", "closed"}, cs : 0..1, closes : Nat, conn : Serving,
                          sni : Names \union {None}, shown : Shown,
                          client : {"there", "gone"}]]
  /\ \A t \in Tunnels : Called(t) <=> (tun[t].h = "cert" \/ tun[t].conn = "cert")

\* The channel of a tunnel is closed once, by the goroutine that served the connection
\* and not before: closing it again would panic, and end the program.
ClosedOnce ==
  \A t \in Tunnels : tun[t].closes = IF tun[t].conn \in {"closed", "done"} THEN 1 ELSE 0

\* handleConnect neither closes the connection nor returns while the goroutine that serves
\* it has not come to the end of serving it; that goroutine may still be about to close it
\* too.  Once handleConnect has returned, the connection is closed.
NoCutOff ==
  \A t \in Tunnels :
    /\ tun[t].conn \in {"handshake", "cert", "serving", "closing"} =>
         tun[t].raw = "open" /\ tun[t].h \in {"serve", "wait"}
    /\ tun[t].h = "returned" /\ tun[t].cs + tun[t].closes > 0 => tun[t].raw = "closed"

\* A client is shown a certificate for the name it asked for, or for the host of its
\* CONNECT, that was valid for an hour and more when LeafCert was asked for it, and
\* that the CA handed out by the API signed.
CertFits ==
  \A t \in Tunnels :
    LET shown == tun[t].shown
    IN shown.cert # None =>
         /\ shown.cert.name = IF tun[t].sni = None THEN tun[t].host ELSE tun[t].sni
         /\ shown.began + Margin < shown.cert.until
         /\ ca # None

\* A tunnel whose client has left ends: its handler returns and its goroutine with it.
\* Nothing in it waits for upstream or for the client's next word then.
TunnelsEnd ==
  \A t \in Tunnels :
    tun[t].client = "gone" ~> \/ tun[t].h = "returned" /\ tun[t].conn \in {"none", "done"}
                              \/ srv = "exited"
=============================================================================
