----------------------------- MODULE TunnelProofs -----------------------------
(***************************************************************************)
(* Theorems about Tunnel and the certificates it shows: for any number of  *)
(* tunnels, hosts, names and length of time.                               *)
(***************************************************************************)
EXTENDS Tunnel, TLAPS

-----------------------------------------------------------------------------
(* The inductive invariant *)

TunnelSet ==
  [h : Handling, host : Names \union {None}, own : Shown, raw : {"open", "closed"},
   cs : 0..1, closes : Nat, conn : Serving, sni : Names \union {None}, shown : Shown,
   client : {"there", "gone"}]

CallSet ==
  [at : {"none", "lookup", "sign", "count", "add", "store", "done"},
   name : Names \union {None}, began : 0..Horizon, old : Nat, cert : CertSet \union {None}]

\* Where the two goroutines of a tunnel can be together, with the connection in the
\* listenList, the channel and the connection itself.
Phase(x) ==
  \/ /\ x.h \in {"none", "plain", "cert", "hijack"} /\ x.conn = "none"
     /\ x.cs = 0 /\ x.closes = 0 /\ x.raw = "open"
  \/ /\ x.h = "serve" /\ x.conn = "none"
     /\ x.cs = 1 /\ x.closes = 0 /\ x.raw = "open"
  \/ /\ x.h \in {"serve", "wait"} /\ x.conn \in {"handshake", "cert", "serving", "closing"}
     /\ x.cs = 0 /\ x.closes = 0 /\ x.raw = "open"
  \/ /\ x.h \in {"serve", "wait"} /\ x.conn \in {"closed", "done"}
     /\ x.cs = 0 /\ x.closes = 1 /\ x.raw = IF x.conn = "done" THEN "closed" ELSE "open"
  \/ /\ x.h = "returned" /\ x.conn = "none"
     /\ x.cs = 0 /\ x.closes = 0
  \/ /\ x.h = "returned" /\ x.conn \in {"closed", "done"}
     /\ x.cs = 0 /\ x.closes = 1 /\ x.raw = "closed"

\* A certificate, if there is one, for a name that was asked for at a time.
Good(cert, began, name) ==
  cert # None => cert.name = name /\ began + Margin < cert.until /\ ca # None

\* A call of LeafCert.
Made(k) ==
  /\ k.at # "none" => k.name \in Names
  /\ k.at \in {"sign", "count", "add", "store"} => ca # None
  /\ Good(k.cert, k.began, k.name)

\* What a tunnel asked for and what it was given, with its call of LeafCert.
Asked(x, k) ==
  /\ (k.at # "none") <=> (x.h = "cert" \/ x.conn = "cert")
  /\ x.h = "cert" => k.name = x.host
  /\ x.conn = "cert" => k.name = x.sni
  /\ x.h \in {"none", "plain", "cert"} => x.own = NoCert
  /\ x.conn \in {"none", "handshake"} => x.sni = None /\ x.shown = NoCert
  /\ Good(x.own.cert, x.own.began, x.host)
  /\ Good(x.shown.cert, x.shown.began, IF x.sni = None THEN x.host ELSE x.sni)

Kept == \A n \in Names : leafs[n] # None => leafs[n].name = n

\* Until two calls overlap at most one is between signing and counting up, and no other
\* number than the one it signed with has reached the counter.
Counting(k) == k.at \in {"count", "add"}
Serials ==
  /\ used \subseteq Nat /\ repeated \in BOOLEAN /\ overlap \in BOOLEAN
  /\ overlap = FALSE =>
       /\ repeated = FALSE
       /\ \A p, q \in Callers : Counting(call[p]) /\ Counting(call[q]) => p = q
       /\ \A p \in Callers : call[p].at = "add" => call[p].old = serial
       /\ \A s \in used : s <= serial
       /\ serial \in used => \E p \in Callers : Counting(call[p])

IInv ==
  /\ TypeOK /\ Kept /\ Serials
  /\ \A t \in Tunnels : Phase(tun[t]) /\ Made(call[t]) /\ Asked(tun[t], call[t])

-----------------------------------------------------------------------------
(* Steps of one tunnel *)

\* The types, by the names the proofs use.
LEMMA Types ==
  ASSUME TypeOK
  PROVE  /\ tun \in [Tunnels -> TunnelSet] /\ call \in [Tunnels -> CallSet]
         /\ Age \in Nat /\ Margin \in Nat /\ Horizon \in Nat /\ None \notin Names
         /\ NoCert \in Shown /\ NoCall \in CallSet
<1>1. Age \in Nat /\ Margin \in Nat /\ Horizon \in Nat /\ None \notin Names
  BY CertAssumption
<1>2. tun \in [Tunnels -> TunnelSet]
  BY DEF TypeOK, TunnelSet
<1>3. call \in [Tunnels -> CallSet]
  BY DEF TypeOK, CertsOK, CallSet, Tunnels
<1>4. 0 \in 0..Horizon
  BY <1>1
<1>5. NoCert \in Shown
  BY <1>4 DEF NoCert, Shown
<1>6. NoCall \in CallSet
  BY <1>4 DEF NoCall, CallSet
<1> QED
  BY <1>1, <1>2, <1>3, <1>5, <1>6

\* A tunnel goes on, and its call of LeafCert with it.
LEMMA TunnelKeeps ==
  ASSUME IInv, NEW t \in Tunnels, NEW x \in TunnelSet, NEW k \in CallSet,
         Phase(x), Made(k), Asked(x, k), Counting(k) <=> Counting(call[t]),
         k.at = "add" => k.old = call[t].old /\ call[t].at = "add",
         tun' = [tun EXCEPT ![t] = x], call' = [call EXCEPT ![t] = k],
         UNCHANGED <<ca, leafs, serial, now, certObs, srv>>
  PROVE  IInv'
<1>1. /\ tun' \in [Tunnels -> TunnelSet] /\ tun'[t] = x
      /\ \A u \in Tunnels \ {t} : tun'[u] = tun[u]
      /\ call' \in [Tunnels -> CallSet] /\ call'[t] = k
      /\ \A u \in Tunnels \ {t} : call'[u] = call[u]
  BY Types DEF IInv
<1>2. /\ ca' = ca /\ leafs' = leafs /\ serial' = serial /\ now' = now /\ srv' = srv
      /\ used' = used /\ repeated' = repeated /\ overlap' = overlap
  BY DEF certObs
<1>3. ASSUME NEW u \in Tunnels
      PROVE  Phase(tun'[u]) /\ Made(call'[u]) /\ Asked(tun'[u], call'[u])
  BY <1>1 DEF IInv
<1>4. ASSUME NEW u \in Tunnels
      PROVE  (Phase(tun[u]) /\ Made(call[u]) /\ Asked(tun[u], call[u]))'
  BY <1>2, <1>3 DEF Phase, Made, Asked, Good
<1>5. TypeOK'
  <2>1. \A u \in Tunnels : Called(u)' <=> (tun'[u].h = "cert" \/ tun'[u].conn = "cert")
    BY <1>3 DEF Asked, Called
  <2>2. CertsOK'
    BY <1>1, <1>2 DEF IInv, TypeOK, CertsOK, CallSet, Tunnels
  <2> QED
    BY <1>1, <1>2, <2>1, <2>2 DEF IInv, TypeOK, TunnelSet
<1>6. Kept'
  BY <1>2 DEF IInv, Kept
<1>7. Serials'
  <2>1. \A p \in Callers : /\ Counting(call'[p]) <=> Counting(call[p])
                           /\ call'[p].at = "add" => call'[p].old = call[p].old /\ call[p].at = "add"
    BY <1>1 DEF Tunnels
  <2> QED
    BY <1>2, <2>1 DEF IInv, Serials, Counting
<1> QED
  BY <1>4, <1>5, <1>6, <1>7 DEF IInv

\* A tunnel goes on without LeafCert.
LEMMA AloneKeeps ==
  ASSUME IInv, NEW t \in Tunnels, NEW x \in TunnelSet, Phase(x), Asked(x, call[t]),
         Set(t, x), UNCHANGED <<certVars, srv>>
  PROVE  IInv'
<1>1. call[t] \in CallSet /\ Made(call[t])
  BY Types DEF IInv
<1>2. tun' = [tun EXCEPT ![t] = x] /\ call' = [call EXCEPT ![t] = call[t]]
  BY Types DEF Set, certVars, IInv
<1> QED
  BY <1>1, <1>2, TunnelKeeps DEF certVars

\* What is left of a tunnel when its handler has returned.
Returned(t, raw) ==
  [NoTunnel EXCEPT !.h = "returned", !.raw = raw, !.closes = tun[t].closes,
                   !.conn = tun[t].conn, !.client = "gone"]

\* It is well formed when the goroutine of the connection is not there, or has closed the
\* channel.
LEMMA ReturnedIs ==
  ASSUME IInv, NEW t \in Tunnels, NEW raw \in {"open", "closed"},
         \/ tun[t].conn = "none"
         \/ tun[t].conn \in {"closed", "done"} /\ raw = "closed"
  PROVE  /\ Returned(t, raw) \in TunnelSet /\ Phase(Returned(t, raw))
         /\ \A k : k.at = "none" => Asked(Returned(t, raw), k)
<1> DEFINE x == Returned(t, raw)
<1>1. /\ x.h = "returned" /\ x.host = None /\ x.own = NoCert /\ x.raw = raw /\ x.cs = 0
      /\ x.closes = tun[t].closes /\ x.conn = tun[t].conn /\ x.sni = None /\ x.shown = NoCert
      /\ x.client = "gone"
  BY DEF Returned, NoTunnel
<1>2. tun[t] \in TunnelSet /\ Phase(tun[t])
  BY Types DEF IInv
<1>3. x \in TunnelSet
  <2>1. /\ tun[t].closes \in Nat /\ tun[t].conn \in Serving /\ NoCert \in Shown
    BY <1>2, Types DEF TunnelSet, IInv
  <2>2. NoTunnel \in TunnelSet
    BY <2>1 DEF NoTunnel, TunnelSet, Handling, Serving
  <2> QED
    BY <2>1, <2>2 DEF Returned, TunnelSet, Handling
<1> HIDE DEF x
<1>4. Phase(x)
  BY <1>1, <1>2 DEF Phase
<1>5. \A k : k.at = "none" => Asked(x, k)
  BY <1>1 DEF Asked, Good, NoCert
<1> QED
  BY <1>3, <1>4, <1>5 DEF x

\* The steps of a tunnel that do not call LeafCert.
LEMMA HandlerKeeps ==
  ASSUME IInv, NEW t \in Tunnels,
         \/ PlainRequest(t) \/ PlainCancel(t) \/ PlainRespond(t) \/ Hijack(t)
         \/ Accept(t) \/ ServeEnds(t) \/ Wait(t)
  PROVE  IInv'
<1>1. /\ tun[t] \in TunnelSet /\ Phase(tun[t]) /\ Asked(tun[t], call[t])
      /\ UNCHANGED <<certVars, srv>>
  BY Types DEF IInv, PlainRequest, PlainCancel, PlainRespond, Hijack, Accept, ServeEnds, Wait
<1>2. ASSUME NEW raw \in {"open", "closed"}, Return(t, raw), tun[t].h # "cert",
             \/ tun[t].conn = "none"
             \/ tun[t].conn \in {"closed", "done"} /\ raw = "closed"
      PROVE  IInv'
  <2>1. call[t].at = "none"
    BY <1>1, <1>2 DEF Asked
  <2>2. Set(t, Returned(t, raw))
    BY <1>2 DEF Return, Returned
  <2> QED
    BY <1>1, <1>2, <2>1, <2>2, ReturnedIs, AloneKeeps
<1>3. CASE PlainRequest(t)
  <2> DEFINE x == [tun[t] EXCEPT !.h = "plain"]
  <2>1. /\ x \in TunnelSet /\ x.h = "plain" /\ x.conn = tun[t].conn /\ x.cs = tun[t].cs
        /\ x.closes = tun[t].closes /\ x.raw = tun[t].raw /\ x.host = tun[t].host
        /\ x.own = tun[t].own /\ x.sni = tun[t].sni /\ x.shown = tun[t].shown
    BY <1>1 DEF TunnelSet, Handling
  <2>2. Set(t, x)
    BY <1>3, Types DEF PlainRequest, Handler, Set, IInv
  <2> HIDE DEF x
  <2>3. Phase(x) /\ Asked(x, call[t])
    BY <1>1, <1>3, <2>1 DEF PlainRequest, Phase, Asked
  <2> QED
    BY <1>1, <2>1, <2>2, <2>3, AloneKeeps
<1>4. CASE PlainCancel(t) \/ PlainRespond(t)
  <2>1. tun[t].h = "plain" /\ Return(t, "open")
    BY <1>4 DEF PlainCancel, PlainRespond
  <2>2. tun[t].conn = "none"
    BY <1>1, <2>1 DEF Phase
  <2> QED
    BY <1>2, <2>1, <2>2
<1>5. CASE Hijack(t)
  <2>1. tun[t].h = "hijack" /\ tun[t].conn = "none"
    BY <1>1, <1>5 DEF Hijack, Phase
  <2>2. CASE Return(t, "closed")
    BY <1>2, <2>1, <2>2
  <2>3. CASE Set(t, [tun[t] EXCEPT !.h = "serve", !.cs = 1])
    <3> DEFINE x == [tun[t] EXCEPT !.h = "serve", !.cs = 1]
    <3>1. /\ x \in TunnelSet
          /\ x.h = "serve" /\ x.conn = tun[t].conn /\ x.cs = 1
          /\ x.closes = tun[t].closes /\ x.raw = tun[t].raw /\ x.host = tun[t].host
          /\ x.own = tun[t].own /\ x.sni = tun[t].sni /\ x.shown = tun[t].shown
      <4>1. /\ tun[t].closes \in Nat /\ tun[t].cs \in 0..1 /\ 0 \in 0..1 /\ 1 \in 0..1
        BY <1>1 DEF TunnelSet
      <4>2. x \in TunnelSet
        BY <1>1, <4>1 DEF TunnelSet, Handling
      <4> QED
        BY <1>1, <4>1, <4>2 DEF TunnelSet
    <3>2. Set(t, x)
      BY <2>3
    <3> HIDE DEF x
    <3>3. Phase(x) /\ Asked(x, call[t])
      BY <1>1, <2>1, <3>1 DEF Phase, Asked
    <3> QED
      BY <1>1, <3>1, <3>2, <3>3, AloneKeeps
  <2> QED
    BY <1>5, <2>2, <2>3 DEF Hijack
<1>6. CASE Accept(t)
  <2> DEFINE x == [tun[t] EXCEPT !.cs = tun[t].cs - 1, !.conn = "handshake"]
  <2>1. tun[t].h = "serve" /\ tun[t].cs = 1 /\ tun[t].conn = "none" /\ Set(t, x)
    BY <1>1, <1>6 DEF Accept, Phase, Set
  <2>2. /\ x \in TunnelSet
        /\ x.h = "serve" /\ x.conn = "handshake" /\ x.cs = 0
        /\ x.closes = tun[t].closes /\ x.raw = tun[t].raw /\ x.host = tun[t].host
        /\ x.own = tun[t].own /\ x.sni = tun[t].sni /\ x.shown = tun[t].shown
    <3>1. /\ tun[t].closes \in Nat /\ tun[t].cs \in 0..1 /\ 0 \in 0..1 /\ 1 \in 0..1
      BY <1>1 DEF TunnelSet
    <3>2. x \in TunnelSet
      <4>1. ASSUME NEW n \in 0..1
            PROVE  [tun[t] EXCEPT !.cs = n, !.conn = "handshake"] \in TunnelSet
        BY <1>1 DEF TunnelSet, Serving
      <4>2. tun[t].cs - 1 \in 0..1
        BY <2>1
      <4> QED
        BY <4>1, <4>2
    <3> QED
      BY <1>1, <2>1, <3>1, <3>2 DEF TunnelSet
  <2> HIDE DEF x
  <2>3. Phase(x) /\ Asked(x, call[t])
    BY <1>1, <2>1, <2>2 DEF Phase, Asked
  <2> QED
    BY <1>1, <2>1, <2>2, <2>3, AloneKeeps
<1>7. CASE ServeEnds(t)
  <2> DEFINE x == [tun[t] EXCEPT !.h = "wait", !.closes = tun[t].closes + tun[t].cs]
  <2>1. tun[t].h = "serve" /\ tun[t].cs = 0 /\ Set(t, x)
    BY <1>7 DEF ServeEnds, Set
  <2>2. /\ x \in TunnelSet
        /\ x.h = "wait" /\ x.conn = tun[t].conn /\ x.cs = 0
        /\ x.closes = tun[t].closes /\ x.raw = tun[t].raw /\ x.host = tun[t].host
        /\ x.own = tun[t].own /\ x.sni = tun[t].sni /\ x.shown = tun[t].shown
    <3>1. /\ tun[t].closes \in Nat /\ tun[t].cs \in 0..1 /\ 0 \in 0..1 /\ 1 \in 0..1
      BY <1>1 DEF TunnelSet
    <3>2. x \in TunnelSet
      <4>1. ASSUME NEW n \in Nat
            PROVE  [tun[t] EXCEPT !.h = "wait", !.closes = n] \in TunnelSet
        BY <1>1 DEF TunnelSet, Handling
      <4>2. tun[t].closes + tun[t].cs \in Nat
        BY <2>1, <3>1
      <4> QED
        BY <4>1, <4>2
    <3> QED
      BY <1>1, <2>1, <3>1, <3>2 DEF TunnelSet
  <2> HIDE DEF x
  <2>3. Phase(x) /\ Asked(x, call[t])
    BY <1>1, <2>1, <2>2 DEF Phase, Asked
  <2> QED
    BY <1>1, <2>1, <2>2, <2>3, AloneKeeps
<1>8. CASE Wait(t)
  <2>1. tun[t].h = "wait" /\ tun[t].closes > 0 /\ Return(t, "closed")
    BY <1>8 DEF Wait
  <2>2. tun[t].conn \in {"closed", "done"}
    BY <1>1, <2>1, Types DEF Phase, TunnelSet, IInv
  <2> QED
    BY <1>2, <2>1, <2>2
<1> QED
  BY <1>3, <1>4, <1>5, <1>6, <1>7, <1>8

\* The connection's goroutine, and the client, where no certificate is asked for.
LEMMA ConnKeeps ==
  ASSUME IInv, NEW t \in Tunnels,
         LastResponse(t) \/ Hangup(t) \/ ConnDone(t) \/ ConnClose(t) \/ ClientLeaves(t)
  PROVE  IInv'
<1>1. /\ tun[t] \in TunnelSet /\ Phase(tun[t]) /\ Asked(tun[t], call[t])
      /\ tun \in [Tunnels -> TunnelSet]
      /\ UNCHANGED <<certVars, srv>>
  BY Types DEF IInv, LastResponse, Hangup, ConnDone, ConnClose, ClientLeaves
<1>2. CASE LastResponse(t) \/ Hangup(t)
  <2> DEFINE x == [tun[t] EXCEPT !.conn = "closing"]
  <2>1. tun[t].conn \in {"handshake", "serving"} /\ Set(t, x)
    BY <1>1, <1>2 DEF LastResponse, Hangup, Set
  <2>2. /\ x \in TunnelSet
        /\ x.h = tun[t].h /\ x.conn = "closing" /\ x.cs = tun[t].cs
        /\ x.closes = tun[t].closes /\ x.raw = tun[t].raw /\ x.host = tun[t].host
        /\ x.own = tun[t].own /\ x.sni = tun[t].sni /\ x.shown = tun[t].shown
    <3>1. /\ tun[t].closes \in Nat /\ tun[t].cs \in 0..1 /\ 0 \in 0..1 /\ 1 \in 0..1
      BY <1>1 DEF TunnelSet
    <3>2. x \in TunnelSet
      BY <1>1, <3>1 DEF TunnelSet, Serving
    <3> QED
      BY <1>1, <3>1, <3>2 DEF TunnelSet
  <2> HIDE DEF x
  <2>3. Phase(x) /\ Asked(x, call[t])
    BY <1>1, <2>1, <2>2 DEF Phase, Asked
  <2> QED
    BY <1>1, <2>1, <2>2, <2>3, AloneKeeps
<1>3. CASE ConnDone(t)
  <2> DEFINE x == [tun[t] EXCEPT !.conn = "closed", !.closes = tun[t].closes + 1]
  <2>1. tun[t].conn = "closing" /\ Set(t, x)
    BY <1>3 DEF ConnDone, Set
  <2>2. /\ x \in TunnelSet /\ x.h = tun[t].h /\ x.conn = "closed" /\ x.cs = tun[t].cs
        /\ x.closes = tun[t].closes + 1 /\ x.raw = tun[t].raw /\ x.host = tun[t].host
        /\ x.own = tun[t].own /\ x.sni = tun[t].sni /\ x.shown = tun[t].shown
    <3>1. ASSUME NEW n \in Nat
          PROVE  [tun[t] EXCEPT !.conn = "closed", !.closes = n] \in TunnelSet
      BY <1>1 DEF TunnelSet, Serving
    <3>2. tun[t].closes + 1 \in Nat
      BY <1>1 DEF TunnelSet
    <3>3. x \in TunnelSet
      BY <3>1, <3>2
    <3> QED
      BY <1>1, <3>3 DEF TunnelSet
  <2> HIDE DEF x
  <2>3. Phase(x) /\ Asked(x, call[t])
    BY <1>1, <2>1, <2>2 DEF Phase, Asked
  <2> QED
    BY <1>1, <2>1, <2>2, <2>3, AloneKeeps
<1>5. CASE ConnClose(t)
  <2> DEFINE x == [tun[t] EXCEPT !.conn = "done", !.raw = "closed"]
  <2>1. tun[t].conn = "closed" /\ Set(t, x)
    BY <1>5 DEF ConnClose, Set
  <2>2. /\ x \in TunnelSet /\ x.h = tun[t].h /\ x.conn = "done" /\ x.cs = tun[t].cs
        /\ x.closes = tun[t].closes /\ x.raw = "closed" /\ x.host = tun[t].host
        /\ x.own = tun[t].own /\ x.sni = tun[t].sni /\ x.shown = tun[t].shown
    BY <1>1 DEF TunnelSet, Serving
  <2> HIDE DEF x
  <2>3. Phase(x) /\ Asked(x, call[t])
    BY <1>1, <2>1, <2>2 DEF Phase, Asked
  <2> QED
    BY <1>1, <2>1, <2>2, <2>3, AloneKeeps
<1>4. CASE ClientLeaves(t)
  <2> DEFINE x == [tun[t] EXCEPT !.client = "gone"]
  <2>1. Set(t, x)
    BY <1>1, <1>4 DEF ClientLeaves, Set
  <2>2. /\ x \in TunnelSet /\ x.h = tun[t].h /\ x.conn = tun[t].conn /\ x.cs = tun[t].cs
        /\ x.closes = tun[t].closes /\ x.raw = tun[t].raw /\ x.host = tun[t].host
        /\ x.own = tun[t].own /\ x.sni = tun[t].sni /\ x.shown = tun[t].shown
    BY <1>1 DEF TunnelSet
  <2> HIDE DEF x
  <2>3. Phase(x) /\ Asked(x, call[t])
    BY <1>1, <2>2 DEF Phase, Asked
  <2> QED
    BY <1>1, <2>1, <2>2, <2>3, AloneKeeps
<1> QED
  BY <1>2, <1>3, <1>4, <1>5

-----------------------------------------------------------------------------
(* Steps that ask LeafCert, or take what it made *)

\* LeafCert is called, with a name that the tunnel remembers.
LEMMA AskKeeps ==
  ASSUME IInv, NEW t \in Tunnels, NEW x \in TunnelSet, NEW name \in Names,
         Phase(x), x.h = "cert" \/ x.conn = "cert",
         \A k : k.at = "lookup" /\ k.name = name => Asked(x, k),
         tun' = [tun EXCEPT ![t] = x], LeafCert(t, name),
         UNCHANGED <<ca, leafs, serial, now, certObs, srv>>
  PROVE  IInv'
<1> DEFINE k == [NoCall EXCEPT !.at = "lookup", !.name = name, !.began = now]
<1>1. /\ k \in CallSet /\ k.at = "lookup" /\ k.name = name /\ k.cert = None
      /\ call' = [call EXCEPT ![t] = k]
  BY Types DEF IInv, TypeOK, CertsOK, LeafCert, NoCall, CallSet
<1> HIDE DEF k
<1>2. Made(k) /\ Asked(x, k) /\ ~Counting(k)
  BY <1>1 DEF Made, Good, Counting
<1>3. ~Counting(call[t])
  BY DEF LeafCert, Called, Counting
<1> QED
  BY <1>1, <1>2, <1>3, TunnelKeeps

\* The CONNECT asks for its host.
LEMMA ConnectKeeps ==
  ASSUME IInv, NEW t \in Tunnels, Connect(t)
  PROVE  IInv'
<1>1. /\ tun[t] \in TunnelSet /\ Phase(tun[t]) /\ Asked(tun[t], call[t])
      /\ tun[t].h = "none" /\ tun[t].conn = "none"
      /\ UNCHANGED <<ca, leafs, serial, now, certObs, srv>>
  BY Types DEF IInv, Connect, Phase
<1>2. CASE Return(t, "open") /\ UNCHANGED call
  <2>1. call[t].at = "none"
    BY <1>1 DEF Asked
  <2>2. Set(t, Returned(t, "open")) /\ UNCHANGED <<certVars, srv>>
    BY <1>1, <1>2 DEF Return, Returned, certVars
  <2> QED
    BY <1>1, <2>1, <2>2, ReturnedIs, AloneKeeps
<1>3. CASE LeafCert(t, HostOf[t]) /\ Set(t, [tun[t] EXCEPT !.h = "cert", !.host = HostOf[t]])
  <2> DEFINE x == [tun[t] EXCEPT !.h = "cert", !.host = HostOf[t]]
  <2>1. HostOf[t] \in Names
    BY PeerAssumption DEF Tunnels
  <2>2. /\ x \in TunnelSet /\ x.h = "cert" /\ x.conn = "none" /\ x.cs = tun[t].cs
        /\ x.closes = tun[t].closes /\ x.raw = tun[t].raw /\ x.host = HostOf[t]
        /\ x.own = tun[t].own /\ x.sni = tun[t].sni /\ x.shown = tun[t].shown
    BY <1>1, <2>1 DEF TunnelSet, Handling
  <2>3. tun' = [tun EXCEPT ![t] = x]
    BY <1>3 DEF Set
  <2> HIDE DEF x
  <2>4. Phase(x)
    BY <1>1, <2>2 DEF Phase
  <2>5. \A k : k.at = "lookup" /\ k.name = HostOf[t] => Asked(x, k)
    BY <1>1, <2>2 DEF Asked, Good, NoCert
  <2> QED
    BY <1>1, <1>3, <2>1, <2>2, <2>3, <2>4, <2>5, AskKeeps
<1> QED
  BY <1>2, <1>3 DEF Connect

\* The handshake asks for the name of the client, or shows what is there.
LEMMA HandshakeKeeps ==
  ASSUME IInv, NEW t \in Tunnels, NEW n \in SnisOf[t], Handshake(t, n)
  PROVE  IInv'
<1>1. /\ tun[t] \in TunnelSet /\ Phase(tun[t]) /\ Asked(tun[t], call[t])
      /\ tun[t].conn = "handshake"
      /\ UNCHANGED <<ca, leafs, serial, now, certObs, srv>>
  BY Types DEF IInv, Handshake
<1>2. CASE n = None
  <2> DEFINE x == [tun[t] EXCEPT !.conn = "serving", !.shown = tun[t].own]
  <2>1. Set(t, x) /\ UNCHANGED <<certVars, srv>>
    BY <1>1, <1>2 DEF Handshake, certVars
  <2>2. /\ x \in TunnelSet /\ x.h = tun[t].h /\ x.conn = "serving" /\ x.cs = tun[t].cs
        /\ x.closes = tun[t].closes /\ x.raw = tun[t].raw /\ x.host = tun[t].host
        /\ x.own = tun[t].own /\ x.sni = tun[t].sni /\ x.shown = tun[t].own
    BY <1>1 DEF TunnelSet, Serving
  <2> HIDE DEF x
  <2>3. Phase(x) /\ Asked(x, call[t])
    BY <1>1, <2>2 DEF Phase, Asked
  <2> QED
    BY <2>1, <2>2, <2>3, AloneKeeps
<1>3. CASE n # None
  <2> DEFINE x == [tun[t] EXCEPT !.conn = "cert", !.sni = n]
  <2>1. n \in Names
    BY <1>3, PeerAssumption DEF Tunnels
  <2>2. /\ x \in TunnelSet /\ x.h = tun[t].h /\ x.conn = "cert" /\ x.cs = tun[t].cs
        /\ x.closes = tun[t].closes /\ x.raw = tun[t].raw /\ x.host = tun[t].host
        /\ x.own = tun[t].own /\ x.sni = n /\ x.shown = tun[t].shown
    BY <1>1, <2>1 DEF TunnelSet, Serving
  <2>3. tun' = [tun EXCEPT ![t] = x] /\ LeafCert(t, n)
    BY <1>3 DEF Handshake, Set
  <2> HIDE DEF x
  <2>4. Phase(x) /\ x.h # "cert"
    BY <1>1, <2>2 DEF Phase
  <2>5. \A k : k.at = "lookup" /\ k.name = n => Asked(x, k)
    BY <1>1, <2>2, <2>4 DEF Asked, Good, NoCert
  <2> QED
    BY <1>1, <2>1, <2>2, <2>3, <2>4, <2>5, AskKeeps
<1> QED
  BY <1>2, <1>3

\* A tunnel takes the certificate that LeafCert made for it.
LEMMA TakeKeeps ==
  ASSUME IInv, NEW t \in Tunnels, GotHostCert(t) \/ GotLeaf(t)
  PROVE  IInv'
<1>1. /\ tun[t] \in TunnelSet /\ Phase(tun[t]) /\ Asked(tun[t], call[t])
      /\ call[t] \in CallSet /\ Made(call[t]) /\ call[t].at = "done"
      /\ NoCall \in CallSet /\ NoCall.at = "none" /\ NoCall.cert = None
      /\ call' = [call EXCEPT ![t] = NoCall]
      /\ UNCHANGED <<ca, leafs, serial, now, certObs, srv>>
  BY Types DEF IInv, GotHostCert, GotLeaf, Answered, Taken, NoCall
<1>2. Made(NoCall) /\ ~Counting(NoCall) /\ ~Counting(call[t])
  BY <1>1 DEF Made, Good, Counting
<1>3. ASSUME NEW x \in TunnelSet, tun' = [tun EXCEPT ![t] = x], Phase(x), Asked(x, NoCall)
      PROVE  IInv'
  BY <1>1, <1>2, <1>3, TunnelKeeps
<1>4. /\ Handed(t) \in Shown /\ Handed(t).cert = call[t].cert
      /\ Handed(t).began = call[t].began
  BY <1>1 DEF Handed, Shown, CallSet
<1>5. CASE GotHostCert(t)
  <2>1. tun[t].h = "cert" /\ tun[t].conn = "none" /\ call[t].name = tun[t].host
    BY <1>1, <1>5 DEF GotHostCert, Phase, Asked
  <2>2. CASE Return(t, "open")
    <3>1. tun' = [tun EXCEPT ![t] = Returned(t, "open")]
      BY <2>2 DEF Return, Returned, Set
    <3> QED
      BY <1>1, <1>3, <2>1, <3>1, ReturnedIs
  <2>3. CASE Set(t, [tun[t] EXCEPT !.h = "hijack", !.own = Handed(t)])
    <3> DEFINE x == [tun[t] EXCEPT !.h = "hijack", !.own = Handed(t)]
    <3>1. /\ x \in TunnelSet /\ x.h = "hijack" /\ x.conn = "none" /\ x.cs = tun[t].cs
          /\ x.closes = tun[t].closes /\ x.raw = tun[t].raw /\ x.host = tun[t].host
          /\ x.own = Handed(t) /\ x.sni = tun[t].sni /\ x.shown = tun[t].shown
      BY <1>1, <1>4, <2>1 DEF TunnelSet, Handling
    <3>2. tun' = [tun EXCEPT ![t] = x]
      BY <2>3 DEF Set
    <3> HIDE DEF x
    <3>3. Phase(x)
      BY <1>1, <2>1, <3>1 DEF Phase
    <3>4. Asked(x, NoCall)
      BY <1>1, <1>4, <2>1, <3>1 DEF Asked, Made
    <3> QED
      BY <1>3, <3>1, <3>2, <3>3, <3>4
  <2> QED
    BY <1>5, <2>2, <2>3 DEF GotHostCert
<1>6. CASE GotLeaf(t)
  <2> DEFINE l == IF call[t].cert = None THEN "closing" ELSE "serving"
             x == [tun[t] EXCEPT !.conn = l, !.shown = Handed(t)]
  <2>1. /\ tun[t].conn = "cert" /\ call[t].name = tun[t].sni /\ call[t].name \in Names
        /\ tun[t].h # "cert" /\ l \in {"closing", "serving"}
    BY <1>1, <1>6 DEF GotLeaf, Phase, Asked, Made
  <2>2. tun' = [tun EXCEPT ![t] = x]
    BY <1>6 DEF GotLeaf, Set
  <2> HIDE DEF l
  <2>3. /\ x \in TunnelSet /\ x.h = tun[t].h /\ x.conn = l /\ x.cs = tun[t].cs
        /\ x.closes = tun[t].closes /\ x.raw = tun[t].raw /\ x.host = tun[t].host
        /\ x.own = tun[t].own /\ x.sni = tun[t].sni /\ x.shown = Handed(t)
    BY <1>1, <1>4, <2>1 DEF TunnelSet, Serving
  <2> HIDE DEF x
  <2>4. Phase(x)
    BY <1>1, <2>1, <2>3 DEF Phase
  <2>5. Asked(x, NoCall)
    BY <1>1, <1>4, <2>1, <2>3, Types DEF Asked, Made, IInv
  <2> QED
    BY <1>3, <2>2, <2>3, <2>4, <2>5
<1> QED
  BY <1>5, <1>6

-----------------------------------------------------------------------------
(* Steps of LeafCert *)

\* A call goes on, for the same name.
LEMMA CallKeeps ==
  ASSUME IInv, NEW p \in Callers, NEW k \in CallSet, Made(k), call[p].at # "none",
         k.at # "none", k.name = call[p].name, call' = [call EXCEPT ![p] = k],
         leafs' \in [Names -> CertSet \union {None}], serial' \in Nat, Kept', Serials',
         UNCHANGED <<ca, now, srv, tun>>
  PROVE  IInv'
<1>1. /\ call' \in [Tunnels -> CallSet] /\ call'[p] = k
      /\ \A u \in Tunnels \ {p} : call'[u] = call[u]
  BY Types DEF IInv, Tunnels
<1>2. ca' = ca /\ now' = now /\ srv' = srv /\ tun' = tun
  OBVIOUS
<1>3. ASSUME NEW u \in Tunnels
      PROVE  Phase(tun[u]) /\ Made(call'[u]) /\ Asked(tun[u], call'[u])
  <2>1. CASE u # p
    BY <1>1, <2>1 DEF IInv
  <2>2. CASE u = p
    <3>1. Phase(tun[p]) /\ Asked(tun[p], call[p])
      BY <2>2 DEF IInv
    <3>2. Asked(tun[p], k)
      BY <3>1 DEF Asked
    <3> QED
      BY <1>1, <2>2, <3>1, <3>2
  <2> QED
    BY <2>1, <2>2
<1>4. ASSUME NEW u \in Tunnels
      PROVE  (Phase(tun[u]) /\ Made(call[u]) /\ Asked(tun[u], call[u]))'
  BY <1>2, <1>3 DEF Phase, Made, Asked, Good
<1>5. TypeOK'
  <2>1. \A u \in Tunnels : Called(u)' <=> (tun'[u].h = "cert" \/ tun'[u].conn = "cert")
    BY <1>2, <1>3 DEF Asked, Called
  <2>2. CertsOK'
    BY <1>1, <1>2 DEF IInv, TypeOK, CertsOK, CallSet, Tunnels
  <2> QED
    BY <1>2, <2>1, <2>2 DEF IInv, TypeOK
<1> QED
  BY <1>4, <1>5 DEF IInv

\* Every step of LeafCert keeps the certificates good and the serial numbers apart.
LEMMA LeafKeeps ==
  ASSUME IInv, NEW p \in Callers, LeafStep(p), UNCHANGED <<srv, tun>>
  PROVE  IInv'
<1>1. /\ call \in [Callers -> CallSet] /\ call[p] \in CallSet /\ Made(call[p])
      /\ call[p].at \in {"lookup", "sign", "count", "add", "store"}
      /\ call[p].name \in Names
      /\ leafs \in [Names -> CertSet \union {None}] /\ serial \in Nat /\ Kept /\ Serials
      /\ UNCHANGED <<ca, now>>
      /\ Age \in Nat /\ Margin \in Nat /\ Horizon \in Nat /\ Margin < Age
  BY Types, CertAssumption
     DEF IInv, TypeOK, CertsOK, Made, Tunnels, LeafStep, Lookup, LeafFails, SignLeaf,
         ReadSerial, WriteSerial, StoreLeaf
<1>2. ASSUME NEW k \in CallSet, call' = [call EXCEPT ![p] = k],
             ~Counting(k), ~Counting(call[p]), UNCHANGED <<serial, certObs>>
      PROVE  Serials'
  <2>1. \A q \in Callers : call'[q] = IF q = p THEN k ELSE call[q]
    BY <1>1, <1>2
  <2>2. serial' = serial /\ used' = used /\ repeated' = repeated /\ overlap' = overlap
    BY <1>2 DEF certObs
  <2>3. \A q \in Callers : /\ Counting(call'[q]) <=> Counting(call[q])
                           /\ call'[q].at = "add" => call'[q] = call[q]
    BY <1>2, <2>1 DEF Counting
  <2> QED
    BY <1>1, <2>2, <2>3 DEF Serials, Counting
<1>3. ASSUME NEW cert \in CertSet \union {None}, Hand(p, cert),
             Good(cert, call[p].began, call[p].name), ~Counting(call[p]),
             leafs' \in [Names -> CertSet \union {None}], Kept',
             UNCHANGED <<serial, certObs>>
      PROVE  IInv'
  <2> DEFINE k == [call[p] EXCEPT !.at = "done", !.cert = cert]
  <2>1. /\ k \in CallSet /\ k.at = "done" /\ k.name = call[p].name /\ k.cert = cert
        /\ k.began = call[p].began
    BY <1>1 DEF CallSet
  <2>2. call' = [call EXCEPT ![p] = k]
    BY <1>1, <1>3 DEF Hand
  <2> HIDE DEF k
  <2>3. Made(k) /\ ~Counting(k)
    BY <1>1, <1>3, <2>1 DEF Made, Counting
  <2>4. Serials'
    BY <1>2, <1>3, <2>1, <2>2, <2>3
  <2> QED
    BY <1>1, <1>3, <2>1, <2>2, <2>3, <2>4, CallKeeps
<1>4. CASE Lookup(p)
  <2>1. UNCHANGED <<leafs, serial, certObs>> /\ call[p].at = "lookup" /\ ca # None
    BY <1>4 DEF Lookup
  <2>2. Kept' /\ leafs' \in [Names -> CertSet \union {None}]
    BY <1>1, <2>1 DEF Kept
  <2>3. ASSUME NEW cert \in Cached(p), Hand(p, cert) PROVE IInv'
    <3>1. cert = leafs[call[p].name] /\ cert # None /\ call[p].began + Margin < cert.until
      BY <2>3 DEF Cached
    <3>2. Good(cert, call[p].began, call[p].name) /\ cert \in CertSet \union {None}
      BY <1>1, <2>1, <3>1 DEF Good, Kept
    <3> QED
      BY <1>3, <2>1, <2>2, <2>3, <3>2 DEF Counting
  <2>4. CASE call' = [call EXCEPT ![p].at = "sign"]
    <3> DEFINE k == [call[p] EXCEPT !.at = "sign"]
    <3>1. /\ k \in CallSet /\ k.at = "sign" /\ k.name = call[p].name /\ k.cert = call[p].cert
          /\ k.began = call[p].began
      BY <1>1 DEF CallSet
    <3>2. call' = [call EXCEPT ![p] = k]
      BY <1>1, <2>4
    <3> HIDE DEF k
    <3>3. Made(k) /\ ~Counting(k) /\ ~Counting(call[p])
      BY <1>1, <2>1, <3>1 DEF Made, Counting
    <3>4. Serials'
      BY <1>2, <2>1, <3>1, <3>2, <3>3
    <3> QED
      BY <1>1, <2>1, <2>2, <3>1, <3>2, <3>3, <3>4, CallKeeps
  <2> QED
    BY <1>4, <2>3, <2>4 DEF Lookup
<1>5. CASE LeafFails(p)
  <2>1. UNCHANGED <<leafs, serial, certObs>> /\ Hand(p, None) /\ ~Counting(call[p])
    BY <1>5 DEF LeafFails, Counting
  <2>2. Kept' /\ leafs' \in [Names -> CertSet \union {None}]
    BY <1>1, <2>1 DEF Kept
  <2>3. Good(None, call[p].began, call[p].name)
    BY DEF Good
  <2> QED
    BY <1>3, <2>1, <2>2, <2>3
<1>6. CASE SignLeaf(p)
  <2> DEFINE cert == Certificate(call[p].name, call[p].began + Age)
             k == [call[p] EXCEPT !.at = "count", !.cert = cert]
  <2>1. call[p].at = "sign" /\ ca # None /\ call[p].began \in Nat
    BY <1>1, <1>6 DEF SignLeaf, Made, CallSet
  <2>2. /\ cert \in CertSet /\ cert.name = call[p].name
        /\ cert.until = call[p].began + Age
    BY <1>1, <2>1 DEF Certificate, CertSet
  <2>3. call' = [call EXCEPT ![p] = k]
    BY <1>1, <1>6 DEF SignLeaf
  <2> HIDE DEF cert
  <2>4. /\ k \in CallSet /\ k.at = "count" /\ k.name = call[p].name /\ k.cert = cert
        /\ k.began = call[p].began
    BY <1>1, <2>2 DEF CallSet
  <2> HIDE DEF k
  <2>5. Made(k)
    BY <1>1, <2>1, <2>2, <2>4 DEF Made, Good
  <2>6. UNCHANGED <<leafs, serial>> /\ Kept' /\ leafs' \in [Names -> CertSet \union {None}]
    BY <1>1, <1>6 DEF SignLeaf, Kept
  <2>7. Serials'
    <3>1. \A q \in Callers : call'[q] = IF q = p THEN k ELSE call[q]
      BY <1>1, <2>3
    <3>2. /\ used' = used \union {serial}
          /\ repeated' = (repeated \/ serial \in used)
          /\ overlap' = (overlap \/ \E q \in Callers : Counting(call[q]))
      BY <1>6 DEF SignLeaf, Sign, Counting
    <3>3. used' \subseteq Nat /\ repeated' \in BOOLEAN /\ overlap' \in BOOLEAN
      BY <1>1, <3>2 DEF Serials
    <3>4. SUFFICES ASSUME overlap' = FALSE
                   PROVE  /\ repeated' = FALSE
                          /\ \A q, r \in Callers :
                               Counting(call'[q]) /\ Counting(call'[r]) => q = r
                          /\ \A q \in Callers : call'[q].at = "add" => call'[q].old = serial'
                          /\ \A s \in used' : s <= serial'
                          /\ serial' \in used' => \E q \in Callers : Counting(call'[q])
      BY <3>3 DEF Serials, Counting
    <3>5. overlap = FALSE /\ \A q \in Callers : ~Counting(call[q])
      BY <1>1, <3>2, <3>4 DEF Serials
    <3>6. serial \notin used /\ repeated = FALSE /\ \A s \in used : s <= serial
      BY <1>1, <3>5 DEF Serials
    <3>7. Counting(k)
      BY <2>4 DEF Counting
    <3>8. repeated' = FALSE
      BY <3>2, <3>6
    <3>9. \A q \in Callers : Counting(call'[q]) <=> q = p
      BY <3>1, <3>5, <3>7
    <3>10. \A q \in Callers : call'[q].at # "add"
      BY <2>4, <3>1, <3>5 DEF Counting
    <3>11. \A s \in used' : s <= serial'
      BY <1>1, <2>6, <3>2, <3>6
    <3> QED
      BY <3>8, <3>9, <3>10, <3>11
  <2> QED
    BY <1>1, <2>1, <2>3, <2>4, <2>5, <2>6, <2>7, CallKeeps
<1>7. CASE ReadSerial(p)
  <2> DEFINE k == [call[p] EXCEPT !.at = "add", !.old = serial]
  <2>1. /\ k \in CallSet /\ k.at = "add" /\ k.name = call[p].name /\ k.cert = call[p].cert
        /\ k.began = call[p].began /\ k.old = serial
    BY <1>1 DEF CallSet
  <2>2. call' = [call EXCEPT ![p] = k] /\ call[p].at = "count"
    BY <1>1, <1>7 DEF ReadSerial
  <2> HIDE DEF k
  <2>3. UNCHANGED <<leafs, serial>> /\ Kept' /\ leafs' \in [Names -> CertSet \union {None}]
    BY <1>1, <1>7 DEF ReadSerial, Kept
  <2>4. Made(k)
    BY <1>1, <2>1, <2>2 DEF Made
  <2>5. Serials'
    <3>1. \A q \in Callers : call'[q] = IF q = p THEN k ELSE call[q]
      BY <1>1, <2>2
    <3>2. used' = used /\ repeated' = repeated /\ overlap' = overlap
      BY <1>7 DEF ReadSerial, certObs
    <3>3. \A q \in Callers : Counting(call'[q]) <=> Counting(call[q])
      BY <2>1, <2>2, <3>1 DEF Counting
    <3>4. \A q \in Callers : call'[q].at = "add" => call'[q].old = serial \/ call'[q] = call[q]
      BY <2>1, <3>1
    <3> QED
      BY <1>1, <2>3, <3>2, <3>3, <3>4 DEF Serials, Counting
  <2> QED
    BY <1>1, <2>1, <2>2, <2>3, <2>4, <2>5, CallKeeps
<1>8. CASE WriteSerial(p)
  <2> DEFINE k == [call[p] EXCEPT !.at = "store", !.old = 0]
  <2>1. /\ k \in CallSet /\ k.at = "store" /\ k.name = call[p].name /\ k.cert = call[p].cert
        /\ k.began = call[p].began
    BY <1>1 DEF CallSet
  <2>2. call' = [call EXCEPT ![p] = k] /\ call[p].at = "add" /\ serial' = call[p].old + 1
    BY <1>1, <1>8 DEF WriteSerial
  <2> HIDE DEF k
  <2>3. leafs' = leafs /\ Kept' /\ leafs' \in [Names -> CertSet \union {None}]
    BY <1>1, <1>8 DEF WriteSerial, Kept
  <2>4. Made(k)
    BY <1>1, <2>1, <2>2 DEF Made
  <2>5. serial' \in Nat
    BY <1>1, <2>2 DEF CallSet
  <2>6. Serials'
    <3>1. \A q \in Callers : call'[q] = IF q = p THEN k ELSE call[q]
      BY <1>1, <2>2
    <3>2. used' = used /\ repeated' = repeated /\ overlap' = overlap
      BY <1>8 DEF WriteSerial, certObs
    <3>3. SUFFICES ASSUME overlap = FALSE
                   PROVE  /\ repeated = FALSE
                          /\ \A q, r \in Callers :
                               Counting(call'[q]) /\ Counting(call'[r]) => q = r
                          /\ \A q \in Callers : call'[q].at = "add" => call'[q].old = serial'
                          /\ \A s \in used : s <= serial'
                          /\ serial' \in used => \E q \in Callers : Counting(call'[q])
      BY <1>1, <3>2 DEF Serials, Counting
    <3>4. Counting(call[p]) /\ ~Counting(k)
      BY <2>1, <2>2 DEF Counting
    <3>5. serial' = serial + 1 /\ \A q \in Callers : ~Counting(call'[q])
      BY <1>1, <2>2, <3>1, <3>3, <3>4 DEF Serials
    <3>6. \A s \in used : s <= serial /\ s \in Nat
      BY <1>1, <3>3 DEF Serials
    <3>7. \A q \in Callers : call'[q].at # "add"
      BY <3>5 DEF Counting
    <3>8. (\A s \in used : s <= serial') /\ serial' \notin used
      BY <1>1, <3>5, <3>6
    <3> QED
      BY <1>1, <3>3, <3>5, <3>7, <3>8 DEF Serials
  <2> QED
    BY <1>1, <2>1, <2>2, <2>3, <2>4, <2>5, <2>6, CallKeeps
<1>9. CASE StoreLeaf(p)
  <2>1. /\ Hand(p, call[p].cert) /\ ~Counting(call[p])
        /\ leafs' = [leafs EXCEPT ![call[p].name] = call[p].cert]
        /\ UNCHANGED <<serial, certObs>>
    BY <1>9 DEF StoreLeaf, Counting
  <2>2. call[p].cert \in CertSet \union {None} /\ Good(call[p].cert, call[p].began, call[p].name)
    BY <1>1 DEF CallSet, Made
  <2>3. leafs' \in [Names -> CertSet \union {None}]
    BY <1>1, <2>1, <2>2
  <2>4. Kept'
    BY <1>1, <2>1, <2>2 DEF Kept, Good
  <2> QED
    BY <1>3, <2>1, <2>2, <2>3, <2>4
<1> QED
  BY <1>4, <1>5, <1>6, <1>7, <1>8, <1>9 DEF LeafStep

-----------------------------------------------------------------------------
(* The program, and the invariant *)

\* At the start, and when the program has ended.
LEMMA NothingLeft ==
  ASSUME tun = [t \in Tunnels |-> NoTunnel], call = [p \in Callers |-> NoCall],
         leafs = [n \in Names |-> None], ca = None, serial = 0, now \in 0..Horizon,
         used = {}, repeated = FALSE, overlap = FALSE,
         srv \in {"starting", "running", "draining", "exited"}
  PROVE  IInv
<1>1. Horizon \in Nat /\ 0 \in 0..Horizon /\ None \notin Names
  BY CertAssumption
<1>2. NoCert \in Shown /\ NoCert.cert = None
  BY <1>1 DEF NoCert, Shown
<1>3. /\ NoTunnel \in TunnelSet /\ NoTunnel.h = "none" /\ NoTunnel.conn = "none"
      /\ NoTunnel.cs = 0 /\ NoTunnel.closes = 0 /\ NoTunnel.raw = "open"
      /\ NoTunnel.own = NoCert /\ NoTunnel.shown = NoCert /\ NoTunnel.sni = None
  BY <1>2 DEF NoTunnel, TunnelSet, Handling, Serving
<1>4. NoCall \in CallSet /\ NoCall.at = "none" /\ NoCall.cert = None
  BY <1>1 DEF NoCall, CallSet
<1>5. Phase(NoTunnel) /\ Made(NoCall) /\ Asked(NoTunnel, NoCall)
  BY <1>2, <1>3, <1>4 DEF Phase, Made, Asked, Good
<1>6. TypeOK
  BY <1>3, <1>4 DEF TypeOK, CertsOK, TunnelSet, CallSet, Called, Tunnels
<1>7. Kept /\ Serials
  BY <1>4 DEF Kept, Serials, Counting
<1> QED
  BY <1>5, <1>6, <1>7 DEF IInv, Tunnels

\* The program ends, wherever its goroutines are.
LEMMA ExitKeeps ==
  ASSUME IInv, Exit
  PROVE  IInv'
<1>1. /\ tun' = [t \in Tunnels |-> NoTunnel] /\ call' = [p \in Callers |-> NoCall]
      /\ leafs' = [n \in Names |-> None] /\ ca' = None /\ serial' = 0 /\ now' \in 0..Horizon
      /\ used' = {} /\ repeated' = FALSE /\ overlap' = FALSE /\ srv' = "exited"
  BY DEF Exit, CertExit, IInv, TypeOK, CertsOK
<1>2. Horizon \in Nat /\ 0 \in 0..Horizon /\ None \notin Names
  BY CertAssumption
<1>3. NoCert \in Shown /\ NoCert.cert = None
  BY <1>2 DEF NoCert, Shown
<1>4. /\ NoTunnel \in TunnelSet /\ NoTunnel.h = "none" /\ NoTunnel.conn = "none"
      /\ NoTunnel.cs = 0 /\ NoTunnel.closes = 0 /\ NoTunnel.raw = "open"
      /\ NoTunnel.own = NoCert /\ NoTunnel.shown = NoCert /\ NoTunnel.sni = None
  BY <1>3 DEF NoTunnel, TunnelSet, Handling, Serving
<1>5. NoCall \in CallSet /\ NoCall.at = "none" /\ NoCall.cert = None
  BY <1>2 DEF NoCall, CallSet
<1>6. \A t \in Tunnels : Phase(tun[t])' /\ Made(call[t])' /\ Asked(tun[t], call[t])'
  BY <1>1, <1>3, <1>4, <1>5 DEF Phase, Made, Asked, Good, Tunnels
<1>7. TypeOK'
  BY <1>1, <1>4, <1>5 DEF TypeOK, CertsOK, TunnelSet, CallSet, Called, Tunnels
<1>8. Kept' /\ Serials'
  BY <1>1, <1>5 DEF Kept, Serials, Counting
<1> QED
  BY <1>6, <1>7, <1>8 DEF IInv

\* The program starts, is told to stop, or time passes.
LEMMA ProgramKeeps ==
  ASSUME IInv, StartServer \/ Signal \/ (Tick /\ UNCHANGED <<srv, tun>>)
  PROVE  IInv'
<1>1. CASE StartServer
  <2>1. /\ ca = None /\ ca' = Certificate("CA", Horizon) /\ serial' = serial + 1
        /\ used' = used \union {serial} /\ repeated' = (repeated \/ serial \in used)
        /\ UNCHANGED <<leafs, now, call, overlap, tun>> /\ srv' = "running"
    BY <1>1 DEF StartServer, CAGen, Sign
  <2>2. \A p \in Callers : ~Counting(call[p]) /\ call[p].at \notin {"sign", "store"}
    BY <2>1 DEF IInv, Made, Counting, Tunnels
  <2>3. \A t \in Tunnels : (Phase(tun[t]) /\ Made(call[t]) /\ Asked(tun[t], call[t]))'
    BY <2>1, <2>2 DEF IInv, Phase, Made, Asked, Good, Counting, Tunnels
  <2>4. TypeOK' /\ Kept'
    <3>1. serial \in Nat /\ Horizon \in Nat
      BY CertAssumption DEF IInv, TypeOK, CertsOK
    <3>2. ca' \in CertSet /\ serial' \in Nat
      BY <2>1, <3>1 DEF Certificate, CertSet
    <3> QED
      BY <2>1, <3>2 DEF IInv, TypeOK, CertsOK, Called, Kept
  <2>5. Serials'
    <3>1. serial \in Nat /\ used \subseteq Nat /\ repeated \in BOOLEAN /\ overlap \in BOOLEAN
      BY DEF IInv, TypeOK, CertsOK, Serials
    <3>2. used' \subseteq Nat /\ repeated' \in BOOLEAN /\ overlap' \in BOOLEAN
      BY <2>1, <3>1
    <3>3. ASSUME overlap = FALSE
          PROVE  repeated' = FALSE /\ serial \notin used /\ \A s \in used : s <= serial
      BY <2>1, <2>2, <3>3 DEF IInv, Serials
    <3>4. ASSUME overlap = FALSE
          PROVE  (\A s \in used' : s <= serial') /\ serial' \notin used'
      <4>1. \A s \in used' : s \in Nat /\ s <= serial
        <5>1. \A s \in used : s \in Nat /\ s <= serial
          BY <3>1, <3>3, <3>4
        <5>2. used' = used \union {serial} /\ serial <= serial
          BY <2>1, <3>1
        <5> QED
          BY <3>1, <5>1, <5>2
      <4>2. serial' = serial + 1
        BY <2>1
      <4> QED
        BY <3>1, <4>1, <4>2
    <3> QED
      BY <2>1, <2>2, <3>2, <3>3, <3>4 DEF Serials, Counting
  <2> QED
    BY <2>3, <2>4, <2>5 DEF IInv
<1>2. CASE Signal \/ (Tick /\ UNCHANGED <<srv, tun>>)
  <2>1. /\ UNCHANGED <<ca, leafs, serial, call, certObs, tun>>
        /\ now' \in 0..Horizon /\ srv' \in {"starting", "running", "draining", "exited"}
    BY <1>2, CertAssumption DEF Signal, Tick, certVars, IInv, TypeOK, CertsOK
  <2> QED
    BY <2>1 DEF certObs, IInv, TypeOK, CertsOK, Called, Kept, Serials, Counting,
                Phase, Made, Asked, Good
<1> QED
  BY <1>1, <1>2

\* No step leaves the invariant.
LEMMA StepOK ==
  ASSUME IInv, [Next]_vars
  PROVE  IInv'
<1>1. CASE UNCHANGED vars
  BY <1>1 DEF vars, certVars, certObs, IInv, TypeOK, CertsOK, Called, Kept, Serials, Counting,
              Phase, Made, Asked, Good
<1>2. CASE StartServer \/ Signal \/ (Tick /\ UNCHANGED <<srv, tun>>)
  BY <1>2, ProgramKeeps
<1>3. CASE Shutdown \/ Abort
  BY <1>3, ExitKeeps DEF Shutdown, Abort
<1>4. ASSUME NEW t \in Tunnels, TunnelStep(t) \/ Peer(t) PROVE IInv'
  BY <1>4, HandlerKeeps, ConnKeeps, ConnectKeeps, HandshakeKeeps, TakeKeeps, LeafKeeps
     DEF TunnelStep, Peer, HandlerStep, CallStep, ConnStep, Tunnels
<1> QED
  BY <1>1, <1>2, <1>3, <1>4 DEF Next

\* What all the theorems follow from.
LEMMA Invariant == Spec => []IInv
<1>1. Init => IInv
  <2> SUFFICES ASSUME Init PROVE IInv
    OBVIOUS
  <2>1. now \in 0..Horizon
    BY CertAssumption DEF Init, CertInit
  <2> QED
    BY <2>1, NothingLeft DEF Init, CertInit
<1>2. IInv /\ [Next]_vars => IInv'
  BY StepOK
<1> QED
  BY <1>1, <1>2, PTL DEF Spec

-----------------------------------------------------------------------------
(* Theorems *)

\* Every reachable state is well formed; the two goroutines of a tunnel are never in
\* LeafCert together, so each has one call at most.
THEOREM TunnelTypes == Spec => []TypeOK
<1>1. IInv => TypeOK
  BY DEF IInv
<1> QED
  BY <1>1, Invariant, PTL

\* connWait's channel is closed once in each tunnel, and listenList.Close, which has
\* nothing left to close, never does it too early.
THEOREM ChannelClosedOnce == Spec => []ClosedOnce
<1>1. IInv => ClosedOnce
  BY DEF IInv, Phase, ClosedOnce
<1> QED
  BY <1>1, Invariant, PTL

\* The deferred calls of handleConnect never close the connection while the goroutine
\* serves it; it may be about to close it too.
THEOREM NeverCutOff == Spec => []NoCutOff
<1>1. IInv => NoCutOff
  <2> SUFFICES ASSUME IInv, NEW t \in Tunnels
               PROVE  /\ tun[t].conn \in {"handshake", "cert", "serving", "closing"} =>
                           tun[t].raw = "open" /\ tun[t].h \in {"serve", "wait"}
                      /\ tun[t].h = "returned" /\ tun[t].cs + tun[t].closes > 0 =>
                           tun[t].raw = "closed"
    BY DEF NoCutOff
  <2>1. Phase(tun[t])
    BY DEF IInv
  <2> QED
    BY <2>1 DEF Phase
<1> QED
  BY <1>1, Invariant, PTL

\* Whatever calls of LeafCert race for the map, a client is shown a certificate for the
\* name that it asked for, that had more than the margin left when it was asked for.
THEOREM ShownFits == Spec => []CertFits
<1>1. IInv => CertFits
  BY DEF IInv, Asked, Good, CertFits
<1> QED
  BY <1>1, Invariant, PTL

\* Serial numbers repeat only after two calls of LeafCert overlapped.
THEOREM SerialsStayApart == Spec => []SerialsApart
<1>1. IInv => SerialsApart
  BY DEF IInv, Serials, SerialsApart
<1> QED
  BY <1>1, Invariant, PTL
=============================================================================
