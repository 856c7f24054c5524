---------------------------- MODULE MC_ProxyCache ---------------------------
(* Instances of ProxyCache with two clients. *)
EXTENDS ProxyCache, TLC

CONSTANTS c1, c2, u1, u2

\* What a client sends: a header that the filter below ignores, a query parameter
\* that it strips, hop-by-hop and excluded headers; and a header with the name of that
\* parameter, and a parameter with the name of that header.
Request(url, header, query) ==
  [method |-> "GET", url |-> url, query |-> query, body |-> "none",
   header |-> "Accept" :> 1 @@ "nonce" :> 1 @@ header]

Plain(url)   == Request(url, << >>, << >>)
Dated(url)   == Request(url, "Date" :> 2 @@ "Te" :> 1, "nonce" :> 1)
Relayed(url) == Request(url, "X-Forwarded-For" :> 1, << >>)
Asked(url)   == Request(url, << >>, "Date" :> 1)

MCFilters ==
  {[method |-> "GET", urls |-> {u1, u2}, header |-> "Date" :> "ignore",
    query |-> "nonce" :> "strip"],
   [method |-> "POST", urls |-> None, header |-> "Accept" :> "strip", query |-> << >>]}

\* Each client has a key of its own, though the two requests differ in little, or both
\* share one: Dated and Relayed are recorded as one request, Asked is not.
OwnRequests  == c1 :> {Dated(u1)} @@ c2 :> {Asked(u1)}
SameRequests == c1 :> {Relayed(u1)} @@ c2 :> {Dated(u1)}
CutRequests  == c1 :> {Plain(u1)} @@ c2 :> {Plain(u2)}

Budget(r, f, hf, h, a, l, s) ==
  [k \in Bounded |-> CASE k = "request" -> r [] k = "fault" -> f [] k = "headFault" -> hf
                      [] k = "hashFault" -> h [] k = "abort" -> a [] k = "look" -> l
                      [] k = "save" -> s]

\*               request fault headFault hashFault abort look save
OwnQuota  == Budget(3,    1,    0,        0,        1,    1,   1)
SameQuota == Budget(3,    0,    1,        1,        1,    0,   1)
CutQuota  == Budget(1,    0,    0,        0,        1,    0,   0)
=============================================================================
