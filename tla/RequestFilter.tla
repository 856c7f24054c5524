---------------------------- MODULE RequestFilter ---------------------------
(***************************************************************************)
(* proxy.filterReq and storageGenReqHash: which differences between two    *)
(* requests the recording sees.  A request is [method, url, header, query, *)
(* body], with header and query functions from names to values; the url is *)
(* without its query.  A filter is [method, urls, header, query]: the      *)
(* method and the urls under its prefix that it is for, None for all, and  *)
(* what it does to a header or a query parameter, by name.                 *)
(*                                                                         *)
(* Query() drops what does not parse: query holds the parameters that do.  *)
(***************************************************************************)
EXTENDS Functions

CONSTANTS
  Filters,    \* conf.Proxy.Filters; ranging over the maps of one has no order
  None

ASSUME FilterAssumption ==
  \A f \in Filters : \A part \in {"header", "query"} :
    \A name \in DOMAIN f[part] : f[part][name] \in {"strip", "ignore"}

HopHeaders == {"Connection", "Keep-Alive", "Proxy-Authenticate", "Proxy-Authorization",
               "Te", "Trailers", "Transfer-Encoding", "Upgrade"}
ExcludeHeaders == {"X-Forwarded-For"}

Applies(f, q) == f.method \in {None, q.method} /\ (f.urls = None \/ q.url \in f.urls)

\* Definitions marked "Mutant" are changed forms of the one that follows, which a
\* bug in the code could have; nothing uses them.

\* Mutant: one loop for headers and query parameters.
StruckAnywhere(q, part, actions) ==
  UNION {{name \in DOMAIN f[p] : f[p][name] \in actions} :
           f \in {g \in Filters : Applies(g, q)}, p \in {"header", "query"}}

\* The names that the filters for this request delete, of a part of it.
Struck(q, part, actions) ==
  UNION {{name \in DOMAIN f[part] : f[part][name] \in actions} :
           f \in {g \in Filters : Applies(g, q)}}

Without(fields, names) == Restrict(fields, DOMAIN fields \ names)

\* A copy of a request with other header and query.
Copied(q, header, query) ==
  [method |-> q.method, url |-> q.url, header |-> header, query |-> query, body |-> q.body]

\* serveWithCache deletes the hop-by-hop headers before it filters.  The client's
\* address is appended to X-Forwarded-For after that, on neither of the two copies.
Filtered(q, actions) ==
  Copied(q, Without(q.header, HopHeaders \union Struck(q, "header", actions)),
            Without(q.query, Struck(q, "query", actions)))

\* The copy that goes upstream, and the one that is looked up and recorded.
Sent(q)   == Filtered(q, {"strip"})
Stored(q) == Filtered(q, {"strip", "ignore"})

\* The request as its hash and the directory of its files tell it from others.
Key(q) == Copied(q, Without(Stored(q).header, ExcludeHeaders), Stored(q).query)

-----------------------------------------------------------------------------
(* What the configuration lets the recording overlook                        *)

\* The names that may differ in requests answered alike.
Excused(q, part) ==
  (UNION {DOMAIN f[part] : f \in {g \in Filters : Applies(g, q)}})
    \union (IF part = "header" THEN HopHeaders \union ExcludeHeaders ELSE {})

AgreeBut(fields, others, names) == Without(fields, names) = Without(others, names)

\* What was sent upstream, and the answer to it, will do for request q.
Fits(sent, q) ==
  /\ sent.method = q.method /\ sent.url = q.url /\ sent.body = q.body
  /\ \A part \in {"header", "query"} : AgreeBut(sent[part], q[part], Excused(q, part))
=============================================================================
