-------------------------- MODULE ProxyCacheProofs --------------------------
(***************************************************************************)
(* Theorems about ProxyCache: for any clients, requests, filters, answers, *)
(* length of bodies and quota.                                             *)
(***************************************************************************)
EXTENDS ProxyCache, SequenceTheorems, TLAPS

-----------------------------------------------------------------------------
(* The filter *)

\* What goes upstream, and what is left in the key.
LEMMA SentIs ==
  ASSUME NEW q
  PROVE  /\ Sent(q).method = q.method /\ Sent(q).url = q.url /\ Sent(q).body = q.body
         /\ Sent(q).header = Without(q.header, HopHeaders \union Struck(q, "header", {"strip"}))
         /\ Sent(q).query = Without(q.query, Struck(q, "query", {"strip"}))
BY DEF Sent, Filtered, Copied

LEMMA KeyIs ==
  ASSUME NEW q
  PROVE  /\ Key(q).method = q.method /\ Key(q).url = q.url /\ Key(q).body = q.body
         /\ Key(q).header = Without(Without(q.header,
              HopHeaders \union Struck(q, "header", {"strip", "ignore"})), ExcludeHeaders)
         /\ Key(q).query = Without(q.query, Struck(q, "query", {"strip", "ignore"}))
BY DEF Key, Stored, Filtered, Copied

\* What the filters delete is what they name.
LEMMA StruckNames ==
  ASSUME NEW q, NEW part \in {"header", "query"}
  PROVE  /\ Struck(q, part, {"strip", "ignore"})
              = UNION {DOMAIN f[part] : f \in {g \in Filters : Applies(g, q)}}
         /\ Struck(q, part, {"strip"})
              \subseteq UNION {DOMAIN f[part] : f \in {g \in Filters : Applies(g, q)}}
BY FilterAssumption DEF Struck

\* Two requests of one key are for the same url, so the same filters apply to them.
LEMMA SameFilters ==
  ASSUME NEW q, NEW r, q.method = r.method, q.url = r.url, NEW part
  PROVE  /\ \A actions : Struck(q, part, actions) = Struck(r, part, actions)
         /\ Excused(q, part) = Excused(r, part)
<1>1. \A f : Applies(f, q) = Applies(f, r)
  BY DEF Applies
<1> QED
  BY <1>1 DEF Struck, Excused

\* Taking away more names later is taking them away at once.
LEMMA WithoutMore ==
  ASSUME NEW fields, NEW some, NEW all, some \subseteq all
  PROVE  Without(Without(fields, some), all) = Without(fields, all)
BY DEF Without, Restrict

\* Taking away twice is taking away both.
LEMMA WithoutBoth ==
  ASSUME NEW fields, NEW some, NEW more
  PROVE  Without(Without(fields, some), more) = Without(fields, some \union more)
BY DEF Without, Restrict

\* A request that has the key of another can be answered with what was sent upstream
\* for that other: the two agree in everything that no filter names.
THEOREM KeyFits ==
  ASSUME NEW q, NEW r, Key(q) = Key(r)
  PROVE  Fits(Sent(q), r)
<1> DEFINE Named(part)  == Struck(q, part, {"strip", "ignore"})
           Fixed(part)  == IF part = "header" THEN HopHeaders \union ExcludeHeaders ELSE {}
           Hidden(part) == Named(part) \union Fixed(part)
<1>1. q.method = r.method /\ q.url = r.url /\ q.body = r.body
  BY KeyIs
<1>2. ASSUME NEW part \in {"header", "query"}
      PROVE  /\ Struck(r, part, {"strip", "ignore"}) = Named(part)
             /\ Struck(q, part, {"strip"}) \subseteq Named(part)
             /\ Excused(r, part) = Hidden(part)
  <2>1. Struck(r, part, {"strip", "ignore"}) = Named(part)
    BY <1>1, SameFilters
  <2>2. Struck(q, part, {"strip"}) \subseteq Named(part)
    BY StruckNames
  <2>3. Excused(q, part) = Hidden(part)
    BY StruckNames DEF Excused
  <2> QED
    BY <1>1, <2>1, <2>2, <2>3, SameFilters
<1>3. ASSUME NEW s \in {q, r}
      PROVE  /\ Key(s).header = Without(s.header, Hidden("header"))
             /\ Key(s).query = Without(s.query, Hidden("query"))
  <2>1. Struck(s, "header", {"strip", "ignore"}) = Named("header")
    BY <1>2
  <2>2. Struck(s, "query", {"strip", "ignore"}) = Named("query")
    BY <1>2
  <2>3. (HopHeaders \union Named("header")) \union ExcludeHeaders = Hidden("header")
    OBVIOUS
  <2>4. Named("query") = Hidden("query")
    OBVIOUS
  <2>5. Key(s).header
          = Without(Without(s.header, HopHeaders \union Named("header")), ExcludeHeaders)
    BY <2>1, KeyIs
  <2>6. Key(s).header = Without(s.header, Hidden("header"))
    BY <2>3, <2>5, WithoutBoth
  <2>7. Key(s).query = Without(s.query, Hidden("query"))
    BY <2>2, <2>4, KeyIs
  <2> HIDE DEF Hidden
  <2> QED
    BY <2>6, <2>7
<1>4. /\ HopHeaders \union Struck(q, "header", {"strip"}) \subseteq Hidden("header")
      /\ Struck(q, "query", {"strip"}) \subseteq Hidden("query")
  <2>1. Struck(q, "header", {"strip"}) \subseteq Named("header")
    BY <1>2
  <2>2. Struck(q, "query", {"strip"}) \subseteq Named("query")
    BY <1>2
  <2> HIDE DEF Named
  <2> QED
    BY <2>1, <2>2
<1> HIDE DEF Hidden
<1>5. /\ Without(Sent(q).header, Hidden("header")) = Without(q.header, Hidden("header"))
      /\ Without(Sent(q).query, Hidden("query")) = Without(q.query, Hidden("query"))
  <2> DEFINE some == HopHeaders \union Struck(q, "header", {"strip"})
  <2>1. Without(Without(q.header, some), Hidden("header")) = Without(q.header, Hidden("header"))
    <3> HIDE DEF some
    <3>1. some \subseteq Hidden("header")
      BY <1>4 DEF some
    <3> QED
      BY <3>1, WithoutMore
  <2>2. Without(Without(q.query, Struck(q, "query", {"strip"})), Hidden("query"))
          = Without(q.query, Hidden("query"))
    BY <1>4, WithoutMore
  <2> QED
    BY <2>1, <2>2, SentIs
<1>6. ASSUME NEW part \in {"header", "query"}
      PROVE  AgreeBut(Sent(q)[part], r[part], Excused(r, part))
  <2>1. Excused(r, part) = Hidden(part)
    BY <1>2
  <2>2. CASE part = "header"
    BY <1>3, <1>5, <2>1, <2>2 DEF AgreeBut
  <2>3. CASE part = "query"
    BY <1>3, <1>5, <2>1, <2>3 DEF AgreeBut
  <2> QED
    BY <2>2, <2>3
<1> QED
  BY <1>1, <1>6, SentIs DEF Fits

-----------------------------------------------------------------------------
(* The inductive invariant *)

Blob  == [open : BOOLEAN, data : Content]
State == [at : Labels, req : Requests \union {None}, ans : AllAnswers,
          n : 0..Chunks, w : 0..Len(wr), hd : Content]

Writing  == {"reqHead", "copy", "head"}
Fetched  == {"rehash", "putReq", "reqHead", "link", "putBody", "copy", "putHead", "head", "pass"}
Linking  == {"reqHead", "link", "putBody", "copy", "putHead", "head"}
Bodying  == {"putBody", "copy", "putHead", "head"}
Heading  == {"copy", "putHead", "head"}
RespParts == {"resp-head", "resp-body"}

\* The content d belongs to an answer to a request of the key k.
AnswerTo(k, d) == \E q \in Requests : Key(q) = k /\ d.ans.to = Sent(q)

\* The locals of a request: what it was answered, what it found, and which files it
\* has already put.
Locals ==
  \A x \in Clients :
    /\ c[x].at # "idle" => c[x].req \in Requests
    /\ c[x].at \in Fetched => c[x].ans.to = Sent(c[x].req)
    /\ c[x].at = "readBody" => AnswerTo(Key(c[x].req), c[x].hd)

Placed ==
  \A x \in Clients :
    LET parts == file[Key(c[x].req)]
    IN /\ c[x].at \in Linking => parts["req-head"] > 0
       /\ c[x].at \in Bodying => parts["req-body"] > 0
       /\ c[x].at \in Heading => parts["resp-body"] > 0

\* A writer is in the hands of one request, which knows what it wrote to it, and an
\* open writer in those of some request.
Writers ==
  /\ \A x \in Clients :
       /\ c[x].at = "reqHead" => Data(c[x].w) = NoData
       /\ c[x].at = "copy" => Data(c[x].w) = [ans |-> c[x].ans, n |-> c[x].n]
  /\ \A x, y \in Clients :
       x # y /\ c[x].at \in Writing /\ c[y].at \in Writing => c[x].w # c[y].w

InUse ==
  \A f \in 1..Len(wr) : wr[f].open => \E x \in Clients : c[x].at \in Writing /\ c[x].w = f

\* What is recorded under a key answers a request of that key, and so does a hit.
Origin ==
  \A files \in {file, kept} : \A k \in Keys : \A part \in RespParts :
    files[k][part] > 0 => AnswerTo(k, Data(files[k][part]))

HitOrigin ==
  hit.req # None => /\ hit.req \in Requests
                    /\ \A i \in {1, 2} : AnswerTo(Key(hit.req), hit.resp[i])

\* A closed writer, of a response only if that answers a request of the key, or none.
Complete(k, part, f) ==
  \/ f = Absent
  \/ f \in 1..Len(wr) /\ Sealed(f) /\ (part \in RespParts => AnswerTo(k, Data(f)))

Shape == [Keys -> [Parts -> Absent..Len(wr)]]

\* The hashes in the entries, and what was saved, are of complete blobs; an entry with a
\* hash has a file.
Hashes ==
  /\ hash \in Shape /\ kept \in Shape
  /\ \A k \in Keys, part \in Parts :
       /\ Complete(k, part, hash[k][part]) /\ Complete(k, part, kept[k][part])
       /\ hash[k][part] # Absent => file[k][part] > 0

\* No body is copied before there is a writer for it.
Fresh == \A x \in Clients : c[x].at \notin {"copy", "putHead", "head", "pass"} => c[x].n = 0

IInv == TypeOK /\ Locals /\ Placed /\ Writers /\ InUse /\ Origin /\ HitOrigin /\ HeadLast /\ Hashes

\* The types, by the names the proofs use.
LEMMA Types ==
  ASSUME TypeOK
  PROVE  /\ wr \in Seq(Blob) /\ Len(wr) \in Nat
         /\ c \in [Clients -> State]
         /\ NoData \in Content
         /\ \A f \in 1..Len(wr) : wr[f] \in Blob
<1>1. wr \in Seq(Blob) /\ c \in [Clients -> State]
  BY DEF TypeOK, Blob, State
<1>2. Len(wr) \in Nat /\ \A f \in 1..Len(wr) : wr[f] \in Blob
  BY <1>1, ElementOfSeq, LenProperties
<1>3. None \in AllAnswers /\ 0 \in 0..Chunks
  BY CacheAssumption DEF AllAnswers
<1> QED
  BY <1>1, <1>2, <1>3 DEF NoData, Content

\* A client that has no request is in a state.
LEMMA IdleIsState ==
  ASSUME TypeOK
  PROVE  Idle \in State
<1>1. /\ None \in AllAnswers /\ 0 \in 0..Chunks /\ 0 \in 0..Len(wr) /\ NoData \in Content
  BY Types, CacheAssumption DEF AllAnswers
<1> QED
  BY <1>1 DEF Idle, State, Labels

\* A quota is never overdrawn.
LEMMA SpendKeeps ==
  ASSUME NEW k \in Bounded, left \in [Bounded -> Nat], Spend(k)
  PROVE  left' \in [Bounded -> Nat]
BY DEF Spend

LEMMA Begins ==
  ASSUME c \in [Clients -> State], NEW x \in Clients, NEW q, Begin(x, q)
  PROVE  c' = [c EXCEPT ![x] = [c[x] EXCEPT !.at = "readHead", !.req = q]]
<1>1. c' = [c EXCEPT ![x].at = "readHead", ![x].req = q]
  BY DEF Begin
<1> QED
  BY <1>1 DEF State

\* The key of a request is one of the keys.
LEMMA KeyInKeys == \A q \in Requests : Key(q) \in Keys
BY DEF Keys

-----------------------------------------------------------------------------
(* Writers and hashes from one state to the next *)

\* A closed writer is not written to or opened again.
Grown ==
  /\ Len(wr') \in Nat /\ Len(wr) <= Len(wr')
  /\ \A f \in 1..Len(wr) : ~wr[f].open => wr'[f] = wr[f]

LEMMA WritersGrow ==
  ASSUME TypeOK, [Next]_vars
  PROVE  Grown
<1>1. wr \in Seq(Blob) /\ Len(wr) \in Nat
  BY Types
<1>2. ASSUME wr' = wr PROVE Grown
  BY <1>1, <1>2 DEF Grown
<1>3. ASSUME NEW b \in Blob, wr' = Append(wr, b) PROVE Grown
  BY <1>1, <1>3, AppendProperties DEF Grown
<1>4. ASSUME NEW x \in Clients, c[x].at \in Writing, NEW b, wr' = [wr EXCEPT ![c[x].w] = b]
      PROVE  Grown
  <2>1. wr[c[x].w].open
    BY <1>4 DEF TypeOK, Writing, Open
  <2>2. Len(wr') = Len(wr) /\ \A f \in 1..Len(wr) : f # c[x].w => wr'[f] = wr[f]
    BY <1>1, <1>4
  <2> QED
    BY <1>1, <2>1, <2>2 DEF Grown
<1>5. ASSUME NEW x \in Clients, NEW part, NEW data \in Content, NEW l,
             RootWrite(x, part, data, l) \/ RootWriteFails(x, part, "pass")
      PROVE  Grown
  <2>1. [open |-> TRUE, data |-> data] \in Blob
    BY DEF Blob
  <2> QED
    BY <1>2, <1>3, <1>5, <2>1 DEF RootWrite, RootWriteFails
<1>6. ASSUME NEW x \in Clients, Serve(x) PROVE Grown
  <2>1. c[x] \in State /\ NoData \in Content /\ [ans |-> c[x].ans, n |-> c[x].n] \in Content
        /\ [ans |-> c[x].ans, n |-> 0] \in Content
    BY Types, CacheAssumption DEF State, Content
  <2>2. PutReqHead(x) \/ PutRespBody(x) \/ PutRespHead(x) => Grown
    BY <1>5, <2>1 DEF PutReqHead, PutRespBody, PutRespHead
  <2>3. LinkReqBody(x) => Grown
    <3>1. [open |-> FALSE, data |-> NoData] \in Blob
      BY <2>1 DEF Blob
    <3> QED
      BY <1>3, <3>1 DEF LinkReqBody
  <2>4. CloseReqHead(x) \/ CloseBody(x) \/ CloseRespHead(x)
          => Grown
    BY <1>4 DEF CloseReqHead, CloseBody, CloseRespHead, CloseWriter, Writing
  <2>5. Copy(x) => Grown
    <3> SUFFICES ASSUME Copy(x) PROVE Grown
      OBVIOUS
    <3> QED
      BY <1>4 DEF Copy, Writing
  <2>6. GenReqHashFails(x) \/ ReadHead(x) \/ ReadBody(x) \/ Fetch(x) \/ Rehash(x) \/ Pass(x)
          => Grown
    BY <1>2 DEF GenReqHashFails, ReadHead, ReadBody, Fetch, Rehash, Pass
  <2> QED
    BY <1>6, <2>2, <2>3, <2>4, <2>5, <2>6 DEF Serve
<1> QED
  BY <1>2, <1>6 DEF Next, Begin, Save, Reopen, HashEntry, vars

\* Nor do files disappear, until the recording is opened.
LEMMA FilesStay ==
  ASSUME TypeOK, [Next]_vars, ~Reopen, NEW k \in Keys, NEW part \in Parts, file[k][part] > 0
  PROVE  file'[k][part] > 0
<1>1. Len(wr) \in Nat /\ file \in [Keys -> [Parts -> Hollow..Len(wr)]]
  BY Types DEF TypeOK
<1>2. ASSUME file' = file PROVE file'[k][part] > 0
  BY <1>2
<1>3. ASSUME NEW j, NEW p, file' = [file EXCEPT ![j][p] = Len(wr) + 1] PROVE file'[k][part] > 0
  BY <1>1, <1>3
<1>4. ASSUME NEW x \in Clients, NEW p, NEW data, NEW l,
             RootWrite(x, p, data, l) \/ RootWriteFails(x, p, l)
      PROVE  file'[k][part] > 0
  <2>1. CASE RootWrite(x, p, data, l)
    BY <1>3, <2>1 DEF RootWrite
  <2>2. CASE RootWriteFails(x, p, l)
    <3>1. PICK j : file' = [file EXCEPT ![j][p] = IF @ = Absent THEN Hollow ELSE @]
      BY <2>2 DEF RootWriteFails
    <3> QED
      BY <1>1, <3>1 DEF Absent
  <2> QED
    BY <1>4, <2>1, <2>2
<1>5. ASSUME NEW x \in Clients, Serve(x) PROVE file'[k][part] > 0
  <2>1. PutReqHead(x) \/ PutRespBody(x) \/ PutRespHead(x) => file'[k][part] > 0
    BY <1>4 DEF PutReqHead, PutRespBody, PutRespHead
  <2>2. LinkReqBody(x) => file'[k][part] > 0
    BY <1>3 DEF LinkReqBody
  <2>3. CloseReqHead(x) \/ CloseBody(x) \/ CloseRespHead(x) \/ Copy(x) => file'[k][part] > 0
    BY <1>2 DEF CloseReqHead, CloseBody, CloseRespHead, Copy
  <2>4. GenReqHashFails(x) \/ ReadHead(x) \/ ReadBody(x) \/ Fetch(x) \/ Rehash(x) \/ Pass(x)
          => file'[k][part] > 0
    BY <1>2 DEF GenReqHashFails, ReadHead, ReadBody, Fetch, Rehash, Pass
  <2> QED
    BY <1>5, <2>1, <2>2, <2>3, <2>4 DEF Serve
<1> QED
  BY <1>2, <1>5 DEF Next, Begin, Save, HashEntry, vars

LEMMA CompleteStays ==
  ASSUME Grown, NEW k, NEW part, NEW f, Complete(k, part, f)
  PROVE  Complete(k, part, f)'
<1>1. CASE f = Absent
  BY <1>1 DEF Complete
<1>2. CASE f # Absent
  <2>1. f \in 1..Len(wr) /\ Sealed(f) /\ (part \in RespParts => AnswerTo(k, Data(f)))
    BY <1>2 DEF Complete
  <2>2. wr'[f] = wr[f] /\ f \in 1..Len(wr')
    BY <2>1 DEF Grown, Sealed
  <2> QED
    BY <2>1, <2>2 DEF Complete, Sealed, AnswerTo, Data
<1> QED
  BY <1>1, <1>2

\* New hashes and what is saved are of blobs that are complete already.
LEMMA HashStep ==
  ASSUME TypeOK, [Next]_vars, hash' \in Shape, kept' \in Shape,
         \A k \in Keys, part \in Parts :
           /\ Complete(k, part, hash'[k][part]) /\ Complete(k, part, kept'[k][part])
           /\ hash'[k][part] # Absent => file'[k][part] > 0
  PROVE  Hashes'
<1>1. Grown /\ Len(wr) \in Nat
  BY WritersGrow, Types
<1>2. ASSUME NEW k \in Keys, NEW part \in Parts
      PROVE  Complete(k, part, hash[k][part])' /\ Complete(k, part, kept[k][part])'
  <2>1. PICK f, g : f = hash'[k][part] /\ g = kept'[k][part]
    OBVIOUS
  <2>2. Complete(k, part, f)' /\ Complete(k, part, g)'
    BY <1>1, <2>1, CompleteStays
  <2> QED
    BY <2>1, <2>2 DEF Complete, Sealed, AnswerTo, Data
<1>3. hash' \in Shape' /\ kept' \in Shape'
  <2>1. Absent..Len(wr) \subseteq Absent..Len(wr')
    BY <1>1 DEF Grown, Absent
  <2> QED
    BY <2>1 DEF Shape
<1> QED
  BY <1>2, <1>3 DEF Hashes

\* The hash of a file whose writer is closed.
LEMMA HashedOK ==
  ASSUME IInv, [Next]_vars, NEW k \in Keys, NEW part \in Parts,
         Sealed(file[k][part]), Hashed(k, part), UNCHANGED <<file, kept>>
  PROVE  Hashes'
<1>1. /\ hash \in Shape /\ kept \in Shape /\ file[k][part] \in Hollow..Len(wr)
      /\ Len(wr) \in Nat
  BY Types DEF IInv, Hashes, TypeOK
<1>2. file[k][part] \in 1..Len(wr)
  BY <1>1 DEF Sealed, Hollow
<1>3. Complete(k, part, file[k][part])
  BY <1>2 DEF Complete, IInv, Origin, Sealed
<1>4. /\ hash'[k][part] = file[k][part] /\ hash' \in Shape
      /\ \A j \in Keys, p \in Parts : j # k \/ p # part => hash'[j][p] = hash[j][p]
  BY <1>1, <1>2 DEF Hashed, Shape, Absent
<1>5. ASSUME NEW j \in Keys, NEW p \in Parts
      PROVE  /\ Complete(j, p, hash'[j][p]) /\ Complete(j, p, kept'[j][p])
             /\ hash'[j][p] # Absent => file'[j][p] > 0
  <2>1. CASE j = k /\ p = part
    BY <1>2, <1>3, <1>4, <2>1 DEF IInv, Hashes
  <2>2. CASE j # k \/ p # part
    BY <1>4, <2>2 DEF IInv, Hashes
  <2> QED
    BY <2>1, <2>2
<1> QED
  BY <1>1, <1>4, <1>5, HashStep DEF IInv

\* A step that leaves the hashes alone.
LEMMA HashesStay ==
  ASSUME IInv, [Next]_vars, ~Reopen, UNCHANGED <<hash, kept>>
  PROVE  Hashes'
BY HashStep, FilesStay DEF IInv, Hashes

\* No step takes a hash from a writer that is open.
LEMMA HashesKeep ==
  ASSUME IInv, Next
  PROVE  Hashes'
<1>1. hash \in Shape /\ kept \in Shape /\ Len(wr) \in Nat
  BY Types DEF IInv, Hashes
<1>2. ASSUME NEW x \in Clients, Serve(x) \/ \E q \in RequestsOf[x] : Begin(x, q)
      PROVE  Hashes'
  <2>1. CASE UNCHANGED <<hash, kept>> /\ ~Reopen
    BY <2>1, HashesStay
  <2>2. CASE ReadHead(x) /\ ~UNCHANGED hash
    <3>1. "resp-head" \in Parts /\ Key(c[x].req) \in Keys
      BY <2>2, KeyInKeys DEF Parts, ReadHead, IInv, Locals
    <3> QED
      BY <2>2, <3>1, HashedOK DEF ReadHead
  <2>3. CASE ReadBody(x) /\ ~UNCHANGED hash
    <3>1. "resp-body" \in Parts /\ Key(c[x].req) \in Keys
      BY <2>3, KeyInKeys DEF Parts, ReadBody, IInv, Locals
    <3> QED
      BY <2>3, <3>1, HashedOK DEF ReadBody
  <2>4. CASE LinkReqBody(x)
    <3>1. PICK k : k = Key(c[x].req)
      OBVIOUS
    <3>2. ~Reopen /\ kept' = kept /\ hash' = [hash EXCEPT ![k]["req-body"] = Absent]
      BY <2>4, <3>1 DEF LinkReqBody, Reopen
    <3>3. /\ hash' \in Shape
          /\ \A j \in Keys, p \in Parts : hash'[j][p] \in {hash[j][p], Absent}
      <4>1. Absent \in Absent..Len(wr)
        BY <1>1 DEF Absent
      <4> QED
        BY <1>1, <3>2, <4>1 DEF Shape
    <3>4. ASSUME NEW j \in Keys, NEW p \in Parts
          PROVE  /\ Complete(j, p, hash'[j][p]) /\ Complete(j, p, kept'[j][p])
                 /\ hash'[j][p] # Absent => file'[j][p] > 0
      <4>1. Complete(j, p, Absent)
        BY DEF Complete
      <4>2. hash[j][p] # Absent => file'[j][p] > 0
        BY <3>2, FilesStay DEF IInv, Hashes
      <4> QED
        BY <3>2, <3>3, <4>1, <4>2 DEF IInv, Hashes
    <3> QED
      BY <1>1, <3>2, <3>3, <3>4, HashStep DEF IInv
  <2>5. ~Reopen /\ (UNCHANGED <<hash, kept>> \/ ReadHead(x) \/ ReadBody(x) \/ LinkReqBody(x))
    <3>1. replay' = replay
      BY <1>2 DEF Serve, Begin, GenReqHashFails, ReadHead, ReadBody, Fetch, Rehash, PutReqHead,
         CloseReqHead, LinkReqBody, PutRespBody, Copy, CloseBody, PutRespHead, CloseRespHead,
         Pass, RootWrite, RootWriteFails
    <3> QED
      BY <1>2, <3>1
         DEF Serve, Begin, GenReqHashFails, Fetch, Rehash, PutReqHead, CloseReqHead,
             PutRespBody, Copy, CloseBody, PutRespHead, CloseRespHead, Pass, RootWrite,
             RootWriteFails, Reopen
  <2> QED
    BY <2>1, <2>2, <2>3, <2>4, <2>5 DEF ReadHead, ReadBody
<1>3. CASE Save
  <2>1. /\ kept' = hash' /\ file' = file
        /\ hash' = [k \in Keys |-> [part \in Parts |->
                      IF hash[k][part] # Absent THEN hash[k][part] ELSE file[k][part]]]
    BY <1>3 DEF Save
  <2>2. \A k \in Keys, part \in Parts :
          hash'[k][part] = IF hash[k][part] # Absent THEN hash[k][part] ELSE file[k][part]
    BY <2>1
  <2>3. ASSUME NEW k \in Keys, NEW part \in Parts
        PROVE  /\ Complete(k, part, hash'[k][part]) /\ hash'[k][part] \in Absent..Len(wr)
               /\ hash'[k][part] # Absent => file'[k][part] > 0
    <3>1. CASE hash[k][part] # Absent
      BY <1>1, <2>1, <2>2, <3>1 DEF IInv, Hashes, Shape
    <3>2. CASE hash[k][part] = Absent
      <4>1. file[k][part] = Absent \/ Sealed(file[k][part])
        BY <1>3, <3>2 DEF Save, Saveable
      <4>2. file[k][part] \in Hollow..Len(wr)
        BY DEF IInv, TypeOK
      <4>3. file[k][part] = Absent \/ file[k][part] \in 1..Len(wr)
        BY <1>1, <4>1, <4>2 DEF Sealed, Hollow
      <4>4. Complete(k, part, file[k][part])
        BY <4>1, <4>3 DEF Complete, IInv, Origin, Sealed
      <4> QED
        BY <1>1, <2>1, <2>2, <3>2, <4>3, <4>4 DEF Absent
    <3> QED
      BY <3>1, <3>2
  <2>4. hash' \in Shape
    BY <2>1, <2>2, <2>3 DEF Shape
  <2> QED
    BY <2>1, <2>3, <2>4, HashStep DEF IInv
<1>4. CASE Reopen
  <2>1. hash' = kept /\ kept' = kept /\ file' = kept
    BY <1>4 DEF Reopen
  <2>2. \A k \in Keys, part \in Parts : kept[k][part] # Absent => kept[k][part] > 0
    BY DEF IInv, Hashes, Complete, Sealed
  <2> QED
    BY <1>1, <2>1, <2>2, HashStep DEF IInv, Hashes
<1>5. ASSUME NEW k \in Keys, NEW part \in Parts, HashEntry(k, part) PROVE Hashes'
  BY <1>5, HashedOK DEF HashEntry
<1> QED
  BY <1>2, <1>3, <1>4, <1>5 DEF Next

-----------------------------------------------------------------------------
(* What the steps have in common *)

\* A client moves on with other locals, and leaves files and writers alone.
LEMMA MoveKeeps ==
  ASSUME IInv, NEW x \in Clients, NEW s \in State,
         c[x].at \notin Writing, s.at \notin Writing \union Linking,
         s.at # "idle" => s.req \in Requests,
         s.at \in Fetched => s.ans.to = Sent(s.req),
         s.at = "readBody" => AnswerTo(Key(s.req), s.hd),
         c' = [c EXCEPT ![x] = s], left' \in [Bounded -> Nat],
         UNCHANGED <<file, wr, kept>>, HitOrigin', Hashes'
  PROVE  IInv'
<1>1. /\ c \in [Clients -> State] /\ c'[x] = s
      /\ \A y \in Clients \ {x} : c'[y] = c[y]
  BY Types DEF IInv
<1>2. TypeOK'
  <2>1. c' \in [Clients -> State]
    BY <1>1
  <2>2. hash' \in [Keys -> [Parts -> Absent..Len(wr')]]
    BY DEF Hashes, Shape
  <2> QED
    BY <1>1, <2>1, <2>2 DEF IInv, TypeOK, State, Writing, Open
<1>3. Locals'
  BY <1>1 DEF IInv, Locals, AnswerTo
<1>4. Placed'
  BY <1>1 DEF IInv, Placed, Writing, Linking, Bodying, Heading
<1>5. Writers'
  BY <1>1 DEF IInv, Writers, Writing, Data
<1>6. InUse'
  BY <1>1 DEF IInv, InUse
<1>7. Origin' /\ HeadLast'
  BY DEF IInv, Origin, HeadLast, AnswerTo, Data
<1> QED
  BY <1>2, <1>3, <1>4, <1>5, <1>6, <1>7 DEF IInv

\* A file gets a new writer: of a response only for an answer to the request, and the
\* resp-head as the last.
Put(x, part, data, w, l) ==
  /\ wr' = Append(wr, [open |-> IF l \in Writing THEN TRUE ELSE FALSE, data |-> data])
  /\ file' = [file EXCEPT ![Key(c[x].req)][part] = Len(wr) + 1]
  /\ c' = [c EXCEPT ![x] = [c[x] EXCEPT !.w = w, !.at = l]]
  /\ UNCHANGED <<kept, left, hit>>

LEMMA PutKeeps ==
  ASSUME IInv, NEW x \in Clients, NEW part \in Parts, NEW data \in Content,
         NEW l \in Writing \union {"putBody"}, NEW w \in 0..Len(wr) + 1,
         l \in Writing => w = Len(wr) + 1,
         c[x].at \in Fetched \ Writing,
         part \in RespParts => data.ans.to = Sent(c[x].req),
         l = "reqHead" => data = NoData /\ part = "req-head",
         l = "putBody" => part = "req-body" /\ c[x].at \in Linking,
         l = "copy" => data = [ans |-> c[x].ans, n |-> c[x].n] /\ part = "resp-body",
         l \in Heading => c[x].at \in Bodying,
         l = "head" => c[x].at \in Heading,
         part = "resp-head" => c[x].at \in Heading,
         Put(x, part, data, w, l), Hashes'
  PROVE  IInv'
<1> DEFINE f == Len(wr) + 1
           k == Key(c[x].req)
<1>1. /\ wr \in Seq(Blob) /\ Len(wr) \in Nat /\ c[x] \in State
      /\ c[x].req \in Requests /\ k \in Keys
  BY Types, KeyInKeys DEF IInv, Locals, Fetched
<1>2. /\ wr' \in Seq(Blob) /\ Len(wr') = f
      /\ \A i \in 1..Len(wr) : wr'[i] = wr[i]
      /\ wr'[f] = [open |-> IF l \in Writing THEN TRUE ELSE FALSE, data |-> data]
  <2>1. [open |-> IF l \in Writing THEN TRUE ELSE FALSE, data |-> data] \in Blob
    BY DEF Blob
  <2> QED
    BY <1>1, <2>1, AppendProperties DEF Put
<1>3. /\ c'[x] = [c[x] EXCEPT !.w = w, !.at = l]
      /\ \A y \in Clients \ {x} : c'[y] = c[y]
      /\ c' \in [Clients -> State']
  <2>1. /\ c \in [Clients -> State]
        /\ c' = [c EXCEPT ![x] = [c[x] EXCEPT !.w = w, !.at = l]]
    BY Types DEF IInv, Put
  <2>2. \A y \in Clients : c[y] \in State'
    BY <1>1, <1>2, <2>1 DEF State
  <2>3. [c[x] EXCEPT !.w = w, !.at = l] \in State'
    <3>1. l \in Labels /\ w \in 0..Len(wr')
      BY <1>1, <1>2 DEF Writing, Labels
    <3>2. State' = [at : Labels, req : Requests \union {None}, ans : AllAnswers,
                    n : 0..Chunks, w : 0..Len(wr'), hd : Content]
      BY DEF State
    <3> QED
      BY <1>1, <3>1, <3>2 DEF State
  <2> QED
    BY <2>1, <2>2, <2>3
<1>4. /\ file'[k][part] = f
      /\ \A j \in Keys, p \in Parts :
           <<j, p>> # <<k, part>> => file'[j][p] = file[j][p]
      /\ file' \in [Keys -> [Parts -> Hollow..Len(wr')]]
  BY <1>1, <1>2 DEF IInv, TypeOK, Put, Hollow
<1>5. kept' = kept /\ hit' = hit /\ left' = left
  BY DEF Put
<1>6. TypeOK'
  <2>1. kept' \in [Keys -> [Parts -> Absent..Len(wr')]]
    BY <1>1, <1>2, <1>5 DEF IInv, TypeOK, Absent
  <2>2. ASSUME NEW y \in Clients \ {x}, c'[y].at \in Writing PROVE Open(c[y].w)'
    <3>1. c'[y] = c[y] /\ Open(c[y].w) /\ c[y].w \in 0..Len(wr)
      BY <1>3, <2>2, Types DEF IInv, TypeOK, Writing, State
    <3> QED
      BY <1>1, <1>2, <3>1 DEF Open
  <2>3. c'[x].at \in Writing => Open(c[x].w)'
    <3>1. c'[x].at = l /\ c'[x].w = w
      BY <1>1, <1>3 DEF State
    <3>2. l \in Writing => w = f /\ f > 0
      BY <1>1
    <3> QED
      BY <1>2, <3>1, <3>2 DEF Open
  <2>4. \A y \in Clients : c'[y].at \in Writing => Open(c[y].w)'
    BY <2>2, <2>3
  <2>5. left' \in [Bounded -> Nat]
    BY <1>5 DEF IInv, TypeOK
  <2>6. hash' \in [Keys -> [Parts -> Absent..Len(wr')]]
    BY DEF Hashes, Shape
  <2> QED
    BY <1>2, <1>3, <1>4, <2>1, <2>4, <2>5, <2>6 DEF TypeOK, Blob, State, Writing
<1>7. Locals'
  <2>1. l # "idle" /\ l # "readBody" /\ l \in Fetched /\ c'[x].req = c[x].req /\ c'[x].ans = c[x].ans
    BY <1>1, <1>3 DEF State, Writing, Fetched
  <2>2. c'[x].at = l
    BY <1>1, <1>3 DEF State
  <2>3. c[x].ans.to = Sent(c[x].req)
    BY DEF IInv, Locals
  <2>4. ASSUME NEW y \in Clients \ {x}
        PROVE  /\ c'[y].at # "idle" => c'[y].req \in Requests
               /\ c'[y].at \in Fetched => c'[y].ans.to = Sent(c'[y].req)
               /\ c'[y].at = "readBody" => AnswerTo(Key(c'[y].req), c'[y].hd)
    BY <1>3 DEF IInv, Locals
  <2> QED
    BY <1>1, <2>1, <2>2, <2>3, <2>4 DEF Locals, AnswerTo
<1>8. Placed'
  <2>1. \A y \in Clients, p \in Parts :
          c[y].at # "idle" /\ file[Key(c[y].req)][p] > 0 => file'[Key(c[y].req)][p] > 0
    <3>1. f > 0
      BY <1>1
    <3>2. \A j \in Keys, p \in Parts : file[j][p] > 0 => file'[j][p] > 0
      BY <1>4, <3>1
    <3> QED
      BY <3>2, KeyInKeys DEF IInv, Locals
  <2>2. \A y \in Clients \ {x} :
          LET parts == file'[Key(c[y].req)]
          IN /\ c[y].at \in Linking => parts["req-head"] > 0
             /\ c[y].at \in Bodying => parts["req-body"] > 0
             /\ c[y].at \in Heading => parts["resp-body"] > 0
    BY <2>1 DEF IInv, Placed, Parts, Linking, Bodying, Heading
  <2>3. LET parts == file'[Key(c[x].req)]
        IN /\ l \in Linking => parts["req-head"] > 0
           /\ l \in Bodying => parts["req-body"] > 0
           /\ l \in Heading => parts["resp-body"] > 0
    BY <1>1, <1>4, <2>1 DEF IInv, Placed, Parts, Writing, Linking, Bodying, Heading
  <2>4. c'[x].req = c[x].req /\ c'[x].at = l
    BY <1>1, <1>3 DEF State
  <2> QED
    BY <1>3, <2>2, <2>3, <2>4 DEF Placed
<1>9. Writers'
  <2>1. \A y \in Clients : c[y].at \in Writing => c[y].w \in 1..Len(wr)
    BY <1>1, Types DEF IInv, TypeOK, Open, Writing, State
  <2>2. /\ c'[x].at = l /\ c'[x].w = w /\ c'[x].ans = c[x].ans /\ c'[x].n = c[x].n
    BY <1>1, <1>3 DEF State
  <2>3. /\ l = "reqHead" => wr'[f].data = NoData
        /\ l = "copy" => wr'[f].data = [ans |-> c[x].ans, n |-> c[x].n]
    BY <1>2
  <2>4. ASSUME NEW y \in Clients \ {x}
        PROVE  /\ c'[y].at = "reqHead" => wr'[c'[y].w].data = NoData
               /\ c'[y].at = "copy" => wr'[c'[y].w].data = [ans |-> c'[y].ans, n |-> c'[y].n]
               /\ c'[y].at \in Writing => c'[y].w # f
    BY <1>1, <1>2, <1>3, <2>1 DEF IInv, Writers, Data, Writing
  <2>5. \A y, z \in Clients :
          y # z /\ c'[y].at \in Writing /\ c'[z].at \in Writing => c'[y].w # c'[z].w
    <3>1. \A y, z \in Clients :
            y # z /\ c[y].at \in Writing /\ c[z].at \in Writing => c[y].w # c[z].w
      BY DEF IInv, Writers
    <3>2. c'[x].at \in Writing => c'[x].w = f
      BY <2>2
    <3> HIDE DEF f
    <3>3. ASSUME NEW y \in Clients \ {x}, NEW z \in Clients \ {x}, y # z,
                 c'[y].at \in Writing, c'[z].at \in Writing
          PROVE  c'[y].w # c'[z].w
      BY <1>3, <3>1, <3>3
    <3>4. ASSUME NEW y \in Clients \ {x}, c'[y].at \in Writing, c'[x].at \in Writing
          PROVE  c'[y].w # c'[x].w
      BY <2>4, <3>2, <3>4
    <3> QED
      BY <3>3, <3>4
  <2> QED
    BY <2>2, <2>3, <2>4, <2>5 DEF Writers, Data
<1>10. InUse'
  <2>1. c'[x].at = l /\ c'[x].w = w
    BY <1>1, <1>3 DEF State
  <2>2. ASSUME NEW i \in 1..Len(wr'), wr'[i].open
        PROVE  \E y \in Clients : c'[y].at \in Writing /\ c'[y].w = i
    <3>1. CASE i = f
      <4>1. l \in Writing
        BY <1>2, <2>2, <3>1
      <4> QED
        BY <2>1, <3>1, <4>1
    <3>2. CASE i \in 1..Len(wr)
      <4>1. PICK y \in Clients : c[y].at \in Writing /\ c[y].w = i
        BY <1>2, <2>2, <3>2 DEF IInv, InUse
      <4> QED
        BY <1>3, <4>1
    <3> QED
      BY <1>1, <1>2, <2>2, <3>1, <3>2
  <2> QED
    BY <2>2 DEF InUse
<1>11. Origin'
  <2>1. ASSUME NEW j \in Keys, NEW p \in RespParts, file'[j][p] > 0
        PROVE  AnswerTo(j, wr'[file'[j][p]].data)
    <3>1. CASE <<j, p>> = <<k, part>>
      <4>1. p = part /\ file'[j][p] = f
        BY <1>4, <3>1
      <4>2. AnswerTo(k, data)
        BY <1>1, <4>1 DEF AnswerTo
      <4>3. wr'[f].data = data
        BY <1>2
      <4> HIDE DEF f, k
      <4> QED
        BY <3>1, <4>1, <4>2, <4>3
    <3>2. CASE <<j, p>> # <<k, part>>
      <4>1. p \in Parts
        BY DEF Parts, RespParts
      <4>2. file'[j][p] = file[j][p] /\ file[j][p] \in 1..Len(wr)
        <5>1. file'[j][p] = file[j][p]
          BY <1>4, <3>2, <4>1
        <5>2. file[j][p] \in Hollow..Len(wr)
          BY <4>1 DEF IInv, TypeOK
        <5> QED
          BY <1>1, <2>1, <5>1, <5>2 DEF Hollow
      <4> QED
        BY <1>2, <2>1, <4>2 DEF IInv, Origin, Data, AnswerTo
    <3> QED
      BY <3>1, <3>2
  <2>2. ASSUME NEW j \in Keys, NEW p \in RespParts, kept[j][p] > 0
        PROVE  AnswerTo(j, wr'[kept[j][p]].data)
    <3>1. kept[j][p] \in 1..Len(wr)
      <4>1. p \in Parts
        BY DEF Parts, RespParts
      <4>2. kept[j][p] \in 0..Len(wr)
        BY <4>1 DEF IInv, TypeOK, Absent
      <4> QED
        BY <1>1, <2>2, <4>2
    <3> QED
      BY <1>2, <2>2, <3>1 DEF IInv, Origin, Data, AnswerTo
  <2> QED
    BY <1>5, <2>1, <2>2 DEF Origin, Data, AnswerTo
<1>12. HitOrigin'
  BY <1>5 DEF IInv, HitOrigin, AnswerTo
<1>13. HeadLast'
  <2>1. ASSUME NEW j \in Keys, file'[j]["resp-head"] > 0, NEW p \in Parts
        PROVE  file'[j][p] > 0
    <3>1. CASE j = k /\ part = "resp-head"
      <4>1. file[k]["req-head"] > 0 /\ file[k]["req-body"] > 0 /\ file[k]["resp-body"] > 0
        BY <1>1, <3>1 DEF IInv, Placed, Linking, Bodying, Heading
      <4> QED
        BY <1>1, <1>4, <3>1, <4>1 DEF Parts
    <3>2. CASE ~(j = k /\ part = "resp-head")
      <4>1. "resp-head" \in Parts
        BY DEF Parts
      <4>2. file[j][p] > 0
        BY <1>4, <2>1, <3>2, <4>1 DEF IInv, HeadLast
      <4> QED
        BY <1>1, <1>4, <4>2
    <3> QED
      BY <3>1, <3>2
  <2> QED
    BY <1>5, <2>1 DEF IInv, HeadLast
<1> QED
  BY <1>6, <1>7, <1>8, <1>9, <1>10, <1>11, <1>12, <1>13 DEF IInv

\* When no writer can be made, a file of that name that is there stays.
LEMMA FailKeeps ==
  ASSUME IInv, NEW x \in Clients, NEW part \in Parts, c[x].at \in Fetched \ Writing,
         RootWriteFails(x, part, "pass"), Hashes'
  PROVE  IInv'
<1> DEFINE k == Key(c[x].req)
           s == [c[x] EXCEPT !.at = "pass"]
<1>1. /\ c \in [Clients -> State] /\ Len(wr) \in Nat
      /\ c[x].req \in Requests /\ k \in Keys /\ c[x].ans.to = Sent(c[x].req)
  BY Types, KeyInKeys DEF IInv, Locals, Fetched
<1>2. /\ c'[x].at = "pass" /\ c'[x].req = c[x].req /\ c'[x].ans = c[x].ans
      /\ \A y \in Clients \ {x} : c'[y] = c[y]
      /\ c' \in [Clients -> State]
  <2>1. s \in State /\ s.at = "pass" /\ s.req = c[x].req /\ s.ans = c[x].ans
    BY <1>1 DEF State, Labels
  <2>2. c' = [c EXCEPT ![x] = s]
    BY <1>1 DEF RootWriteFails, Goto
  <2> HIDE DEF s
  <2> QED
    BY <1>1, <2>1, <2>2
<1>3. /\ \A j \in Keys, p \in Parts :
           file'[j][p] = file[j][p] \/ (file[j][p] = Absent /\ file'[j][p] = Hollow)
      /\ file' \in [Keys -> [Parts -> Hollow..Len(wr)]]
  BY <1>1 DEF IInv, TypeOK, RootWriteFails, Hollow, Absent
<1>4. \A j \in Keys, p \in Parts :
        /\ file[j][p] > 0 => file'[j][p] = file[j][p]
        /\ file'[j][p] > 0 => file'[j][p] = file[j][p]
  BY <1>3 DEF Absent, Hollow
<1>5. /\ wr' = wr /\ kept' = kept /\ hit' = hit
      /\ left' \in [Bounded -> Nat]
  BY DEF IInv, TypeOK, RootWriteFails, Spend, Bounded
<1>6. TypeOK'
  <2>1. hash' \in [Keys -> [Parts -> Absent..Len(wr')]]
    BY DEF Hashes, Shape
  <2> QED
    BY <1>2, <1>3, <1>5, <2>1 DEF IInv, TypeOK, State, Open
<1>7. Locals'
  <2>1. ASSUME NEW y \in Clients \ {x}
        PROVE  /\ c'[y].at # "idle" => c'[y].req \in Requests
               /\ c'[y].at \in Fetched => c'[y].ans.to = Sent(c'[y].req)
               /\ c'[y].at = "readBody" => AnswerTo(Key(c'[y].req), c'[y].hd)
    BY <1>2 DEF IInv, Locals
  <2> QED
    BY <1>1, <1>2, <2>1 DEF Locals, AnswerTo
<1>8. Placed'
  <2>1. ASSUME NEW y \in Clients \ {x}, NEW p \in Parts,
               c[y].at # "idle", file[Key(c[y].req)][p] > 0
        PROVE  file'[Key(c[y].req)][p] > 0
    BY <1>4, <2>1, KeyInKeys DEF IInv, Locals
  <2>2. ASSUME NEW y \in Clients \ {x}
        PROVE  /\ c[y].at \in Linking => file'[Key(c[y].req)]["req-head"] > 0
               /\ c[y].at \in Bodying => file'[Key(c[y].req)]["req-body"] > 0
               /\ c[y].at \in Heading => file'[Key(c[y].req)]["resp-body"] > 0
    BY <2>1 DEF IInv, Placed, Parts, Linking, Bodying, Heading
  <2>3. "pass" \notin Linking \union Bodying \union Heading
    BY DEF Linking, Bodying, Heading
  <2> QED
    BY <1>2, <2>2, <2>3 DEF Placed
<1>9. Writers' /\ InUse'
  BY <1>2, <1>5 DEF IInv, Writers, InUse, Writing, Fetched, Data
<1>10. Origin'
  <2>1. RespParts \subseteq Parts
    BY DEF RespParts, Parts
  <2> QED
    BY <1>4, <1>5, <2>1 DEF IInv, Origin, Data, AnswerTo
<1>11. HitOrigin'
  BY <1>5 DEF IInv, HitOrigin, AnswerTo
<1>12. HeadLast'
  <2>1. "resp-head" \in Parts
    BY DEF Parts
  <2> QED
    BY <1>4, <1>5, <2>1 DEF IInv, HeadLast
<1> QED
  BY <1>6, <1>7, <1>8, <1>9, <1>10, <1>11, <1>12 DEF IInv

\* A client writes to the writer it holds, or closes it and goes on.
Held(x, b, s) ==
  /\ wr' = [wr EXCEPT ![c[x].w] = b] /\ c' = [c EXCEPT ![x] = s]
  /\ UNCHANGED <<file, kept, hit>>

LEMMA HoldKeeps ==
  ASSUME IInv, NEW x \in Clients, NEW b \in Blob, NEW s \in State,
         c[x].at \in Writing, b.data.ans = Data(c[x].w).ans,
         s.at \in Writing => s.at = c[x].at /\ s.w = c[x].w,
         b.open = TRUE => s.at \in Writing,
         s.at \in Writing => b.open = TRUE,
         s.at = "reqHead" => b.data = NoData,
         s.at = "copy" => b.data = [ans |-> s.ans, n |-> s.n],
         s.at # "idle" => s.req = c[x].req /\ s.ans = c[x].ans /\ s.at \in Fetched,
         s.at \in Linking => c[x].at \in Linking,
         s.at \in Bodying => c[x].at \in Bodying,
         s.at \in Heading => c[x].at \in Heading,
         left' \in [Bounded -> Nat],
         Held(x, b, s), Hashes'
  PROVE  IInv'
<1> DEFINE f == c[x].w
<1>1. /\ c \in [Clients -> State] /\ wr \in Seq(Blob) /\ Len(wr) \in Nat
      /\ f \in 1..Len(wr) /\ c[x].req \in Requests
      /\ c[x].ans.to = Sent(c[x].req)
  <2>1. f \in 0..Len(wr) /\ f > 0
    BY Types DEF IInv, TypeOK, State, Writing, Open
  <2> QED
    BY <2>1, Types DEF IInv, Locals, Writing, Fetched
<1>2. /\ wr' \in Seq(Blob) /\ Len(wr') = Len(wr) /\ wr'[f] = b
      /\ \A i \in 1..Len(wr) : i # f => wr'[i] = wr[i]
  BY <1>1, ExceptSeq DEF Held
<1>3. /\ c'[x] = s /\ \A y \in Clients \ {x} : c'[y] = c[y]
      /\ c' \in [Clients -> State]
  BY <1>1 DEF Held
<1>4. file' = file /\ kept' = kept /\ hit' = hit
  BY DEF Held
<1>5. ASSUME NEW y \in Clients \ {x}, c[y].at \in Writing
      PROVE  c[y].w \in 1..Len(wr) /\ c[y].w # f /\ wr[c[y].w].open
  BY <1>1, <1>5 DEF IInv, TypeOK, State, Writing, Open, Writers
<1>6. TypeOK'
  <2>1. ASSUME NEW y \in Clients, c'[y].at \in Writing
        PROVE  c'[y].w > 0 /\ wr'[c'[y].w].open = TRUE
    <3>1. CASE y = x
      BY <1>1, <1>2, <1>3, <2>1, <3>1
    <3>2. CASE y # x
      BY <1>2, <1>3, <1>5, <2>1, <3>2, Types DEF IInv, Blob
    <3> QED
      BY <3>1, <3>2
  <2>2. \A y \in Clients : c'[y].at \in {"reqHead", "copy", "head"} => Open(c[y].w)'
    BY <2>1 DEF Writing, Open
  <2>3. hash' \in [Keys -> [Parts -> Absent..Len(wr')]]
    BY DEF Hashes, Shape
  <2> QED
    BY <1>2, <1>3, <1>4, <2>2, <2>3 DEF IInv, TypeOK, Blob, State
<1>7. Locals'
  <2>1. ASSUME NEW y \in Clients \ {x}
        PROVE  /\ c'[y].at # "idle" => c'[y].req \in Requests
               /\ c'[y].at \in Fetched => c'[y].ans.to = Sent(c'[y].req)
               /\ c'[y].at = "readBody" => AnswerTo(Key(c'[y].req), c'[y].hd)
    BY <1>3 DEF IInv, Locals
  <2>2. "idle" \notin Fetched /\ "readBody" \notin Fetched /\ "readBody" # "idle"
    BY DEF Fetched
  <2> QED
    BY <1>1, <1>3, <2>1, <2>2 DEF Locals, AnswerTo
<1>8. Placed'
  <2>1. ASSUME NEW y \in Clients \ {x}
        PROVE  /\ c'[y].at \in Linking => file[Key(c'[y].req)]["req-head"] > 0
               /\ c'[y].at \in Bodying => file[Key(c'[y].req)]["req-body"] > 0
               /\ c'[y].at \in Heading => file[Key(c'[y].req)]["resp-body"] > 0
    BY <1>3 DEF IInv, Placed
  <2>2. "idle" \notin Linking \union Bodying \union Heading
    BY DEF Linking, Bodying, Heading
  <2>3. /\ s.at \in Linking => file[Key(s.req)]["req-head"] > 0
        /\ s.at \in Bodying => file[Key(s.req)]["req-body"] > 0
        /\ s.at \in Heading => file[Key(s.req)]["resp-body"] > 0
    BY <2>2 DEF IInv, Placed
  <2> QED
    BY <1>3, <1>4, <2>1, <2>3 DEF Placed
<1>9. Writers'
  <2>1. ASSUME NEW y \in Clients
        PROVE  /\ c'[y].at = "reqHead" => wr'[c'[y].w].data = NoData
               /\ c'[y].at = "copy" => wr'[c'[y].w].data = [ans |-> c'[y].ans, n |-> c'[y].n]
    <3>1. CASE y = x
      BY <1>2, <1>3, <3>1 DEF Writing
    <3>2. CASE y # x
      <4>1. c[y].at \in Writing => wr'[c[y].w] = wr[c[y].w]
        BY <1>2, <1>5, <3>2
      <4> QED
        BY <1>3, <3>2, <4>1 DEF IInv, Writers, Data, Writing
    <3> QED
      BY <3>1, <3>2
  <2>2. ASSUME NEW y \in Clients, NEW z \in Clients, y # z,
               c'[y].at \in Writing, c'[z].at \in Writing
        PROVE  c'[y].w # c'[z].w
    <3>1. c[y].at \in Writing /\ c[z].at \in Writing /\ c[y].w = c'[y].w /\ c[z].w = c'[z].w
      BY <1>3, <2>2
    <3> QED
      BY <2>2, <3>1 DEF IInv, Writers
  <2> QED
    BY <2>1, <2>2 DEF Writers, Data
<1>10. InUse'
  <2>1. ASSUME NEW i \in 1..Len(wr), wr'[i].open
        PROVE  \E y \in Clients : c'[y].at \in Writing /\ c'[y].w = i
    <3>1. CASE i = f
      <4>1. s.at \in Writing /\ s.w = f
        BY <1>2, <2>1, <3>1 DEF Blob
      <4> QED
        BY <1>3, <3>1, <4>1
    <3>2. CASE i # f
      <4>1. PICK y \in Clients : c[y].at \in Writing /\ c[y].w = i
        BY <1>2, <2>1, <3>2 DEF IInv, InUse
      <4>2. y # x
        BY <3>2, <4>1
      <4> QED
        BY <1>3, <4>1, <4>2
    <3> QED
      BY <3>1, <3>2
  <2> QED
    BY <1>2, <2>1 DEF InUse
<1>11. \A i \in 1..Len(wr) : wr'[i].data.ans = wr[i].data.ans
  BY <1>2 DEF Data
<1>12. Origin'
  <2>1. ASSUME NEW files \in {file, kept}, NEW j \in Keys, NEW p \in RespParts, files[j][p] > 0
        PROVE  AnswerTo(j, wr'[files[j][p]].data)
    <3>1. files[j][p] \in 1..Len(wr)
      <4>1. p \in Parts
        BY DEF Parts, RespParts
      <4>2. files[j][p] \in Hollow..Len(wr) \/ files[j][p] \in Absent..Len(wr)
        BY <2>1, <4>1 DEF IInv, TypeOK
      <4> QED
        BY <1>1, <2>1, <4>2 DEF Absent, Hollow
    <3>2. AnswerTo(j, wr[files[j][p]].data)
      BY <2>1 DEF IInv, Origin, Data
    <3> QED
      BY <1>11, <3>1, <3>2 DEF AnswerTo
  <2> QED
    BY <1>4, <2>1 DEF Origin, Data, AnswerTo
<1>13. HitOrigin' /\ HeadLast'
  BY <1>4 DEF IInv, HitOrigin, AnswerTo, HeadLast
<1> QED
  BY <1>6, <1>7, <1>8, <1>9, <1>10, <1>12, <1>13 DEF IInv

\* What is saved is as complete, and answers the same requests, as the recording.
LEMMA SaveKeeps ==
  ASSUME IInv, Save, Hashes'
  PROVE  IInv'
<1>1. /\ file' = file /\ wr' = wr /\ c' = c /\ hit' = hit /\ left' \in [Bounded -> Nat]
      /\ kept' = hash'
      /\ \A k \in Keys, p \in Parts :
           kept'[k][p] = IF hash[k][p] # Absent THEN hash[k][p] ELSE file[k][p]
  BY SpendKeeps DEF Save, IInv, TypeOK, Bounded
<1>2. TypeOK'
  <2>1. /\ hash' \in [Keys -> [Parts -> Absent..Len(wr')]]
        /\ kept' \in [Keys -> [Parts -> Absent..Len(wr')]]
    BY DEF Hashes, Shape
  <2> QED
    BY <1>1, <2>1 DEF IInv, TypeOK, Open
<1>3. Locals' /\ Placed' /\ Writers' /\ InUse' /\ HitOrigin'
  BY <1>1 DEF IInv, Locals, Placed, Writers, InUse, HitOrigin, AnswerTo, Data
<1>4. Origin'
  <2>1. ASSUME NEW k \in Keys, NEW p \in RespParts, kept'[k][p] > 0
        PROVE  AnswerTo(k, wr[kept'[k][p]].data)
    <3>1. p \in Parts /\ kept'[k][p] # Absent
      BY <2>1 DEF RespParts, Parts, Absent
    <3>2. Complete(k, p, kept[k][p])'
      BY <3>1 DEF Hashes
    <3> QED
      BY <1>1, <3>1, <3>2 DEF Complete, AnswerTo, Data
  <2> QED
    BY <1>1, <2>1 DEF IInv, Origin, AnswerTo, Data
<1>5. HeadLast'
  <2>1. ASSUME NEW k \in Keys, NEW p \in Parts
        PROVE  kept'[k][p] > 0 <=> file[k][p] > 0
    <3>1. Complete(k, p, hash[k][p]) /\ (hash[k][p] # Absent => file[k][p] > 0)
      BY DEF IInv, Hashes
    <3>2. kept'[k][p] = IF hash[k][p] # Absent THEN hash[k][p] ELSE file[k][p]
      BY <1>1
    <3> QED
      BY <3>1, <3>2 DEF Complete, Sealed
  <2>2. "resp-head" \in Parts
    BY DEF Parts
  <2> QED
    BY <1>1, <2>1, <2>2 DEF IInv, HeadLast
<1> QED
  BY <1>2, <1>3, <1>4, <1>5 DEF IInv

\* A recording is opened when no request is being served.
LEMMA ReopenKeeps ==
  ASSUME IInv, Reopen, Hashes'
  PROVE  IInv'
<1>1. /\ file' = kept /\ kept' = kept /\ wr' = wr /\ c' = c /\ left' = left /\ hit' = hit
      /\ \A x \in Clients : c[x].at = "idle"
  BY DEF Reopen
<1>2. TypeOK'
  <2>1. Len(wr) \in Nat /\ kept \in [Keys -> [Parts -> Absent..Len(wr)]]
    BY Types DEF IInv, TypeOK
  <2>2. kept \in [Keys -> [Parts -> Hollow..Len(wr)]]
    <3>1. Absent..Len(wr) \subseteq Hollow..Len(wr)
      BY <2>1 DEF Absent, Hollow
    <3> QED
      BY <2>1, <3>1
  <2>3. hash' \in [Keys -> [Parts -> Absent..Len(wr')]]
    BY DEF Hashes, Shape
  <2> QED
    BY <1>1, <2>2, <2>3 DEF IInv, TypeOK, Open
<1>3. Placed'
  BY <1>1 DEF Placed, Linking, Bodying, Heading
<1>4. Locals' /\ Writers' /\ InUse' /\ HitOrigin'
  BY <1>1 DEF IInv, Locals, Writers, InUse, HitOrigin, AnswerTo, Data
<1>5. Origin' /\ HeadLast'
  BY <1>1 DEF IInv, Origin, HeadLast, AnswerTo, Data
<1> QED
  BY <1>2, <1>3, <1>4, <1>5 DEF IInv

\* A look at an entry changes nothing else.
LEMMA LookKeeps ==
  ASSUME IInv, NEW k \in Keys, NEW part \in Parts, HashEntry(k, part), Hashes'
  PROVE  IInv'
<1>1. /\ file' = file /\ wr' = wr /\ kept' = kept /\ c' = c /\ hit' = hit
      /\ left' \in [Bounded -> Nat]
  BY SpendKeeps DEF HashEntry, IInv, TypeOK, Bounded
<1>2. TypeOK'
  <2>1. hash' \in [Keys -> [Parts -> Absent..Len(wr')]]
    BY DEF Hashes, Shape
  <2> QED
    BY <1>1, <2>1 DEF IInv, TypeOK, Open
<1>3. Locals' /\ Placed' /\ Writers' /\ InUse' /\ HitOrigin'
  BY <1>1 DEF IInv, Locals, Placed, Writers, InUse, HitOrigin, AnswerTo, Data
<1>4. Origin' /\ HeadLast'
  BY <1>1 DEF IInv, Origin, HeadLast, AnswerTo, Data
<1> QED
  BY <1>2, <1>3, <1>4 DEF IInv

-----------------------------------------------------------------------------
(* The invariant is inductive *)

\* Nothing is recorded at first.
LEMMA InitOK == Init => IInv
<1> SUFFICES ASSUME Init PROVE IInv
  OBVIOUS
<1>1. /\ wr = <<>> /\ Len(wr) = 0 /\ left = Quota
      /\ file = NoFiles /\ kept = NoFiles /\ hash = NoFiles
      /\ \A x \in Clients : c[x] = Idle
      /\ c = [x \in Clients |-> Idle] /\ hit.req = None
  BY DEF Init
<1>2. Idle \in State /\ Idle.at = "idle"
  <2>1. None \in AllAnswers /\ NoData \in Content
    BY CacheAssumption DEF AllAnswers, NoData, Content
  <2>2. 0 \in 0..Chunks /\ 0 \in 0..Len(wr)
    BY <1>1, CacheAssumption
  <2> QED
    BY <2>1, <2>2 DEF Idle, State, Labels
<1>3. \A k \in Keys, p \in Parts : file[k][p] = 0 /\ kept[k][p] = 0 /\ hash[k][p] = 0
  BY <1>1 DEF NoFiles, Absent
<1>4. TypeOK
  <2>1. /\ file \in [Keys -> [Parts -> Hollow..Len(wr)]]
        /\ kept \in [Keys -> [Parts -> Absent..Len(wr)]]
        /\ hash \in [Keys -> [Parts -> Absent..Len(wr)]]
    BY <1>1 DEF NoFiles, Absent, Hollow
  <2>2. wr \in Seq(Blob)
    BY <1>1
  <2>3. c \in [Clients -> State]
    BY <1>1, <1>2
  <2>4. left \in [Bounded -> Nat]
    BY <1>1, CacheAssumption
  <2> QED
    BY <1>1, <1>2, <2>1, <2>2, <2>3, <2>4 DEF TypeOK, State, Blob
<1>5. Locals /\ Placed /\ Writers
  BY <1>1, <1>2 DEF Locals, Placed, Writers, Fetched, Linking, Bodying, Heading, Writing
<1>6. InUse
  BY <1>1 DEF InUse
<1>7. Origin /\ HeadLast
  BY <1>3 DEF Origin, HeadLast, RespParts, Parts
<1>8. HitOrigin
  BY <1>1 DEF HitOrigin
<1>9. Hashes
  <2>1. hash \in Shape /\ kept \in Shape
    BY <1>4 DEF TypeOK, Shape
  <2> QED
    BY <1>3, <2>1 DEF Hashes, Complete, Absent
<1> QED
  BY <1>4, <1>5, <1>6, <1>7, <1>8, <1>9 DEF IInv

\* A client that was idle or is looking up its request moves on.
LEMMA LookUpKeeps ==
  ASSUME IInv, NEW x \in Clients,
         \/ \E q \in RequestsOf[x] : Begin(x, q)
         \/ GenReqHashFails(x) \/ ReadHead(x) \/ ReadBody(x),
         Hashes'
  PROVE  IInv'
<1>1. /\ c \in [Clients -> State] /\ c[x] \in State
      /\ c[x].at # "idle" => c[x].req \in Requests /\ Key(c[x].req) \in Keys
  BY Types, KeyInKeys DEF IInv, Locals
<1>2. Idle \in State
  BY IdleIsState DEF IInv
<1>3. ASSUME NEW q \in RequestsOf[x], Begin(x, q) PROVE IInv'
  <2> DEFINE s == [c[x] EXCEPT !.at = "readHead", !.req = q]
  <2>1. q \in Requests
    BY DEF Requests
  <2>2. s \in State /\ s.at = "readHead" /\ s.req = q
    BY <1>1, <2>1 DEF State, Labels
  <2>3. c' = [c EXCEPT ![x] = s] /\ left' \in [Bounded -> Nat]
    <3>1. c' = [c EXCEPT ![x] = s]
      BY <1>1, <1>3, Begins
    <3>2. left' \in [Bounded -> Nat]
      BY <1>3, SpendKeeps DEF Begin, IInv, TypeOK, Bounded
    <3> QED
      BY <3>1, <3>2
  <2>4. UNCHANGED <<file, wr, kept, hit>> /\ c[x].at = "idle"
    BY <1>3 DEF Begin
  <2>5. HitOrigin'
    BY <2>4 DEF IInv, HitOrigin, AnswerTo
  <2> HIDE DEF s
  <2> QED
    BY <2>1, <2>2, <2>3, <2>4, <2>5, MoveKeeps DEF Writing, Linking, Fetched
<1>4. ASSUME NEW l \in {"miss", "missRaw"}, Goto(x, l), left' \in [Bounded -> Nat],
             c[x].at \in {"readHead", "readBody"}, UNCHANGED <<file, wr, kept, hit>>
      PROVE  IInv'
  <2> DEFINE s == [c[x] EXCEPT !.at = l]
  <2>1. s \in State /\ s.at = l /\ s.req = c[x].req
    BY <1>1 DEF State, Labels
  <2>2. c' = [c EXCEPT ![x] = s]
    BY <1>1, <1>4 DEF Goto
  <2>3. HitOrigin'
    BY <1>4 DEF IInv, HitOrigin, AnswerTo
  <2> HIDE DEF s
  <2> QED
    BY <1>1, <1>4, <2>1, <2>2, <2>3, MoveKeeps DEF Writing, Linking, Fetched
<1>5. CASE GenReqHashFails(x)
  BY <1>4, <1>5 DEF GenReqHashFails, Spend, IInv, TypeOK, Bounded
<1>6. CASE ReadHead(x)
  <2> DEFINE f == file[Key(c[x].req)]["resp-head"]
  <2>1. CASE ~Sealed(f)
    BY <1>4, <1>6, <2>1 DEF ReadHead, IInv, TypeOK
  <2>2. CASE Sealed(f)
    <3> DEFINE s == [c[x] EXCEPT !.at = "readBody", !.hd = Data(f)]
    <3>1. /\ AnswerTo(Key(c[x].req), Data(f)) /\ Data(f) \in Content
      <4>1. f \in 1..Len(wr)
        BY <1>1, <1>6, <2>2, Types DEF IInv, TypeOK, ReadHead, Sealed, Parts, Hollow
      <4> QED
        BY <1>1, <1>6, <4>1, Types DEF ReadHead, IInv, Origin, RespParts, Data, Blob
    <3>2. s \in State /\ s.at = "readBody" /\ s.req = c[x].req /\ s.hd = Data(f)
      BY <1>1, <3>1 DEF State, Labels
    <3>3. c' = [c EXCEPT ![x] = s] /\ left' \in [Bounded -> Nat]
      BY <1>1, <1>6, <2>2 DEF ReadHead, IInv, TypeOK
    <3>4. UNCHANGED <<file, wr, kept, hit>> /\ c[x].at = "readHead"
      BY <1>6 DEF ReadHead
    <3>5. HitOrigin'
      BY <3>4 DEF IInv, HitOrigin, AnswerTo
    <3> HIDE DEF s, f
    <3> QED
      BY <1>1, <3>1, <3>2, <3>3, <3>4, <3>5, MoveKeeps DEF Writing, Linking, Fetched
  <2> QED
    BY <2>1, <2>2
<1>7. CASE ReadBody(x)
  <2> DEFINE f == file[Key(c[x].req)]["resp-body"]
  <2>1. CASE ~Sealed(f)
    BY <1>4, <1>7, <2>1 DEF ReadBody, IInv, TypeOK
  <2>2. CASE Sealed(f)
    <3>1. AnswerTo(Key(c[x].req), Data(f)) /\ AnswerTo(Key(c[x].req), c[x].hd)
      BY <1>1, <1>7, <2>2 DEF ReadBody, IInv, Origin, Locals, RespParts, Sealed
    <3>2. /\ hit' = [req |-> c[x].req, resp |-> <<c[x].hd, Data(f)>>]
          /\ c' = [c EXCEPT ![x] = Idle] /\ left' = left /\ c[x].at = "readBody"
          /\ UNCHANGED <<file, wr, kept>>
      BY <1>7, <2>2 DEF ReadBody, Finish
    <3>3. HitOrigin'
      <4>1. /\ hit'.req = c[x].req /\ c[x].req \in Requests
            /\ hit'.resp[1] = c[x].hd /\ hit'.resp[2] = Data(f)
        BY <1>1, <3>2
      <4> QED
        BY <3>1, <4>1 DEF HitOrigin, AnswerTo
    <3>4. left' \in [Bounded -> Nat]
      BY <3>2 DEF IInv, TypeOK
    <3>5. Idle.at = "idle"
      BY DEF Idle
    <3> QED
      BY <1>2, <3>2, <3>3, <3>4, <3>5, MoveKeeps DEF Writing, Linking, Fetched
  <2> QED
    BY <2>1, <2>2
<1> QED
  BY <1>3, <1>5, <1>6, <1>7

\* The steps that neither touch a file nor a writer.
LEMMA PassKeeps ==
  ASSUME IInv, NEW x \in Clients, Fetch(x) \/ Rehash(x) \/ Pass(x), Hashes'
  PROVE  IInv'
<1>1. /\ c \in [Clients -> State] /\ c[x] \in State /\ left' \in [Bounded -> Nat]
      /\ c[x].req \in Requests
      /\ UNCHANGED <<file, wr, kept, hit>>
      /\ c[x].at \in {"miss", "missRaw", "rehash", "pass"}
  BY Types DEF IInv, TypeOK, Locals, Fetch, Rehash, Pass
<1>2. HitOrigin'
  BY <1>1 DEF IInv, HitOrigin, AnswerTo
<1>3. ASSUME Finish(x) PROVE IInv'
  <2>1. Idle \in State /\ Idle.at = "idle"
    BY IdleIsState DEF IInv, Idle
  <2>2. c' = [c EXCEPT ![x] = Idle]
    BY <1>3 DEF Finish
  <2> QED
    BY <1>1, <1>2, <2>1, <2>2, MoveKeeps DEF Writing, Linking, Fetched
<1>4. ASSUME NEW a \in Answers, Answered(x, a), Fetch(x) PROVE IInv'
  <2> DEFINE l == Recording(c[x].at)
             ans == [to |-> Sent(c[x].req), with |-> a]
             s == [c[x] EXCEPT !.at = l, !.ans = ans]
  <2>1. l \in {"putReq", "rehash"}
    BY DEF Recording
  <2>2. ans \in AllAnswers /\ ans.to = Sent(c[x].req)
    BY <1>1 DEF AllAnswers
  <2>3. s \in State /\ s.at = l /\ s.req = c[x].req /\ s.ans = ans
    <3> HIDE DEF l, ans
    <3> QED
      BY <1>1, <2>1, <2>2 DEF State, Labels
  <2>4. c' = [c EXCEPT ![x] = s]
    BY <1>1, <1>4 DEF Answered
  <2> HIDE DEF l, ans, s
  <2> QED
    BY <1>1, <1>2, <2>1, <2>2, <2>3, <2>4, MoveKeeps DEF Writing, Linking, Fetched
<1>5. ASSUME NEW l \in {"putReq", "pass"}, Goto(x, l), Rehash(x) PROVE IInv'
  <2> DEFINE s == [c[x] EXCEPT !.at = l]
  <2>1. s \in State /\ s.at = l /\ s.req = c[x].req /\ s.ans = c[x].ans
    BY <1>1 DEF State, Labels
  <2>2. c' = [c EXCEPT ![x] = s]
    BY <1>1, <1>5 DEF Goto
  <2>3. c[x].ans.to = Sent(c[x].req)
    BY <1>5 DEF IInv, Locals, Rehash, Fetched
  <2> HIDE DEF s
  <2> QED
    BY <1>1, <1>2, <2>1, <2>2, <2>3, MoveKeeps DEF Writing, Linking, Fetched
<1>6. CASE Fetch(x)
  BY <1>3, <1>4, <1>6 DEF Fetch
<1>7. CASE Rehash(x)
  BY <1>5, <1>7 DEF Rehash
<1>8. CASE Pass(x)
  BY <1>3, <1>8 DEF Pass
<1> QED
  BY <1>6, <1>7, <1>8

\* The steps that put a file.
LEMMA FilesKeep ==
  ASSUME IInv, Fresh, NEW x \in Clients,
         PutReqHead(x) \/ LinkReqBody(x) \/ PutRespBody(x) \/ PutRespHead(x), Hashes'
  PROVE  IInv'
<1>1. /\ c \in [Clients -> State] /\ c[x] \in State /\ Len(wr) \in Nat /\ NoData \in Content
  BY Types DEF IInv
<1>2. c[x].at \in {"putReq", "link", "putBody", "putHead"}
  BY DEF PutReqHead, LinkReqBody, PutRespBody, PutRespHead
<1>3. c[x].at \in Fetched \ Writing /\ c[x].ans.to = Sent(c[x].req)
  BY <1>2 DEF IInv, Locals, Fetched, Writing
<1>4. ASSUME NEW part \in Parts, NEW data \in Content, NEW l \in Writing,
             RootWrite(x, part, data, l)
      PROVE  Put(x, part, data, Len(wr) + 1, l) /\ Len(wr) + 1 \in 0..Len(wr) + 1
  <2>1. c' = [c EXCEPT ![x] = [c[x] EXCEPT !.w = Len(wr) + 1, !.at = l]]
    BY <1>1, <1>4 DEF RootWrite
  <2>2. Len(wr) + 1 \in 0..Len(wr) + 1
    BY <1>1
  <2> QED
    BY <1>4, <2>1, <2>2 DEF RootWrite, Put
<1>5. CASE PutReqHead(x)
  <2>1. CASE RootWriteFails(x, "req-head", "pass")
    BY <1>3, <2>1, FailKeeps DEF Parts
  <2>2. CASE RootWrite(x, "req-head", NoData, "reqHead")
    <3>1. "req-head" \in Parts /\ "reqHead" \in Writing
      BY DEF Parts, Writing
    <3>2. Put(x, "req-head", NoData, Len(wr) + 1, "reqHead") /\ Len(wr) + 1 \in 0..Len(wr) + 1
      BY <1>1, <1>4, <2>2, <3>1
    <3> QED
      BY <1>1, <1>3, <3>1, <3>2, PutKeeps DEF RespParts, Heading
  <2> QED
    BY <1>5, <2>1, <2>2 DEF PutReqHead
<1>6. CASE LinkReqBody(x)
  <2>1. c[x].at = "link" /\ c[x].at \in Linking /\ c[x].w \in 0..Len(wr) + 1
    BY <1>1, <1>6 DEF LinkReqBody, Linking, State
  <2>2. c' = [c EXCEPT ![x] = [c[x] EXCEPT !.w = c[x].w, !.at = "putBody"]]
    BY <1>1, <1>6 DEF LinkReqBody, Goto, State
  <2>3. "putBody" \notin Writing
    BY DEF Writing
  <2>4. Put(x, "req-body", NoData, c[x].w, "putBody")
    BY <1>6, <2>2, <2>3 DEF LinkReqBody, Put
  <2> QED
    BY <1>1, <1>3, <2>1, <2>3, <2>4, PutKeeps DEF RespParts, Heading, Parts
<1>7. CASE PutRespBody(x)
  <2> DEFINE d == [ans |-> c[x].ans, n |-> 0]
  <2>1. CASE RootWriteFails(x, "resp-body", "pass")
    BY <1>3, <2>1, FailKeeps DEF Parts
  <2>2. CASE RootWrite(x, "resp-body", d, "copy")
    <3>1. c[x].at = "putBody" /\ c[x].n = 0
      BY <1>7 DEF PutRespBody, Fresh
    <3>2. d \in Content /\ d.ans = c[x].ans /\ d = [ans |-> c[x].ans, n |-> c[x].n]
      BY <1>1, <3>1, CacheAssumption DEF Content, State
    <3>3. "resp-body" \in Parts /\ "copy" \in Writing /\ c[x].at \in Bodying
      BY <3>1 DEF Parts, Writing, Bodying
    <3> HIDE DEF d
    <3>4. Put(x, "resp-body", d, Len(wr) + 1, "copy") /\ Len(wr) + 1 \in 0..Len(wr) + 1
      BY <1>4, <2>2, <3>2, <3>3
    <3> QED
      BY <1>3, <3>2, <3>3, <3>4, PutKeeps DEF Heading
  <2> QED
    BY <1>7, <2>1, <2>2 DEF PutRespBody
<1>8. CASE PutRespHead(x)
  <2> DEFINE d == [ans |-> c[x].ans, n |-> c[x].n]
  <2>1. CASE RootWriteFails(x, "resp-head", "pass")
    BY <1>3, <2>1, FailKeeps DEF Parts
  <2>2. CASE RootWrite(x, "resp-head", d, "head")
    <3>1. c[x].at = "putHead" /\ c[x].at \in Heading /\ c[x].at \in Bodying
      BY <1>8 DEF PutRespHead, Heading, Bodying
    <3>2. d \in Content /\ d.ans = c[x].ans
      BY <1>1 DEF Content, State
    <3>3. "resp-head" \in Parts /\ "head" \in Writing
      BY DEF Parts, Writing
    <3> HIDE DEF d
    <3>4. Put(x, "resp-head", d, Len(wr) + 1, "head") /\ Len(wr) + 1 \in 0..Len(wr) + 1
      BY <1>4, <2>2, <3>2, <3>3
    <3> QED
      BY <1>3, <3>1, <3>2, <3>3, <3>4, PutKeeps
  <2> QED
    BY <1>8, <2>1, <2>2 DEF PutRespHead
<1> QED
  BY <1>5, <1>6, <1>7, <1>8

\* The steps of the holder of a writer.
LEMMA HoldersKeep ==
  ASSUME IInv, NEW x \in Clients,
         CloseReqHead(x) \/ Copy(x) \/ CloseBody(x) \/ CloseRespHead(x), Hashes'
  PROVE  IInv'
<1> DEFINE w == wr[c[x].w]
<1>1. /\ c \in [Clients -> State] /\ c[x] \in State /\ wr \in Seq(Blob) /\ Len(wr) \in Nat
      /\ c[x].at \in Writing /\ UNCHANGED <<file, kept, hit>>
  BY Types DEF IInv, CloseReqHead, Copy, CloseBody, CloseRespHead, Writing
<1>2. c[x].w \in 1..Len(wr) /\ w \in Blob /\ w.open = TRUE /\ w.data \in Content
  <2>1. c[x].w \in 0..Len(wr) /\ c[x].w > 0 /\ w.open
    BY <1>1 DEF IInv, TypeOK, State, Writing, Open
  <2>2. c[x].w \in 1..Len(wr)
    BY <1>1, <2>1
  <2>3. w \in Blob
    BY <2>2, Types DEF IInv
  <2> QED
    BY <2>1, <2>2, <2>3 DEF Blob
<1>3. left' \in [Bounded -> Nat]
  BY SpendKeeps
     DEF IInv, TypeOK, Bounded, CloseReqHead, Copy, CloseBody, CloseRespHead
<1>4. ASSUME NEW data \in Content, data.ans = w.data.ans, CloseWriter(x, data)
      PROVE  /\ wr' = [wr EXCEPT ![c[x].w] = [open |-> FALSE, data |-> data]]
             /\ [open |-> FALSE, data |-> data] \in Blob
  BY <1>4 DEF CloseWriter, Blob
<1>5. ASSUME NEW data \in Content, data.ans = w.data.ans, CloseWriter(x, data),
             NEW l \in {"link", "putHead"}, Goto(x, l),
             l = "putHead" => c[x].at = "copy"
      PROVE  IInv'
  <2> DEFINE b == [open |-> FALSE, data |-> data]
             s == [c[x] EXCEPT !.at = l]
  <2>1. s \in State /\ s.at = l /\ s.req = c[x].req /\ s.ans = c[x].ans
    BY <1>1 DEF State, Labels
  <2>2. b \in Blob /\ b.data = data /\ b.open = FALSE
    BY <1>4, <1>5
  <2>3. Held(x, b, s)
    BY <1>1, <1>4, <1>5 DEF Held, Goto
  <2>4. c[x].at \in Linking
    BY <1>1 DEF Writing, Linking
  <2> HIDE DEF b, s
  <2> QED
    BY <1>1, <1>3, <1>5, <2>1, <2>2, <2>3, <2>4, HoldKeeps
       DEF Writing, Fetched, Bodying, Heading, Data
<1>6. CASE CloseReqHead(x)
  <2>1. w.data = NoData /\ NoData \in Content
    BY <1>6, Types DEF CloseReqHead, IInv, Writers, Data
  <2> QED
    BY <1>5, <1>6, <2>1 DEF CloseReqHead
<1>7. CASE Copy(x)
  <2> DEFINE b == [w EXCEPT !.data.n = c[x].n + 1]
             s == [c[x] EXCEPT !.n = c[x].n + 1]
  <2>1. c[x].at = "copy" /\ c[x].n < Chunks /\ w.data = [ans |-> c[x].ans, n |-> c[x].n]
    BY <1>7 DEF Copy, IInv, Writers, Data
  <2>2. c[x].n + 1 \in 0..Chunks
    BY <1>1, <2>1, CacheAssumption DEF State
  <2>3. /\ s \in State /\ s.at = "copy" /\ s.req = c[x].req /\ s.ans = c[x].ans
        /\ s.w = c[x].w /\ s.n = c[x].n + 1
    BY <1>1, <2>1, <2>2 DEF State
  <2>4. b \in Blob /\ b.data = [ans |-> s.ans, n |-> s.n] /\ b.open = TRUE
    <3> DEFINE d == [w.data EXCEPT !.n = c[x].n + 1]
    <3>1. d = [ans |-> s.ans, n |-> s.n] /\ d \in Content
      BY <1>1, <2>1, <2>2, <2>3 DEF Content, State
    <3>2. b = [w EXCEPT !.data = d]
      OBVIOUS
    <3> HIDE DEF d, w
    <3>3. b.data = d /\ b.open = TRUE /\ b \in Blob
      BY <1>2, <3>1, <3>2 DEF Blob
    <3> QED
      BY <3>1, <3>3
  <2>5. Held(x, b, s)
    <3>1. w.data.n = c[x].n
      BY <2>1
    <3>2. wr' = [wr EXCEPT ![c[x].w] = b]
      BY <1>1, <1>2, <1>7, <3>1 DEF Copy
    <3>3. c' = [c EXCEPT ![x] = s]
      BY <1>1, <1>7 DEF Copy
    <3> QED
      BY <1>1, <3>2, <3>3 DEF Held
  <2>6. b.data.ans = w.data.ans /\ c[x].at \in Fetched /\ c[x].at \in Writing
    BY <1>1, <2>1, <2>3, <2>4 DEF Fetched
  <2> HIDE DEF b, s
  <2> QED
    BY <1>3, <2>1, <2>3, <2>4, <2>5, <2>6, HoldKeeps DEF Data
<1>8. CASE CloseBody(x)
  BY <1>2, <1>5, <1>8 DEF CloseBody, Data
<1>9. CASE CloseRespHead(x)
  <2> DEFINE b == [open |-> FALSE, data |-> w.data]
  <2>1. Idle \in State /\ Idle.at = "idle"
    BY IdleIsState DEF IInv, Idle
  <2>2. b \in Blob /\ b.data = w.data /\ b.open = FALSE
    BY <1>2 DEF Blob
  <2>3. Held(x, b, Idle)
    BY <1>1, <1>9 DEF Held, CloseRespHead, CloseWriter, Finish, Data
  <2> HIDE DEF b
  <2> QED
    BY <1>1, <1>3, <2>1, <2>2, <2>3, HoldKeeps
       DEF Writing, Fetched, Linking, Bodying, Heading, Data
<1> QED
  BY <1>6, <1>7, <1>8, <1>9

\* Only Copy counts chunks.
LEMMA FreshKeeps ==
  ASSUME TypeOK, Fresh, Next
  PROVE  Fresh'
<1>1. c \in [Clients -> State]
  BY Types
<1>2. ASSUME NEW x \in Clients, NEW s, c' = [c EXCEPT ![x] = s],
             s.at \notin {"copy", "putHead", "head", "pass"} => s.n = 0
      PROVE  Fresh'
  BY <1>1, <1>2 DEF Fresh
<1>3. ASSUME NEW x \in Clients, NEW l, Goto(x, l),
             \/ c[x].at \notin {"copy", "putHead", "head", "pass"}
             \/ l \in {"copy", "putHead", "head", "pass"}
      PROVE  Fresh'
  <2> DEFINE s == [c[x] EXCEPT !.at = l]
  <2>1. s.at = l /\ s.n = c[x].n /\ c' = [c EXCEPT ![x] = s]
    BY <1>1, <1>3 DEF Goto, State
  <2> HIDE DEF s
  <2> QED
    BY <1>2, <1>3, <2>1 DEF Fresh
<1>4. ASSUME NEW x \in Clients, Finish(x) PROVE Fresh'
  <2>1. Idle.n = 0
    BY DEF Idle
  <2> QED
    BY <1>2, <1>4, <2>1 DEF Finish
<1>5. ASSUME NEW x \in Clients, NEW part, NEW data, NEW l, RootWrite(x, part, data, l),
             \/ c[x].at \notin {"copy", "putHead", "head", "pass"}
             \/ l \in {"copy", "putHead", "head", "pass"}
      PROVE  Fresh'
  <2> DEFINE s == [c[x] EXCEPT !.w = Len(wr) + 1, !.at = l]
  <2>1. s.at = l /\ s.n = c[x].n /\ c' = [c EXCEPT ![x] = s]
    BY <1>1, <1>5 DEF RootWrite, State
  <2> HIDE DEF s
  <2> QED
    BY <1>2, <1>5, <2>1 DEF Fresh
<1>6. ASSUME NEW x \in Clients, NEW q, Begin(x, q) PROVE Fresh'
  <2> DEFINE s == [c[x] EXCEPT !.at = "readHead", !.req = q]
  <2>1. s.n = 0 /\ c' = [c EXCEPT ![x] = s]
    BY <1>1, <1>6 DEF Begin, State, Fresh
  <2> HIDE DEF s
  <2> QED
    BY <1>2, <2>1
<1>7. ASSUME NEW x \in Clients, ReadHead(x) PROVE Fresh'
  <2> DEFINE f == file[Key(c[x].req)]["resp-head"]
             s == [c[x] EXCEPT !.at = "readBody", !.hd = Data(f)]
  <2>1. CASE Sealed(f)
    <3>1. s.n = 0
      BY <1>1, <1>7 DEF ReadHead, State, Fresh
    <3>2. c' = [c EXCEPT ![x] = s]
      BY <1>1, <1>7, <2>1 DEF ReadHead
    <3> HIDE DEF s
    <3> QED
      BY <1>2, <3>1, <3>2
  <2>2. CASE ~Sealed(f)
    BY <1>3, <1>7, <2>2 DEF ReadHead
  <2> QED
    BY <2>1, <2>2
<1>8. ASSUME NEW x \in Clients, NEW a, Answered(x, a), Fetch(x) PROVE Fresh'
  <2> DEFINE l == Recording(c[x].at)
             ans == [to |-> Sent(c[x].req), with |-> a]
             s == [c[x] EXCEPT !.at = l, !.ans = ans]
  <2>1. c[x].n = 0
    BY <1>8 DEF Fetch, Fresh
  <2>2. s.n = c[x].n /\ c' = [c EXCEPT ![x] = s]
    BY <1>1, <1>8 DEF Answered, State
  <2> HIDE DEF s
  <2> QED
    BY <1>2, <2>1, <2>2
<1>9. ASSUME NEW x \in Clients, Copy(x) PROVE Fresh'
  <2> DEFINE s == [c[x] EXCEPT !.n = c[x].n + 1]
  <2>1. s.at = "copy" /\ c' = [c EXCEPT ![x] = s]
    BY <1>1, <1>9 DEF Copy, State
  <2> HIDE DEF s
  <2> QED
    BY <1>2, <2>1
<1>10. ASSUME Save \/ Reopen \/ \E k \in Keys, part \in Parts : HashEntry(k, part) PROVE Fresh'
  BY <1>10 DEF Save, Reopen, HashEntry, Fresh
<1>11. ASSUME NEW x \in Clients, Serve(x) PROVE Fresh'
  <2>1. GenReqHashFails(x) \/ ReadBody(x) => Fresh'
    BY <1>3, <1>4 DEF GenReqHashFails, ReadBody
  <2>2. Fetch(x) \/ Rehash(x) => Fresh'
    BY <1>3, <1>4, <1>8 DEF Fetch, Rehash
  <2>3. PutReqHead(x) \/ PutRespBody(x) \/ PutRespHead(x) => Fresh'
    BY <1>3, <1>5 DEF PutReqHead, PutRespBody, PutRespHead, RootWriteFails
  <2>4. CloseReqHead(x) \/ LinkReqBody(x) \/ CloseBody(x) => Fresh'
    BY <1>3 DEF CloseReqHead, LinkReqBody, CloseBody
  <2>5. CloseRespHead(x) \/ Pass(x) => Fresh'
    BY <1>4 DEF CloseRespHead, Pass
  <2> QED
    BY <1>7, <1>9, <1>11, <2>1, <2>2, <2>3, <2>4, <2>5 DEF Serve
<1> QED
  BY <1>6, <1>10, <1>11 DEF Next

\* No step takes the recording out of the invariant.
LEMMA StepOK ==
  ASSUME IInv, Fresh, [Next]_vars
  PROVE  IInv' /\ Fresh'
<1>1. CASE Next
  <2>1. Fresh'
    BY <1>1, FreshKeeps DEF IInv
  <2>2. ASSUME NEW x \in Clients, NEW q \in RequestsOf[x], Begin(x, q) PROVE IInv'
    BY <2>2, LookUpKeeps, HashesKeep DEF Next
  <2>3. ASSUME NEW x \in Clients, Serve(x) PROVE IInv'
    <3>1. Hashes'
      BY <2>3, HashesKeep DEF Next
    <3> QED
      BY <2>3, <3>1, LookUpKeeps, PassKeeps, FilesKeep, HoldersKeep DEF Serve
  <2> QED
    BY <1>1, <2>1, <2>2, <2>3, HashesKeep, SaveKeeps, ReopenKeeps, LookKeeps DEF Next
<1>2. CASE UNCHANGED vars
  BY <1>2 DEF vars, IInv, TypeOK, Locals, Placed, Writers, InUse, Origin, HitOrigin, HeadLast,
              Hashes, Complete, Shape, Fresh, Open, Sealed, Data, AnswerTo
<1> QED
  BY <1>1, <1>2

\* What all the theorems follow from.
LEMMA Invariant == Spec => [](IInv /\ Fresh)
<1>1. Init => IInv /\ Fresh
  <2>1. Init => Fresh
    BY DEF Init, Fresh, Idle
  <2> QED
    BY <2>1, InitOK
<1>2. IInv /\ Fresh /\ [Next]_vars => IInv' /\ Fresh'
  BY StepOK
<1> QED
  BY <1>1, <1>2, PTL DEF Spec

-----------------------------------------------------------------------------
(* Theorems *)

\* Every reachable state is well formed, and who copies or writes a head holds an open writer.
THEOREM CacheTypes == Spec => []TypeOK
<1>1. IInv => TypeOK
  BY DEF IInv
<1> QED
  BY <1>1, Invariant, PTL

\* A resp-head in the recording, or in what was saved of it, has its three other files.
THEOREM HeadComesLast == Spec => []HeadLast
<1>1. IInv => HeadLast
  BY DEF IInv
<1> QED
  BY <1>1, Invariant, PTL

\* Whoever recorded it, and from whatever the request was sent: a hit is an answer to a
\* request that agrees with this one in everything that no filter for it names.
THEOREM HitsFit == Spec => []HitFits
<1>1. IInv => HitFits
  <2> SUFFICES ASSUME IInv, hit.req # None, NEW i \in {1, 2}
               PROVE  Fits(hit.resp[i].ans.to, hit.req)
    BY DEF HitFits
  <2>1. PICK q \in Requests : Key(q) = Key(hit.req) /\ hit.resp[i].ans.to = Sent(q)
    BY DEF IInv, HitOrigin, AnswerTo
  <2> QED
    BY <2>1, KeyFits
<1> QED
  BY <1>1, Invariant, PTL

-----------------------------------------------------------------------------
(* When no writer fails to be made, a quiet recording can be saved           *)

Faults == {"fault", "headFault"}
NoFault == \A k \in Faults : left[k] = Quota[k]

\* Unless a writer failed to be made, which is counted, no file is without one.
Whole ==
  /\ \A k \in Faults : left[k] <= Quota[k]
  /\ NoFault => \A k \in Keys, part \in Parts : file[k][part] # Hollow

\* Only a failed write leaves a file without a writer.
LEMMA WholeKeeps ==
  ASSUME TypeOK, Whole, [Next]_vars
  PROVE  Whole'
<1>1. /\ Len(wr) \in Nat /\ left \in [Bounded -> Nat]
      /\ file \in [Keys -> [Parts -> Hollow..Len(wr)]]
      /\ kept \in [Keys -> [Parts -> Absent..Len(wr)]]
  BY Types DEF TypeOK
<1>2. ASSUME left' = left, NoFault => \A k \in Keys, part \in Parts : file'[k][part] # Hollow
      PROVE  Whole'
  BY <1>2 DEF Whole, NoFault
<1>3. ASSUME NEW k \in Bounded \ Faults, Spend(k), file' = file PROVE Whole'
  <2>1. \A j \in Faults : left'[j] = left[j]
    BY <1>1, <1>3 DEF Spend, Faults, Bounded
  <2> QED
    BY <1>3, <2>1 DEF Whole, NoFault
<1>4. ASSUME NEW j, NEW part, file' = [file EXCEPT ![j][part] = Len(wr) + 1], left' = left
      PROVE  Whole'
  <2>1. \A k \in Keys, p \in Parts : file[k][p] # Hollow => file'[k][p] # Hollow
    BY <1>1, <1>4 DEF Hollow
  <2> QED
    BY <1>2, <1>4, <2>1 DEF Whole
<1>5. ASSUME NEW x \in Clients, NEW part, NEW l, RootWriteFails(x, part, l) PROVE Whole'
  <2>1. PICK k \in Faults : Spend(k)
    BY <1>5 DEF RootWriteFails, Faults
  <2>2. /\ \A j \in Faults : left[j] \in Nat /\ Quota[j] \in Nat /\ left[j] <= Quota[j]
        /\ left'[k] = left[k] - 1 /\ \A j \in Faults \ {k} : left'[j] = left[j]
    BY <1>1, <2>1, CacheAssumption DEF Spend, Faults, Bounded, Whole
  <2>3. \A j \in Faults : left'[j] <= Quota[j]
    BY <2>2
  <2>4. left'[k] # Quota[k]
    BY <2>2
  <2> QED
    BY <2>3, <2>4 DEF Whole, NoFault
<1>6. ASSUME NEW x \in Clients, Serve(x) PROVE Whole'
  <2>1. GenReqHashFails(x) \/ CloseBody(x) => Whole'
    <3>1. "hashFault" \in Bounded \ Faults /\ "abort" \in Bounded \ Faults
      BY DEF Bounded, Faults
    <3> QED
      BY <1>2, <1>3, <3>1 DEF GenReqHashFails, CloseBody, Whole
  <2>2. PutReqHead(x) \/ PutRespBody(x) \/ PutRespHead(x) \/ LinkReqBody(x) => Whole'
    BY <1>4, <1>5 DEF PutReqHead, PutRespBody, PutRespHead, LinkReqBody, RootWrite
  <2>3. ReadHead(x) \/ ReadBody(x) \/ Fetch(x) \/ Rehash(x) \/ Pass(x) => Whole'
    BY <1>2 DEF ReadHead, ReadBody, Fetch, Rehash, Pass, Whole
  <2>4. CloseReqHead(x) \/ Copy(x) \/ CloseRespHead(x) => Whole'
    BY <1>2 DEF CloseReqHead, Copy, CloseRespHead, Whole
  <2> QED
    BY <1>6, <2>1, <2>2, <2>3, <2>4 DEF Serve
<1>7. ASSUME file' = file, NEW k \in {"request", "save", "look"}, Spend(k) PROVE Whole'
  BY <1>3, <1>7 DEF Bounded, Faults
<1>8. ASSUME Reopen PROVE Whole'
  <2>1. left' = left /\ \A k \in Keys, part \in Parts : file'[k][part] # Hollow
    BY <1>1, <1>8 DEF Reopen, Absent, Hollow
  <2> QED
    BY <1>2, <2>1
<1>9. CASE UNCHANGED vars
  BY <1>2, <1>9 DEF vars, Whole
<1> QED
  BY <1>6, <1>7, <1>8, <1>9 DEF Next, Begin, Save, HashEntry

\* Aborts, requests that could not be hashed and overlapping requests for one key
\* leave no open writer behind: once all are done the recording can be saved.
THEOREM QuietSaves == Spec => []QuietSaveable
<1>1. Init => Whole
  BY CacheAssumption DEF Init, Whole, NoFiles, Absent, Hollow, Faults, Bounded
<1>2. IInv /\ Whole => QuietSaveable
  <2> SUFFICES ASSUME IInv, Whole, NoFault, \A x \in Clients : c[x].at = "idle",
                      NEW k \in Keys, NEW part \in Parts, file[k][part] # Absent
               PROVE  Sealed(file[k][part])
    BY DEF QuietSaveable, NoFault, Faults
  <2>1. file[k][part] \in 1..Len(wr)
    BY Types DEF IInv, TypeOK, Whole, Absent, Hollow
  <2>2. ~wr[file[k][part]].open
    BY <2>1 DEF IInv, InUse, Writing
  <2> QED
    BY <2>1, <2>2 DEF Sealed
<1>3. IInv /\ Whole /\ [Next]_vars => Whole'
  BY WholeKeeps DEF IInv
<1> QED
  BY <1>1, <1>2, <1>3, Invariant, PTL DEF Spec

-----------------------------------------------------------------------------
(* A replay                                                                  *)

Reading == {"idle", "readHead", "readBody", "miss", "missRaw"}

\* What was saved is all there is to a replay, where no request gets to record anything.
Replayed ==
  replay => file = kept /\ hash = kept /\ \A x \in Clients : c[x].at \in Reading

\* A request in a replay only reads, and misses what has no resp-head there.
LEMMA ReplayReads ==
  ASSUME IInv, Replayed, replay, NEW x \in Clients,
         Serve(x) \/ \E q \in RequestsOf[x] : Begin(x, q)
  PROVE  /\ UNCHANGED <<file, hash, kept, replay>>
         /\ c'[x].at \in Reading /\ \A y \in Clients \ {x} : c'[y] = c[y]
         /\ c[x].at # "miss" /\ c'[x].at = "miss"
              => file[Key(c[x].req)]["resp-head"] = Absent
<1>1. /\ c \in [Clients -> State] /\ c[x].at \in Reading
      /\ c[x].at # "idle" => Key(c[x].req) \in Keys
      /\ \A k \in Keys, part \in Parts : file[k][part] = Absent \/ Sealed(file[k][part])
  BY Types, KeyInKeys DEF IInv, Replayed, Locals, Hashes, Complete
<1>10. ASSUME NEW k \in Keys, NEW part \in Parts, Hashed(k, part) PROVE hash' = hash
  <2>1. hash = file /\ hash \in Shape
    BY DEF IInv, Hashes, Replayed
  <2>2. hash' = [hash EXCEPT ![k][part] = hash[k][part]]
    BY <1>10, <2>1 DEF Hashed
  <2> QED
    BY <2>1, <2>2 DEF Shape
<1>2. ASSUME NEW s, c' = [c EXCEPT ![x] = s]
      PROVE  c'[x] = s /\ \A y \in Clients \ {x} : c'[y] = c[y]
  BY <1>1, <1>2
<1>3. ASSUME NEW l, Goto(x, l)
      PROVE  c'[x].at = l /\ \A y \in Clients \ {x} : c'[y] = c[y]
  BY <1>1, <1>3 DEF Goto, State
<1>4. ASSUME Finish(x)
      PROVE  c'[x].at = "idle" /\ \A y \in Clients \ {x} : c'[y] = c[y]
  BY <1>2, <1>4 DEF Finish, Idle
<1>5. CASE \E q \in RequestsOf[x] : Begin(x, q)
  <2>1. PICK q \in RequestsOf[x] : Begin(x, q)
    BY <1>5
  <2>2. c'[x].at = "readHead" /\ \A y \in Clients \ {x} : c'[y] = c[y]
    <3> DEFINE s == [c[x] EXCEPT !.at = "readHead", !.req = q]
    <3>1. c' = [c EXCEPT ![x] = s]
      BY <1>1, <2>1, Begins
    <3>2. s.at = "readHead"
      BY <1>1 DEF State
    <3> HIDE DEF s
    <3> QED
      BY <1>2, <3>1, <3>2
  <2> QED
    BY <2>1, <2>2 DEF Begin, Reading
<1>6. CASE GenReqHashFails(x)
  BY <1>3, <1>6 DEF GenReqHashFails, Reading
<1>7. CASE ReadHead(x)
  <2> DEFINE f == file[Key(c[x].req)]["resp-head"]
  <2>1. CASE Sealed(f)
    <3>1. c'[x].at = "readBody" /\ \A y \in Clients \ {x} : c'[y] = c[y]
      BY <1>1, <1>7, <2>1 DEF ReadHead, State
    <3> QED
      BY <1>1, <1>7, <1>10, <2>1, <3>1 DEF ReadHead, Reading, Parts
  <2>2. CASE ~Sealed(f)
    <3>1. f = Absent
      BY <1>1, <1>7, <2>2 DEF ReadHead, Parts
    <3> QED
      BY <1>3, <1>7, <2>2, <3>1 DEF ReadHead, Reading
  <2> QED
    BY <2>1, <2>2
<1>8. CASE ReadBody(x)
  <2> DEFINE f == file[Key(c[x].req)]["resp-body"]
             h == file[Key(c[x].req)]["resp-head"]
  <2>1. CASE Sealed(f)
    BY <1>1, <1>4, <1>8, <1>10, <2>1 DEF ReadBody, Reading, Parts
  <2>2. CASE ~Sealed(f)
    <3>1. f = Absent
      BY <1>1, <1>8, <2>2 DEF ReadBody, Parts
    <3>2. ~(h > 0)
      BY <1>1, <1>8, <3>1 DEF ReadBody, IInv, HeadLast, Parts, Absent
    <3>3. h = Absent
      BY <1>1, <1>8, <3>2 DEF ReadBody, Parts, Sealed
    <3> QED
      BY <1>3, <1>8, <2>2, <3>3 DEF ReadBody, Reading
  <2> QED
    BY <2>1, <2>2
<1>9. CASE Fetch(x)
  BY <1>4, <1>9 DEF Fetch, Reading
<1> QED
  BY <1>1, <1>5, <1>6, <1>7, <1>8, <1>9
     DEF Serve, Reading, Rehash, PutReqHead, CloseReqHead, LinkReqBody, PutRespBody, Copy,
         CloseBody, PutRespHead, CloseRespHead, Pass

\* A recording that was saved and opened stays as it was saved.
LEMMA ReplayedKeeps ==
  ASSUME IInv, Replayed, [Next]_vars
  PROVE  Replayed'
<1>2. ASSUME replay' PROVE file' = kept' /\ hash' = kept' /\ \A x \in Clients : c'[x].at \in Reading
  <2>1. CASE UNCHANGED vars
    BY <1>2, <2>1 DEF vars, Replayed
  <2>2. CASE Reopen
    BY <2>2 DEF Reopen, Reading
  <2>3. CASE Save
    BY <1>2, <2>3 DEF Save
  <2>5. CASE \E k \in Keys, part \in Parts : HashEntry(k, part)
    BY <1>2, <2>5 DEF HashEntry
  <2>4. ASSUME NEW x \in Clients, Serve(x) \/ \E q \in RequestsOf[x] : Begin(x, q)
        PROVE  file' = kept' /\ hash' = kept' /\ \A y \in Clients : c'[y].at \in Reading
    <3>1. replay
      BY <1>2, <2>4
         DEF Serve, Begin, GenReqHashFails, ReadHead, ReadBody, Fetch, Rehash, PutReqHead,
             CloseReqHead, LinkReqBody, PutRespBody, Copy, CloseBody, PutRespHead,
             CloseRespHead, Pass, RootWrite, RootWriteFails
    <3> QED
      BY <2>4, <3>1, ReplayReads DEF Replayed
  <2> QED
    BY <2>1, <2>2, <2>3, <2>4, <2>5 DEF Next
<1> QED
  BY <1>2 DEF Replayed

\* Nothing changes in a replay, and what was saved with its resp-head is found.
THEOREM ReplaysServe == Spec => ReplayServes
<1>1. Init => Replayed
  BY DEF Init, Replayed
<1>2. IInv /\ Replayed /\ [Next]_vars =>
        [replay =>
           /\ file' = file
           /\ \A x \in Clients :
                c[x].at # "miss" /\ c'[x].at = "miss"
                  => file[Key(c[x].req)]["resp-head"] = Absent]_vars
  <2> SUFFICES ASSUME IInv, Replayed, Next, replay
               PROVE  /\ file' = file
                      /\ \A x \in Clients :
                           c[x].at # "miss" /\ c'[x].at = "miss"
                             => file[Key(c[x].req)]["resp-head"] = Absent
    OBVIOUS
  <2>1. ~Save /\ ~Reopen /\ \A k, part : ~HashEntry(k, part)
    BY DEF Save, Reopen, HashEntry
  <2>2. PICK x \in Clients : Serve(x) \/ \E q \in RequestsOf[x] : Begin(x, q)
    BY <2>1 DEF Next
  <2> QED
    BY <2>2, ReplayReads
<1>3. IInv /\ Replayed /\ [Next]_vars => Replayed'
  BY ReplayedKeeps
<1> QED
  BY <1>1, <1>2, <1>3, Invariant, PTL DEF Spec, ReplayServes

-----------------------------------------------------------------------------
(* Each request is recorded once: a step of ProxyCache is one of            *)
(* ResponseCache, or changes nothing of it.                                 *)

\* Two clients never ask for the same, every request can be hashed, and a writer for
\* every resp-head can be made.
OwnKeys ==
  /\ Quota["hashFault"] = 0 /\ Quota["headFault"] = 0
  /\ \A x, y \in Clients : x # y =>
       \A q \in RequestsOf[x], r \in RequestsOf[y] : Key(q) # Key(r)

\* What stands for no response is none.
NoneDiffers == None \notin {<<d, d>> : d \in Content}

\* What is recorded is a head with the body whose hash it has.
Settled(files, k) ==
  Sealed(files[k]["resp-head"]) =>
    /\ Sealed(files[k]["resp-body"])
    /\ Data(files[k]["resp-head"]) = Data(files[k]["resp-body"])

\* A client here found no recording.
Missed == {"miss", "putReq", "reqHead", "link", "putBody", "copy", "putHead", "head"}

\* The file that the open writer of a client is for.
WriterFor == {<<"reqHead", "req-head">>, <<"copy", "resp-body">>, <<"head", "resp-head">>}

Answer(x) == [ans |-> c[x].ans, n |-> c[x].n]

\* A client and the files of its request, which no other client touches.
Exchange(x) ==
  LET k == Key(c[x].req)
  IN /\ c[x].at # "idle" => c[x].req \in RequestsOf[x]
     /\ c[x].at \notin {"missRaw", "rehash"}
     /\ c[x].at = "readBody" =>
          Sealed(file[k]["resp-head"]) /\ Data(file[k]["resp-head"]) = c[x].hd
     /\ c[x].at \in Missed => ~Sealed(file[k]["resp-head"])
     /\ c[x].at = "copy" => file[k]["resp-body"] = c[x].w
     /\ c[x].at \in {"putHead", "head"} =>
          Sealed(file[k]["resp-body"]) /\ Data(file[k]["resp-body"]) = Answer(x)
     /\ c[x].at = "head" => file[k]["resp-head"] = c[x].w /\ Data(c[x].w) = Answer(x)
     /\ c[x].at \in Writing =>
          \A j \in Keys, part \in Parts :
            file[j][part] = c[x].w => j = k /\ <<c[x].at, part>> \in WriterFor

Unspent == left["hashFault"] = 0 /\ left["headFault"] = 0

\* The hash in an entry of a response is that of its file as it is now,
Clean == \A k \in Keys, part \in RespParts : hash[k][part] \in {Absent, file[k][part]}

\* as a body that was closed is never written again: its head is, or is about to be.
Bodies ==
  ~replay => \A k \in Keys : Sealed(file[k]["resp-body"]) =>
    \/ Sealed(file[k]["resp-head"])
    \/ \E x \in Clients : c[x].at \in {"putHead", "head"} /\ Key(c[x].req) = k

Once ==
  /\ Unspent /\ Clean /\ Bodies
  /\ \A x \in Clients : Exchange(x)
  /\ \A k \in Keys : Settled(file, k) /\ Settled(kept, k)

\* What a step of client x may touch: the files of its request, with new writers, and
\* the writer in its hands.
Touches(x) ==
  /\ UNCHANGED <<kept, replay>>
  /\ \A y \in Clients \ {x} : c'[y] = c[y]
  /\ \A j \in Keys, part \in Parts :
       \/ file'[j][part] = file[j][part]
       \/ /\ c[x].at # "idle" /\ j = Key(c[x].req)
          /\ file'[j][part] \notin 1..Len(wr)
  /\ \A f \in 1..Len(wr) : wr'[f] = wr[f] \/ (c[x].at \in Writing /\ f = c[x].w)

\* The keys of a client are its own.
LEMMA OwnKey ==
  ASSUME IInv, Once, OwnKeys, NEW x \in Clients, c[x].at # "idle"
  PROVE  /\ c[x].req \in Requests /\ c[x].req \in RequestsOf[x] /\ Key(c[x].req) \in Keys
         /\ \A y \in Clients \ {x} : c[y].at # "idle" => Key(c[y].req) # Key(c[x].req)
<1>1. \A y \in Clients : c[y].at # "idle" => c[y].req \in RequestsOf[y]
  BY DEF Once, Exchange
<1> QED
  BY <1>1, KeyInKeys DEF OwnKeys, IInv, Locals

\* Files are numbers of writers, or none.
LEMMA Numbers ==
  ASSUME TypeOK, NEW k \in Keys, NEW part \in Parts
  PROVE  /\ file[k][part] \in 1..Len(wr) \/ file[k][part] \in {Absent, Hollow}
         /\ kept[k][part] \in 1..Len(wr) \/ kept[k][part] = Absent
         /\ file[k][part] \notin 1..Len(wr) => ~Sealed(file[k][part])
         /\ kept[k][part] \notin 1..Len(wr) => ~Sealed(kept[k][part])
<1>1. /\ Len(wr) \in Nat /\ file[k][part] \in Hollow..Len(wr)
      /\ kept[k][part] \in Absent..Len(wr)
  BY Types DEF TypeOK
<1>2. file[k][part] \in 1..Len(wr) \/ file[k][part] \in {Absent, Hollow}
  BY <1>1 DEF Absent, Hollow
<1>3. kept[k][part] \in 1..Len(wr) \/ kept[k][part] = Absent
  BY <1>1 DEF Absent
<1>4. ~Sealed(Absent) /\ ~Sealed(Hollow)
  BY DEF Sealed, Absent, Hollow
<1> QED
  BY <1>2, <1>3, <1>4

LEMMA InHand ==
  ASSUME IInv, NEW x \in Clients, c[x].at \in Writing
  PROVE  c[x].w \in 1..Len(wr) /\ wr[c[x].w].open /\ ~Sealed(c[x].w)
<1>1. c[x].w \in 0..Len(wr) /\ Len(wr) \in Nat
  BY Types DEF IInv, State
<1>2. c[x].w > 0 /\ wr[c[x].w].open
  BY DEF IInv, TypeOK, Writing, Open
<1> QED
  BY <1>1, <1>2 DEF Sealed

\* What client x does not touch is read as before.
LEMMA Spared ==
  ASSUME NEW x \in Clients, Touches(x), NEW f \in 1..Len(wr),
         c[x].at \in Writing => f # c[x].w
  PROVE  Sealed(f)' = Sealed(f) /\ Data(f)' = Data(f)
BY DEF Touches, Sealed, Data

\* ... which is so of what was saved,
LEMMA KeptSpared ==
  ASSUME IInv, NEW x \in Clients, Touches(x), NEW k \in Keys, NEW part \in Parts
  PROVE  /\ kept'[k][part] = kept[k][part]
         /\ Sealed(kept[k][part])' = Sealed(kept[k][part])
         /\ Sealed(kept[k][part]) => Data(kept[k][part])' = Data(kept[k][part])
<1>1. kept' = kept
  BY DEF Touches
<1>2. PICK f : f = kept[k][part]
  OBVIOUS
<1>3. CASE f \in 1..Len(wr)
  <2>1. Sealed(f)
    BY <1>2, <1>3 DEF IInv, Hashes, Complete, Absent
  <2>2. c[x].at \in Writing => f # c[x].w
    BY <2>1, InHand
  <2>3. Sealed(f)' = Sealed(f) /\ Data(f)' = Data(f)
    BY <1>3, <2>2, Spared
  <2> QED
    BY <1>1, <1>2, <2>3 DEF Sealed, Data
<1>4. CASE f \notin 1..Len(wr)
  <2>1. f = 0
    BY <1>2, <1>4, Numbers DEF IInv, Absent
  <2> QED
    BY <1>1, <1>2, <2>1 DEF Sealed
<1> QED
  BY <1>3, <1>4

\* ... and of the files of all other keys.
LEMMA FileSpared ==
  ASSUME IInv, Once, NEW x \in Clients, Touches(x), NEW k \in Keys, NEW part \in Parts,
         c[x].at # "idle" => k # Key(c[x].req)
  PROVE  /\ file'[k][part] = file[k][part]
         /\ Sealed(file[k][part])' = Sealed(file[k][part])
         /\ Sealed(file[k][part]) => Data(file[k][part])' = Data(file[k][part])
<1>1. PICK f : f = file[k][part]
  OBVIOUS
<1>2. file'[k][part] = f
  BY <1>1 DEF Touches
<1>3. CASE f \in 1..Len(wr)
  <2>1. c[x].at \in Writing => f # c[x].w
    BY <1>1 DEF Once, Exchange, Writing
  <2>2. Sealed(f)' = Sealed(f) /\ Data(f)' = Data(f)
    BY <1>3, <2>1, Spared
  <2> QED
    BY <1>1, <1>2, <2>2 DEF Sealed, Data
<1>4. CASE f \notin 1..Len(wr)
  <2>1. f = 0 \/ f = -1
    BY <1>1, <1>4, Numbers DEF IInv, Absent, Hollow
  <2> QED
    BY <1>1, <1>2, <2>1 DEF Sealed
<1> QED
  BY <1>3, <1>4

\* So the exchanges of the other clients go on as they were,
LEMMA OthersKeep ==
  ASSUME IInv, Once, OwnKeys, NEW x \in Clients, Touches(x), NEW y \in Clients \ {x}
  PROVE  Exchange(y)'
<1>1. c'[y] = c[y] /\ Exchange(y)
  BY DEF Touches, Once
<1>2. CASE c[y].at = "idle"
  BY <1>1, <1>2 DEF Exchange, Missed, Writing
<1>3. CASE c[y].at # "idle"
  <2>1. PICK k : k = Key(c[y].req)
    OBVIOUS
  <2>2. k \in Keys /\ (c[x].at # "idle" => k # Key(c[x].req)) /\ Key(c'[y].req) = k
    BY <1>1, <1>3, <2>1, OwnKey
  <2>3. /\ file'[k]["resp-head"] = file[k]["resp-head"]
        /\ file'[k]["resp-body"] = file[k]["resp-body"]
        /\ Sealed(file[k]["resp-head"])' = Sealed(file[k]["resp-head"])
        /\ Sealed(file[k]["resp-body"])' = Sealed(file[k]["resp-body"])
        /\ Sealed(file[k]["resp-head"]) =>
             Data(file[k]["resp-head"])' = Data(file[k]["resp-head"])
        /\ Sealed(file[k]["resp-body"]) =>
             Data(file[k]["resp-body"])' = Data(file[k]["resp-body"])
    BY <2>2, FileSpared DEF Parts
  <2>4. Answer(y)' = Answer(y)
    BY <1>1 DEF Answer
  <2>5. c[y].at = "readBody" =>
          /\ Sealed(file[k]["resp-head"])'
          /\ Data(file[k]["resp-head"])' = c'[y].hd
    BY <1>1, <2>1, <2>3 DEF Exchange
  <2>6. c[y].at \in Missed => ~Sealed(file[k]["resp-head"])'
    BY <1>1, <2>1, <2>3 DEF Exchange
  <2>7. c[y].at = "copy" => file'[k]["resp-body"] = c'[y].w
    BY <1>1, <2>1, <2>3 DEF Exchange
  <2>8. c[y].at \in {"putHead", "head"} =>
          /\ Sealed(file[k]["resp-body"])'
          /\ Data(file[k]["resp-body"])' = Answer(y)'
    BY <1>1, <2>1, <2>3, <2>4 DEF Exchange
  <2>9. ASSUME c[y].at \in Writing
        PROVE  /\ wr'[c[y].w] = wr[c[y].w]
               /\ \A j \in Keys, part \in Parts :
                    file'[j][part] = c[y].w => j = k /\ <<c[y].at, part>> \in WriterFor
    <3>1. c[y].w \in 1..Len(wr) /\ (c[x].at \in Writing => c[y].w # c[x].w)
      BY <2>9, InHand DEF IInv, Writers
    <3>2. wr'[c[y].w] = wr[c[y].w]
      BY <3>1 DEF Touches
    <3>3. ASSUME NEW j \in Keys, NEW part \in Parts, file'[j][part] = c[y].w
          PROVE  file[j][part] = c[y].w
      BY <3>1, <3>3 DEF Touches
    <3> QED
      BY <1>1, <2>1, <2>9, <3>2, <3>3 DEF Exchange
  <2>10. c[y].at = "head" =>
           /\ file'[k]["resp-head"] = c'[y].w
           /\ Data(c[y].w)' = Answer(y)'
    <3>1. ASSUME c[y].at = "head" PROVE Data(c[y].w)' = Data(c[y].w)
      BY <1>1, <2>9, <3>1 DEF Data, Writing
    <3> QED
      BY <1>1, <2>1, <2>3, <2>4, <3>1 DEF Exchange
  <2> QED
    BY <1>1, <1>3, <2>1, <2>2, <2>5, <2>6, <2>7, <2>8, <2>9, <2>10 DEF Exchange, Data
<1> QED
  BY <1>2, <1>3

\* ... and so does the recording, but for the client's own key.
LEMMA RecordedKept ==
  ASSUME IInv, Once, Replayed, NEW x \in Clients, Touches(x), NEW k \in Keys
  PROVE  /\ Settled(kept, k)' /\ Recorded(kept, k)' = Recorded(kept, k)
         /\ (c[x].at # "idle" => k # Key(c[x].req)) =>
              Settled(file, k)' /\ Recorded(file, k)' = Recorded(file, k)
<1>1. {"resp-head", "resp-body"} \subseteq Parts /\ Settled(kept, k) /\ Settled(file, k)
  BY DEF Parts, Once
<1>2. Settled(kept, k)' /\ Recorded(kept, k)' = Recorded(kept, k)
  <2>1. \A part \in {"resp-head", "resp-body"} :
          /\ Sealed(kept[k][part])' = Sealed(kept[k][part])
          /\ Sealed(kept[k][part]) => Data(kept[k][part])' = Data(kept[k][part])
    BY <1>1, KeptSpared
  <2> QED
    BY <1>1, <2>1 DEF Settled, Recorded
<1>3. ASSUME c[x].at # "idle" => k # Key(c[x].req)
      PROVE  Settled(file, k)' /\ Recorded(file, k)' = Recorded(file, k)
  <2>1. \A part \in {"resp-head", "resp-body"} :
          /\ Sealed(file[k][part])' = Sealed(file[k][part])
          /\ Sealed(file[k][part]) => Data(file[k][part])' = Data(file[k][part])
    BY <1>1, <1>3, FileSpared
  <2> QED
    BY <1>1, <2>1 DEF Settled, Recorded
<1> QED
  BY <1>2, <1>3

\* A step that changes neither files nor writers records nothing, nor does one with
\* no sealed head for the client's request before and after it.
LEMMA NothingRecorded ==
  ASSUME IInv, Once, Replayed, NEW x \in Clients, Touches(x),
         \/ UNCHANGED <<file, wr>>
         \/ /\ ~Sealed(file[Key(c[x].req)]["resp-head"])
            /\ ~Sealed(file[Key(c[x].req)]["resp-head"])'
            /\ c[x].at # "idle" /\ c'[x].req = c[x].req
  PROVE  \A k \in Keys : Settled(file, k)' /\ Recorded(file, k)' = Recorded(file, k)
<1>1. ASSUME UNCHANGED <<file, wr>>, NEW k \in Keys
      PROVE  Settled(file, k)' /\ Recorded(file, k)' = Recorded(file, k)
  BY <1>1 DEF Once, Settled, Recorded, Sealed, Data
<1>2. ASSUME NEW k \in Keys, k = Key(c[x].req), ~Sealed(file[k]["resp-head"]),
             ~Sealed(file[k]["resp-head"])'
      PROVE  Settled(file, k)' /\ Recorded(file, k)' = Recorded(file, k)
  BY <1>2 DEF Settled, Recorded
<1> QED
  BY <1>1, <1>2, RecordedKept

\* What ResponseCache sees of such a step is nothing.
LEMMA Stutters ==
  ASSUME UNCHANGED <<replay, hit>>,
         \A k \in Keys : /\ Recorded(file, k)' = Recorded(file, k)
                         /\ Recorded(kept, k)' = Recorded(kept, k)
  PROVE  UNCHANGED Cache!vars
<1>1. [k \in Keys |-> Recorded(file, k)]' = [k \in Keys |-> Recorded(file, k)]
  OBVIOUS
<1>2. [k \in Keys |-> Recorded(kept, k)]' = [k \in Keys |-> Recorded(kept, k)]
  OBVIOUS
<1> QED
  BY <1>1, <1>2 DEF Cache!vars

\* A hit is on what is recorded.
LEMMA HitsRecorded ==
  ASSUME NoneDiffers, NEW k \in Keys, NEW q, Key(q) = k, q # None,
         Recorded(file, k) # None, hit' = [req |-> q, resp |-> Recorded(file, k)],
         UNCHANGED <<file, wr, kept, replay>>
  PROVE  Cache!Next
<1>1. /\ [j \in Keys |-> Recorded(file, j)]' = [j \in Keys |-> Recorded(file, j)]
      /\ [j \in Keys |-> Recorded(kept, j)]' = [j \in Keys |-> Recorded(kept, j)]
  BY DEF Recorded, Sealed, Data
<1>2. [j \in Keys |-> Recorded(file, j)][k] = Recorded(file, k)
  OBVIOUS
<1>3. hit'.req = q /\ hit'.resp = Recorded(file, k)
  OBVIOUS
<1>4. Cache!Hit(k)
  BY <1>1, <1>2, <1>3 DEF Cache!Hit
<1> QED
  BY <1>4 DEF Cache!Next

\* What is recorded was not recorded before, is a response, and leaves the rest alone.
LEMMA RecordsNew ==
  ASSUME ~replay, NEW k \in Keys, NEW d \in Content, Recorded(file, k) = None,
         Recorded(file, k)' = <<d, d>>,
         \A j \in Keys \ {k} : Recorded(file, j)' = Recorded(file, j),
         \A j \in Keys : Recorded(kept, j)' = Recorded(kept, j),
         UNCHANGED <<replay, hit>>
  PROVE  Cache!Next
<1> DEFINE rec  == [j \in Keys |-> Recorded(file, j)]
           save == [j \in Keys |-> Recorded(kept, j)]
<1>1. save' = save
  OBVIOUS
<1>2. rec[k] = None /\ rec'[k] = <<d, d>> /\ rec' = [rec EXCEPT ![k] = rec'[k]]
  OBVIOUS
<1>3. <<d, d>> \in {<<e, e>> : e \in Content}
  OBVIOUS
<1>4. Cache!Record(k)
  BY <1>1, <1>2, <1>3 DEF Cache!Record
<1> QED
  BY <1>4 DEF Cache!Next

\* A step that changes nothing of what is recorded or was saved.
Unseen == \A k \in Keys : /\ Recorded(file, k)' = Recorded(file, k)
                          /\ Recorded(kept, k)' = Recorded(kept, k)

\* What client x does to the body of its request.
BodyStep(x) ==
  \A j \in Keys :
    ~replay /\ c[x].at # "idle" /\ Key(c[x].req) = j /\ Sealed(file[j]["resp-body"])' =>
      \/ Sealed(file[j]["resp-head"])'
      \/ c'[x].at \in {"putHead", "head"} /\ c'[x].req = c[x].req

LEMMA BodiesKeep ==
  ASSUME IInv, Once, OwnKeys, NEW x \in Clients, Touches(x), BodyStep(x)
  PROVE  Bodies'
<1> SUFFICES ASSUME ~replay, NEW k \in Keys, Sealed(file[k]["resp-body"])'
             PROVE  \/ Sealed(file[k]["resp-head"])'
                    \/ \E y \in Clients : c'[y].at \in {"putHead", "head"} /\ Key(c'[y].req) = k
  BY DEF Bodies, Touches
<1>1. CASE c[x].at # "idle" /\ k = Key(c[x].req)
  BY <1>1 DEF BodyStep
<1>2. CASE c[x].at # "idle" => k # Key(c[x].req)
  <2>1. /\ Sealed(file[k]["resp-body"])' = Sealed(file[k]["resp-body"])
        /\ Sealed(file[k]["resp-head"])' = Sealed(file[k]["resp-head"])
    BY <1>2, FileSpared DEF Parts
  <2>2. \A y \in Clients \ {x} : c'[y] = c[y]
    BY DEF Touches
  <2> QED
    BY <1>2, <2>1, <2>2 DEF Once, Bodies
<1> QED
  BY <1>1, <1>2

\* A request that has no recording finds no body that is closed, either,
LEMMA NoBody ==
  ASSUME IInv, Once, OwnKeys, ~replay, NEW x \in Clients,
         c[x].at \notin {"idle", "putHead", "head"},
         ~Sealed(file[Key(c[x].req)]["resp-head"])
  PROVE  ~Sealed(file[Key(c[x].req)]["resp-body"])
<1>1. Key(c[x].req) \in Keys
  BY OwnKey
<1>2. ASSUME NEW y \in Clients, c[y].at \in {"putHead", "head"}, Key(c[y].req) = Key(c[x].req)
      PROVE  FALSE
  BY <1>2, OwnKey
<1> QED
  BY <1>1, <1>2 DEF Once, Bodies

\* ... and what is not closed has not been hashed.
LEMMA NoHash ==
  ASSUME IInv, Once, NEW k \in Keys, NEW part \in RespParts, ~Sealed(file[k][part])
  PROVE  hash[k][part] = Absent
<1>1. part \in Parts
  BY DEF Parts, RespParts
<1>2. hash[k][part] \in {Absent, file[k][part]}
  BY DEF Once, Clean
<1>3. hash[k][part] # Absent => Sealed(hash[k][part])
  BY <1>1 DEF IInv, Hashes, Complete
<1> QED
  BY <1>2, <1>3

\* A file whose writer a step spares does not get closed by it.
LEMMA StaysOpen ==
  ASSUME IInv, NEW k \in Keys, NEW part \in Parts, ~Sealed(file[k][part]),
         file'[k][part] = file[k][part],
         file[k][part] \in 1..Len(wr) => wr'[file[k][part]] = wr[file[k][part]]
  PROVE  ~Sealed(file[k][part])'
<1>1. PICK f : f = file[k][part]
  OBVIOUS
<1>2. file'[k][part] = f
  BY <1>1
<1>3. CASE f \in 1..Len(wr)
  BY <1>1, <1>2, <1>3 DEF Sealed
<1>4. CASE f \notin 1..Len(wr)
  <2>1. f = 0 \/ f = -1
    BY <1>1, <1>4, Numbers DEF IInv, Absent, Hollow
  <2> QED
    BY <1>2, <2>1 DEF Sealed
<1> QED
  BY <1>3, <1>4

\* Hashes are taken of files as they are.
Looks == \A k \in Keys, part \in RespParts : hash'[k][part] \in {hash[k][part], file[k][part]}

LEMMA CleanLooks ==
  ASSUME Once, Looks, file' = file
  PROVE  Clean'
BY DEF Once, Clean, Looks

LEMMA HashedLooks ==
  ASSUME IInv, NEW k \in Keys, NEW part \in Parts, Hashed(k, part)
  PROVE  Looks
BY DEF IInv, Hashes, Shape, Hashed, Looks

LEMMA OnceStep ==
  ASSUME IInv, Once, Replayed, OwnKeys, NEW x \in Clients, Touches(x), Exchange(x)',
         Unspent', Clean', BodyStep(x), \A k \in Keys : Settled(file, k)'
  PROVE  Once'
<1>1. \A k \in Keys : Settled(kept, k)'
  BY RecordedKept
<1>2. \A y \in Clients : Exchange(y)'
  BY OthersKeep
<1>3. Bodies'
  BY BodiesKeep
<1> QED
  BY <1>1, <1>2, <1>3 DEF Once

\* No bound but its own is spent.
LEMMA OtherSpent ==
  ASSUME IInv, Once, left' = left \/ \E k \in Bounded \ {"hashFault", "headFault"} : Spend(k)
  PROVE  Unspent'
BY DEF IInv, TypeOK, Once, Unspent, Spend, Bounded

\* A client that moves on and leaves files and writers alone.
LEMMA MoveOnce ==
  ASSUME IInv, Once, Replayed, OwnKeys, NEW x \in Clients, NEW s,
         c' = [c EXCEPT ![x] = s], UNCHANGED <<file, wr, kept, replay>>,
         Unspent', Looks, c[x].at \notin {"putHead", "head"},
         s.at \in {"idle", "readHead", "readBody", "miss", "putReq", "pass"},
         s.at # "idle" => s.req \in RequestsOf[x],
         s.at = "readBody" =>
           /\ Sealed(file[Key(s.req)]["resp-head"])
           /\ Data(file[Key(s.req)]["resp-head"]) = s.hd,
         s.at \in Missed => ~Sealed(file[Key(s.req)]["resp-head"])
  PROVE  Once' /\ Unseen
<1>1. c'[x] = s /\ \A y \in Clients \ {x} : c'[y] = c[y]
  BY Types DEF IInv
<1>2. Touches(x)
  BY <1>1 DEF Touches
<1>3. Exchange(x)'
  BY <1>1 DEF Exchange, Sealed, Data, Missed, Writing
<1>4. \A k \in Keys : Settled(file, k)' /\ Recorded(file, k)' = Recorded(file, k)
  BY <1>2, NothingRecorded
<1>5. BodyStep(x)
  <2> SUFFICES ASSUME NEW j \in Keys, ~replay, c[x].at # "idle", Key(c[x].req) = j,
                      Sealed(file[j]["resp-body"])
               PROVE  \/ Sealed(file[j]["resp-head"])
                      \/ c'[x].at \in {"putHead", "head"} /\ c'[x].req = c[x].req
    BY DEF BodyStep, Sealed
  <2> QED
    BY <1>1, NoBody
<1>6. Clean'
  BY CleanLooks
<1> QED
  BY <1>2, <1>3, <1>4, <1>5, <1>6, OnceStep, RecordedKept DEF Unseen

\* The same of a request that is given up or passed on.
LEMMA FinishOnce ==
  ASSUME IInv, Once, Replayed, OwnKeys, NEW x \in Clients, Finish(x), Looks,
         c[x].at \notin {"putHead", "head"}, UNCHANGED <<file, wr, kept, replay, left>>
  PROVE  Once' /\ Unseen
<1>1. Idle.at = "idle" /\ Unspent'
  BY OtherSpent DEF Idle
<1>2. c' = [c EXCEPT ![x] = Idle]
  BY DEF Finish
<1> QED
  BY <1>1, <1>2, MoveOnce DEF Missed

LEMMA GotoOnce ==
  ASSUME IInv, Once, Replayed, OwnKeys, NEW x \in Clients, Looks,
         c[x].at \notin {"idle", "putHead", "head"},
         NEW l \in {"miss", "pass"}, Goto(x, l), UNCHANGED <<file, wr, kept, replay>>,
         Unspent',
         l = "miss" => ~Sealed(file[Key(c[x].req)]["resp-head"])
  PROVE  Once' /\ Unseen
<1>1. PICK s : s = [c[x] EXCEPT !.at = l]
  OBVIOUS
<1>2. c[x] \in State
  BY Types DEF IInv
<1>3. s.at = l /\ s.req = c[x].req
  BY <1>1, <1>2 DEF State
<1>4. c' = [c EXCEPT ![x] = s]
  BY <1>1 DEF Goto
<1>5. s.req \in RequestsOf[x]
  BY <1>3, OwnKey
<1> QED
  BY <1>3, <1>4, <1>5, MoveOnce DEF Missed

LEMMA LookUpOnce ==
  ASSUME IInv, Once, Replayed, OwnKeys, NoneDiffers, NEW x \in Clients,
         \/ \E q \in RequestsOf[x] : Begin(x, q)
         \/ GenReqHashFails(x) \/ ReadHead(x) \/ ReadBody(x)
  PROVE  Once' /\ (Cache!Next \/ UNCHANGED Cache!vars)
<1>1. c[x] \in State
  BY Types DEF IInv
<1>2. CASE \E q \in RequestsOf[x] : Begin(x, q)
  <2>1. PICK q \in RequestsOf[x] : Begin(x, q)
    BY <1>2
  <2>2. PICK s : s = [c[x] EXCEPT !.at = "readHead", !.req = q]
    OBVIOUS
  <2>3. s.at = "readHead" /\ s.req = q /\ c' = [c EXCEPT ![x] = s]
    BY <1>1, <2>1, <2>2 DEF State, Begin
  <2>4. UNCHANGED <<file, wr, kept, replay, hit>> /\ Unspent' /\ Looks /\ c[x].at = "idle"
    BY <2>1, OtherSpent DEF Begin, Bounded, Looks
  <2>5. Once' /\ Unseen
    BY <2>3, <2>4, MoveOnce DEF Missed
  <2> QED
    BY <2>4, <2>5, Stutters DEF Unseen
<1>3. CASE GenReqHashFails(x)
  BY <1>3 DEF GenReqHashFails, Spend, Once, Unspent
<1>4. CASE ReadHead(x)
  <2>1. PICK f : f = file[Key(c[x].req)]["resp-head"]
    OBVIOUS
  <2>2. UNCHANGED <<file, wr, kept, replay, hit>> /\ Unspent'
        /\ c[x].at = "readHead"
    BY <1>4, OtherSpent DEF ReadHead
  <2>5. Looks
    BY <1>4, <2>2, OwnKey, HashedLooks DEF ReadHead, Parts, Looks
  <2>3. CASE Sealed(f)
    <3>1. PICK s : s = [c[x] EXCEPT !.at = "readBody", !.hd = Data(f)]
      OBVIOUS
    <3>2. s.at = "readBody" /\ s.req = c[x].req /\ s.hd = Data(f)
      BY <1>1, <3>1 DEF State
    <3>3. c' = [c EXCEPT ![x] = s]
      BY <1>4, <2>1, <2>3, <3>1 DEF ReadHead
    <3>4. s.req \in RequestsOf[x]
      BY <2>2, <3>2, OwnKey
    <3> QED
      BY <2>1, <2>2, <2>3, <2>5, <3>2, <3>3, <3>4, MoveOnce, Stutters DEF Missed, Unseen
  <2>4. CASE ~Sealed(f)
    <3>1. Goto(x, "miss")
      BY <1>4, <2>1, <2>4 DEF ReadHead
    <3> QED
      BY <2>1, <2>2, <2>4, <2>5, <3>1, GotoOnce, Stutters DEF Unseen
  <2> QED
    BY <2>3, <2>4
<1>5. CASE ReadBody(x)
  <2>1. PICK k : k = Key(c[x].req)
    OBVIOUS
  <2>2. UNCHANGED <<file, wr, kept, replay, left>> /\ c[x].at = "readBody"
    BY <1>5 DEF ReadBody
  <2>3. k \in Keys /\ c[x].req # None
    BY <2>1, <2>2, OwnKey, CacheAssumption
  <2>4. Sealed(file[k]["resp-head"]) /\ Data(file[k]["resp-head"]) = c[x].hd
    BY <2>1, <2>2 DEF Once, Exchange
  <2>5. Sealed(file[k]["resp-body"]) /\ Data(file[k]["resp-body"]) = c[x].hd
    BY <2>3, <2>4 DEF Once, Settled
  <2>6. Finish(x) /\ hit' = [req |-> c[x].req, resp |-> <<c[x].hd, c[x].hd>>]
    BY <1>5, <2>1, <2>5 DEF ReadBody
  <2>7. Recorded(file, k) = <<c[x].hd, c[x].hd>> /\ Recorded(file, k) # None
    <3>1. c[x].hd \in Content
      BY <1>1 DEF State
    <3> QED
      BY <2>4, <2>5, <3>1 DEF Recorded, NoneDiffers
  <2>8. Cache!Next
    BY <2>1, <2>2, <2>3, <2>6, <2>7, HitsRecorded
  <2>9. Looks
    BY <1>5, <2>1, <2>3, HashedLooks DEF ReadBody, Parts, Looks
  <2> QED
    BY <2>2, <2>6, <2>8, <2>9, FinishOnce
<1> QED
  BY <1>2, <1>3, <1>4, <1>5

LEMMA PassOnce ==
  ASSUME IInv, Once, Replayed, OwnKeys, NEW x \in Clients, Fetch(x) \/ Rehash(x) \/ Pass(x)
  PROVE  Once' /\ UNCHANGED Cache!vars
<1>1. /\ UNCHANGED <<file, wr, replay, kept, left, hit>> /\ Unspent' /\ Looks
      /\ c[x].at \in {"miss", "missRaw", "rehash", "pass"} /\ c[x] \in State
  BY OtherSpent, Types DEF Fetch, Rehash, Pass, IInv, Looks
<1>2. c[x].at \in {"miss", "pass"}
  BY <1>1 DEF Once, Exchange
<1>3. Once' /\ Unseen
  <2>1. CASE Finish(x)
    BY <1>1, <2>1, FinishOnce
  <2>2. CASE c[x].at = "miss" /\ \E a \in Answers : Answered(x, a)
    <3>1. PICK a \in Answers : Answered(x, a)
      BY <2>2
    <3>2. PICK s : s = [c[x] EXCEPT !.at = Recording(@), !.ans = [to |-> Sent(c[x].req), with |-> a]]
      OBVIOUS
    <3>3. s.at = "putReq" /\ s.req = c[x].req /\ c' = [c EXCEPT ![x] = s]
      <4>1. Recording(c[x].at) = "putReq"
        BY <2>2 DEF Recording
      <4>2. s.at = Recording(c[x].at) /\ s.req = c[x].req
        BY <1>1, <3>2 DEF State
      <4>3. c' = [c EXCEPT ![x] = s]
        BY <3>1, <3>2 DEF Answered
      <4> QED
        BY <4>1, <4>2, <4>3
    <3>4. s.req \in RequestsOf[x] /\ ~Sealed(file[Key(s.req)]["resp-head"])
      BY <2>2, <3>3, OwnKey DEF Once, Exchange, Missed
    <3> QED
      BY <1>1, <3>3, <3>4, MoveOnce
  <2> QED
    BY <1>2, <2>1, <2>2 DEF Fetch, Rehash, Pass
<1> QED
  BY <1>1, <1>3, Stutters DEF Unseen

\* A client that puts a file of an exchange that is not recorded, with a new writer.
LEMMA PutOnce ==
  ASSUME IInv, Once, Replayed, OwnKeys, NEW x \in Clients, NEW part \in Parts, NEW data,
         NEW l, NEW w, Put(x, part, data, w, l), replay' = replay,
         \A j \in Keys, p \in RespParts : hash'[j][p] = hash[j][p],
         \/ l = "reqHead" /\ part = "req-head" /\ c[x].at = "putReq" /\ w = Len(wr) + 1
         \/ l = "putBody" /\ part = "req-body" /\ c[x].at = "link"
         \/ l = "copy" /\ part = "resp-body" /\ c[x].at = "putBody" /\ w = Len(wr) + 1
         \/ /\ l = "head" /\ part = "resp-head" /\ c[x].at = "putHead" /\ w = Len(wr) + 1
            /\ data = Answer(x)
  PROVE  Once' /\ UNCHANGED Cache!vars
<1>1. PICK k, s, b : /\ k = Key(c[x].req) /\ s = [c[x] EXCEPT !.w = w, !.at = l]
                     /\ b = [open |-> IF l \in Writing THEN TRUE ELSE FALSE, data |-> data]
  OBVIOUS
<1>2. /\ c[x] \in State /\ wr \in Seq(Blob) /\ Len(wr) \in Nat /\ c[x].at # "idle"
      /\ c[x].at \in Missed
  BY Types DEF IInv, Missed
<1>3. k \in Keys /\ c[x].req \in RequestsOf[x]
  BY <1>1, <1>2, OwnKey
<1>4. /\ s.at = l /\ s.req = c[x].req /\ s.w = w /\ s.ans = c[x].ans /\ s.n = c[x].n
      /\ c'[x] = s /\ \A y \in Clients \ {x} : c'[y] = c[y]
  <2>1. s.at = l /\ s.req = c[x].req /\ s.w = w /\ s.ans = c[x].ans /\ s.n = c[x].n
    BY <1>1, <1>2 DEF State
  <2>2. c' = [c EXCEPT ![x] = s]
    BY <1>1 DEF Put
  <2> QED
    BY <2>1, <2>2, Types DEF IInv
<1>5. /\ wr'[Len(wr) + 1] = b /\ \A f \in 1..Len(wr) : wr'[f] = wr[f]
  <2>1. wr' = Append(wr, b)
    BY <1>1 DEF Put
  <2> QED
    BY <1>2, <2>1
<1>6. /\ file'[k][part] = Len(wr) + 1
      /\ \A j \in Keys, p \in Parts : j # k \/ p # part => file'[j][p] = file[j][p]
  BY <1>1, <1>3 DEF Put, IInv, TypeOK
<1>7. Touches(x)
  BY <1>1, <1>2, <1>4, <1>5, <1>6 DEF Touches, Put
<1>8. ~Sealed(file[k]["resp-head"])
  BY <1>1, <1>2 DEF Once, Exchange
<1>9. ~Sealed(file[k]["resp-head"])'
  <2>1. CASE part = "resp-head"
    BY <1>1, <1>5, <1>6, <2>1 DEF Sealed, Writing
  <2>2. CASE part # "resp-head"
    <3>1. file'[k]["resp-head"] = file[k]["resp-head"]
      BY <1>3, <1>6, <2>2 DEF Parts
    <3> QED
      BY <1>3, <1>5, <1>8, <3>1, StaysOpen DEF Parts
  <2> QED
    BY <2>1, <2>2
<1>10. Answer(x)' = Answer(x)
  BY <1>4 DEF Answer
<1>11. ASSUME l = "head"
       PROVE  Sealed(file[k]["resp-body"])' /\ Data(file[k]["resp-body"])' = Answer(x)
  <2>1. PICK f : f = file[k]["resp-body"]
    OBVIOUS
  <2>2. file'[k]["resp-body"] = f /\ Sealed(f) /\ Data(f) = Answer(x)
    BY <1>1, <1>3, <1>6, <1>11, <2>1 DEF Once, Exchange, Parts
  <2>3. f \in 1..Len(wr)
    BY <1>3, <2>1, <2>2, Numbers DEF IInv, Parts
  <2> QED
    BY <1>5, <2>2, <2>3 DEF Sealed, Data
<1>12. ASSUME l \in Writing, NEW j \in Keys, NEW p \in Parts, file'[j][p] = w
       PROVE  j = k /\ <<l, p>> \in WriterFor
  <2>1. w = Len(wr) + 1 /\ <<l, part>> \in WriterFor
    BY <1>12 DEF Writing, WriterFor
  <2>2. file[j][p] # Len(wr) + 1
    BY <1>2, Numbers DEF IInv, Absent, Hollow
  <2> QED
    BY <1>6, <1>12, <2>1, <2>2
<1>13. Exchange(x)'
  <2>1. l = "copy" => file'[k]["resp-body"] = w
    BY <1>6
  <2>2. l = "head" => file'[k]["resp-head"] = w /\ Data(w)' = Answer(x)
    BY <1>1, <1>5, <1>6 DEF Data
  <2>3. l \in {"reqHead", "putBody", "copy", "head"}
    OBVIOUS
  <2> QED
    BY <1>1, <1>3, <1>4, <1>9, <1>10, <1>11, <1>12, <2>1, <2>2, <2>3 DEF Exchange, Data
<1>14. \A j \in Keys : Settled(file, j)' /\ Recorded(file, j)' = Recorded(file, j)
  BY <1>1, <1>2, <1>4, <1>7, <1>8, <1>9, NothingRecorded
<1>15. Unspent' /\ hit' = hit
  BY OtherSpent DEF Put
<1>16. l # "head" => ~Sealed(file[k]["resp-body"])
  <2>1. ~replay
    BY <1>2 DEF Replayed, Reading, Missed
  <2>2. l # "head" => c[x].at \notin {"idle", "putHead", "head"}
    OBVIOUS
  <2> QED
    BY <1>1, <1>8, <2>1, <2>2, NoBody
<1>17. BodyStep(x)
  <2>1. CASE l = "head"
    BY <1>4, <2>1 DEF BodyStep
  <2>2. CASE part = "resp-body"
    <3>1. ~Sealed(file[k]["resp-body"])'
      BY <1>1, <1>5, <1>6, <2>2 DEF Sealed, Writing
    <3> QED
      BY <1>1, <3>1 DEF BodyStep
  <2>3. CASE l # "head" /\ part # "resp-body"
    <3>1. file'[k]["resp-body"] = file[k]["resp-body"]
      BY <1>3, <1>6, <2>3 DEF Parts
    <3>2. ~Sealed(file[k]["resp-body"])'
      BY <1>3, <1>5, <1>16, <2>3, <3>1, StaysOpen DEF Parts
    <3> QED
      BY <1>1, <3>2 DEF BodyStep
  <2> QED
    BY <2>1, <2>2, <2>3
<1>18. Clean'
  <2>1. part \in RespParts => hash[k][part] = Absent
    <3>1. part \in RespParts => ~Sealed(file[k][part])
      BY <1>8, <1>16 DEF RespParts
    <3> QED
      BY <1>3, <3>1, NoHash
  <2>2. \A j \in Keys, p \in RespParts : j # k \/ p # part => file'[j][p] = file[j][p]
    BY <1>6 DEF RespParts, Parts
  <2> QED
    BY <2>1, <2>2 DEF Once, Clean
<1> QED
  BY <1>7, <1>13, <1>14, <1>15, <1>17, <1>18, OnceStep, RecordedKept, Stutters

\* A write that fails leaves no writer, and the response is passed on.
LEMMA FailOnce ==
  ASSUME IInv, Once, Replayed, OwnKeys, NEW x \in Clients, NEW part \in Parts,
         RootWriteFails(x, part, "pass"), c[x].at \in {"putReq", "putBody"},
         part # "resp-head"
  PROVE  Once' /\ UNCHANGED Cache!vars
<1>1. PICK k, s : k = Key(c[x].req) /\ s = [c[x] EXCEPT !.at = "pass"]
  OBVIOUS
<1>2. c[x] \in State /\ Len(wr) \in Nat /\ c[x].at # "idle" /\ c[x].at \in Missed
  BY Types DEF IInv, Missed
<1>3. k \in Keys /\ c[x].req \in RequestsOf[x]
  BY <1>1, <1>2, OwnKey
<1>4. /\ s.at = "pass" /\ s.req = c[x].req
      /\ c'[x] = s /\ \A y \in Clients \ {x} : c'[y] = c[y]
  <2>1. s.at = "pass" /\ s.req = c[x].req
    BY <1>1, <1>2 DEF State
  <2>2. c' = [c EXCEPT ![x] = s]
    BY <1>1 DEF RootWriteFails, Goto
  <2> QED
    BY <2>1, <2>2, Types DEF IInv
<1>5. /\ wr' = wr /\ UNCHANGED <<kept, replay, hit>>
      /\ \A j \in Keys, p \in Parts :
           \/ file'[j][p] = file[j][p]
           \/ j = k /\ file[j][p] = Absent /\ file'[j][p] = Hollow
  BY <1>1, <1>3 DEF RootWriteFails, IInv, TypeOK
<1>6. Touches(x)
  <2>1. Hollow \notin 1..Len(wr)
    BY <1>2 DEF Hollow
  <2> QED
    BY <1>1, <1>2, <1>4, <1>5, <2>1 DEF Touches
<1>7. ~Sealed(file[k]["resp-head"])
  BY <1>1, <1>2 DEF Once, Exchange
<1>8. ~Sealed(file[k]["resp-head"])'
  BY <1>3, <1>5, <1>7 DEF Sealed, Hollow, Parts
<1>12. BodyStep(x)
  <2>1. ~replay
    BY <1>2 DEF Replayed, Reading, Missed
  <2>2. ~Sealed(file[k]["resp-body"])
    BY <1>1, <1>7, <2>1, NoBody
  <2>3. ~Sealed(file[k]["resp-body"])'
    BY <1>3, <1>5, <2>2 DEF Sealed, Hollow, Parts
  <2> QED
    BY <1>1, <2>3 DEF BodyStep
<1>13. Clean'
  <2>1. hash' = hash /\ RespParts \subseteq Parts
    BY DEF RootWriteFails, RespParts, Parts
  <2> QED
    BY <1>5, <2>1 DEF Once, Clean
<1>9. Exchange(x)'
  BY <1>3, <1>4 DEF Exchange, Missed, Writing
<1>10. \A j \in Keys : Settled(file, j)' /\ Recorded(file, j)' = Recorded(file, j)
  BY <1>1, <1>2, <1>4, <1>6, <1>7, <1>8, NothingRecorded
<1>11. Unspent'
  BY OtherSpent DEF RootWriteFails, Bounded
<1> QED
  BY <1>5, <1>6, <1>9, <1>10, <1>11, <1>12, <1>13, OnceStep, RecordedKept, Stutters

\* A client that writes to the writer in its hands, or closes it, but for a resp-head.
LEMMA HoldOnce ==
  ASSUME IInv, Once, Replayed, OwnKeys, NEW x \in Clients, NEW b, NEW s,
         Held(x, b, s), UNCHANGED <<hash, replay>>, Unspent', s.req = c[x].req,
         \/ c[x].at = "reqHead" /\ s.at = "link"
         \/ c[x].at = "copy" /\ s.at = "copy" /\ s.w = c[x].w /\ b.open
         \/ /\ c[x].at = "copy" /\ s.at = "putHead" /\ b.open = FALSE
            /\ b.data = [ans |-> s.ans, n |-> s.n]
  PROVE  Once' /\ UNCHANGED Cache!vars
<1>1. PICK k, v : k = Key(c[x].req) /\ v = c[x].w
  OBVIOUS
<1>2. /\ c[x].at # "idle" /\ c[x].at \in Missed /\ c[x].at \in {"reqHead", "copy"}
      /\ c[x].at \in Writing /\ wr \in Seq(Blob)
  BY Types DEF IInv, Missed, Writing
<1>3. k \in Keys /\ c[x].req \in RequestsOf[x] /\ v \in 1..Len(wr)
  BY <1>1, <1>2, OwnKey, InHand
<1>4. c'[x] = s /\ \A y \in Clients \ {x} : c'[y] = c[y]
  BY Types DEF IInv, Held
<1>5. UNCHANGED <<file, kept, hit>> /\ wr'[v] = b /\ \A f \in 1..Len(wr) \ {v} : wr'[f] = wr[f]
  BY <1>1, <1>2, <1>3 DEF Held
<1>6. Touches(x)
  BY <1>1, <1>2, <1>4, <1>5 DEF Touches
<1>7. \A j \in Keys, p \in Parts : file[j][p] = v => j = k /\ <<c[x].at, p>> \in WriterFor
  BY <1>1, <1>2 DEF Once, Exchange
<1>8. ~Sealed(file[k]["resp-head"]) /\ file[k]["resp-head"] # v
  <2>1. ~Sealed(file[k]["resp-head"])
    BY <1>1, <1>2 DEF Once, Exchange
  <2>2. <<c[x].at, "resp-head">> \notin WriterFor
    BY <1>2 DEF WriterFor
  <2> QED
    BY <1>3, <1>7, <2>1, <2>2 DEF Parts
<1>9. ~Sealed(file[k]["resp-head"])'
  BY <1>3, <1>5, <1>8, StaysOpen DEF Parts
<1>10. c[x].at = "copy" => file'[k]["resp-body"] = v
  BY <1>1, <1>5 DEF Once, Exchange
<1>11. Answer(x)' = [ans |-> s.ans, n |-> s.n]
  BY <1>4 DEF Answer
<1>12. ASSUME s.at = "putHead"
       PROVE  Sealed(file[k]["resp-body"])' /\ Data(file[k]["resp-body"])' = Answer(x)'
  <2>1. v > 0 /\ file'[k]["resp-body"] = v /\ ~wr'[v].open
    BY <1>3, <1>5, <1>10, <1>12
  <2>2. wr'[v].data = Answer(x)'
    BY <1>5, <1>11, <1>12
  <2> QED
    BY <2>1, <2>2 DEF Sealed, Data
<1>13. Exchange(x)'
  <2>1. s.at \in {"link", "copy", "putHead"}
    OBVIOUS
  <2>2. ASSUME s.at \in Writing, NEW j \in Keys, NEW p \in Parts, file'[j][p] = s.w
        PROVE  j = k /\ <<s.at, p>> \in WriterFor
    <3>1. s.at = "copy" /\ c[x].at = "copy" /\ s.w = v
      BY <1>1, <2>1, <2>2 DEF Writing
    <3> QED
      BY <1>5, <1>7, <2>2, <3>1
  <2>3. s.at = "copy" => file'[k]["resp-body"] = s.w
    BY <1>1, <1>10
  <2> QED
    BY <1>1, <1>3, <1>4, <1>9, <1>12, <2>1, <2>2, <2>3 DEF Exchange
<1>14. \A j \in Keys : Settled(file, j)' /\ Recorded(file, j)' = Recorded(file, j)
  BY <1>1, <1>2, <1>4, <1>6, <1>8, <1>9, NothingRecorded
<1>15. BodyStep(x)
  <2>1. CASE s.at = "putHead"
    BY <1>4, <2>1 DEF BodyStep
  <2>2. CASE s.at = "copy"
    <3>1. file'[k]["resp-body"] = v /\ wr'[v].open
      BY <1>5, <1>10, <2>2
    <3> QED
      BY <1>1, <3>1 DEF BodyStep, Sealed
  <2>3. CASE s.at = "link"
    <3>1. c[x].at = "reqHead" /\ ~replay
      BY <1>2, <2>3 DEF Replayed, Reading
    <3>2. ~Sealed(file[k]["resp-body"])
      BY <1>1, <1>8, <3>1, NoBody
    <3>3. file[k]["resp-body"] # v
      BY <1>3, <1>7, <3>1 DEF WriterFor, Parts
    <3>4. ~Sealed(file[k]["resp-body"])'
      BY <1>3, <1>5, <3>2, <3>3, StaysOpen DEF Parts
    <3> QED
      BY <1>1, <3>4 DEF BodyStep
  <2> QED
    BY <2>1, <2>2, <2>3
<1>16. Clean'
  BY <1>5, CleanLooks DEF Looks
<1> QED
  BY <1>5, <1>6, <1>13, <1>14, <1>15, <1>16, OnceStep, RecordedKept, Stutters

\* The writer of the resp-head is closed: with it the exchange is recorded.
LEMMA CloseOnce ==
  ASSUME IInv, Once, Replayed, OwnKeys, NEW x \in Clients, CloseRespHead(x)
  PROVE  Once' /\ Cache!Next
<1>1. PICK k, v, d : k = Key(c[x].req) /\ v = c[x].w /\ d = Answer(x)
  OBVIOUS
<1>2. /\ c[x].at = "head" /\ c[x] \in State /\ wr \in Seq(Blob) /\ c[x].at \in Writing
      /\ c[x].at \in Missed /\ UNCHANGED <<file, hash, replay, kept, left, hit>>
  BY Types DEF IInv, CloseRespHead, Writing, Missed
<1>3. k \in Keys /\ v \in 1..Len(wr) /\ d \in Content
  <2>1. d \in Content
    BY <1>1, <1>2 DEF State, Answer, Content
  <2> QED
    BY <1>1, <1>2, <2>1, OwnKey, InHand
<1>4. /\ file[k]["resp-head"] = v /\ Data(v) = d /\ ~Sealed(file[k]["resp-head"])
      /\ Sealed(file[k]["resp-body"]) /\ Data(file[k]["resp-body"]) = d
  BY <1>1, <1>2 DEF Once, Exchange
<1>5. Idle.at = "idle" /\ c'[x] = Idle /\ \A y \in Clients \ {x} : c'[y] = c[y]
  BY Types DEF IInv, CloseRespHead, Finish, Idle
<1>6. /\ wr'[v] = [open |-> FALSE, data |-> d] /\ \A f \in 1..Len(wr) \ {v} : wr'[f] = wr[f]
  BY <1>1, <1>2, <1>3, <1>4 DEF CloseRespHead, CloseWriter
<1>7. Touches(x)
  BY <1>1, <1>2, <1>5, <1>6 DEF Touches
<1>8. Sealed(file[k]["resp-head"])' /\ Data(file[k]["resp-head"])' = d
  BY <1>2, <1>3, <1>4, <1>6 DEF Sealed, Data
<1>9. Sealed(file[k]["resp-body"])' /\ Data(file[k]["resp-body"])' = d
  <2>1. PICK f : f = file[k]["resp-body"]
    OBVIOUS
  <2>2. f \in 1..Len(wr) /\ f # v
    BY <1>1, <1>2, <1>3, <1>4, <2>1, Numbers, InHand DEF IInv, Parts
  <2> QED
    BY <1>2, <1>4, <1>6, <2>1, <2>2 DEF Sealed, Data
<1>10. Recorded(file, k) = None /\ Recorded(file, k)' = <<d, d>> /\ Settled(file, k)'
  BY <1>4, <1>8, <1>9 DEF Recorded, Settled
<1>11. \A j \in Keys \ {k} : Settled(file, j)' /\ Recorded(file, j)' = Recorded(file, j)
  BY <1>1, <1>7, RecordedKept
<1>12. \A j \in Keys : Recorded(kept, j)' = Recorded(kept, j)
  BY <1>7, RecordedKept
<1>13. ~replay
  BY <1>2 DEF Replayed, Reading
<1>14. Exchange(x)'
  BY <1>5 DEF Exchange, Missed, Writing
<1>15. Once'
  <2>1. BodyStep(x) /\ Clean'
    BY <1>1, <1>2, <1>8, CleanLooks DEF BodyStep, Looks
  <2> QED
    BY <1>2, <1>7, <1>10, <1>11, <1>14, <2>1, OnceStep, OtherSpent
<1> QED
  BY <1>2, <1>3, <1>10, <1>11, <1>12, <1>13, <1>15, RecordsNew

\* The steps of a client.
LEMMA HoldersOnce ==
  ASSUME IInv, Once, Replayed, OwnKeys, NEW x \in Clients,
         CloseReqHead(x) \/ Copy(x) \/ CloseBody(x)
  PROVE  Once' /\ UNCHANGED Cache!vars
<1>1. c[x] \in State
  BY Types DEF IInv
<1>2. CASE CloseReqHead(x)
  <2>1. PICK b, s : b = [open |-> FALSE, data |-> NoData] /\ s = [c[x] EXCEPT !.at = "link"]
    OBVIOUS
  <2>2. s.at = "link" /\ s.req = c[x].req
    BY <1>1, <2>1 DEF State
  <2>3. Held(x, b, s) /\ UNCHANGED <<hash, replay>> /\ c[x].at = "reqHead"
    BY <1>2, <2>1 DEF Held, CloseReqHead, CloseWriter, Goto
  <2>4. Unspent'
    BY <1>2, OtherSpent DEF CloseReqHead
  <2> QED
    BY <2>2, <2>3, <2>4, HoldOnce
<1>3. CASE Copy(x)
  <2>1. PICK b, s : /\ b = [wr[c[x].w] EXCEPT !.data.n = @ + 1]
                    /\ s = [c[x] EXCEPT !.n = @ + 1]
    OBVIOUS
  <2>2. s.at = "copy" /\ c[x].at = "copy" /\ s.req = c[x].req /\ s.w = c[x].w
    BY <1>1, <1>3, <2>1 DEF State, Copy
  <2>3. Held(x, b, s) /\ UNCHANGED <<hash, replay>>
    BY <1>3, <2>1 DEF Held, Copy
  <2>4. Unspent'
    BY <1>3, OtherSpent DEF Copy
  <2>5. b.open
    <3>1. wr[c[x].w].open /\ wr[c[x].w] \in Blob
      BY <2>2, InHand, Types DEF IInv, Writing
    <3> QED
      BY <2>1, <3>1 DEF Blob
  <2> QED
    BY <2>2, <2>3, <2>4, <2>5, HoldOnce
<1>4. CASE CloseBody(x)
  <2>1. PICK b, s : /\ b = [open |-> FALSE, data |-> Data(c[x].w)]
                    /\ s = [c[x] EXCEPT !.at = "putHead"]
    OBVIOUS
  <2>2. /\ s.at = "putHead" /\ c[x].at = "copy" /\ s.req = c[x].req
        /\ s.ans = c[x].ans /\ s.n = c[x].n
    BY <1>1, <1>4, <2>1 DEF State, CloseBody
  <2>3. Held(x, b, s) /\ UNCHANGED <<hash, replay>>
    BY <1>4, <2>1 DEF Held, CloseBody, CloseWriter, Goto
  <2>4. b.open = FALSE /\ b.data = [ans |-> s.ans, n |-> s.n]
    BY <2>1, <2>2 DEF IInv, Writers
  <2>5. Unspent'
    BY <1>4, OtherSpent DEF CloseBody, Bounded
  <2> QED
    BY <2>2, <2>3, <2>4, <2>5, HoldOnce
<1> QED
  BY <1>2, <1>3, <1>4

LEMMA FilesOnce ==
  ASSUME IInv, Fresh, Once, Replayed, OwnKeys, NEW x \in Clients,
         PutReqHead(x) \/ LinkReqBody(x) \/ PutRespBody(x) \/ PutRespHead(x)
  PROVE  Once' /\ UNCHANGED Cache!vars
<1>1. c \in [Clients -> State] /\ c[x] \in State
  BY Types DEF IInv
<1>2. ASSUME NEW part \in Parts, NEW data, NEW l \in Writing, RootWrite(x, part, data, l)
      PROVE  Put(x, part, data, Len(wr) + 1, l) /\ UNCHANGED <<hash, replay>>
  <2>1. c' = [c EXCEPT ![x] = [c[x] EXCEPT !.w = Len(wr) + 1, !.at = l]]
    BY <1>1, <1>2 DEF RootWrite
  <2>2. l \in Writing <=> TRUE
    OBVIOUS
  <2> QED
    BY <1>2, <2>1, <2>2 DEF RootWrite, Put
<1>3. "req-head" \in Parts /\ "req-body" \in Parts /\ "resp-body" \in Parts /\ "resp-head" \in Parts
  BY DEF Parts
<1>4. "reqHead" \in Writing /\ "copy" \in Writing /\ "head" \in Writing /\ "putBody" \notin Writing
  BY DEF Writing
<1>5. CASE PutReqHead(x)
  BY <1>2, <1>3, <1>4, <1>5, PutOnce, FailOnce DEF PutReqHead
<1>6. CASE LinkReqBody(x)
  <2>1. c' = [c EXCEPT ![x] = [c[x] EXCEPT !.w = c[x].w, !.at = "putBody"]]
    <3>1. [c[x] EXCEPT !.w = c[x].w, !.at = "putBody"] = [c[x] EXCEPT !.at = "putBody"]
      BY <1>1 DEF State
    <3> QED
      BY <1>1, <1>6, <3>1 DEF LinkReqBody, Goto
  <2>2. Put(x, "req-body", NoData, c[x].w, "putBody") /\ c[x].at = "link" /\ replay' = replay
    BY <1>4, <1>6, <2>1 DEF LinkReqBody, Put
  <2>3. \A j \in Keys, p \in RespParts : hash'[j][p] = hash[j][p]
    <3>1. hash' = [hash EXCEPT ![Key(c[x].req)]["req-body"] = Absent]
      BY <1>6 DEF LinkReqBody
    <3> QED
      BY <3>1 DEF IInv, Hashes, Shape, RespParts, Parts
  <2> QED
    BY <1>3, <2>2, <2>3, PutOnce
<1>7. CASE PutRespBody(x)
  BY <1>2, <1>3, <1>4, <1>7, PutOnce, FailOnce DEF PutRespBody
<1>8. CASE PutRespHead(x)
  <2>1. CASE RootWrite(x, "resp-head", [ans |-> c[x].ans, n |-> c[x].n], "head")
    BY <1>2, <1>3, <1>4, <1>8, <2>1, PutOnce DEF PutRespHead, Answer
  <2>2. CASE RootWriteFails(x, "resp-head", "pass")
    BY <2>2 DEF RootWriteFails, Spend, Once, Unspent
  <2> QED
    BY <1>8, <2>1, <2>2 DEF PutRespHead
<1> QED
  BY <1>5, <1>6, <1>7, <1>8

\* Save is Save, and Reopen is Replay.
LEMMA SaveOnce ==
  ASSUME IInv, Once, Save
  PROVE  Once' /\ Cache!Next
<1>1. /\ kept' = hash' /\ ~replay /\ UNCHANGED <<file, wr, replay, c, hit>> /\ Unspent'
      /\ \A k \in Keys, p \in Parts :
           hash'[k][p] = IF hash[k][p] # Absent THEN hash[k][p] ELSE file[k][p]
  BY OtherSpent DEF Save, Bounded
<1>2. \A k \in Keys, p \in RespParts : hash'[k][p] = file[k][p] /\ kept'[k][p] = file[k][p]
  <2>1. RespParts \subseteq Parts
    BY DEF RespParts, Parts
  <2> QED
    BY <1>1, <2>1 DEF Once, Clean
<1>3. \A k \in Keys : /\ kept'[k]["resp-head"] = file[k]["resp-head"]
                      /\ kept'[k]["resp-body"] = file[k]["resp-body"]
  BY <1>2 DEF RespParts
<1>4. \A k \in Keys : Settled(kept, k)' /\ Settled(file, k)'
  BY <1>1, <1>3 DEF Once, Settled, Sealed, Data
<1>5. \A x \in Clients : Exchange(x)'
  BY <1>1 DEF Once, Exchange, Sealed, Data, Answer
<1>6. Clean' /\ Bodies'
  BY <1>1, <1>2 DEF Once, Clean, Bodies, Sealed
<1>7. \A k \in Keys : /\ Recorded(kept, k)' = Recorded(file, k)
                      /\ Recorded(file, k)' = Recorded(file, k)
  BY <1>1, <1>3 DEF Recorded, Sealed, Data
<1>8. /\ [k \in Keys |-> Recorded(kept, k)]' = [k \in Keys |-> Recorded(file, k)]
      /\ [k \in Keys |-> Recorded(file, k)]' = [k \in Keys |-> Recorded(file, k)]
  BY <1>7
<1>9. Cache!Save
  BY <1>1, <1>8 DEF Cache!Save
<1> QED
  BY <1>1, <1>4, <1>5, <1>6, <1>9 DEF Once, Cache!Next

\* A look at an entry is not seen.
LEMMA LookOnce ==
  ASSUME IInv, Once, NEW k \in Keys, NEW part \in Parts, HashEntry(k, part)
  PROVE  Once' /\ UNCHANGED Cache!vars
<1>1. UNCHANGED <<file, wr, replay, kept, c, hit>> /\ Unspent' /\ Hashed(k, part)
  BY OtherSpent DEF HashEntry, Bounded
<1>2. Clean'
  BY <1>1, HashedLooks, CleanLooks
<1>3. Bodies' /\ \A x \in Clients : Exchange(x)'
  BY <1>1 DEF Once, Bodies, Exchange, Sealed, Data, Answer
<1>4. \A j \in Keys : Settled(kept, j)' /\ Settled(file, j)'
  BY <1>1 DEF Once, Settled, Sealed, Data
<1>5. \A j \in Keys : /\ Recorded(file, j)' = Recorded(file, j)
                      /\ Recorded(kept, j)' = Recorded(kept, j)
  BY <1>1 DEF Recorded, Sealed, Data
<1> QED
  BY <1>1, <1>2, <1>3, <1>4, <1>5, Stutters DEF Once

LEMMA ReopenOnce ==
  ASSUME IInv, Once, Reopen
  PROVE  Once' /\ Cache!Next
<1>1. /\ file' = kept /\ hash' = kept /\ ~replay /\ replay' = TRUE
      /\ UNCHANGED <<wr, kept, c, left, hit>> /\ \A x \in Clients : c[x].at = "idle"
  BY DEF Reopen
<1>7. Unspent' /\ Clean' /\ Bodies'
  BY <1>1 DEF Once, Unspent, Clean, Bodies
<1>2. \A k \in Keys : Settled(kept, k)' /\ Settled(file, k)'
  BY <1>1 DEF Once, Settled, Sealed, Data
<1>3. \A x \in Clients : Exchange(x)'
  BY <1>1 DEF Exchange, Missed, Writing
<1>4. \A k \in Keys : /\ Recorded(file, k)' = Recorded(kept, k)
                      /\ Recorded(kept, k)' = Recorded(kept, k)
  BY <1>1 DEF Recorded, Sealed, Data
<1>5. /\ [k \in Keys |-> Recorded(file, k)]' = [k \in Keys |-> Recorded(kept, k)]
      /\ [k \in Keys |-> Recorded(kept, k)]' = [k \in Keys |-> Recorded(kept, k)]
  BY <1>4
<1>6. Cache!Replay
  BY <1>1, <1>5 DEF Cache!Replay
<1> QED
  BY <1>2, <1>3, <1>6, <1>7 DEF Once, Cache!Next

\* Every step is one of the abstract cache or a stutter of it.
LEMMA StepRecords ==
  ASSUME IInv, Fresh, Once, Replayed, OwnKeys, NoneDiffers, [Next]_vars
  PROVE  Once' /\ [Cache!Next]_(Cache!vars)
<1>1. CASE UNCHANGED vars
  <2>1. UNCHANGED <<file, hash, wr, replay, kept, c, left, hit>>
    BY <1>1 DEF vars
  <2>2. Once'
    BY <2>1 DEF Once, Unspent, Clean, Bodies, Exchange, Settled, Sealed, Data, Answer
  <2>3. \A k \in Keys : /\ Recorded(file, k)' = Recorded(file, k)
                        /\ Recorded(kept, k)' = Recorded(kept, k)
    BY <2>1 DEF Recorded, Sealed, Data
  <2> QED
    BY <2>1, <2>2, <2>3, Stutters
<1>2. ASSUME NEW x \in Clients, Serve(x) \/ \E q \in RequestsOf[x] : Begin(x, q)
      PROVE  Once' /\ [Cache!Next]_(Cache!vars)
  BY <1>2, LookUpOnce, PassOnce, FilesOnce, HoldersOnce, CloseOnce DEF Serve
<1> QED
  BY <1>1, <1>2, SaveOnce, LookOnce, ReopenOnce DEF Next

\* The cache promises what ResponseCache does, when no two clients ask for the same, each
\* request can be hashed and a writer for each resp-head be made, whatever fails or is cut
\* short otherwise and whatever is hashed in between: it records a request once, a head
\* with the body whose hash it has (CloseRespHead), answers those with the same key from
\* it from then on (ReadBody), Save finds that recording although it prefers the hashes
\* in the entries, and a saved recording is replayed as it was saved (Reopen).
THEOREM RecordsEachOnce ==
  ASSUME OwnKeys, NoneDiffers
  PROVE  Spec => RecordsOnce
<1>1. Init => Once /\ Replayed
  <2> SUFFICES ASSUME Init PROVE Once /\ Replayed
    OBVIOUS
  <2>1. /\ \A k \in Keys, part \in Parts : file[k][part] = 0 /\ kept[k][part] = 0
        /\ \A x \in Clients : c[x].at = "idle"
        /\ ~replay /\ Unspent /\ hash = NoFiles
    BY DEF Init, NoFiles, Absent, Idle, OwnKeys, Unspent
  <2>2. \A k \in Keys : Settled(file, k) /\ Settled(kept, k)
    BY <2>1 DEF Settled, Sealed, Parts
  <2>3. \A x \in Clients : Exchange(x)
    BY <2>1 DEF Exchange, Missed, Writing
  <2>4. Clean /\ Bodies
    BY <2>1 DEF Clean, Bodies, NoFiles, RespParts, Parts, Sealed
  <2> QED
    BY <2>1, <2>2, <2>3, <2>4 DEF Once, Replayed
<1>2. Init => Cache!Init
  <2> SUFFICES ASSUME Init PROVE Cache!Init
    OBVIOUS
  <2>1. \A k \in Keys : Recorded(file, k) = None /\ Recorded(kept, k) = None
    BY DEF Init, NoFiles, Absent, Recorded, Sealed, Parts
  <2>2. /\ [k \in Keys |-> Recorded(file, k)] = [k \in Keys |-> None]
        /\ [k \in Keys |-> Recorded(kept, k)] = [k \in Keys |-> None]
    BY <2>1
  <2>3. replay = FALSE /\ hit.req = None /\ hit.resp = None
    BY DEF Init
  <2> QED
    BY <2>2, <2>3 DEF Cache!Init, Cache!Empty
<1>3. IInv /\ Fresh /\ Once /\ Replayed /\ [Next]_vars =>
        Once' /\ Replayed' /\ [Cache!Next]_(Cache!vars)
  BY StepRecords, ReplayedKeeps
<1> QED
  BY <1>1, <1>2, <1>3, Invariant, PTL DEF Spec, RecordsOnce, Cache!Spec
=============================================================================
