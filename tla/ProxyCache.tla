----------------------------- MODULE ProxyCache -----------------------------
(***************************************************************************)
(* proxy.serveWithCache and the cache behind it (internal/proxy): a request *)
(* is looked up in a Root by its hash; on a miss it is sent upstream and   *)
(* the response is recorded as four files while it is passed to the client. *)
(* Requests run concurrently and share nothing but the Root.               *)
(*                                                                         *)
(* The Root is taken here as the map of files that RootTree is the detail  *)
(* of: Write hands out a writer and makes the file point to it, Read fails *)
(* while that writer is open, and the hash of a file that was looked at    *)
(* stays in its entry, where Save prefers it.  Save is one step; how it    *)
(* interleaves with writes is RootTree's subject.  A body is a number of   *)
(* chunks; [ans, n] stands for the content made of the first n chunks of   *)
(* answer ans, and in a resp-head it is the header of ans with the BodyHash*)
(* of that content.  An answer is [to, with]: the request that went upstream*)
(* and a choice.                                                           *)
(***************************************************************************)
EXTENDS RequestFilter, Integers, Sequences

CONSTANTS
  Clients,    \* goroutines of the proxy, one request each at a time
  RequestsOf, \* client -> the requests that it makes
  Answers,    \* what upstream may answer to any request
  Chunks,     \* chunks in a body
  Quota       \* bounds: requests, failures, transfers cut short

\* "fault" is a BlobCreate that fails in root.Write, "headFault" one for a resp-head,
\* "hashFault" a request body that cannot be stored to compute the hash of the request;
\* "look" is an entry that is hashed by what is neither a request nor a complete Save.
Bounded == {"request", "fault", "headFault", "hashFault", "abort", "look", "save"}

Parts == {"req-head", "req-body", "resp-head", "resp-body"}
Requests == UNION {RequestsOf[x] : x \in Clients}
Keys == {Key(q) : q \in Requests}

ASSUME CacheAssumption ==
  /\ Chunks \in Nat /\ Quota \in [Bounded -> Nat]
  /\ None \notin Requests \union Keys

VARIABLES
  file,       \* key -> part -> its writer, Absent, or Hollow
  hash,       \* key -> part -> the writer whose hash is in the entry, or Absent
  wr,         \* blob writers: [open, data]
  replay,     \* the Root is readonly: it was opened by its hash
  kept,       \* the files of the saved Root
  c,          \* per client: [at, req, ans, n, w, hd]
  left,       \* remaining quota
  hit         \* observation: the last response taken from the cache

vars == <<file, hash, wr, replay, kept, c, left, hit>>

Absent == 0    \* no entry of that name
Hollow == -1   \* File{}: BlobCreate failed after the entry was made

Open(f)   == f > 0 /\ wr[f].open
Sealed(f) == f > 0 /\ ~wr[f].open
Data(f)   == wr[f].data

NoFiles == [k \in Keys |-> [part \in Parts |-> Absent]]
NoData  == [ans |-> None, n |-> 0]

\* The locals of serveWithCache: the answer and how much of it was copied, the
\* writer in use, and the resp-head found in the cache.
Idle == [at |-> "idle", req |-> None, ans |-> None, n |-> 0, w |-> 0, hd |-> NoData]

Goto(x, l) == c' = [c EXCEPT ![x].at = l]
Finish(x)  == c' = [c EXCEPT ![x] = Idle]
Spend(k)   == left[k] > 0 /\ left' = [left EXCEPT ![k] = @ - 1]

\* Definitions marked "Mutant" are changed forms of the one that follows, which a
\* bug in the code could have; nothing uses them.

\* Mutant: the caller goes on with the writer it had.
RootWriteKept(x, part, data, l) ==
  /\ wr' = Append(wr, [open |-> TRUE, data |-> data])
  /\ file' = [file EXCEPT ![Key(c[x].req)][part] = Len(wr) + 1]
  /\ Goto(x, l)
  /\ UNCHANGED <<hash, replay, kept, left, hit>>

\* root.Write: a new writer, that the file of this name points to from now on; the
\* hash in the entry stays.  When BlobCreate fails a file that was there is left alone.
RootWrite(x, part, data, l) ==
  /\ wr' = Append(wr, [open |-> TRUE, data |-> data])
  /\ file' = [file EXCEPT ![Key(c[x].req)][part] = Len(wr) + 1]
  /\ c' = [c EXCEPT ![x].w = Len(wr) + 1, ![x].at = l]
  /\ UNCHANGED <<hash, replay, kept, left, hit>>

RootWriteFails(x, part, l) ==
  /\ Spend(IF part = "resp-head" THEN "headFault" ELSE "fault")
  /\ file' = [file EXCEPT ![Key(c[x].req)][part] = IF @ = Absent THEN Hollow ELSE @]
  /\ Goto(x, l)
  /\ UNCHANGED <<hash, wr, replay, kept, hit>>

\* hashFile on a closed writer: its hash goes into the entry.
Hashed(k, part) == hash' = [hash EXCEPT ![k][part] = file[k][part]]

CloseWriter(x, data) == wr' = [wr EXCEPT ![c[x].w] = [open |-> FALSE, data |-> data]]

-----------------------------------------------------------------------------
(* storageGetResp *)

Begin(x, q) ==
  /\ c[x].at = "idle" /\ Spend("request")
  /\ c' = [c EXCEPT ![x].at = "readHead", ![x].req = q]
  /\ UNCHANGED <<file, hash, wr, replay, kept, hit>>

\* storageGenReqHash stores the request body to hash it.  When that fails nothing
\* can be looked up, and the request is taken for a miss.
GenReqHashFails(x) ==
  /\ c[x].at = "readHead" /\ Spend("hashFault")
  /\ Goto(x, "missRaw")
  /\ UNCHANGED <<file, hash, wr, replay, kept, hit>>

ReadHead(x) ==
  /\ c[x].at = "readHead"
  /\ LET f == file[Key(c[x].req)]["resp-head"]
     IN IF Sealed(f)
          THEN /\ c' = [c EXCEPT ![x].at = "readBody", ![x].hd = Data(f)]
               /\ Hashed(Key(c[x].req), "resp-head")
          ELSE Goto(x, "miss") /\ UNCHANGED hash
  /\ UNCHANGED <<file, wr, replay, kept, left, hit>>

\* On a hit the response is built from the two blobs, which no longer change.
ReadBody(x) ==
  /\ c[x].at = "readBody"
  /\ LET f == file[Key(c[x].req)]["resp-body"]
     IN IF Sealed(f)
          THEN /\ hit' = [req |-> c[x].req, resp |-> <<c[x].hd, Data(f)>>]
               /\ Finish(x)
               /\ Hashed(Key(c[x].req), "resp-body")
          ELSE Goto(x, "miss") /\ UNCHANGED <<hash, hit>>
  /\ UNCHANGED <<file, wr, replay, kept, left>>

-----------------------------------------------------------------------------
(* A miss: 502 from a readonly Root, otherwise client.Do                     *)

Recording(at) == IF at = "miss" THEN "putReq" ELSE "rehash"

Answered(x, a) ==
  c' = [c EXCEPT ![x].at = Recording(@), ![x].ans = [to |-> Sent(c[x].req), with |-> a]]

\* Mutant: the Root is not asked whether it is readonly.
FetchAlways(x) ==
  /\ c[x].at \in {"miss", "missRaw"}
  /\ \/ Finish(x)
     \/ \E a \in Answers : Answered(x, a)
  /\ UNCHANGED <<file, hash, wr, replay, kept, left, hit>>

Fetch(x) ==
  /\ c[x].at \in {"miss", "missRaw"}
  /\ \/ Finish(x)         \* readonly, or the upstream request failed
     \/ /\ ~replay
        /\ \E a \in Answers : Answered(x, a)
  /\ UNCHANGED <<file, hash, wr, replay, kept, left, hit>>

\* storagePutResp hashes the request again if it has to; a body that went upstream
\* in the meantime cannot be read any more.
Rehash(x) ==
  /\ c[x].at = "rehash"
  /\ Goto(x, "putReq") \/ Goto(x, "pass")
  /\ UNCHANGED <<file, hash, wr, replay, kept, left, hit>>

\* The files of the exchange.  When one fails the response is passed on uncached.
PutReqHead(x) ==
  /\ c[x].at = "putReq"
  /\ \/ RootWrite(x, "req-head", NoData, "reqHead")
     \/ RootWriteFails(x, "req-head", "pass")

CloseReqHead(x) ==
  /\ c[x].at = "reqHead"
  /\ CloseWriter(x, NoData) /\ Goto(x, "link")
  /\ UNCHANGED <<file, hash, replay, kept, left, hit>>

\* Mutant: the resp-head is written first.
LinkReqBodyThenHead(x) ==
  /\ c[x].at = "link"
  /\ wr' = Append(wr, [open |-> FALSE, data |-> NoData])
  /\ file' = [file EXCEPT ![Key(c[x].req)]["req-body"] = Len(wr) + 1]
  /\ hash' = [hash EXCEPT ![Key(c[x].req)]["req-body"] = Absent]
  /\ Goto(x, "putHead")
  /\ UNCHANGED <<replay, kept, left, hit>>

\* root.Link: the request body is a blob already, and gets a new entry.
LinkReqBody(x) ==
  /\ c[x].at = "link"
  /\ wr' = Append(wr, [open |-> FALSE, data |-> NoData])
  /\ file' = [file EXCEPT ![Key(c[x].req)]["req-body"] = Len(wr) + 1]
  /\ hash' = [hash EXCEPT ![Key(c[x].req)]["req-body"] = Absent]
  /\ Goto(x, "putBody")
  /\ UNCHANGED <<replay, kept, left, hit>>

PutRespBody(x) ==
  /\ c[x].at = "putBody"
  /\ \/ RootWrite(x, "resp-body", [ans |-> c[x].ans, n |-> 0], "copy")
     \/ RootWriteFails(x, "resp-body", "pass")

\* io.Copy through the tee reader, chunk by chunk, until the end of the body or
\* until either side gives up.
Copy(x) ==
  /\ c[x].at = "copy" /\ c[x].n < Chunks
  /\ wr' = [wr EXCEPT ![c[x].w].data.n = @ + 1]
  /\ c' = [c EXCEPT ![x].n = @ + 1]
  /\ UNCHANGED <<file, hash, replay, kept, left, hit>>

\* Mutant: the writer is only closed at the end of the body.
CloseBodyAtEnd(x) ==
  /\ c[x].at = "copy"
  /\ IF c[x].n = Chunks THEN CloseWriter(x, Data(c[x].w)) /\ UNCHANGED left
                        ELSE Spend("abort") /\ UNCHANGED wr
  /\ Goto(x, "putHead")
  /\ UNCHANGED <<file, hash, replay, kept, hit>>

\* resp.Body.Close, deferred: the tee reader closes the body's writer whether or
\* not the copy reached the end, and calls back.
CloseBody(x) ==
  /\ c[x].at = "copy"
  /\ IF c[x].n = Chunks THEN UNCHANGED left ELSE Spend("abort")
  /\ CloseWriter(x, Data(c[x].w)) /\ Goto(x, "putHead")
  /\ UNCHANGED <<file, hash, replay, kept, hit>>

\* The callback writes the resp-head, with the hash of the body just closed.
PutRespHead(x) ==
  /\ c[x].at = "putHead"
  /\ \/ RootWrite(x, "resp-head", [ans |-> c[x].ans, n |-> c[x].n], "head")
     \/ RootWriteFails(x, "resp-head", "pass")

CloseRespHead(x) ==
  /\ c[x].at = "head"
  /\ CloseWriter(x, Data(c[x].w))
  /\ Finish(x)
  /\ UNCHANGED <<file, hash, replay, kept, left, hit>>

\* The response went to the client without being cached, or cached without head.
Pass(x) ==
  /\ c[x].at = "pass"
  /\ Finish(x)
  /\ UNCHANGED <<file, hash, wr, replay, kept, left, hit>>

-----------------------------------------------------------------------------
(* The recording is saved, and opened again by its hash                      *)

\* Mutant: open writers are saved.
SaveableOpen == \A k \in Keys : \A part \in Parts : file[k][part] # Hollow

\* hashDir takes the hash that is in an entry; otherwise hashFile fails on an open
\* writer and on a File without a hash.
Saveable == \A k \in Keys : \A part \in Parts :
              file[k][part] = Absent \/ hash[k][part] # Absent \/ Sealed(file[k][part])

Save ==
  /\ ~replay /\ Saveable /\ Spend("save")
  /\ hash' = [k \in Keys |-> [part \in Parts |->
               IF hash[k][part] # Absent THEN hash[k][part] ELSE file[k][part]]]
  /\ kept' = hash'
  /\ UNCHANGED <<file, wr, replay, c, hit>>

\* EntryHash, DiffRoots, a Read by the API, or a Save that fails at another entry.
HashEntry(k, part) ==
  /\ ~replay /\ Sealed(file[k][part]) /\ Spend("look")
  /\ Hashed(k, part)
  /\ UNCHANGED <<file, wr, replay, kept, c, hit>>

\* Requests now come with the hash as their token, none with the uuid.
Reopen ==
  /\ ~replay /\ kept # NoFiles
  /\ \A x \in Clients : c[x].at = "idle"
  /\ file' = kept /\ hash' = kept /\ replay' = TRUE
  /\ UNCHANGED <<wr, kept, c, left, hit>>

-----------------------------------------------------------------------------
Init ==
  /\ file = NoFiles /\ hash = NoFiles /\ wr = <<>> /\ replay = FALSE /\ kept = NoFiles
  /\ c = [x \in Clients |-> Idle] /\ left = Quota
  /\ hit = [req |-> None, resp |-> None]

Serve(x) ==
  \/ GenReqHashFails(x) \/ ReadHead(x) \/ ReadBody(x) \/ Fetch(x) \/ Rehash(x)
  \/ PutReqHead(x) \/ CloseReqHead(x)
  \/ LinkReqBody(x) \/ PutRespBody(x) \/ Copy(x) \/ CloseBody(x)
  \/ PutRespHead(x) \/ CloseRespHead(x) \/ Pass(x)

Next ==
  \/ \E x \in Clients : (\E q \in RequestsOf[x] : Begin(x, q)) \/ Serve(x)
  \/ Save \/ Reopen
  \/ \E k \in Keys, part \in Parts : HashEntry(k, part)

Spec == Init /\ [][Next]_vars

-----------------------------------------------------------------------------
(* Properties *)

Labels == {"idle", "readHead", "readBody", "miss", "missRaw", "rehash", "putReq",
           "reqHead", "link", "putBody", "copy", "putHead", "head", "pass"}
AllAnswers == [to : {Sent(q) : q \in Requests}, with : Answers] \union {None}
Content == [ans : AllAnswers, n : 0..Chunks]

\* Type invariant; a client that copies or writes a head holds an open writer.
TypeOK ==
  /\ file \in [Keys -> [Parts -> Hollow..Len(wr)]]
  /\ hash \in [Keys -> [Parts -> Absent..Len(wr)]]
  /\ kept \in [Keys -> [Parts -> Absent..Len(wr)]]
  /\ wr \in Seq([open : BOOLEAN, data : Content])
  /\ c \in [Clients -> [at : Labels, req : Requests \union {None}, ans : AllAnswers,
                        n : 0..Chunks, w : 0..Len(wr), hd : Content]]
  /\ left \in [Bounded -> Nat]
  /\ \A x \in Clients : c[x].at \in {"reqHead", "copy", "head"} => Open(c[x].w)

\* A resp-head in the cache means that the whole exchange is there: the order in
\* which storagePutResp and its callback write the files.  It holds of the live
\* recording and of what Save kept, whatever runs concurrently or is cut short.
HeadLast ==
  \A k \in Keys : \A files \in {file, kept} :
    files[k]["resp-head"] > 0 => \A part \in Parts : files[k][part] > 0

\* Unless a BlobCreate failed, once every client is done no file is left with an open
\* writer or without content, so the token can be saved even if no entry has its hash
\* yet: also after aborts, and when one request overtook another's files.
QuietSaveable ==
  /\ \A k \in {"fault", "headFault"} : left[k] = Quota[k]
  /\ \A x \in Clients : c[x].at = "idle"
  => \A k \in Keys : \A part \in Parts : file[k][part] = Absent \/ Sealed(file[k][part])

\* A hit is an answer to this request: what was sent upstream for it agrees with the
\* request in everything that no filter for it names, however filters, hop-by-hop
\* headers and the hash of the request (filterReq, storageGenReqHash) select.
HitFits ==
  hit.req # None => \A i \in {1, 2} : Fits(hit.resp[i].ans.to, hit.req)

\* The resp-head is saved only "after the body has been cached".
HeadAfterBody ==
  \A k \in Keys : Sealed(file[k]["resp-head"]) => Data(file[k]["resp-head"]).n = Chunks

\* A replay of a saved recording serves it: no request changes the recording, and
\* none that was hashed and has its resp-head there misses.  So what Save accepts
\* must hold, for each head, a body that can be read.
ReplayServes ==
  [][replay =>
       /\ file' = file
       /\ \A x \in Clients :
            c[x].at # "miss" /\ c'[x].at = "miss" => file[Key(c[x].req)]["resp-head"] = Absent]_vars

\* Refinement: what is recorded for a key is its sealed head and body.
Recorded(files, k) ==
  IF Sealed(files[k]["resp-head"]) /\ Sealed(files[k]["resp-body"])
    THEN <<Data(files[k]["resp-head"]), Data(files[k]["resp-body"])>>
    ELSE None

Cache == INSTANCE ResponseCache WITH
  Responses <- {<<d, d>> : d \in Content},
  rec  <- [k \in Keys |-> Recorded(file, k)],
  kept <- [k \in Keys |-> Recorded(kept, k)],
  hit  <- [key |-> IF hit.req = None THEN None ELSE Key(hit.req), resp |-> hit.resp]

\* As long as no two clients make the same request at the same time, each can be hashed
\* and no resp-head fails to be created (its body would be written a second time, while
\* Save may still prefer the hash of the first), the proxy is a cache that records each
\* request once, a head with the body whose hash it has, and answers the request and
\* those with the same key from it from then on, also in a replay of what was saved.
RecordsOnce == Cache!Spec
=============================================================================
